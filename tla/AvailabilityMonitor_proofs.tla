---------------------- MODULE AvailabilityMonitor_proofs ---------------------
(***************************************************************************)
(* What a check of the availability monitor does to the hosts, proved for  *)
(* any groups, hosts and addresses, any number of checks at once and any   *)
(* number of batches and restarts.                                         *)
(***************************************************************************)
EXTENDS AvailabilityMonitor, TLAPS

USE DEF outside, skipHistory

-----------------------------------------------------------------------------
(* What a check holds.                                                     *)

AfterPing == {"alert", "approved", "search", "settle", "apply", "update", "edit"}

\* What the record of a check says by itself: a replacement is in hand only once
\* the search is over, it is no address of the hosts and was not cooling when the
\* check looked; "each" works on one host at a time, which was found bad.
Sane(c, r) ==
    /\ r.at \in {"ping"} \cup AfterPing => r.snap \in [Hosts -> Ips]
    /\ r.at \notin {"settle", "apply", "update", "edit"} => r.pick = NoIp
    /\ r.at \in {"alert", "settle", "apply", "edit"} => c[1] \in Same
    /\ r.at = "update" => c[1] \notin Same
    /\ r.at \in {"apply", "update"} => r.pick # NoIp
    /\ r.pick # NoIp => r.pick \notin Excluded(r)
    /\ c[1] \notin Same /\ r.at \in {"approved", "search", "update"} =>
          r.host \cap r.todo = {} /\ \A h \in r.host : r.snap[h] \in r.bad

Typed ==
    /\ plan \in Plans /\ TypeOK
    /\ \A c \in Checks : Sane(c, check[c])

\* r2 is what becomes of r: the end, or more work on the same readings.
Follows(r2, r) ==
    r2.at # "off" => r2.snap = r.snap /\ r2.bad = r.bad /\ r2.avoid = r.avoid

LEMMA BatchRange == 0 \in 0..Batches /\ Batches - 1 \in 0..Batches
BY MonitorAssumption

\* Settings of the fields leave the record one of a check.
LEMMA SetPick ==
    ASSUME NEW r \in CheckType, NEW at \in CheckPCs, NEW n \in 0..Batches, NEW ip \in Ips \cup {NoIp}
    PROVE  [r EXCEPT !.at = at, !.batches = n, !.pick = ip] \in CheckType
BY DEF CheckType

LEMMA SetBatches ==
    ASSUME NEW r \in CheckType, NEW at \in CheckPCs, NEW n \in 0..Batches
    PROVE  [r EXCEPT !.at = at, !.batches = n] \in CheckType
BY DEF CheckType

LEMMA SetHost ==
    ASSUME NEW r \in CheckType, NEW todo \in SUBSET Hosts, NEW host \in SUBSET Hosts,
           NEW ip \in Ips \cup {NoIp}, NEW at \in CheckPCs, NEW n \in 0..Batches
    PROVE  [r EXCEPT !.todo = todo, !.host = host, !.pick = ip, !.at = at, !.batches = n] \in CheckType
BY DEF CheckType

LEMMA OffTyped == Off \in CheckType
BY MonitorAssumption DEF Off, CheckType, CheckPCs

LEMMA OffSane == \A c : Sane(c, Off)
BY DEF Sane, Off, AfterPing

\* Every field of the record of a check.
LEMMA CheckFields ==
    ASSUME NEW r \in CheckType
    PROVE  /\ r.at \in CheckPCs /\ r.snap \in [Hosts -> Ips \cup {NoIp}] /\ r.bad \subseteq Ips
           /\ r.todo \subseteq Hosts /\ r.host \subseteq Hosts /\ r.avoid \subseteq Ips
           /\ r.batches \in 0..Batches /\ r.pick \in Ips \cup {NoIp}
BY DEF CheckType

\* "each" goes on to a bad host, or ends.
LEMMA NextHostGoes ==
    ASSUME NEW c \in Checks, NEW r \in CheckType, c[1] \notin Same, NextHost(c, r),
           r.snap \in [Hosts -> Ips]
    PROVE  /\ cancel' \in {cancel, cancel \ {c[1]}}
           /\ \E r2 \in CheckType :
                 /\ Becomes(c, r2) /\ Sane(c, r2) /\ Follows(r2, r)
                 /\ r2.at \in {"off", "approved", "search"}
                 /\ r2.at # "off" => r2.todo \cup r2.host \subseteq r.todo
<1> DEFINE ill == {h \in r.todo : r.snap[h] \in r.bad}
           managed == c[1] \in Managed
           N(passed, h) == [r EXCEPT !.todo = @ \ (passed \cup {h}), !.host = {h}, !.pick = NoIp,
                                     !.at = IF managed THEN "approved" ELSE "search",
                                     !.batches = IF managed THEN 0 ELSE Batches - 1]
<1>1. CASE ill = {} \/ c[1] \in cancel
  <2>1. Becomes(c, Off) /\ Skips(c, r.todo # {})
    BY <1>1 DEF NextHost
  <2>2. Off.at = "off"
    BY DEF Off
  <2>. QED  BY <2>1, <2>2, OffTyped, OffSane DEF Skips, Follows
<1>2. CASE ~(ill = {} \/ c[1] \in cancel)
  <2>1. UNCHANGED cancel /\ \E h \in ill, passed \in SUBSET (r.todo \ ill) : Becomes(c, N(passed, h))
    BY <1>2 DEF NextHost
  <2>2. PICK h \in ill, passed \in SUBSET (r.todo \ ill) : Becomes(c, N(passed, h))
    BY <2>1
  <2>3. N(passed, h) \in CheckType
    <3>1. r.todo \ (passed \cup {h}) \in SUBSET Hosts /\ {h} \in SUBSET Hosts
      BY CheckFields
    <3>2. (IF managed THEN "approved" ELSE "search") \in CheckPCs
      BY DEF CheckPCs
    <3>3. (IF managed THEN 0 ELSE Batches - 1) \in 0..Batches
      BY BatchRange
    <3>. QED  BY <3>1, <3>2, <3>3, SetHost
  <2>4. /\ N(passed, h).todo = r.todo \ (passed \cup {h}) /\ N(passed, h).host = {h}
        /\ N(passed, h).pick = NoIp /\ N(passed, h).at \in {"approved", "search"}
        /\ N(passed, h).snap = r.snap /\ N(passed, h).bad = r.bad /\ N(passed, h).avoid = r.avoid
    BY DEF CheckType
  <2>. HIDE DEF N
  <2>. QED  BY <2>1, <2>2, <2>3, <2>4 DEF Sane, Follows
<1>. QED  BY <1>1, <1>2

\* What the end of a search makes of the record.
LEMMA SearchOverGoes ==
    ASSUME NEW c \in Checks, NEW r \in CheckType, NEW ip \in Ips \cup {NoIp}, SearchOver(c, r, ip),
           ip # NoIp => ip \notin Excluded(r), r.snap \in [Hosts -> Ips],
           c[1] \notin Same => r.host \cap r.todo = {} /\ \A h \in r.host : r.snap[h] \in r.bad
    PROVE  /\ cancel' \in {cancel, cancel \ {c[1]}}
           /\ \E r2 \in CheckType :
                 /\ Becomes(c, r2) /\ Sane(c, r2) /\ Follows(r2, r)
                 /\ IF c[1] \in Same THEN r2.at = "settle" /\ (c[1] \in cancel => r2.pick = NoIp)
                    ELSE r2.at \in {"off", "approved", "search", "update"}
                 /\ r2.at \notin {"off", "settle"} => r2.todo \cup r2.host \subseteq r.todo \cup r.host
<1>1. CASE c[1] \in Same
  <2> DEFINE p == IF c[1] \in cancel THEN NoIp ELSE ip
             N == [r EXCEPT !.at = "settle", !.batches = 0, !.pick = p]
  <2>1. Becomes(c, N) /\ Skips(c, TRUE)
    BY <1>1 DEF SearchOver
  <2>2. N \in CheckType
    BY BatchRange, SetPick DEF CheckPCs
  <2>3. N.at = "settle" /\ N.pick = p /\ N.snap = r.snap /\ N.bad = r.bad /\ N.avoid = r.avoid
    BY DEF CheckType
  <2>4. p # NoIp => p \notin Excluded(N)
    BY <2>3 DEF Excluded, Addresses
  <2>5. c[1] \in cancel => p = NoIp
    OBVIOUS
  <2>. HIDE DEF N, p
  <2>. QED  BY <1>1, <2>1, <2>2, <2>3, <2>4, <2>5 DEF Sane, Follows, Skips
<1>2. CASE c[1] \notin Same /\ ip = NoIp
  <2>1. NextHost(c, r)
    BY <1>2 DEF SearchOver
  <2>. QED  BY <1>2, <2>1, NextHostGoes
<1>3. CASE c[1] \notin Same /\ ip # NoIp
  <2> DEFINE N == [r EXCEPT !.at = "update", !.batches = 0, !.pick = ip]
  <2>1. Becomes(c, N) /\ UNCHANGED cancel
    BY <1>3 DEF SearchOver
  <2>2. N \in CheckType
    BY BatchRange, SetPick DEF CheckPCs
  <2>3. /\ N.at = "update" /\ N.pick = ip /\ N.snap = r.snap /\ N.bad = r.bad /\ N.avoid = r.avoid
        /\ N.todo = r.todo /\ N.host = r.host
    BY DEF CheckType
  <2>4. ip \notin Excluded(N)
    BY <1>3, <2>3 DEF Excluded, Addresses
  <2>. HIDE DEF N
  <2>. QED  BY <1>3, <2>1, <2>2, <2>3, <2>4 DEF Sane, Follows
<1>. QED  BY <1>1, <1>2, <1>3

\* A batch is next, or the search is over without a replacement.
LEMMA TryBatchGoes ==
    ASSUME NEW c \in Checks, NEW r \in CheckType, NEW n \in 0..Batches, TryBatch(c, r, n),
           r.pick = NoIp, r.snap \in [Hosts -> Ips],
           c[1] \notin Same => r.host \cap r.todo = {} /\ \A h \in r.host : r.snap[h] \in r.bad
    PROVE  /\ cancel' \in {cancel, cancel \ {c[1]}}
           /\ \E r2 \in CheckType :
                 /\ Becomes(c, r2) /\ Sane(c, r2) /\ Follows(r2, r)
                 /\ IF c[1] \in Same
                    THEN \/ r2.at = "search" /\ UNCHANGED cancel
                         \/ r2.at = "settle" /\ (c[1] \in cancel => r2.pick = NoIp)
                    ELSE r2.at \in {"off", "approved", "search", "update"}
                 /\ r2.at \notin {"off", "settle"} => r2.todo \cup r2.host \subseteq r.todo \cup r.host
<1>1. CASE n = 0 \/ c[1] \in cancel
  BY <1>1, SearchOverGoes DEF TryBatch
<1>2. CASE ~(n = 0 \/ c[1] \in cancel)
  <2> DEFINE N == [r EXCEPT !.at = "search", !.batches = n - 1]
  <2>1. Becomes(c, N) /\ UNCHANGED cancel
    BY <1>2 DEF TryBatch
  <2>2. N \in CheckType
    <3>1. n - 1 \in 0..Batches
      BY <1>2, MonitorAssumption
    <3>. QED  BY <3>1, SetBatches DEF CheckPCs
  <2>3. /\ N.at = "search" /\ N.pick = NoIp /\ N.snap = r.snap /\ N.bad = r.bad /\ N.avoid = r.avoid
        /\ N.todo = r.todo /\ N.host = r.host
    BY DEF CheckType
  <2>. HIDE DEF N
  <2>. QED  BY <2>1, <2>2, <2>3 DEF Sane, Follows
<1>. QED  BY <1>1, <1>2

-----------------------------------------------------------------------------
(* What one step of a check does.                                          *)

\* To the table of checks in flight and to the record of skip requests.
ListPart(c, r) ==
    IF check[c].at = "new"
    THEN r.at = "load" /\ processing' = processing \cup {c[1]} /\ UNCHANGED skipHistory
    ELSE /\ r.at # "new"
         /\ processing' = (IF r.at = "off" THEN processing \ {c[1]} ELSE processing)
         /\ aimed' = (IF r.at = "off" THEN aimed \ {c} ELSE aimed)
         /\ hushed' = (IF r.at = "off" THEN hushed \ {c} ELSE hushed)

\* To the skip requests: "same" takes one only when its search ends.
SkipPart(c, r) ==
    /\ cancel' \in {cancel, cancel \ {c[1]}}
    /\ c[1] \in Same =>
          \/ r.at = "off"
          \/ check[c].at \in Searching /\ r.at \in Searching /\ UNCHANGED cancel
          \/ check[c].at \in Searching /\ r.at = "settle" /\ (c[1] \in cancel => r.pick = NoIp)
          \/ check[c].at \notin Searching /\ r.at \notin Searching /\ r.pick = check[c].pick

\* To the addresses that cool: only the ping adds some, and the check looks then.
CoolPart(c, r) ==
    /\ cooling' \in [Groups -> SUBSET Ips]
    /\ \A g \in Groups : g = c[1] \/ cooling'[g] = cooling[g]
    /\ check[c].at # "ping" => cooling' = cooling
    /\ r.at \in AfterPing =>
          \/ r.avoid = cooling'[c[1]]
          \/ check[c].at \in AfterPing /\ r.avoid = check[c].avoid

\* To the hosts: only "apply" and "update" write, one host per step.
Writes(c, r, h) ==
    \/ Patched(h, check[c].pick)
       /\ (check[c].at = "update" /\ r.at # "off" => r.snap = [check[c].snap EXCEPT ![h] = check[c].pick])
    \/ PatchFails(h, check[c].pick)
       /\ (check[c].at = "update" /\ r.at # "off" => r.snap = check[c].snap)

Applies(c, r) ==
    /\ check[c].at = "apply"
    /\ \E h \in check[c].todo :
          /\ Writes(c, r, h)
          /\ r.at # "off" => /\ r.todo = check[c].todo \ {h} /\ r.pick = check[c].pick
                            /\ r.at = IF r.todo = {} THEN "edit" ELSE "apply"

Updates(c, r) ==
    /\ check[c].at = "update" /\ r.at \in {"off", "approved", "search"}
    /\ \E h \in check[c].host : Writes(c, r, h)
    /\ r.at # "off" => r.todo \cup r.host \subseteq check[c].todo

Reads(c, r) ==
    /\ UNCHANGED <<addr, spoiled>>
    /\ \/ r.at \in {"off", "load", "hosts"} /\ check[c].at # "update"
       \/ r.at = "ping" /\ check[c].at = "hosts" /\ r.snap = addr
       \/ /\ check[c].at \in {"ping", "alert", "approved", "search", "settle"}
          /\ r.at \in AfterPing /\ r.snap = check[c].snap
          /\ check[c].at \in {"alert", "approved", "search"} /\ c[1] \notin Same =>
                r.todo \cup r.host \subseteq check[c].todo \cup check[c].host
          /\ r.at = "apply" => r.todo = Hosts
          /\ r.at = "edit" => r.pick = NoIp

Outcome(c, r) ==
    /\ check[c].at # "off" /\ check' = [check EXCEPT ![c] = r]
    /\ r \in CheckType /\ Sane(c, r)
    /\ ListPart(c, r) /\ SkipPart(c, r) /\ CoolPart(c, r)
    /\ Reads(c, r) \/ Applies(c, r) \/ Updates(c, r)
    /\ UNCHANGED <<group, read, firing, crashes>> /\ due' \subseteq due
    /\ buttons' \subseteq buttons \cup {c[1]}

LEMMA BecomesListed ==
    ASSUME NEW c, NEW r, Becomes(c, r), check[c].at # "new", r.at # "new"
    PROVE  check' = [check EXCEPT ![c] = r] /\ ListPart(c, r)
BY DEF Becomes, ListPart

\* The start of a check, up to the reading of the hosts.
LEMMA BeginOutcome ==
    ASSUME Typed, NEW c \in Checks, StartCheck(c) \/ LoadGroup(c) \/ FetchHosts(c)
    PROVE  \E r : Outcome(c, r)
<1> USE DEF Reads
<1>0. check[c] \in CheckType /\ c[1] \in Groups /\ cooling \in [Groups -> SUBSET Ips] /\ Sane(c, check[c])
  BY DEF Typed, TypeOK, Checks
<1>1. CASE StartCheck(c)
  <2> DEFINE N == [check[c] EXCEPT !.at = "load"]
  <2>1. N \in CheckType /\ N.at = "load" /\ N.pick = check[c].pick
    BY <1>0 DEF CheckType, CheckPCs
  <2>2. Sane(c, N)
    BY <1>0, <1>1, <2>1 DEF Sane, StartCheck, AfterPing
  <2>3. Outcome(c, N)
    <3>. HIDE DEF N
    <3>1. check' = [check EXCEPT ![c] = N]
      BY <1>1 DEF StartCheck, N
    <3>. QED
      BY <1>0, <1>1, <2>1, <2>2, <3>1 DEF StartCheck, Outcome, ListPart, SkipPart, CoolPart,
         Searching, AfterPing
  <2>. QED  BY <2>3
<1>2. ASSUME NEW at \in {"hosts", "off"} PROVE [Off EXCEPT !.at = at] \in CheckType /\ Sane(c, [Off EXCEPT !.at = at])
             /\ [Off EXCEPT !.at = at].at = at
  <2>1. [Off EXCEPT !.at = at].at = at /\ [Off EXCEPT !.at = at].pick = NoIp
    BY DEF Off
  <2>2. [Off EXCEPT !.at = at] \in CheckType
    BY OffTyped DEF CheckType, CheckPCs
  <2>. QED  BY <2>1, <2>2 DEF Sane, AfterPing
<1>3. Off.at = "off"
  BY DEF Off
<1>4. CASE LoadGroup(c)
  <2>1. PICK r : Becomes(c, r) /\ r \in CheckType /\ Sane(c, r) /\ r.at \in {"hosts", "off"}
    <3>1. CASE group[c[1]] = "enabled"
      BY <1>2, <1>4, <3>1 DEF LoadGroup
    <3>2. CASE group[c[1]] # "enabled"
      BY <1>3, <1>4, <3>2, OffTyped, OffSane DEF LoadGroup
    <3>. QED  BY <3>1, <3>2
  <2>2. check' = [check EXCEPT ![c] = r] /\ ListPart(c, r)
    BY <1>4, <2>1, BecomesListed DEF LoadGroup
  <2>3. Outcome(c, r)
    BY <1>0, <1>4, <2>1, <2>2 DEF LoadGroup, Outcome, SkipPart, CoolPart, Searching, AfterPing
  <2>. QED  BY <2>3
<1>5. CASE FetchHosts(c)
  <2> DEFINE N == [Off EXCEPT !.at = "ping", !.snap = addr]
  <2>1. N.at = "ping" /\ N.snap = addr /\ N.pick = NoIp
    BY DEF Off
  <2>2. N \in CheckType
    <3>1. addr \in [Hosts -> Ips \cup {NoIp}]
      BY DEF Typed, TypeOK
    <3>. QED  BY <3>1, OffTyped DEF CheckType, CheckPCs
  <2>3. Sane(c, N)
    BY <2>1 DEF Sane, AfterPing, Typed, TypeOK
  <2>. HIDE DEF N
  <2>4. PICK r : Becomes(c, r) /\ r \in {Off, N}
    BY <1>5 DEF FetchHosts, N
  <2>5. r \in CheckType /\ Sane(c, r) /\ (r.at = "off" \/ (r.at = "ping" /\ r.snap = addr))
    BY <2>1, <2>2, <2>3, <2>4, <1>3, OffTyped, OffSane
  <2>6. check' = [check EXCEPT ![c] = r] /\ ListPart(c, r)
    BY <1>5, <2>4, <2>5, BecomesListed DEF FetchHosts
  <2>7. Outcome(c, r)
    BY <1>0, <1>5, <2>5, <2>6 DEF FetchHosts, Outcome, SkipPart, CoolPart, Searching, AfterPing
  <2>. QED  BY <2>7
<1>. QED  BY <1>1, <1>4, <1>5

\* A step from the ping to the end of the search, given what it makes of the record.
LEMMA SearchOutcome ==
    ASSUME Typed, NEW c \in Checks, NEW r \in CheckType, Becomes(c, r), Sane(c, r),
           check[c].at \in {"alert", "approved", "search"}, SearchUnchanged,
           cancel' \in {cancel, cancel \ {c[1]}},
           r.at \in {"off", "approved", "search", "settle", "update"},
           r.at # "off" => r.snap = check[c].snap /\ r.avoid \in {check[c].avoid, cooling[c[1]]},
           IF c[1] \in Same
           THEN \/ r.at = "off"
                \/ r.at \in {"approved", "search"} /\ UNCHANGED cancel
                \/ r.at = "settle" /\ (c[1] \in cancel => r.pick = NoIp)
           ELSE r.at \notin {"off", "settle"} =>
                    r.todo \cup r.host \subseteq check[c].todo \cup check[c].host
    PROVE  Outcome(c, r)
<1>1. check' = [check EXCEPT ![c] = r] /\ ListPart(c, r)
  BY BecomesListed
<1>2. SkipPart(c, r)
  BY DEF SkipPart, Searching
<1>3. CoolPart(c, r)
  BY DEF CoolPart, AfterPing, SearchUnchanged, Typed, TypeOK
<1>4. Reads(c, r)
  BY DEF Reads, AfterPing, SearchUnchanged, Sane
<1>. QED  BY <1>1, <1>2, <1>3, <1>4 DEF Outcome, SearchUnchanged

\* The facts about a check that is searching which the search lemmas need.
LEMMA InSearch ==
    ASSUME Typed, NEW c \in Checks, check[c].at \in {"alert", "approved", "search"}
    PROVE  /\ check[c] \in CheckType /\ check[c].pick = NoIp /\ check[c].avoid \subseteq Ips
           /\ cooling[c[1]] \in SUBSET Ips /\ check[c].batches \in 0..Batches
           /\ check[c].snap \in [Hosts -> Ips]
           /\ check[c].at = "alert" => c[1] \in Same
           /\ c[1] \notin Same => /\ check[c].host \cap check[c].todo = {}
                               /\ \A h \in check[c].host : check[c].snap[h] \in check[c].bad
BY CheckFields DEF Typed, TypeOK, Checks, Sane, AfterPing

LEMMA AlertsOutcome ==
    ASSUME Typed, NEW c \in Checks, SendAlerts(c)
    PROVE  \E r : Outcome(c, r)
<1>1. check[c].at = "alert" /\ SearchUnchanged
  BY DEF SendAlerts
<1>2. /\ check[c] \in CheckType /\ check[c].pick = NoIp /\ cooling[c[1]] \in SUBSET Ips
      /\ check[c].snap \in [Hosts -> Ips]
      /\ c[1] \in Same
  BY <1>1, InSearch
<1>3. CASE c[1] \in Managed
  <2> DEFINE N == [check[c] EXCEPT !.at = "approved"]
  <2>1. Becomes(c, N) /\ UNCHANGED cancel
    BY <1>3 DEF SendAlerts
  <2>2. /\ N \in CheckType /\ N.at = "approved" /\ N.pick = NoIp /\ N.snap = check[c].snap
        /\ N.avoid = check[c].avoid
    BY <1>2 DEF CheckType, CheckPCs
  <2>3. Sane(c, N)
    BY <1>2, <2>2 DEF Sane
  <2>. HIDE DEF N
  <2>. QED  BY <1>1, <1>2, <2>1, <2>2, <2>3, SearchOutcome
<1>4. CASE c[1] \notin Managed
  <2> DEFINE N == [check[c] EXCEPT !.avoid = cooling[c[1]]]
  <2>1. TryBatch(c, N, Batches)
    BY <1>4 DEF SendAlerts
  <2>2. /\ N \in CheckType /\ N.pick = NoIp /\ N.snap = check[c].snap /\ N.avoid = cooling[c[1]]
    BY <1>2 DEF CheckType
  <2>3. Batches \in 0..Batches
    BY MonitorAssumption
  <2>. HIDE DEF N
  <2>4. cancel' \in {cancel, cancel \ {c[1]}}
    BY <1>2, <2>1, <2>2, <2>3, TryBatchGoes
  <2>5. PICK r \in CheckType :
              /\ Becomes(c, r) /\ Sane(c, r) /\ Follows(r, N)
              /\ \/ r.at = "search" /\ UNCHANGED cancel
                 \/ r.at = "settle" /\ (c[1] \in cancel => r.pick = NoIp)
    BY <1>2, <2>1, <2>2, <2>3, TryBatchGoes
  <2>. QED  BY <1>1, <1>2, <2>2, <2>4, <2>5, SearchOutcome DEF Follows
<1>. QED  BY <1>3, <1>4

\* One more batch, whatever the last one was.
LEMMA BatchOutcome ==
    ASSUME Typed, NEW c \in Checks, check[c].at \in {"approved", "search"}, NEW n \in 0..Batches,
           TryBatch(c, check[c], n), SearchUnchanged
    PROVE  \E r : Outcome(c, r)
<1>1. /\ check[c] \in CheckType /\ check[c].pick = NoIp /\ check[c].snap \in [Hosts -> Ips]
      /\ c[1] \notin Same => /\ check[c].host \cap check[c].todo = {}
                          /\ \A h \in check[c].host : check[c].snap[h] \in check[c].bad
  BY InSearch
<1>2. cancel' \in {cancel, cancel \ {c[1]}}
  BY <1>1, TryBatchGoes
<1>3. PICK r \in CheckType :
            /\ Becomes(c, r) /\ Sane(c, r) /\ Follows(r, check[c])
            /\ IF c[1] \in Same
               THEN \/ r.at = "search" /\ UNCHANGED cancel
                    \/ r.at = "settle" /\ (c[1] \in cancel => r.pick = NoIp)
               ELSE r.at \in {"off", "approved", "search", "update"}
            /\ r.at \notin {"off", "settle"} =>
                  r.todo \cup r.host \subseteq check[c].todo \cup check[c].host
  BY <1>1, TryBatchGoes
<1>. QED  BY <1>1, <1>2, <1>3, SearchOutcome DEF Follows

LEMMA FindOutcome ==
    ASSUME Typed, NEW c \in Checks,
           ReadApproved(c) \/ BatchFinds(c) \/ BatchFindsNone(c) \/ SearchRaises(c)
    PROVE  \E r : Outcome(c, r)
<1>1. check[c].at \in {"approved", "search"} /\ SearchUnchanged
  BY DEF ReadApproved, BatchFinds, BatchFindsNone, SearchRaises
<1>2. /\ check[c] \in CheckType /\ check[c].pick = NoIp /\ check[c].batches \in 0..Batches
      /\ check[c].snap \in [Hosts -> Ips]
      /\ c[1] \notin Same => /\ check[c].host \cap check[c].todo = {}
                          /\ \A h \in check[c].host : check[c].snap[h] \in check[c].bad
  BY <1>1, InSearch
<1>3. CASE ReadApproved(c)
  BY <1>1, <1>3, BatchOutcome DEF ReadApproved
<1>4. CASE BatchFindsNone(c)
  BY <1>1, <1>2, <1>4, BatchOutcome DEF BatchFindsNone
<1>5. CASE BatchFinds(c)
  <2>1. PICK ip \in Pool \ Excluded(check[c]) : SearchOver(c, check[c], ip)
    BY <1>5 DEF BatchFinds
  <2>2. ip \in Ips /\ ip \notin Excluded(check[c])
    BY <2>1, MonitorAssumption DEF Typed, Pool, Ips
  <2>3. cancel' \in {cancel, cancel \ {c[1]}}
    BY <1>2, <2>1, <2>2, SearchOverGoes
  <2>4. PICK r \in CheckType :
              /\ Becomes(c, r) /\ Sane(c, r) /\ Follows(r, check[c])
              /\ IF c[1] \in Same THEN r.at = "settle" /\ (c[1] \in cancel => r.pick = NoIp)
                 ELSE r.at \in {"off", "approved", "search", "update"}
              /\ r.at \notin {"off", "settle"} =>
                    r.todo \cup r.host \subseteq check[c].todo \cup check[c].host
    BY <1>2, <2>1, <2>2, SearchOverGoes
  <2>. QED  BY <1>1, <1>2, <2>3, <2>4, SearchOutcome DEF Follows
<1>6. CASE SearchRaises(c)
  <2>1. Becomes(c, Off) /\ UNCHANGED cancel
    BY <1>6 DEF SearchRaises
  <2>2. Off.at = "off"
    BY DEF Off
  <2>3. Sane(c, Off)
    BY OffSane
  <2>. QED  BY <1>1, <1>2, <2>1, <2>2, <2>3, OffTyped, SearchOutcome
<1>. QED  BY <1>3, <1>4, <1>5, <1>6

\* The addresses found bad are addresses of the hosts.
LEMMA PingOutcome ==
    ASSUME Typed, NEW c \in Checks, PingHosts(c)
    PROVE  \E r : Outcome(c, r)
<1> DEFINE R == check[c]
<1>1. /\ R.at = "ping" /\ R \in CheckType /\ R.pick = NoIp /\ R.snap \in [Hosts -> Ips] /\ c[1] \in Groups
      /\ cooling \in [Groups -> SUBSET Ips]
  BY DEF PingHosts, Typed, TypeOK, Checks, Sane
<1>2. PICK bad \in SUBSET Addresses(R) :
         LET hot == cooling[c[1]] \cup bad
             r   == [R EXCEPT !.bad = bad, !.avoid = hot]
         IN  /\ cooling' = [cooling EXCEPT ![c[1]] = hot]
             /\ CASE bad = {} -> Becomes(c, Off) /\ UNCHANGED <<cancel, buttons>>
                  [] bad # {} /\ c[1] \in Same ->
                        /\ Becomes(c, [r EXCEPT !.at = "alert"])
                        /\ buttons' = buttons \cup {c[1]} /\ UNCHANGED cancel
                  [] bad # {} /\ c[1] \notin Same ->
                        NextHost(c, [r EXCEPT !.todo = Hosts]) /\ UNCHANGED buttons
  BY DEF PingHosts
<1> DEFINE hot == cooling[c[1]] \cup bad
           r0  == [R EXCEPT !.bad = bad, !.avoid = hot]
<1>3. bad \subseteq Ips
  BY <1>1 DEF Addresses
<1>4. hot \subseteq Ips /\ cooling' = [cooling EXCEPT ![c[1]] = hot]
  BY <1>1, <1>2, <1>3
<1>5. cooling' \in [Groups -> SUBSET Ips] /\ cooling'[c[1]] = hot
  BY <1>1, <1>4
<1>. HIDE DEF hot
<1>6. r0 \in CheckType /\ r0.pick = NoIp /\ r0.snap = R.snap /\ r0.avoid = hot
  BY <1>1, <1>3, <1>4 DEF CheckType
<1>7. UNCHANGED <<group, due, addr, read, firing, spoiled, crashes>>
  BY DEF PingHosts
<1>8. ASSUME NEW r \in CheckType, Becomes(c, r), Sane(c, r), cancel' \in {cancel, cancel \ {c[1]}},
             buttons' \in {buttons, buttons \cup {c[1]}},
             r.at = "off" \/ (r.at \in AfterPing /\ r.snap = R.snap /\ r.avoid = hot),
             IF c[1] \in Same THEN r.at = "off" \/ (r.at = "alert" /\ UNCHANGED cancel)
                             ELSE r.at \in {"off", "approved", "search"}
      PROVE  Outcome(c, r)
  <2>1. check' = [check EXCEPT ![c] = r] /\ ListPart(c, r)
    BY <1>1, <1>8, BecomesListed DEF AfterPing
  <2>2. SkipPart(c, r)
    BY <1>1, <1>8 DEF SkipPart, Searching
  <2>3. CoolPart(c, r)
    BY <1>1, <1>4, <1>5, <1>8 DEF CoolPart, AfterPing
  <2>4. Reads(c, r)
    BY <1>1, <1>7, <1>8 DEF Reads, Sane
  <2>. QED  BY <1>1, <1>7, <1>8, <2>1, <2>2, <2>3, <2>4 DEF Outcome
<1>9. CASE bad = {}
  <2>1. Becomes(c, Off) /\ UNCHANGED <<cancel, buttons>>
    BY <1>2, <1>9
  <2>2. Off.at = "off"
    BY DEF Off
  <2>3. Sane(c, Off)
    BY OffSane
  <2>. QED  BY <1>8, <2>1, <2>2, <2>3, OffTyped
<1>10. CASE bad # {} /\ c[1] \in Same
  <2> DEFINE N == [r0 EXCEPT !.at = "alert"]
  <2>1. Becomes(c, N) /\ buttons' = buttons \cup {c[1]} /\ UNCHANGED cancel
    BY <1>2, <1>10 DEF hot
  <2>2. N \in CheckType /\ N.at = "alert" /\ N.pick = NoIp /\ N.snap = R.snap /\ N.avoid = hot
    BY <1>6 DEF CheckType, CheckPCs
  <2>. HIDE DEF N
  <2>3. Sane(c, N)
    BY <1>1, <1>10, <2>2 DEF Sane
  <2>. QED  BY <1>8, <1>10, <2>1, <2>2, <2>3 DEF AfterPing
<1>11. CASE bad # {} /\ c[1] \notin Same
  <2> DEFINE N == [r0 EXCEPT !.todo = Hosts]
  <2>1. NextHost(c, N) /\ UNCHANGED buttons
    BY <1>2, <1>11 DEF hot
  <2>2. N \in CheckType /\ N.snap = R.snap /\ N.avoid = hot
    BY <1>6 DEF CheckType
  <2>. HIDE DEF N
  <2>3. cancel' \in {cancel, cancel \ {c[1]}}
    BY <1>1, <1>11, <2>1, <2>2, NextHostGoes
  <2>4. PICK r \in CheckType : /\ Becomes(c, r) /\ Sane(c, r) /\ Follows(r, N)
                               /\ r.at \in {"off", "approved", "search"}
    BY <1>1, <1>11, <2>1, <2>2, NextHostGoes
  <2>. QED  BY <1>8, <1>11, <2>1, <2>2, <2>3, <2>4 DEF Follows, AfterPing
<1>. QED  BY <1>9, <1>10, <1>11

\* "same" after its search: the record keeps what it read and found.
LEMMA SameMoves ==
    ASSUME NEW c, NEW r \in CheckType, NEW r2 \in CheckType, Sane(c, r), c[1] \in Same,
           r.at \in {"settle", "apply"}, r2.at \in {"apply", "edit"},
           r2.snap = r.snap, r2.avoid = r.avoid, r2.pick = r.pick,
           r2.at = "apply" => r.pick # NoIp
    PROVE  Sane(c, r2)
BY DEF Sane, Excluded, Addresses, AfterPing

LEMMA ApplyOutcome ==
    ASSUME Typed, NEW c \in Checks, Settle(c) \/ \E h \in Hosts : ApplyToHost(c, h)
    PROVE  \E r : Outcome(c, r)
<1>1. /\ check[c].at \in {"settle", "apply"} /\ check[c] \in CheckType /\ c[1] \in Same
      /\ Sane(c, check[c]) /\ cooling \in [Groups -> SUBSET Ips]
  BY DEF Settle, ApplyToHost, Typed, TypeOK, Sane
<1>2. Off.at = "off" /\ Sane(c, Off)
  BY OffSane DEF Off
<1>3. ASSUME NEW r \in CheckType, Becomes(c, r), Sane(c, r), UNCHANGED <<cancel, cooling>>,
             UNCHANGED <<group, due, read, firing, outside>>,
             r.at \in {"off", "apply", "edit"},
             r.at # "off" => r.pick = check[c].pick /\ r.avoid = check[c].avoid,
             Reads(c, r) \/ Applies(c, r)
      PROVE  Outcome(c, r)
  <2>1. check' = [check EXCEPT ![c] = r] /\ ListPart(c, r)
    BY <1>1, <1>3, BecomesListed
  <2>2. SkipPart(c, r)
    BY <1>1, <1>3 DEF SkipPart, Searching
  <2>3. CoolPart(c, r)
    BY <1>1, <1>3 DEF CoolPart, AfterPing
  <2>. QED  BY <1>1, <1>3, <2>1, <2>2, <2>3 DEF Outcome
<1>4. CASE Settle(c)
  <2> DEFINE N == IF check[c].pick = NoIp THEN [check[c] EXCEPT !.at = "edit"]
                  ELSE [check[c] EXCEPT !.at = "apply", !.todo = Hosts]
  <2>1. Becomes(c, N) /\ SearchUnchanged /\ UNCHANGED cancel /\ check[c].at = "settle"
    BY <1>4 DEF Settle
  <2>2. /\ N \in CheckType /\ N.snap = check[c].snap /\ N.pick = check[c].pick /\ N.avoid = check[c].avoid
        /\ \/ N.at = "edit" /\ N.pick = NoIp
           \/ N.at = "apply" /\ N.pick # NoIp /\ N.todo = Hosts
    BY <1>1 DEF CheckType, CheckPCs
  <2>. HIDE DEF N
  <2>3. Sane(c, N)
    BY <1>1, <2>1, <2>2, SameMoves
  <2>4. Reads(c, N)
    BY <2>1, <2>2 DEF Reads, AfterPing, SearchUnchanged
  <2>. QED  BY <1>3, <2>1, <2>2, <2>3, <2>4 DEF SearchUnchanged
<1>5. ASSUME NEW h \in Hosts, ApplyToHost(c, h) PROVE \E r : Outcome(c, r)
  <2> DEFINE left == check[c].todo \ {h}
             N == [check[c] EXCEPT !.todo = left, !.at = IF left = {} THEN "edit" ELSE "apply"]
  <2>1. /\ h \in check[c].todo /\ check[c].at = "apply" /\ ApplyUnchanged /\ UNCHANGED cancel
        /\ \/ Patched(h, check[c].pick) /\ Becomes(c, N)
           \/ PatchFails(h, check[c].pick) /\ (Becomes(c, N) \/ Becomes(c, Off))
    BY <1>5 DEF ApplyToHost
  <2>2. /\ N \in CheckType /\ N.snap = check[c].snap /\ N.pick = check[c].pick /\ N.avoid = check[c].avoid
        /\ N.todo = left /\ N.at = (IF left = {} THEN "edit" ELSE "apply")
    <3>1. left \in SUBSET Hosts /\ (IF left = {} THEN "edit" ELSE "apply") \in CheckPCs
      BY <1>1, CheckFields DEF CheckPCs
    <3>. HIDE DEF left
    <3>. QED  BY <1>1, <3>1 DEF CheckType
  <2>3. check[c].pick # NoIp
    BY <1>1, <2>1 DEF Sane
  <2>. HIDE DEF N
  <2>4. Sane(c, N)
    BY <1>1, <2>2, <2>3, SameMoves
  <2>5. PICK r \in {N, Off} : /\ Becomes(c, r)
                              /\ \/ Patched(h, check[c].pick) /\ r = N
                                \/ PatchFails(h, check[c].pick)
    BY <2>1
  <2>6. Applies(c, r)
    BY <1>2, <2>1, <2>2, <2>5 DEF Applies, Writes
  <2>. QED  BY <1>2, <1>3, <2>1, <2>2, <2>4, <2>5, <2>6, OffTyped DEF ApplyUnchanged
<1>. QED  BY <1>4, <1>5

\* "each" after an update, given what the next step of its loop starts from.
LEMMA UpdateGoesOn ==
    ASSUME Typed, NEW c \in Checks, check[c].at = "update", c[1] \notin Same, ApplyUnchanged,
           NEW h \in check[c].host, NEW N \in CheckType, NextHost(c, N),
           N.snap \in [Hosts -> Ips], N.todo = check[c].todo, N.avoid = check[c].avoid,
           \/ Patched(h, check[c].pick) /\ N.snap = [check[c].snap EXCEPT ![h] = check[c].pick]
           \/ PatchFails(h, check[c].pick) /\ N.snap = check[c].snap
    PROVE  \E r : Outcome(c, r)
<1>1. cancel' \in {cancel, cancel \ {c[1]}}
  BY NextHostGoes
<1>2. PICK r \in CheckType : /\ Becomes(c, r) /\ Sane(c, r) /\ Follows(r, N)
                             /\ r.at \in {"off", "approved", "search"}
                             /\ r.at # "off" => r.todo \cup r.host \subseteq N.todo
  BY NextHostGoes
<1>3. r.at # "off" => r.snap = N.snap /\ r.avoid = check[c].avoid
  BY <1>2 DEF Follows
<1>4. Writes(c, r, h)
  <2>1. CASE Patched(h, check[c].pick) /\ N.snap = [check[c].snap EXCEPT ![h] = check[c].pick]
    BY <1>3, <2>1 DEF Writes
  <2>2. CASE PatchFails(h, check[c].pick) /\ N.snap = check[c].snap
    BY <1>3, <2>2 DEF Writes
  <2>. QED  BY <2>1, <2>2
<1>5. Updates(c, r)
  BY <1>2, <1>4 DEF Updates
<1>6. cooling \in [Groups -> SUBSET Ips]
  BY DEF Typed, TypeOK
<1>7. check' = [check EXCEPT ![c] = r] /\ ListPart(c, r)
  BY <1>2, BecomesListed
<1>8. SkipPart(c, r)
  BY <1>1 DEF SkipPart
<1>9. CoolPart(c, r)
  BY <1>2, <1>3, <1>6 DEF CoolPart, AfterPing, ApplyUnchanged
<1>. QED  BY <1>2, <1>5, <1>7, <1>8, <1>9 DEF Outcome, ApplyUnchanged

LEMMA UpdateOutcome ==
    ASSUME Typed, NEW c \in Checks, UpdateHost(c)
    PROVE  \E r : Outcome(c, r)
<1> DEFINE R == check[c]
<1>1. /\ R.at = "update" /\ R \in CheckType /\ c[1] \notin Same /\ R.pick \in Ips
      /\ R.snap \in [Hosts -> Ips] /\ cooling \in [Groups -> SUBSET Ips] /\ ApplyUnchanged
  BY CheckFields DEF UpdateHost, Typed, TypeOK, Sane, AfterPing
<1>2. PICK h \in R.host :
         \/ Patched(h, R.pick) /\ NextHost(c, [R EXCEPT !.snap[h] = R.pick])
         \/ PatchFails(h, R.pick) /\ NextHost(c, R)
         \/ PatchFails(h, R.pick) /\ Becomes(c, Off) /\ UNCHANGED cancel
  BY DEF UpdateHost
<1>3. CASE Patched(h, R.pick) /\ NextHost(c, [R EXCEPT !.snap[h] = R.pick])
  <2> DEFINE N == [R EXCEPT !.snap[h] = R.pick]
  <2>1. [R.snap EXCEPT ![h] = R.pick] \in [Hosts -> Ips]
    BY <1>1
  <2>2. N = [R EXCEPT !.snap = [R.snap EXCEPT ![h] = R.pick]]
    BY <1>1 DEF CheckType
  <2>3. /\ N \in CheckType /\ N.snap = [R.snap EXCEPT ![h] = R.pick] /\ N.todo = R.todo
        /\ N.avoid = R.avoid
    BY <1>1, <2>1, <2>2 DEF CheckType
  <2>. HIDE DEF N
  <2>4. NextHost(c, N)
    BY <1>3 DEF N
  <2>. QED  BY <1>1, <1>3, <2>1, <2>3, <2>4, UpdateGoesOn
<1>4. CASE PatchFails(h, R.pick) /\ NextHost(c, R)
  BY <1>1, <1>4, UpdateGoesOn
<1>5. CASE PatchFails(h, R.pick) /\ Becomes(c, Off) /\ UNCHANGED cancel
  <2>1. Off.at = "off" /\ Sane(c, Off)
    BY OffSane DEF Off
  <2>2. Updates(c, Off)
    BY <1>1, <1>5, <2>1 DEF Updates, Writes
  <2>3. check' = [check EXCEPT ![c] = Off] /\ ListPart(c, Off)
    BY <1>1, <1>5, <2>1, BecomesListed
  <2>4. Outcome(c, Off)
    BY <1>1, <1>5, <2>1, <2>2, <2>3, OffTyped DEF Outcome, SkipPart, CoolPart, AfterPing, ApplyUnchanged
  <2>. QED  BY <2>4
<1>. QED  BY <1>2, <1>3, <1>4, <1>5

LEMMA EditOutcome ==
    ASSUME Typed, NEW c \in Checks, EditAlerts(c)
    PROVE  \E r : Outcome(c, r)
<1>1. Off.at = "off" /\ Sane(c, Off)
  BY OffSane DEF Off
<1>2. check[c].at = "edit" /\ Becomes(c, Off) /\ cooling \in [Groups -> SUBSET Ips]
  BY DEF EditAlerts, Typed, TypeOK
<1>3. check' = [check EXCEPT ![c] = Off] /\ ListPart(c, Off)
  BY <1>1, <1>2, BecomesListed
<1>4. Outcome(c, Off)
  BY <1>1, <1>2, <1>3, OffTyped DEF EditAlerts, Outcome, SkipPart, CoolPart, Reads, AfterPing
<1>. QED  BY <1>4

LEMMA StepOutcome ==
    ASSUME Typed, NEW c \in Checks, CheckStep(c)
    PROVE  \E r : Outcome(c, r)
BY BeginOutcome, PingOutcome, AlertsOutcome, FindOutcome, ApplyOutcome, UpdateOutcome, EditOutcome
   DEF CheckStep

-----------------------------------------------------------------------------
(* What the other steps do.                                                *)

\* A step of people or of time, of the main loop while it reads, or none.
Aside ==
    /\ UNCHANGED <<check, processing>>
    /\ \/ UNCHANGED <<addr, spoiled>>
       \/ addr' \in [Hosts -> Ips] /\ spoiled' = spoiled \cup {"edit"}
    /\ cooling' \in [Groups -> SUBSET Ips]
    /\ \A g \in Groups : cooling'[g] \subseteq cooling[g]
    /\ \/ UNCHANGED <<cancel, hushed>>
       \/ \E g \in Groups : /\ cancel' = cancel \cup {g}
                            /\ hushed' = hushed \cup {c \in ChecksOf(g) : check[c].at \in Searching}

\* Checks of some groups are created.
Starts ==
    /\ \E gs \in SUBSET Groups : Spawn(gs)
    /\ UNCHANGED <<addr, processing, cancel, cooling, skipHistory>>

Step == (\E c \in Checks : \E r : Outcome(c, r)) \/ Aside \/ Starts \/ Crash

\* There is no other kind of step.
LEMMA StepKinds ==
    ASSUME Typed, [Next]_vars
    PROVE  UNCHANGED plan /\ Step
<1>0. cooling \in [Groups -> SUBSET Ips] /\ addr \in [Hosts -> Ips] /\ read \subseteq Groups
  BY DEF Typed, TypeOK
<1>1. CASE UNCHANGED vars
  BY <1>0, <1>1 DEF vars, Step, Aside
<1>2. CASE Next
  <2>0. UNCHANGED plan
    BY <1>2 DEF Next
  <2>1. ASSUME NEW c \in Checks, CheckStep(c) PROVE Step
    BY <2>1, StepOutcome DEF Step
  <2>2. ASSUME LoopReads PROVE Step
    BY <1>0, <2>2 DEF LoopReads, Step, Aside
  <2>3. ASSUME LoopFires PROVE Step
    BY <1>0, <2>3 DEF LoopFires, Step, Starts
  <2>4. ASSUME NEW g \in Groups, CreateGroup(g) \/ ToggleGroup(g) \/ DeleteGroup(g) \/ IntervalElapses(g)
        PROVE  Step
    BY <1>0, <2>4 DEF CreateGroup, ToggleGroup, DeleteGroup, IntervalElapses, Step, Aside
  <2>5. ASSUME NEW g \in Groups, FireFirstCheck(g) PROVE Step
    <3>1. CASE g \in processing
      BY <1>0, <2>5, <3>1 DEF FireFirstCheck, Step, Aside
    <3>2. CASE g \notin processing
      BY <2>5, <3>2 DEF FireFirstCheck, Step, Starts
    <3>. QED  BY <3>1, <3>2
  <2>6. ASSUME NEW g \in Groups, PressSkip(g) PROVE Step
    BY <1>0, <2>6 DEF PressSkip, Step, Aside
  <2>7. ASSUME NEW g \in Groups, NEW ip \in Ips, CooldownEnds(g, ip) PROVE Step
    BY <1>0, <2>7 DEF CooldownEnds, Step, Aside
  <2>8. ASSUME NEW h \in Hosts, EditHost(h) PROVE Step
    BY <1>0, <2>8 DEF EditHost, Step, Aside
  <2>9. ASSUME Crash PROVE Step
    BY <2>9 DEF Step
  <2>. QED  BY <1>2, <2>0, <2>1, <2>2, <2>3, <2>4, <2>5, <2>6, <2>7, <2>8, <2>9 DEF Next
<1>. QED  BY <1>1, <1>2

\* The table after checks were created: what was at work is still there.
LEMMA SpawnKeeps ==
    ASSUME NEW gs \in SUBSET Groups, Spawn(gs), check \in [Checks -> CheckType]
    PROVE  /\ check' \in [Checks -> CheckType] /\ spoiled \subseteq spoiled'
           /\ spoiled' \subseteq spoiled \cup {"twice", "groups"}
           /\ \A c \in Checks : Live(c) => check'[c] = check[c]
           /\ \A c \in Checks : check'[c] = check[c] \/ check'[c] = [Off EXCEPT !.at = "new"]
<1>1. [Off EXCEPT !.at = "new"] \in CheckType
  BY OffTyped DEF CheckType, CheckPCs
<1>2. PICK slot \in [gs -> Slots] :
        /\ \A g \in gs : ~Live(<<g, slot[g]>>)
        /\ check' = [c \in Checks |-> IF c[1] \in gs /\ c[2] = slot[c[1]]
                                      THEN [Off EXCEPT !.at = "new"] ELSE check[c]]
  BY DEF Spawn
<1>3. ASSUME NEW c \in Checks, Live(c) PROVE ~(c[1] \in gs /\ c[2] = slot[c[1]])
  <2>1. c = <<c[1], c[2]>>
    BY DEF Checks
  <2>. QED  BY <1>2, <1>3, <2>1
<1>4. spoiled \subseteq spoiled' /\ spoiled' \subseteq spoiled \cup {"twice", "groups"}
  BY DEF Spawn
<1>. HIDE DEF Spawn
<1>. QED  BY <1>1, <1>2, <1>3, <1>4

-----------------------------------------------------------------------------
(* Types.                                                                  *)

LEMMA TypedInit == Init => Typed
<1> SUFFICES ASSUME Init PROVE Typed
  OBVIOUS
<1>1. \A c \in Checks : check[c] = Off
  BY DEF Init
<1>2. check \in [Checks -> CheckType]
  BY OffTyped DEF Init
<1>3. TypeOK
  BY <1>2, MonitorAssumption DEF Init, TypeOK
<1>. QED  BY <1>1, <1>3, OffSane DEF Typed, Init

\* One step of a check leaves the hosts with addresses, and the rest of TypeOK.
LEMMA OutcomeTyped ==
    ASSUME Typed, UNCHANGED plan, NEW c \in Checks, NEW r, Outcome(c, r)
    PROVE  TypeOK'
<1>1. TypeOK /\ c[1] \in Groups /\ Sane(c, check[c])
  BY DEF Typed, Checks
<1>2. check' \in [Checks -> CheckType]
  BY <1>1 DEF TypeOK, Outcome
<1>3. CheckType' = CheckType /\ Hosts' = Hosts /\ Ips' = Ips
  BY DEF CheckType, Hosts, Ips
<1>4. addr' \in [Hosts -> Ips] /\ spoiled' \subseteq {"twice", "groups", "failure", "lost", "edit"}
  <2>1. ASSUME NEW h \in Hosts, Writes(c, r, h), check[c].pick \in Ips
        PROVE  addr' \in [Hosts -> Ips] /\ spoiled' \subseteq {"twice", "groups", "failure", "lost", "edit"}
    <3>1. CASE Patched(h, check[c].pick)
      BY <1>1, <2>1, <3>1 DEF Patched, TypeOK
    <3>2. CASE PatchFails(h, check[c].pick)
      BY <1>1, <2>1, <3>2 DEF PatchFails, TypeOK
    <3>. QED  BY <2>1, <3>1, <3>2 DEF Writes
  <2>2. /\ check[c].todo \subseteq Hosts /\ check[c].host \subseteq Hosts
        /\ check[c].at \in {"apply", "update"} => check[c].pick \in Ips
    BY <1>1, CheckFields DEF TypeOK, Sane
  <2>3. CASE Reads(c, r)
    BY <1>1, <2>3 DEF Reads, TypeOK
  <2>4. CASE Applies(c, r)
    BY <2>1, <2>2, <2>4 DEF Applies
  <2>5. CASE Updates(c, r)
    BY <2>1, <2>2, <2>5 DEF Updates
  <2>. QED  BY <2>3, <2>4, <2>5 DEF Outcome
<1>5. processing' \subseteq Groups /\ aimed' \subseteq Checks /\ hushed' \subseteq aimed'
  BY <1>1 DEF Outcome, ListPart, TypeOK
<1>6. cancel' \subseteq Groups /\ cooling' \in [Groups -> SUBSET Ips]
  BY <1>1 DEF Outcome, SkipPart, CoolPart, TypeOK
<1>7. /\ group' \in [Groups -> {"none", "enabled", "disabled", "deleted"}] /\ due' \subseteq Groups
      /\ read' \subseteq Groups /\ firing' \subseteq Groups /\ buttons' \subseteq Groups
      /\ crashes' \in 0..MaxCrashes
  BY <1>1 DEF Outcome, TypeOK
<1>. QED  BY <1>2, <1>3, <1>4, <1>5, <1>6, <1>7 DEF TypeOK

LEMMA SaneNext ==
    ASSUME Typed, UNCHANGED plan, Step
    PROVE  \A d \in Checks : Sane(d, check[d])'
<1> SUFFICES ASSUME NEW d \in Checks PROVE Sane(d, check[d])'
  OBVIOUS
<1>1. check \in [Checks -> CheckType] /\ Sane(d, check[d])
  BY DEF Typed, TypeOK
<1>2. ASSUME NEW r, Sane(d, r), check'[d] = r PROVE Sane(d, check[d])'
  BY <1>2 DEF Sane, Excluded, Addresses, Hosts, Ips, Same
<1>3. CASE check'[d] = check[d]
  BY <1>1, <1>2, <1>3
<1>4. ASSUME NEW c \in Checks, NEW r, Outcome(c, r) PROVE Sane(d, check[d])'
  <2>1. check' = [check EXCEPT ![c] = r] /\ Sane(c, r)
    BY <1>4 DEF Outcome
  <2>. QED  BY <1>1, <1>2, <1>3, <2>1
<1>5. CASE Starts
  <2>1. check'[d] = check[d] \/ check'[d] = [Off EXCEPT !.at = "new"]
    BY <1>1, <1>5, SpawnKeeps DEF Starts
  <2>2. Sane(d, [Off EXCEPT !.at = "new"])
    BY DEF Sane, Off, AfterPing
  <2>. QED  BY <1>2, <1>3, <2>1, <2>2
<1>6. CASE Crash
  <2>1. check'[d] = Off
    BY <1>6 DEF Crash
  <2>2. Sane(d, Off)
    BY OffSane
  <2>. QED  BY <1>2, <2>1, <2>2
<1>7. CASE Aside
  BY <1>3, <1>7 DEF Aside
<1>. QED  BY <1>4, <1>5, <1>6, <1>7 DEF Step

LEMMA TypedNext == Typed /\ [Next]_vars => Typed'
<1> SUFFICES ASSUME Typed, [Next]_vars PROVE Typed'
  OBVIOUS
<1>1. UNCHANGED plan /\ Step
  BY StepKinds
<1>2. \A d \in Checks : Sane(d, check[d])'
  BY <1>1, SaneNext
<1>3. plan \in Plans /\ TypeOK
  BY DEF Typed
<1>4. CheckType' = CheckType /\ Hosts' = Hosts /\ Ips' = Ips
  BY <1>1 DEF CheckType, Hosts, Ips
<1>5. TypeOK'
  <2>1. CASE UNCHANGED vars
    BY <1>3, <1>4, <2>1 DEF vars, TypeOK
  <2>2. ASSUME NEW c \in Checks, CheckStep(c) PROVE TypeOK'
    BY <1>1, <2>2, StepOutcome, OutcomeTyped
  <2>3. CASE LoopReads
    BY <1>3, <1>4, <2>3 DEF LoopReads, TypeOK
  <2>4. ASSUME NEW gs \in SUBSET Groups, Spawn(gs)
        PROVE  check' \in [Checks -> CheckType]
               /\ spoiled' \subseteq {"twice", "groups", "failure", "lost", "edit"}
    BY <1>3, <2>4, SpawnKeeps DEF TypeOK
  <2>5. CASE LoopFires
    <3>1. read \ processing \in SUBSET Groups
      BY <1>3 DEF TypeOK
    <3>. QED  BY <1>3, <1>4, <2>4, <2>5, <3>1 DEF LoopFires, TypeOK
  <2>6. ASSUME NEW g \in Groups, FireFirstCheck(g) PROVE TypeOK'
    <3>1. CASE g \in processing
      BY <1>3, <1>4, <2>6, <3>1 DEF FireFirstCheck, TypeOK
    <3>2. CASE g \notin processing
      <4>1. {g} \in SUBSET Groups
        OBVIOUS
      <4>. QED  BY <1>3, <1>4, <2>4, <2>6, <3>2, <4>1 DEF FireFirstCheck, TypeOK
    <3>. QED  BY <3>1, <3>2
  <2>7. ASSUME NEW g \in Groups, CreateGroup(g) \/ ToggleGroup(g) \/ DeleteGroup(g) \/ IntervalElapses(g)
        PROVE  TypeOK'
    BY <1>3, <1>4, <2>7 DEF CreateGroup, ToggleGroup, DeleteGroup, IntervalElapses, TypeOK
  <2>8. ASSUME NEW g \in Groups, PressSkip(g) PROVE TypeOK'
    <3>1. /\ {c \in ChecksOf(g) : Live(c)} \subseteq Checks
          /\ {c \in ChecksOf(g) : check[c].at \in Searching} \subseteq {c \in ChecksOf(g) : Live(c)}
      BY DEF ChecksOf, Live, Searching
    <3>. QED  BY <1>3, <1>4, <2>8, <3>1 DEF PressSkip, TypeOK
  <2>9. ASSUME NEW g \in Groups, NEW ip \in Ips, CooldownEnds(g, ip) PROVE TypeOK'
    BY <1>3, <1>4, <2>9 DEF CooldownEnds, TypeOK
  <2>10. ASSUME NEW h \in Hosts, EditHost(h) PROVE TypeOK'
    BY <1>3, <1>4, <2>10 DEF EditHost, TypeOK
  <2>11. CASE Crash
    BY <1>3, <1>4, <2>11, OffTyped, MonitorAssumption DEF Crash, TypeOK
  <2>12. CASE Next
    BY <2>2, <2>3, <2>5, <2>6, <2>7, <2>8, <2>9, <2>10, <2>11, <2>12 DEF Next
  <2>. QED  BY <2>1, <2>12
<1>. QED  BY <1>1, <1>2, <1>3, <1>5 DEF Typed

\* Whatever is checked, skipped, edited or restarted, every variable keeps its type: a
\* host always has one of the addresses and a replacement is an address.
THEOREM MonitorTypes == Spec => []TypeOK
<1>1. Typed => TypeOK
  BY DEF Typed
<1>. QED  BY <1>1, TypedInit, TypedNext, PTL DEF Spec

-----------------------------------------------------------------------------
(* One check of a group at a time, the ones in work in the table.          *)

OnePerGroup == \A c, d \in Checks : Live(c) /\ Live(d) /\ c[1] = d[1] => c = d

\* Unless a second check of the same group was created.
OneCheck == "twice" \notin spoiled => OnePerGroup /\ InFlightListed

\* What was recorded stays on the record.
LEMMA SpoiledGrows ==
    ASSUME Typed, Step
    PROVE  spoiled \subseteq spoiled'
<1>1. ASSUME NEW c \in Checks, NEW r, Outcome(c, r) PROVE spoiled \subseteq spoiled'
  BY <1>1 DEF Outcome, Reads, Applies, Updates, Writes, Patched, PatchFails
<1>2. CASE Starts
  BY <1>2, SpawnKeeps DEF Starts, Typed, TypeOK
<1>3. CASE Aside
  BY <1>3 DEF Aside
<1>4. CASE Crash
  BY <1>4 DEF Crash
<1>. QED  BY <1>1, <1>2, <1>3, <1>4 DEF Step

\* The checks created are of groups without a check, one of each.
LEMMA SpawnsOne ==
    ASSUME NEW gs \in SUBSET Groups, Spawn(gs), check \in [Checks -> CheckType],
           "twice" \notin spoiled', OnePerGroup
    PROVE  /\ \A c \in Checks : c[1] \in gs => ~Live(c)
           /\ \A c \in Checks : c[1] \notin gs => check'[c] = check[c]
           /\ OnePerGroup'
<1>1. PICK slot \in [gs -> Slots] :
        check' = [c \in Checks |-> IF c[1] \in gs /\ c[2] = slot[c[1]]
                                   THEN [Off EXCEPT !.at = "new"] ELSE check[c]]
  BY DEF Spawn
<1>2. \A g \in gs : \A c \in ChecksOf(g) : ~Live(c)
  BY DEF Spawn
<1>3. \A c \in Checks : c[1] \in gs => ~Live(c)
  BY <1>2 DEF ChecksOf
<1>4. \A c \in Checks : c[1] \notin gs => check'[c] = check[c]
  BY <1>1
<1>5. ASSUME NEW c \in Checks, NEW d \in Checks, Live(c)', Live(d)', c[1] = d[1] PROVE c = d
  <2>1. c = <<c[1], c[2]>> /\ d = <<d[1], d[2]>>
    BY DEF Checks
  <2>2. CASE c[1] \in gs
    <3>1. c[2] = slot[c[1]]
      BY <1>1, <1>3, <1>5, <2>2 DEF Live
    <3>2. d[2] = slot[d[1]]
      BY <1>1, <1>3, <1>5, <2>2 DEF Live
    <3>. QED  BY <1>5, <2>1, <3>1, <3>2
  <2>3. CASE c[1] \notin gs
    BY <1>4, <1>5, <2>3 DEF Live, OnePerGroup
  <2>. QED  BY <2>2, <2>3
<1>6. OnePerGroup'
  BY <1>5 DEF OnePerGroup
<1>. QED  BY <1>3, <1>4, <1>6

LEMMA OneCheckNext == Typed /\ OneCheck /\ [Next]_vars => OneCheck'
<1> SUFFICES ASSUME Typed, OneCheck, [Next]_vars, "twice" \notin spoiled'
             PROVE  (OnePerGroup /\ InFlightListed)'
  BY DEF OneCheck
<1>1. Step /\ check \in [Checks -> CheckType]
  BY StepKinds DEF Typed, TypeOK
<1>2. OnePerGroup /\ InFlightListed
  BY <1>1, SpoiledGrows DEF OneCheck
<1>3. ASSUME NEW c \in Checks, NEW r, Outcome(c, r) PROVE (OnePerGroup /\ InFlightListed)'
  <2>1. /\ check' = [check EXCEPT ![c] = r] /\ Live(c)
        /\ IF check[c].at = "new" THEN processing' = processing \cup {c[1]} /\ r.at = "load"
           ELSE r.at # "new" /\ processing' = (IF r.at = "off" THEN processing \ {c[1]} ELSE processing)
    BY <1>3 DEF Outcome, ListPart, Live
  <2>2. OnePerGroup'
    BY <1>1, <1>2, <2>1 DEF OnePerGroup, Live
  <2>3. ASSUME NEW d \in Checks, check'[d].at \notin {"off", "new"} PROVE d[1] \in processing'
    <3>1. CASE d = c
      BY <1>1, <1>2, <2>1, <2>3, <3>1 DEF InFlightListed, Live
    <3>2. CASE d # c
      <4>1. check'[d] = check[d] /\ Live(d)
        BY <1>1, <2>1, <2>3, <3>2 DEF Live
      <4>2. d[1] \in processing /\ d[1] # c[1]
        BY <1>2, <2>1, <2>3, <3>2, <4>1 DEF InFlightListed, OnePerGroup
      <4>. QED  BY <2>1, <4>2
    <3>. QED  BY <3>1, <3>2
  <2>. QED  BY <2>2, <2>3 DEF InFlightListed
<1>4. CASE Starts
  <2>1. PICK gs \in SUBSET Groups : Spawn(gs)
    BY <1>4 DEF Starts
  <2>2. OnePerGroup'
    BY <1>1, <1>2, <2>1, SpawnsOne
  <2>3. \A d \in Checks : check'[d] = check[d] \/ check'[d].at = "new"
    BY <1>1, <2>1, SpawnKeeps DEF Off
  <2>. QED  BY <1>2, <1>4, <2>2, <2>3 DEF Starts, InFlightListed
<1>5. CASE Aside
  BY <1>2, <1>5 DEF Aside, OnePerGroup, InFlightListed, Live
<1>6. CASE Crash
  BY <1>6 DEF Crash, OnePerGroup, InFlightListed, Live, Off
<1>. QED  BY <1>1, <1>3, <1>4, <1>5, <1>6 DEF Step

LEMMA OneCheckInv == Spec => [](Typed /\ OneCheck)
<1>1. Init => OneCheck
  BY DEF Init, OneCheck, OnePerGroup, InFlightListed, Live, Off
<1>. QED  BY <1>1, TypedInit, TypedNext, OneCheckNext, PTL DEF Spec

\* _processing_groups names every group whose check is in work, however the main loop,
\* first checks, ends and restarts follow on each other, unless a second check of the
\* group was created before its first one ran.
THEOREM InFlightIsListed == Spec => []InFlightListedUnlessTwice
<1>1. OneCheck => InFlightListedUnlessTwice
  BY DEF OneCheck, InFlightListedUnlessTwice
<1>. QED  BY <1>1, OneCheckInv, PTL

-----------------------------------------------------------------------------
(* The cooldown.                                                           *)

\* What cools for a group, its check knows from the ping on: only its own ping makes
\* addresses cool.
KnowsWhatCools ==
    "twice" \notin spoiled =>
        \A c \in Checks : check[c].at \in AfterPing => cooling[c[1]] \subseteq check[c].avoid

LEMMA KnowsNext == Typed /\ OneCheck /\ KnowsWhatCools /\ [Next]_vars => KnowsWhatCools'
<1> SUFFICES ASSUME Typed, OneCheck, KnowsWhatCools, [Next]_vars, "twice" \notin spoiled',
                    NEW d \in Checks, check'[d].at \in AfterPing
             PROVE  cooling'[d[1]] \subseteq check'[d].avoid
  BY DEF KnowsWhatCools
<1>1. Step /\ check \in [Checks -> CheckType] /\ d[1] \in Groups
  BY StepKinds DEF Typed, TypeOK, Checks
<1>2. /\ OnePerGroup
      /\ check[d].at \in AfterPing => cooling[d[1]] \subseteq check[d].avoid
  BY <1>1, SpoiledGrows DEF OneCheck, KnowsWhatCools
<1>3. ASSUME NEW c \in Checks, NEW r, Outcome(c, r) PROVE cooling'[d[1]] \subseteq check'[d].avoid
  <2>1. check' = [check EXCEPT ![c] = r] /\ Live(c) /\ CoolPart(c, r)
    BY <1>3 DEF Outcome, Live
  <2>2. CASE d = c
    BY <1>1, <1>2, <2>1, <2>2 DEF CoolPart, AfterPing
  <2>3. CASE d # c
    <3>1. check'[d] = check[d] /\ d[1] # c[1]
      BY <1>1, <1>2, <2>1, <2>3 DEF OnePerGroup, Live, AfterPing
    <3>. QED  BY <1>1, <1>2, <2>1, <3>1 DEF CoolPart
  <2>. QED  BY <2>2, <2>3
<1>4. CASE Starts
  <2>1. check'[d] = check[d]
    BY <1>1, <1>4, SpawnKeeps DEF Starts, AfterPing, Off
  <2>. QED  BY <1>2, <1>4, <2>1 DEF Starts
<1>5. CASE Aside
  BY <1>1, <1>2, <1>5 DEF Aside
<1>6. CASE Crash
  BY <1>6 DEF Crash, Off, AfterPing
<1>. QED  BY <1>1, <1>3, <1>4, <1>5, <1>6 DEF Step

\* No replacement in hand is an address that cools for the group, although the check
\* chooses by a cooldown it read before its search.
THEOREM ReplacementNotCooling == Spec => []ReplacementIsNotCooling
<1>1. Init => KnowsWhatCools
  BY DEF Init, KnowsWhatCools, AfterPing, Off
<1>2. Typed /\ KnowsWhatCools => ReplacementIsNotCooling
  BY DEF Typed, KnowsWhatCools, ReplacementIsNotCooling, Sane, Excluded, AfterPing, TypeOK, CheckType, CheckPCs
<1>. QED  BY <1>1, <1>2, KnowsNext, OneCheckInv, PTL DEF Spec

-----------------------------------------------------------------------------
(* Skip requests.                                                          *)

\* A check of "same" that was to be skipped while it searched has the request before it
\* until its search ends, and then has no replacement.
Hushed ==
    "twice" \notin spoiled =>
        \A c \in hushed :
            /\ c \in Checks /\ Live(c)
            /\ c[1] \in Same => /\ check[c].at \in Searching => c[1] \in cancel
                                /\ check[c].pick = NoIp

LEMMA HushedNext == Typed /\ OneCheck /\ Hushed /\ [Next]_vars => Hushed'
<1> SUFFICES ASSUME Typed, OneCheck, Hushed, [Next]_vars, "twice" \notin spoiled',
                    NEW d \in hushed'
             PROVE  /\ d \in Checks /\ check'[d].at # "off"
                    /\ d[1] \in Same => /\ check'[d].at \in Searching => d[1] \in cancel'
                                        /\ check'[d].pick = NoIp
  BY StepKinds DEF Hushed, Live, Same, Checks
<1>1. Step /\ check \in [Checks -> CheckType] /\ OnePerGroup
  BY StepKinds, SpoiledGrows DEF Typed, TypeOK, OneCheck
<1>2. d \in hushed => /\ d \in Checks /\ Live(d)
                      /\ d[1] \in Same => /\ check[d].at \in Searching => d[1] \in cancel
                                          /\ check[d].pick = NoIp
  BY <1>1, SpoiledGrows DEF Hushed
<1>3. ASSUME NEW c \in Checks, NEW r, Outcome(c, r)
      PROVE  /\ d \in Checks /\ check'[d].at # "off"
             /\ d[1] \in Same => /\ check'[d].at \in Searching => d[1] \in cancel'
                                 /\ check'[d].pick = NoIp
  <2>1. /\ check' = [check EXCEPT ![c] = r] /\ Live(c) /\ ListPart(c, r) /\ SkipPart(c, r)
        /\ Sane(c, r)
    BY <1>3 DEF Outcome, Live
  <2>2. d \in hushed /\ d \in Checks /\ Live(d)
    BY <1>2, <2>1 DEF ListPart
  <2>3. CASE d = c
    <3>1. r.at # "off" /\ check'[d] = r
      BY <1>1, <2>1, <2>3, <2>2 DEF ListPart
    <3>2. ASSUME d[1] \in Same, r.at \in Searching PROVE d[1] \in cancel' /\ r.pick = NoIp
      BY <1>2, <2>1, <2>2, <2>3, <3>2 DEF SkipPart, Sane, Searching
    <3>3. ASSUME d[1] \in Same, r.at \notin Searching PROVE r.pick = NoIp
      BY <1>2, <2>1, <2>2, <2>3, <3>1, <3>3 DEF SkipPart, Searching
    <3>. QED  BY <2>2, <3>1, <3>2, <3>3
  <2>4. CASE d # c
    <3>1. check'[d] = check[d] /\ d[1] # c[1]
      BY <1>1, <2>1, <2>2, <2>4 DEF OnePerGroup
    <3>. QED  BY <1>2, <2>1, <2>2, <3>1 DEF SkipPart, Live
  <2>. QED  BY <2>3, <2>4
<1>4. CASE Starts
  <2>1. d \in hushed
    BY <1>4 DEF Starts
  <2>2. check'[d] = check[d]
    BY <1>1, <1>2, <1>4, <2>1, SpawnKeeps DEF Starts
  <2>. QED  BY <1>2, <1>4, <2>1, <2>2 DEF Starts, Live
<1>5. CASE Aside
  <2>1. UNCHANGED check
    BY <1>5 DEF Aside
  <2>2. CASE UNCHANGED <<cancel, hushed>>
    BY <1>2, <2>1, <2>2 DEF Live
  <2>3. ASSUME NEW g \in Groups, cancel' = cancel \cup {g},
               hushed' = hushed \cup {c \in ChecksOf(g) : check[c].at \in Searching}
        PROVE  /\ d \in Checks /\ check'[d].at # "off"
               /\ d[1] \in Same => /\ check'[d].at \in Searching => d[1] \in cancel'
                                   /\ check'[d].pick = NoIp
    <3>1. CASE d \in hushed
      BY <1>2, <2>1, <2>3, <3>1 DEF Live
    <3>2. CASE d \notin hushed
      <4>1. d \in Checks /\ d[1] = g /\ check[d].at \in Searching
        BY <2>3, <3>2 DEF ChecksOf
      <4>2. Sane(d, check[d])
        BY <4>1 DEF Typed
      <4>. QED  BY <2>1, <2>3, <4>1, <4>2 DEF Sane, Searching
    <3>. QED  BY <3>1, <3>2
  <2>. QED  BY <1>5, <2>2, <2>3 DEF Aside
<1>6. CASE Crash
  BY <1>6 DEF Crash
<1>. QED  BY <1>1, <1>3, <1>4, <1>5, <1>6 DEF Step

\* A skip that is requested before the search of a "same" check ends is honoured: no
\* address the search finds afterwards is applied to any host.
THEOREM SkipHonoured == Spec => []SkipInTimeIsHonoured
<1>1. Init => Hushed
  BY DEF Init, Hushed
<1>2. Hushed => SkipInTimeIsHonoured
  BY DEF Hushed, SkipInTimeIsHonoured
<1>. QED  BY <1>1, <1>2, HushedNext, OneCheckInv, PTL DEF Spec

-----------------------------------------------------------------------------
(* Hosts that only one check works on.                                     *)

\* Unless two checks were at work at once, there is at most one.
Alone == spoiled \cap {"twice", "groups"} = {} => \A c, d \in Checks : Live(c) /\ Live(d) => c = d

\* Where one check is created, none is at work, and no other is created.
LEMMA SpawnsAlone ==
    ASSUME NEW gs \in SUBSET Groups, Spawn(gs), check \in [Checks -> CheckType],
           spoiled' \cap {"twice", "groups"} = {}, \A c, d \in Checks : Live(c) /\ Live(d) => c = d
    PROVE  \A c, d \in Checks : Live(c)' /\ Live(d)' => c = d
<1>1. PICK slot \in [gs -> Slots] :
        check' = [c \in Checks |-> IF c[1] \in gs /\ c[2] = slot[c[1]]
                                   THEN [Off EXCEPT !.at = "new"] ELSE check[c]]
  BY DEF Spawn
<1>2. \A g \in gs : \A c \in Checks : c[1] = g => ~Live(c)
  BY DEF Spawn, ChecksOf
<1>3. \A g \in gs : \A c \in Checks : ~(c[1] # g /\ (Live(c) \/ c[1] \in gs))
  BY DEF Spawn
<1>4. ASSUME NEW c \in Checks, NEW d \in Checks, Live(c)', Live(d)' PROVE c = d
  <2>1. c = <<c[1], c[2]>> /\ d = <<d[1], d[2]>>
    BY DEF Checks
  <2>2. CASE c[1] \in gs
    <3>1. c[2] = slot[c[1]]
      BY <1>1, <1>2, <1>4, <2>2 DEF Live
    <3>2. d[1] = c[1]
      BY <1>1, <1>3, <1>4, <2>2 DEF Live
    <3>3. d[2] = slot[d[1]]
      BY <1>1, <1>2, <1>4, <2>2, <3>2 DEF Live
    <3>. QED  BY <2>1, <3>1, <3>2, <3>3
  <2>3. CASE d[1] \in gs /\ c[1] \notin gs
    BY <1>1, <1>3, <1>4, <2>3 DEF Live
  <2>4. CASE c[1] \notin gs /\ d[1] \notin gs
    BY <1>1, <1>4, <2>4 DEF Live
  <2>. QED  BY <2>2, <2>3, <2>4
<1>. QED  BY <1>4

LEMMA AloneNext == Typed /\ Alone /\ [Next]_vars => Alone'
<1> SUFFICES ASSUME Typed, Alone, [Next]_vars, spoiled' \cap {"twice", "groups"} = {}
             PROVE  \A c, d \in Checks : Live(c)' /\ Live(d)' => c = d
  BY DEF Alone
<1>1. Step /\ check \in [Checks -> CheckType]
  BY StepKinds DEF Typed, TypeOK
<1>2. \A c, d \in Checks : Live(c) /\ Live(d) => c = d
  BY <1>1, SpoiledGrows DEF Alone
<1>3. ASSUME NEW c \in Checks, NEW r, Outcome(c, r)
      PROVE  \A k, d \in Checks : Live(k)' /\ Live(d)' => k = d
  BY <1>1, <1>2, <1>3 DEF Outcome, Live
<1>4. CASE Starts
  BY <1>1, <1>2, <1>4, SpawnsAlone DEF Starts
<1>5. CASE Aside
  BY <1>2, <1>5 DEF Aside, Live
<1>6. CASE Crash
  BY <1>6 DEF Crash, Live, Off
<1>. QED  BY <1>1, <1>3, <1>4, <1>5, <1>6 DEF Step

LEMMA AloneInv == Spec => [](Typed /\ Alone)
<1>1. Init => Alone
  BY DEF Init, Alone, Live, Off
<1>. QED  BY <1>1, TypedInit, TypedNext, AloneNext, PTL DEF Spec

\* With one check at work, a step is its own, creates it, or leaves checks and hosts alone;
\* what it was working on is as the step left it.
LEMMA AloneSteps ==
    ASSUME Typed, Alone, Step, spoiled' \cap {"twice", "groups", "edit"} = {}
    PROVE  /\ check \in [Checks -> CheckType] /\ addr \in [Hosts -> Ips]
           /\ \/ \E c \in Checks : \E r :
                    Outcome(c, r) /\ \A d \in Checks : d # c => check'[d] = check[d] /\ ~Live(d)
              \/ addr' = addr /\ \A d \in Checks : check'[d] = check[d] \/ check'[d].at \in {"off", "new"}
<1>1. check \in [Checks -> CheckType] /\ addr \in [Hosts -> Ips]
  BY DEF Typed, TypeOK
<1>2. \A c, d \in Checks : Live(c) /\ Live(d) => c = d
  BY SpoiledGrows DEF Alone
<1>3. ASSUME NEW c \in Checks, NEW r, Outcome(c, r)
      PROVE  \A d \in Checks : d # c => check'[d] = check[d] /\ ~Live(d)
  BY <1>1, <1>2, <1>3 DEF Outcome, Live
<1>4. CASE Starts
  BY <1>1, <1>4, SpawnKeeps DEF Starts, Off
<1>5. CASE Aside
  BY <1>1, <1>5 DEF Aside
<1>6. CASE Crash
  BY <1>1, <1>6 DEF Crash, Off
<1>. QED  BY <1>1, <1>3, <1>4, <1>5, <1>6 DEF Step

\* While a replacement is applied, the hosts done have it.
Reaching ==
    spoiled = {} =>
        \A c \in Checks :
            /\ check[c].at = "apply" => \A h \in Hosts \ check[c].todo : addr[h] = check[c].pick
            /\ check[c].at = "edit" /\ check[c].pick # NoIp => \A h \in Hosts : addr[h] = check[c].pick

LEMMA ReachingNext == Typed /\ Alone /\ Reaching /\ [Next]_vars => Reaching'
<1> SUFFICES ASSUME Typed, Alone, Reaching, [Next]_vars, spoiled' = {}, NEW d \in Checks
             PROVE  /\ check'[d].at = "apply" =>
                          \A h \in Hosts \ check'[d].todo : addr'[h] = check'[d].pick
                    /\ check'[d].at = "edit" /\ check'[d].pick # NoIp =>
                          \A h \in Hosts : addr'[h] = check'[d].pick
  BY StepKinds DEF Reaching, Hosts
<1>1. Step /\ check \in [Checks -> CheckType] /\ addr \in [Hosts -> Ips]
  BY StepKinds DEF Typed, TypeOK
<1>2. spoiled = {}
  BY <1>1, SpoiledGrows
<1>3. /\ check[d].at = "apply" => \A h \in Hosts \ check[d].todo : addr[h] = check[d].pick
      /\ check[d].at = "edit" /\ check[d].pick # NoIp => \A h \in Hosts : addr[h] = check[d].pick
  BY <1>2 DEF Reaching
<1>4. ASSUME NEW c \in Checks, NEW r, Outcome(c, r),
             \A k \in Checks : k # c => check'[k] = check[k] /\ ~Live(k)
      PROVE  /\ check'[d].at = "apply" =>
                   \A h \in Hosts \ check'[d].todo : addr'[h] = check'[d].pick
             /\ check'[d].at = "edit" /\ check'[d].pick # NoIp =>
                   \A h \in Hosts : addr'[h] = check'[d].pick
  <2>1. CASE d # c
    BY <1>4, <2>1 DEF Live
  <2>2. CASE d = c
    <3>1. check'[d] = r
      BY <1>1, <1>4, <2>2 DEF Outcome
    <3>2. CASE Reads(c, r)
      BY <3>1, <3>2 DEF Reads
    <3>3. CASE Updates(c, r)
      BY <3>1, <3>3 DEF Updates
    <3>4. CASE Applies(c, r)
      <4>1. PICK h \in check[c].todo :
                  /\ Writes(c, r, h)
                  /\ r.at # "off" => /\ r.todo = check[c].todo \ {h} /\ r.pick = check[c].pick
                                    /\ r.at = IF r.todo = {} THEN "edit" ELSE "apply"
        BY <3>4 DEF Applies
      <4>2. Patched(h, check[c].pick)
        BY <4>1, <1>2 DEF Writes, PatchFails
      <4>3. \A k \in Hosts \ (check[c].todo \ {h}) : addr'[k] = check[c].pick
        BY <1>1, <1>3, <2>2, <3>4, <4>2 DEF Patched, Applies
      <4>. QED  BY <3>1, <4>1, <4>3
    <3>. QED  BY <1>4, <3>2, <3>3, <3>4 DEF Outcome
  <2>. QED  BY <2>1, <2>2
<1>5. CASE addr' = addr /\ \A k \in Checks : check'[k] = check[k] \/ check'[k].at \in {"off", "new"}
  BY <1>3, <1>5
<1>. QED  BY <1>1, <1>4, <1>5, AloneSteps

\* Once "same" has applied a replacement, every host of the tag has it, if every update
\* was done and one check at a time worked on these hosts.
THEOREM ReplacementReaches == Spec => []ReplacementReachesAllUnlessSpoiled
<1>1. Init => Reaching
  BY DEF Init, Reaching, Off
<1>2. Reaching => ReplacementReachesAllUnlessSpoiled
  BY DEF Reaching, ReplacementReachesAllUnlessSpoiled, ReplacementReachesAll
<1>. QED  BY <1>1, <1>2, ReachingNext, AloneInv, PTL DEF Spec

\* In "each" mode, the tracking table is what the panel says of the hosts.
TableTrue ==
    Same = {} /\ spoiled \subseteq {"failure"} =>
        /\ Distinct(addr)
        /\ \A c \in Checks : check[c].at \in {"ping"} \cup AfterPing => check[c].snap = addr

LEMMA TableNext == Typed /\ Alone /\ TableTrue /\ [Next]_vars => TableTrue'
<1> SUFFICES ASSUME Typed, Alone, TableTrue, [Next]_vars, Same = {}, spoiled' \subseteq {"failure"}
             PROVE  /\ Distinct(addr')
                    /\ \A d \in Checks : check'[d].at \in {"ping"} \cup AfterPing => check'[d].snap = addr'
  BY StepKinds DEF TableTrue, Same, Distinct, Hosts
<1>1. Step /\ check \in [Checks -> CheckType] /\ addr \in [Hosts -> Ips]
  BY StepKinds DEF Typed, TypeOK
<1>2. /\ Distinct(addr)
      /\ \A d \in Checks : check[d].at \in {"ping"} \cup AfterPing => check[d].snap = addr
  BY <1>1, SpoiledGrows DEF TableTrue
<1>3. ASSUME NEW c \in Checks, NEW r, Outcome(c, r),
             \A k \in Checks : k # c => check'[k] = check[k] /\ ~Live(k)
      PROVE  /\ Distinct(addr')
             /\ \A d \in Checks : check'[d].at \in {"ping"} \cup AfterPing => check'[d].snap = addr'
  <2>1. \A d \in Checks : check'[d].at \in {"ping"} \cup AfterPing => d = c
    BY <1>3 DEF Live, AfterPing
  <2>2. check'[c] = r /\ Sane(c, check[c])
    BY <1>1, <1>3 DEF Outcome, Typed
  <2>3. ~Applies(c, r)
    BY <2>2 DEF Applies, Sane
  <2>4. CASE Reads(c, r)
    <3>1. Distinct(addr')
      BY <1>2, <2>4 DEF Reads
    <3>2. r.at \in {"ping"} \cup AfterPing => r.snap = addr'
      BY <1>2, <2>4 DEF Reads, AfterPing
    <3>. QED  BY <2>1, <2>2, <3>1, <3>2
  <2>5. CASE Updates(c, r)
    <3>1. PICK h \in check[c].host : Writes(c, r, h)
      BY <2>5 DEF Updates
    <3>2. h \in Hosts /\ check[c].at = "update" /\ check[c].snap = addr
      BY <1>1, <1>2, <2>5, CheckFields DEF Updates, AfterPing
    <3>3. CASE Patched(h, check[c].pick)
                 /\ (check[c].at = "update" /\ r.at # "off"
                        => r.snap = [check[c].snap EXCEPT ![h] = check[c].pick])
      <4>1. check[c].pick \notin {addr[k] : k \in Hosts}
        BY <2>2, <3>2 DEF Sane, Excluded, Addresses
      <4>2. addr' = [addr EXCEPT ![h] = check[c].pick]
        BY <3>3 DEF Patched
      <4>3. Distinct(addr')
        BY <1>1, <1>2, <3>2, <4>1, <4>2 DEF Distinct
      <4>4. r.at # "off" => r.snap = addr'
        BY <3>2, <3>3, <4>2
      <4>. QED  BY <2>1, <2>2, <4>3, <4>4 DEF AfterPing
    <3>4. CASE PatchFails(h, check[c].pick)
                 /\ (check[c].at = "update" /\ r.at # "off" => r.snap = check[c].snap)
      <4>1. addr' = addr
        BY <3>4 DEF PatchFails
      <4>. QED  BY <1>2, <2>1, <2>2, <3>2, <3>4, <4>1 DEF AfterPing
    <3>. QED  BY <3>1, <3>3, <3>4 DEF Writes
  <2>. QED  BY <1>3, <2>3, <2>4, <2>5 DEF Outcome
<1>4. CASE addr' = addr /\ \A k \in Checks : check'[k] = check[k] \/ check'[k].at \in {"off", "new"}
  BY <1>2, <1>4 DEF AfterPing
<1>. QED  BY <1>1, <1>3, <1>4, AloneSteps

\* "each" never gives two hosts one address, whatever is pinged bad, found, refused or
\* skipped, as long as one check at a time and nobody else changes the hosts and no update
\* takes effect that was reported as failed.
THEOREM HostsStayDistinct == Spec => []DistinctUnlessSpoiled
<1>1. Init => TableTrue
  BY DEF Init, TableTrue, AfterPing, Off
<1>2. TableTrue => DistinctUnlessSpoiled
  BY DEF TableTrue, DistinctUnlessSpoiled
<1>. QED  BY <1>1, <1>2, TableNext, AloneInv, PTL DEF Spec

\* In "each" mode, of the hosts it has still to see to, the check knows the addresses. It
\* may be wrong about one it is done with: an update that failed may have taken effect.
KnowsTheRest ==
    spoiled \subseteq {"failure", "lost"} =>
        \A c \in Checks : c[1] \notin Same =>
            /\ check[c].at = "ping" => check[c].snap = addr
            /\ check[c].at \in {"approved", "search", "update"} =>
                  \A h \in check[c].todo \cup check[c].host : addr[h] = check[c].snap[h]

LEMMA KnowsRestNext == Typed /\ Alone /\ KnowsTheRest /\ [Next]_vars => KnowsTheRest'
<1> SUFFICES ASSUME Typed, Alone, KnowsTheRest, [Next]_vars, spoiled' \subseteq {"failure", "lost"},
                    NEW d \in Checks, d[1] \notin Same
             PROVE  /\ check'[d].at = "ping" => check'[d].snap = addr'
                    /\ check'[d].at \in {"approved", "search", "update"} =>
                          \A h \in check'[d].todo \cup check'[d].host : addr'[h] = check'[d].snap[h]
  BY StepKinds DEF KnowsTheRest, Same
<1>1. Step /\ check \in [Checks -> CheckType] /\ addr \in [Hosts -> Ips]
  BY StepKinds DEF Typed, TypeOK
<1>2. /\ check[d].at = "ping" => check[d].snap = addr
      /\ check[d].at \in {"approved", "search", "update"} =>
            \A h \in check[d].todo \cup check[d].host : addr[h] = check[d].snap[h]
  BY <1>1, SpoiledGrows DEF KnowsTheRest
<1>3. ASSUME NEW c \in Checks, NEW r, Outcome(c, r),
             \A k \in Checks : k # c => check'[k] = check[k] /\ ~Live(k)
      PROVE  /\ check'[d].at = "ping" => check'[d].snap = addr'
             /\ check'[d].at \in {"approved", "search", "update"} =>
                   \A h \in check'[d].todo \cup check'[d].host : addr'[h] = check'[d].snap[h]
  <2>1. CASE d # c
    BY <1>3, <2>1 DEF Live
  <2>2. CASE d = c
    <3>1. check'[d] = r /\ r \in CheckType /\ Sane(c, check[c])
      BY <1>1, <1>3, <2>2 DEF Outcome, Typed
    <3>2. ~Applies(c, r) /\ check[c].at # "alert"
      BY <2>2, <3>1 DEF Applies, Sane
    <3>3. CASE Reads(c, r)
      <4>1. r.at = "ping" => r.snap = addr'
        BY <3>3 DEF Reads, AfterPing
      <4>2. ASSUME r.at \in {"approved", "search", "update"}, NEW h \in r.todo \cup r.host
            PROVE  addr'[h] = r.snap[h]
        <5>1. /\ addr' = addr /\ r.snap = check[c].snap
              /\ check[c].at \in {"ping", "approved", "search", "settle"}
              /\ check[c].at \in {"approved", "search"} =>
                    r.todo \cup r.host \subseteq check[c].todo \cup check[c].host
          BY <2>2, <3>2, <3>3, <4>2 DEF Reads
        <5>2. check[c].at # "settle"
          BY <2>2, <3>1 DEF Sane
        <5>. QED  BY <1>2, <2>2, <4>2, <5>1, <5>2
      <4>. QED  BY <3>1, <4>1, <4>2
    <3>4. CASE Updates(c, r)
      <4>1. PICK h \in check[c].host : Writes(c, r, h)
        BY <3>4 DEF Updates
      <4>2. /\ check[c].at = "update" /\ r.at \in {"off", "approved", "search"}
            /\ r.at # "off" => r.todo \cup r.host \subseteq check[c].todo
        BY <3>4 DEF Updates
      <4>3. check[c].todo \subseteq Hosts /\ h \notin check[c].todo /\ check[c].snap \in [Hosts -> Ips]
        BY <1>1, <2>2, <3>1, <4>1, <4>2, CheckFields DEF Sane, AfterPing
      <4>4. \A k \in Hosts : k # h => addr'[k] = addr[k]
        BY <1>1, <4>1 DEF Writes, Patched, PatchFails
      <4>5. r.at # "off" => \A k \in Hosts : k # h => r.snap[k] = check[c].snap[k]
        BY <4>1, <4>2, <4>3 DEF Writes
      <4>. QED  BY <1>2, <2>2, <3>1, <4>2, <4>3, <4>4, <4>5
    <3>. QED  BY <1>3, <3>2, <3>3, <3>4 DEF Outcome
  <2>. QED  BY <2>1, <2>2
<1>4. CASE addr' = addr /\ \A k \in Checks : check'[k] = check[k] \/ check'[k].at \in {"off", "new"}
  BY <1>2, <1>4
<1>. QED  BY <1>1, <1>3, <1>4, AloneSteps

\* A step of an update changes no address but one that was found bad.
LEMMA MovesBad ==
    ASSUME Typed, Alone, KnowsTheRest, Step, spoiled' \subseteq {"failure", "lost"},
           NEW d \in Checks, check[d].at = "update", check'[d] # check[d],
           NEW h \in Hosts, addr'[h] # addr[h]
    PROVE  addr[h] \in check[d].bad
<1>1. check \in [Checks -> CheckType] /\ addr \in [Hosts -> Ips] /\ spoiled \subseteq spoiled'
  BY SpoiledGrows DEF Typed, TypeOK
<1>2. PICK c \in Checks : \E r : Outcome(c, r)
                               /\ \A k \in Checks : k # c => check'[k] = check[k] /\ ~Live(k)
  BY AloneSteps
<1>3. PICK r : Outcome(c, r)
  BY <1>2
<1>4. d = c /\ Sane(c, check[c])
  BY <1>2 DEF Typed
<1>5. Updates(c, r)
  BY <1>3, <1>4 DEF Outcome, Reads, Applies
<1>6. PICK k \in check[c].host : Writes(c, r, k)
  BY <1>5 DEF Updates
<1>7. h = k
  BY <1>1, <1>6 DEF Writes, Patched, PatchFails
<1>8. c[1] \notin Same /\ check[c].snap[k] \in check[c].bad
  BY <1>4, <1>6 DEF Sane
<1>9. addr[k] = check[c].snap[k]
  BY <1>1, <1>4, <1>6, <1>8 DEF KnowsTheRest
<1>. QED  BY <1>4, <1>7, <1>8, <1>9

\* In "each" mode an update only ever takes a host off an address this check found bad,
\* even after an update was reported as failed and had taken effect.
THEOREM OnlyBadAreMoved == Spec => EachMovesOnlyBad
<1>1. Init => KnowsTheRest
  BY DEF Init, KnowsTheRest, Off
<1>2. Typed /\ Alone /\ KnowsTheRest /\ [Next]_vars =>
          [spoiled' \subseteq {"failure", "lost"} =>
             \A c \in Checks : check[c].at = "update" /\ check'[c] # check[c] =>
                 \A h \in Hosts : addr'[h] # addr[h] => addr[h] \in check[c].bad]_vars
  BY StepKinds, MovesBad
<1>. QED  BY <1>1, <1>2, KnowsRestNext, AloneInv, PTL DEF Spec, EachMovesOnlyBad

=============================================================================
