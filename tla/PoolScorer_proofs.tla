-------------------------- MODULE PoolScorer_proofs -------------------------
(***************************************************************************)
(* Theorems about the score of an address and about PoolScorer: for any    *)
(* set of addresses, any batch size, threshold, measurements and number of *)
(* restarts.                                                               *)
(***************************************************************************)
EXTENDS PoolScorer, TLAPS

USE DEF pool, table, sets, hist

-----------------------------------------------------------------------------
(* The score.                                                              *)

\* The score is never outside 0..85 points, so the cap at 100 never applies
\* (ip_pool_scorer 52-73).
THEOREM ScoreInRange ==
    ASSUME NEW tls, NEW loss \in Percent \cup {None}, NEW rtt \in Nat \cup {None}
    PROVE  ComputeScore(tls, loss, rtt) \in 0..850
BY NoneAssumption DEF ComputeScore, Capped, LossOf, RttBonus, Percent

\* A lossier address never scores higher than another as fast: the jump to 30
\* points beyond 50 % of loss only goes down (ip_pool_scorer 62-73).
THEOREM ScoreFallsWithLoss ==
    ASSUME NEW tls, NEW rtt \in Nat \cup {None},
           NEW l \in Percent, NEW k \in Percent, l <= k
    PROVE  ComputeScore(tls, k, rtt) <= ComputeScore(tls, l, rtt)
BY NoneAssumption DEF ComputeScore, Capped, LossOf, RttBonus, Percent

\* "TLS is the gate" (ip_pool_scorer 50): without a handshake no address passes,
\* provided the threshold is not 0, which the wizard accepts.
THEOREM NoTlsNoPass ==
    ASSUME NEW tls, tls # TRUE, NEW loss, NEW rtt, NEW t \in Nat \ {0}
    PROVE  Verdict(tls, loss, rtt, t) # "pass"
<1>1. ~Gate(tls)
  BY Zenon DEF Gate
<1>2. ComputeScore(tls, loss, rtt) = 0
  BY <1>1 DEF ComputeScore
<1>3. ~(ComputeScore(tls, loss, rtt) >= t)
  BY <1>2
<1>. QED  BY <1>3 DEF Verdict

\* "Very lossy - below default threshold" (ip_pool_scorer 63): more than half of
\* the packets lost never pass a threshold above 30 points.
THEOREM LossyDoesNotPass ==
    ASSUME NEW tls, NEW rtt, NEW loss \in Percent, loss > 50, NEW t \in Nat, t > 300
    PROVE  Verdict(tls, loss, rtt, t) # "pass"
<1>1. LossOf(loss) > 50
  BY NoneAssumption DEF LossOf, Percent
<1>2. ComputeScore(tls, loss, rtt) \in {0, 300}
  BY <1>1 DEF ComputeScore
<1>3. ~(ComputeScore(tls, loss, rtt) >= t)
  BY <1>2
<1>. QED  BY <1>3 DEF Verdict

-----------------------------------------------------------------------------
(* The inductive invariant.                                                *)

\* The loop does not go on before a task it created has run its first step.
NewTasks ==
    /\ scan.at = "new" => loop = "health"
    /\ health.at = "new" => loop = "sleep"

\* What an idle or finished task keeps of its work.
TaskState ==
    /\ scan.at # "write" => ToWrite(scan.result) = {}
    /\ scan.at \notin {"ping", "write"} => scan.todo = {}
    /\ health.at = "off" => health = NoHealth
    /\ health.at # "write" => ToWrite(health.result) = {}
    /\ health.todo \cap ToWrite(health.result) = {}

FreshJudged == \A ip \in fresh : row[ip] \in {"approved", "rejected"}

\* While an undisturbed scan works, the table is what it has read, and a row that
\* was never judged is still ahead of it or was skipped.
ScanCovers ==
    scan.ips # {} /\ ~outdated =>
        /\ scan.at = "upsert" => Rows \subseteq scan.ips
        /\ scan.at \in {"list", "ping", "write", "mark"} => Rows = scan.ips
        /\ scan.at \in {"ping", "write", "mark"} =>
              \A ip \in Ips : row[ip] = "pending" =>
                  ip \in scan.todo \cup ToWrite(scan.result) \cup scan.skipped

\* While no scan has overlapped it, a health check works on approved rows.
HealthCovers ==
    ~overlapped =>
        /\ health.at # "off" => scan.at \in {"off", "new"}
        /\ \A ip \in health.todo \cup ToWrite(health.result) : row[ip] \in {"approved", "absent"}

IInv == TypeOK /\ NewTasks /\ TaskState /\ BusyMeansAtWork /\ FreshJudged /\ ScanCovers /\ HealthCovers

-----------------------------------------------------------------------------
(* What the shared operators do.                                           *)

\* A batch is part of what is left, and what was measured is what is written.
LEMMA Batches ==
    ASSUME NEW todo \in SUBSET Ips, NEW b \in NextBatches(todo), NEW r \in Measured(b)
    PROVE  b \subseteq todo /\ r \in [Ips -> Results] /\ ToWrite(r) = b
<1>1. \A tls, loss, rtt : Verdict(tls, loss, rtt, Threshold) \in {"unknown", "pass", "fail"}
  BY Zenon DEF Verdict
<1>2. ASSUME NEW v \in Verdicts PROVE v \in {"unknown", "pass", "fail"}
  <2>1. PICK tls \in Handshakes, loss \in Losses, rtt \in Rtts :
          v = Verdict(tls, loss, rtt, Threshold)
    BY DEF Verdicts
  <2>. QED  BY Zenon, <1>1, <2>1
<1>. QED  BY <1>2 DEF NextBatches, Measured, ToWrite, Results

\* One result crossed off.
LEMMA CrossedOff ==
    ASSUME NEW r \in [Ips -> Results], NEW ip \in Ips
    PROVE  /\ [r EXCEPT ![ip] = "none"] \in [Ips -> Results]
           /\ ToWrite([r EXCEPT ![ip] = "none"]) = ToWrite(r) \ {ip}
BY DEF ToWrite, Results

\* A result that is stored changes no other row and adds none.
LEMMA Stores ==
    ASSUME TypeOK, FreshJudged, NEW ip \in Ips, NEW result \in Results, Store(ip, result)
    PROVE  /\ row' \in [Ips -> {"absent", "pending", "approved", "rejected"}]
           /\ fresh' \in SUBSET Ips
           /\ FreshJudged'
           /\ \A k \in Ips \ {ip} : row'[k] = row[k]
           /\ row'[ip] = "absent" <=> row[ip] = "absent"
           /\ result # "unknown" => row'[ip] # "pending"
           /\ row'[ip] = "pending" => row[ip] = "pending"
BY DEF Store, TypeOK, FreshJudged

\* The types of the values a task starts from.
LEMMA Idle ==
    /\ NoScan \in ScanType /\ NoHealth \in HealthType
    /\ [NoScan EXCEPT !.at = "new"] \in ScanType
    /\ [NoHealth EXCEPT !.at = "new"] \in HealthType
    /\ ToWrite(NoResult) = {}
BY DEF NoScan, NoHealth, ScanType, HealthType, NoResult, Results, ToWrite

-----------------------------------------------------------------------------
(* The invariant is inductive.                                             *)

LEMMA InvInit == Init => IInv
<1> SUFFICES ASSUME Init PROVE IInv
  OBVIOUS
<1>1. crashes \in 0..MaxCrashes
  BY ScorerAssumption DEF Init
<1>2. TypeOK
  BY <1>1, Idle DEF Init, TypeOK
<1>. QED  BY <1>2, Idle DEF Init, IInv, NewTasks, TaskState, BusyMeansAtWork, FreshJudged,
                 ScanCovers, HealthCovers, NoScan, NoHealth

LEMMA InvLoop ==
    ASSUME IInv, LoopReadsDue \/ LoopScans \/ LoopChecks
    PROVE  IInv'
<1> USE DEF IInv, NewTasks, TaskState, BusyMeansAtWork, FreshJudged, ScanCovers, HealthCovers,
            Rows, ToWrite, NoTaskIsNew
<1>1. CASE LoopReadsDue
  BY <1>1 DEF LoopReadsDue, TypeOK
<1>2. CASE LoopScans
  <2>1. CASE scoring
    BY <1>2, <2>1 DEF LoopScans, TypeOK
  <2>2. CASE ~scoring
    <3>1. /\ scan' = [NoScan EXCEPT !.at = "new"] /\ outdated' = FALSE
          /\ scan.at = "off"
      BY <1>2, <2>2 DEF LoopScans, TypeOK, ScanType
    <3>2. scan' \in ScanType /\ scan'.at = "new" /\ scan'.ips = {} /\ ToWrite(scan.result)' = {}
      BY <3>1, Idle DEF NoScan
    <3>3. TypeOK'
      BY <1>2, <3>1, <3>2 DEF LoopScans, TypeOK
    <3>4. /\ loop = "due" /\ loop' = "health" /\ scan'.todo = {}
          /\ UNCHANGED <<pool, table, sets, health, crashes, overlapped, cleared>>
      BY <1>2, <3>1, Idle DEF LoopScans, NoScan
    <3>5. NewTasks' /\ TaskState' /\ BusyMeansAtWork' /\ FreshJudged'
      BY <2>2, <3>1, <3>2, <3>4
    <3>6. ScanCovers' /\ HealthCovers'
      BY <3>1, <3>2, <3>4
    <3>. QED  BY <3>3, <3>5, <3>6
  <2>. QED  BY <2>1, <2>2
<1>3. CASE LoopChecks
  <2>1. CASE UNCHANGED <<health, overlapped>>
    BY <1>3, <2>1 DEF LoopChecks, TypeOK
  <2>2. CASE /\ exists /\ ~scoring /\ ~checking /\ ~rested
             /\ health' = [NoHealth EXCEPT !.at = "new"] /\ overlapped' = Scanning
    <3>1. /\ health' = [NoHealth EXCEPT !.at = "new"] /\ overlapped' = FALSE
          /\ scan.at = "off" /\ health.at = "off"
      BY <1>3, <2>2 DEF LoopChecks, Scanning, TypeOK, ScanType, HealthType
    <3>2. health' \in HealthType /\ health'.at = "new" /\ health'.todo = {}
          /\ ToWrite(health.result)' = {}
      BY <3>1, Idle DEF NoHealth
    <3>3. TypeOK'
      BY <1>3, <3>1, <3>2 DEF LoopChecks, TypeOK
    <3>. QED  BY <1>3, <2>2, <3>1, <3>2, <3>3 DEF LoopChecks, TypeOK
  <2>. QED  BY <1>3, <2>1, <2>2 DEF LoopChecks
<1>. QED  BY <1>1, <1>2, <1>3

LEMMA InvOutside ==
    ASSUME IInv,
           \/ PressScan \/ PressClear \/ DeletePool \/ DeleteSet \/ IntervalElapses
           \/ HealthFallsDue \/ Crash \/ \E ip \in Ips : RowAges(ip)
    PROVE  IInv'
<1> USE DEF IInv, NewTasks, TaskState, BusyMeansAtWork, FreshJudged, ScanCovers, HealthCovers,
            Rows, ToWrite, OutsideUnchanged, TypeOK
<1>1. CASE PressScan
  <2>1. UNCHANGED <<exists, sources, table, sets, loop, scan, health, crashes, hist>>
        /\ scanned' = FALSE
    BY <1>1 DEF PressScan
  <2>2. TypeOK'
    BY <2>1
  <2>3. NewTasks' /\ TaskState' /\ BusyMeansAtWork' /\ FreshJudged'
    BY <2>1
  <2>4. ScanCovers' /\ HealthCovers'
    BY <2>1
  <2>. QED  BY <2>2, <2>3, <2>4
<1>2. CASE PressClear \/ DeletePool
  <2>1. /\ row' = [ip \in Ips |-> "absent"] /\ fresh' = {} /\ outdated' = (scan.at # "off")
        /\ outdated' \in BOOLEAN /\ cleared' \in BOOLEAN /\ exists' \in BOOLEAN
        /\ scanned' \in BOOLEAN
        /\ UNCHANGED <<sources, sets, loop, scan, health, crashes, overlapped>>
    BY <1>2 DEF PressClear, DeletePool, Scanning
  <2>2. TypeOK'
    BY <2>1
  <2>3. NewTasks' /\ TaskState' /\ BusyMeansAtWork' /\ FreshJudged'
    BY <2>1
  <2>4. ScanCovers'
    BY <2>1
  <2>5. HealthCovers'
    BY <2>1 DEF HealthType, Results
  <2>. QED  BY <2>2, <2>3, <2>4, <2>5
<1>4. CASE DeleteSet
  <2>1. sources' \subseteq Ips
    BY <1>4 DEF DeleteSet
  <2>2. UNCHANGED <<exists, scanned, table, sets, loop, scan, health, crashes, hist>>
    BY <1>4 DEF DeleteSet
  <2>. QED  BY <2>1, <2>2
<1>5. CASE IntervalElapses
  <2>1. UNCHANGED <<exists, sources, table, sets, loop, scan, health, crashes, hist>>
        /\ scanned' = FALSE
    BY <1>5 DEF IntervalElapses
  <2>2. TypeOK'
    BY <2>1
  <2>3. NewTasks' /\ TaskState' /\ BusyMeansAtWork' /\ FreshJudged'
    BY <2>1
  <2>4. ScanCovers' /\ HealthCovers'
    BY <2>1
  <2>. QED  BY <2>2, <2>3, <2>4
<1>6. CASE HealthFallsDue
  <2>1. UNCHANGED <<pool, table, scoring, checking, loop, scan, health, crashes, hist>>
        /\ rested' = FALSE
    BY <1>6 DEF HealthFallsDue
  <2>2. TypeOK'
    BY <2>1
  <2>3. NewTasks' /\ TaskState' /\ BusyMeansAtWork' /\ FreshJudged'
    BY <2>1
  <2>4. ScanCovers' /\ HealthCovers'
    BY <2>1
  <2>. QED  BY <2>2, <2>3, <2>4
<1>7. CASE Crash
  <2>1. /\ scan' = NoScan /\ health' = NoHealth /\ scan' \in ScanType /\ health' \in HealthType
        /\ scan'.at = "off" /\ health'.at = "off" /\ scan'.ips = {} /\ health'.todo = {}
        /\ ToWrite(scan.result)' = {} /\ ToWrite(health.result)' = {}
    BY <1>7, Idle DEF Crash, NoScan, NoHealth
  <2>2. crashes' \in 0..MaxCrashes
    BY <1>7, ScorerAssumption DEF Crash
  <2>3. TypeOK'
    BY <1>7, <2>1, <2>2 DEF Crash
  <2>4. NewTasks' /\ TaskState' /\ BusyMeansAtWork' /\ FreshJudged'
    BY <1>7, <2>1 DEF Crash, NoScan
  <2>5. ScanCovers' /\ HealthCovers'
    BY <1>7, <2>1 DEF Crash
  <2>. QED  BY <2>3, <2>4, <2>5
<1>8. ASSUME NEW ip \in Ips, RowAges(ip) PROVE IInv'
  BY <1>8 DEF RowAges
<1>. QED  BY <1>1, <1>2, <1>4, <1>5, <1>6, <1>7, <1>8

\* A scan that is over, or broken off, leaves nothing behind.
LEMMA InvScanEnds ==
    ASSUME IInv, scan' = NoScan, scoring' = FALSE, scan.at \notin {"off", "new"},
           scanned' \in BOOLEAN, outdated' \in BOOLEAN, cleared' \in BOOLEAN,
           ScanUnchanged, UNCHANGED <<table, overlapped>>
    PROVE  IInv'
<1> USE DEF IInv, ScanUnchanged
<1>1. /\ scan' \in ScanType /\ scan'.at = "off" /\ scan'.ips = {} /\ scan'.todo = {}
      /\ ToWrite(scan'.result) = {}
  BY Idle DEF NoScan
<1>2. TypeOK'
  BY <1>1 DEF TypeOK
<1>3. NewTasks' /\ TaskState' /\ BusyMeansAtWork' /\ FreshJudged'
  BY <1>1 DEF NewTasks, TaskState, BusyMeansAtWork, FreshJudged, ToWrite
<1>4. ScanCovers' /\ HealthCovers'
  BY <1>1 DEF ScanCovers, HealthCovers, Rows, ToWrite
<1>. QED  BY <1>2, <1>3, <1>4

LEMMA InvScanBegins ==
    ASSUME IInv, StartScan \/ LoadPool
    PROVE  IInv'
<1> USE DEF IInv
<1>1. CASE StartScan
  <2>1. /\ scan' = [scan EXCEPT !.at = "load"] /\ scan' \in ScanType /\ scan'.at = "load"
        /\ scan'.todo = {} /\ ToWrite(scan'.result) = {}
    BY <1>1 DEF StartScan, TypeOK, ScanType, TaskState, ToWrite
  <2>2. overlapped' \in BOOLEAN
    BY <1>1 DEF StartScan, TypeOK
  <2>3. TypeOK'
    BY <1>1, <2>1, <2>2 DEF StartScan, ScanUnchanged, TypeOK
  <2>4. NewTasks' /\ TaskState' /\ BusyMeansAtWork' /\ FreshJudged'
    BY <1>1, <2>1
    DEF StartScan, ScanUnchanged, TypeOK, NewTasks, TaskState, BusyMeansAtWork, FreshJudged, ToWrite
  <2>5. ScanCovers' /\ HealthCovers'
    BY <1>1, <2>1 DEF StartScan, ScanUnchanged, TypeOK, ScanCovers, HealthCovers, Rows, ToWrite
  <2>. QED  BY <2>3, <2>4, <2>5
<1>2. CASE LoadPool
  <2>1. /\ scan.at = "load" /\ outdated' = FALSE /\ cleared' \in BOOLEAN
        /\ ScanUnchanged /\ UNCHANGED <<scanned, table, overlapped>>
    BY <1>2 DEF LoadPool, TypeOK
  <2>2. CASE ScanBecomes(NoScan)
    BY <2>1, <2>2, InvScanEnds DEF ScanBecomes, NoScan, TypeOK
  <2>3. CASE ScanBecomes([scan EXCEPT !.ips = sources,
                                      !.at = IF sources = {} THEN "mark" ELSE "sync"])
    <3>1. /\ scan' \in ScanType /\ scan'.ips = sources /\ scan'.todo = {}
          /\ scan'.at = IF sources = {} THEN "mark" ELSE "sync"
          /\ ToWrite(scan'.result) = {} /\ scoring' = scoring
      BY <2>1, <2>3 DEF ScanBecomes, TypeOK, ScanType, TaskState, ToWrite
    <3>2. TypeOK'
      BY <2>1, <3>1 DEF ScanUnchanged, TypeOK
    <3>3. NewTasks' /\ TaskState' /\ BusyMeansAtWork' /\ FreshJudged'
      BY <2>1, <3>1 DEF ScanUnchanged, NewTasks, TaskState, BusyMeansAtWork, FreshJudged, ToWrite
    <3>4. ScanCovers' /\ HealthCovers'
      BY <2>1, <3>1 DEF ScanUnchanged, ScanCovers, HealthCovers, Rows, ToWrite
    <3>. QED  BY <3>2, <3>3, <3>4
  <2>. QED  BY <1>2, <2>2, <2>3 DEF LoadPool
<1>. QED  BY <1>1, <1>2

LEMMA InvScanLists ==
    ASSUME IInv, RemoveStale \/ UpsertIps \/ ListStale
    PROVE  IInv'
<1> USE DEF IInv
<1>0. ASSUME scan.at \in {"sync", "upsert"}, UNCHANGED <<health, overlapped>> PROVE HealthCovers'
  <2>1. ~overlapped => health = NoHealth
    BY <1>0 DEF HealthCovers, TaskState
  <2>2. NoHealth.at = "off" /\ NoHealth.todo = {} /\ ToWrite(NoHealth.result) = {}
    BY Idle DEF NoHealth
  <2>. QED  BY <1>0, <2>1, <2>2 DEF HealthCovers, ToWrite
<1>1. CASE RemoveStale
  <2>1. /\ scan'.at = "upsert" /\ scan' \in ScanType /\ scan'.ips = scan.ips /\ scan'.todo = {}
        /\ ToWrite(scan'.result) = {} /\ scoring' = scoring
    BY <1>1 DEF RemoveStale, ScanBecomes, TypeOK, ScanType, TaskState, ToWrite
  <2>2. /\ row' \in [Ips -> {"absent", "pending", "approved", "rejected"}]
        /\ \A ip \in Ips : row'[ip] # "absent" => ip \in scan.ips
        /\ \A ip \in scan.ips : row'[ip] = row[ip]
    BY <1>1 DEF RemoveStale, StaleRemoved, TypeOK, ScanType
  <2>3. /\ scan.at = "sync" /\ fresh' = fresh \cap scan.ips /\ ScanUnchanged
        /\ UNCHANGED <<scanned, hist>>
    BY <1>1 DEF RemoveStale
  <2>4. TypeOK'
    BY <2>1, <2>2, <2>3 DEF ScanUnchanged, TypeOK
  <2>5. NewTasks' /\ TaskState' /\ BusyMeansAtWork'
    BY <2>1, <2>3 DEF ScanUnchanged, NewTasks, TaskState, BusyMeansAtWork, ToWrite
  <2>6. FreshJudged'
    BY <2>2, <2>3 DEF FreshJudged
  <2>7. ScanCovers'
    BY <2>1, <2>2 DEF ScanCovers, Rows
  <2>. QED  BY <1>0, <2>3, <2>4, <2>5, <2>6, <2>7 DEF ScanUnchanged
<1>2. CASE UpsertIps
  <2>1. CASE ~exists
    BY <1>2, <2>1, InvScanEnds DEF UpsertIps, ScanBecomes, NoScan, TypeOK
  <2>2. CASE exists
    <3>1. /\ scan'.at = "list" /\ scan' \in ScanType /\ scan'.ips = scan.ips /\ scan'.todo = {}
          /\ ToWrite(scan'.result) = {} /\ scoring' = scoring
      BY <1>2, <2>2 DEF UpsertIps, ScanBecomes, TypeOK, ScanType, TaskState, ToWrite
    <3>2. /\ row' \in [Ips -> {"absent", "pending", "approved", "rejected"}]
          /\ \A ip \in Ips : row'[ip] # "absent" <=> ip \in Rows \cup scan.ips
          /\ \A ip \in Ips : row[ip] # "absent" => row'[ip] = row[ip]
      BY <1>2, <2>2 DEF UpsertIps, Upserted, TypeOK, ScanType, Rows
    <3>3. /\ scan.at = "upsert" /\ cleared' = FALSE /\ ScanUnchanged
          /\ UNCHANGED <<scanned, fresh, outdated, overlapped>>
      BY <1>2, <2>2 DEF UpsertIps
    <3>4. TypeOK'
      BY <3>1, <3>2, <3>3 DEF ScanUnchanged, TypeOK
    <3>5. NewTasks' /\ TaskState' /\ BusyMeansAtWork'
      BY <3>1, <3>3 DEF ScanUnchanged, NewTasks, TaskState, BusyMeansAtWork, ToWrite
    <3>6. FreshJudged'
      BY <3>2, <3>3 DEF FreshJudged, TypeOK
    <3>7. ScanCovers'
      <4>1. Rows' = Rows \cup scan.ips
        BY <3>2 DEF Rows, TypeOK, ScanType
      <4>. QED  BY <3>1, <3>3, <4>1 DEF ScanCovers
    <3>. QED  BY <1>0, <3>3, <3>4, <3>5, <3>6, <3>7 DEF ScanUnchanged
  <2>. QED  BY <2>1, <2>2
<1>3. CASE ListStale
  <2>1. /\ scan.at = "list" /\ ScanUnchanged /\ UNCHANGED <<scanned, table, hist>>
        /\ scan' = [scan EXCEPT !.todo = Rows \ fresh,
                                !.at = IF Rows \ fresh = {} THEN "mark" ELSE "ping"]
        /\ scoring' = scoring
    BY <1>3 DEF ListStale, ScanBecomes, TypeOK, ScanType
  <2>2. /\ scan' \in ScanType /\ scan'.ips = scan.ips /\ scan'.todo = Rows \ fresh
        /\ scan'.at = IF Rows \ fresh = {} THEN "mark" ELSE "ping"
        /\ scan'.skipped = scan.skipped /\ ToWrite(scan'.result) = {}
    BY <2>1 DEF TypeOK, ScanType, TaskState, ToWrite, Rows
  <2>3. TypeOK'
    BY <2>1, <2>2 DEF ScanUnchanged, TypeOK
  <2>4. NewTasks' /\ TaskState' /\ BusyMeansAtWork' /\ FreshJudged'
    BY <2>1, <2>2 DEF ScanUnchanged, NewTasks, TaskState, BusyMeansAtWork, FreshJudged, ToWrite
  <2>5. ScanCovers'
    <3>1. \A ip \in Ips : row[ip] = "pending" => ip \in scan'.todo
      BY <2>2 DEF FreshJudged, Rows
    <3>2. Rows' = Rows
      BY <2>1 DEF Rows
    <3>. QED  BY <2>1, <2>2, <3>1, <3>2 DEF ScanCovers
  <2>6. HealthCovers'
    BY <2>1, <2>2 DEF ScanUnchanged, HealthCovers, ToWrite
  <2>. QED  BY <2>3, <2>4, <2>5, <2>6
<1>. QED  BY <1>1, <1>2, <1>3

LEMMA InvScanBatch ==
    ASSUME IInv, ScanBatch
    PROVE  IInv'
<1> USE DEF IInv
<1>0. PICK b \in NextBatches(scan.todo) : \E r \in Measured(b) :
        ScanBecomes([scan EXCEPT !.at = "write", !.todo = @ \ b, !.result = r])
  BY DEF ScanBatch
<1>1. PICK r \in Measured(b) :
        ScanBecomes([scan EXCEPT !.at = "write", !.todo = @ \ b, !.result = r])
  BY <1>0
<1>2. b \subseteq scan.todo /\ r \in [Ips -> Results] /\ ToWrite(r) = b
  BY Batches DEF TypeOK, ScanType
<1>3. /\ scan' \in ScanType /\ scan'.at = "write" /\ scan'.ips = scan.ips
      /\ scan'.todo = scan.todo \ b /\ scan'.result = r /\ scan'.skipped = scan.skipped
      /\ scoring' = scoring
  BY <1>1, <1>2 DEF ScanBecomes, TypeOK, ScanType
<1>4. scan.at = "ping" /\ ScanUnchanged /\ UNCHANGED <<scanned, table, hist>>
  BY DEF ScanBatch
<1>5. TypeOK'
  BY <1>3, <1>4 DEF ScanUnchanged, TypeOK
<1>6. NewTasks' /\ TaskState' /\ BusyMeansAtWork' /\ FreshJudged'
  BY <1>3, <1>4 DEF ScanUnchanged, NewTasks, TaskState, BusyMeansAtWork, FreshJudged
<1>7. ScanCovers'
  <2>1. Rows' = Rows
    BY <1>4 DEF Rows
  <2>2. scan'.todo \cup ToWrite(scan'.result) \cup scan'.skipped
          = scan.todo \cup scan.skipped
    BY <1>2, <1>3
  <2>3. ToWrite(scan.result) = {}
    BY <1>4 DEF TaskState
  <2>. QED  BY <1>3, <1>4, <2>1, <2>2, <2>3 DEF ScanCovers
<1>8. HealthCovers'
  BY <1>3, <1>4 DEF ScanUnchanged, HealthCovers, ToWrite
<1>. QED  BY <1>5, <1>6, <1>7, <1>8

LEMMA InvScanWrites ==
    ASSUME IInv, NEW ip \in Ips, ScanWrites(ip)
    PROVE  IInv'
<1> USE DEF IInv
<1> DEFINE left == ToWrite(scan.result) \ {ip}
           at == IF left # {} THEN "write" ELSE IF scan.todo = {} THEN "mark" ELSE "ping"
<1>1. /\ scan.at = "write" /\ ip \in ToWrite(scan.result) /\ Store(ip, scan.result[ip])
      /\ ScanUnchanged /\ UNCHANGED <<scanned, hist>>
  BY DEF ScanWrites
<1>2. scan.result \in [Ips -> Results] /\ scan.result[ip] \in Results
  BY DEF TypeOK, ScanType
<1>3. /\ scan' \in ScanType /\ scan'.ips = scan.ips /\ scan'.todo = scan.todo
      /\ scan'.at = at /\ scan'.result = [scan.result EXCEPT ![ip] = "none"]
      /\ scan'.skipped = IF scan.result[ip] = "unknown" THEN scan.skipped \cup {ip} ELSE scan.skipped
      /\ scoring' = scoring
  <2>1. ScanBecomes([scan EXCEPT !.result[ip] = "none",
            !.skipped = IF scan.result[ip] = "unknown" THEN @ \cup {ip} ELSE @,
            !.at = at])
    BY <1>1 DEF ScanWrites
  <2>2. at \in {"write", "mark", "ping"}
    OBVIOUS
  <2> HIDE DEF at
  <2>. QED  BY <1>2, <2>1, <2>2 DEF ScanBecomes, TypeOK, ScanType, Results
<1>4. ToWrite(scan'.result) = left
  BY <1>2, <1>3, CrossedOff
<1>5. /\ row' \in [Ips -> {"absent", "pending", "approved", "rejected"}] /\ fresh' \in SUBSET Ips
      /\ FreshJudged' /\ \A k \in Ips \ {ip} : row'[k] = row[k]
      /\ row'[ip] = "absent" <=> row[ip] = "absent"
      /\ scan.result[ip] # "unknown" => row'[ip] # "pending"
      /\ row'[ip] = "pending" => row[ip] = "pending"
  BY <1>1, <1>2, Stores
<1>6. TypeOK'
  BY <1>1, <1>3, <1>5 DEF ScanUnchanged, TypeOK
<1>7. NewTasks' /\ TaskState' /\ BusyMeansAtWork'
  BY <1>1, <1>3, <1>4 DEF ScanUnchanged, NewTasks, TaskState, BusyMeansAtWork
<1>8. ScanCovers'
  <2>1. Rows' = Rows
    BY <1>5 DEF Rows, TypeOK
  <2>2. \A k \in Ips : row'[k] = "pending" => row[k] = "pending"
    BY <1>5
  <2>3. ASSUME scan.ips # {}, ~outdated, NEW k \in Ips, row'[k] = "pending"
        PROVE  k \in scan'.todo \cup ToWrite(scan'.result) \cup scan'.skipped
    <3>1. k \in scan.todo \cup ToWrite(scan.result) \cup scan.skipped
      BY <1>1, <2>2, <2>3 DEF ScanCovers
    <3>2. k = ip => k \in scan'.skipped
      BY <1>3, <1>5, <2>3
    <3>. QED  BY <1>3, <1>4, <3>1, <3>2
  <2>. QED  BY <1>1, <1>3, <2>1, <2>3 DEF ScanCovers
<1>9. HealthCovers'
  <2>1. ~overlapped => health = NoHealth
    BY <1>1 DEF HealthCovers, TaskState
  <2>2. NoHealth.at = "off" /\ NoHealth.todo = {} /\ ToWrite(NoHealth.result) = {}
    BY Idle DEF NoHealth
  <2>. QED  BY <1>1, <2>1, <2>2 DEF ScanUnchanged, HealthCovers, ToWrite
<1>. QED  BY <1>5, <1>6, <1>7, <1>8, <1>9

LEMMA InvScan ==
    ASSUME IInv, ScanStep
    PROVE  IInv'
<1>1. CASE MarkScanned
  <2>1. scanned' \in BOOLEAN
    BY <1>1 DEF MarkScanned, IInv, TypeOK
  <2>. QED  BY <1>1, <2>1, InvScanEnds DEF MarkScanned, ScanBecomes, NoScan, IInv, TypeOK
<1>2. CASE ScanRaises
  BY <1>2, InvScanEnds DEF ScanRaises, ScanBecomes, NoScan, IInv, TypeOK
<1>. QED  BY <1>1, <1>2, InvScanBegins, InvScanLists, InvScanBatch, InvScanWrites DEF ScanStep

\* A health check that is over, or broken off, leaves nothing behind.
LEMMA InvHealthEnds ==
    ASSUME IInv, health' = NoHealth, checking' = FALSE, health.at \notin {"off", "new"},
           HealthUnchanged, UNCHANGED <<rested, overlapped>>,
           row' \in [Ips -> {"absent", "pending", "approved", "rejected"}], fresh' \in SUBSET Ips,
           FreshJudged', Rows' = Rows,
           \A ip \in Ips : row'[ip] = "pending" => row[ip] = "pending"
    PROVE  IInv'
<1> USE DEF IInv, HealthUnchanged
<1>1. /\ health' \in HealthType /\ health'.at = "off" /\ health'.todo = {}
      /\ ToWrite(health'.result) = {}
  BY Idle DEF NoHealth
<1>2. TypeOK'
  BY <1>1 DEF TypeOK
<1>3. NewTasks' /\ TaskState' /\ BusyMeansAtWork'
  BY <1>1 DEF NewTasks, TaskState, BusyMeansAtWork, ToWrite
<1>4. ScanCovers' /\ HealthCovers'
  BY <1>1 DEF ScanCovers, HealthCovers, ToWrite
<1>. QED  BY <1>2, <1>3, <1>4

LEMMA InvHealthReads ==
    ASSUME IInv, StartHealth \/ LoadApproved \/ HealthBatch \/ HealthRaises
    PROVE  IInv'
<1> USE DEF IInv
<1>0. FreshJudged' /\ Rows' = Rows /\ HealthUnchanged /\ UNCHANGED <<table, overlapped>>
  BY DEF StartHealth, LoadApproved, HealthBatch, HealthRaises, FreshJudged, Rows
<1>1. ASSUME health' \in HealthType, health'.at \notin {"off", "new"}, checking' = TRUE,
             rested' \in BOOLEAN, health.at # "off",
             ToWrite(health'.result) # {} => health'.at = "write",
             health'.todo \cap ToWrite(health'.result) = {},
             \A ip \in health'.todo \cup ToWrite(health'.result) :
                ip \in health.todo \cup ToWrite(health.result) \/ row[ip] = "approved"
      PROVE  IInv'
  <2>1. TypeOK'
    BY <1>0, <1>1 DEF HealthUnchanged, TypeOK
  <2>2. NewTasks' /\ TaskState' /\ BusyMeansAtWork'
    BY <1>0, <1>1 DEF HealthUnchanged, NewTasks, TaskState, BusyMeansAtWork, ToWrite
  <2>3. ScanCovers' /\ HealthCovers'
    BY <1>0, <1>1 DEF HealthUnchanged, ScanCovers, HealthCovers, ToWrite
  <2>. QED  BY <1>0, <2>1, <2>2, <2>3
<1>2. CASE StartHealth
  <2>1. /\ health' \in HealthType /\ health'.at = "load" /\ health.at = "new"
        /\ health'.todo = health.todo /\ health'.result = health.result
        /\ checking' = TRUE /\ rested' = TRUE
    BY <1>2 DEF StartHealth, TypeOK, HealthType
  <2>. QED  BY <1>1, <2>1 DEF TaskState
<1>3. CASE LoadApproved
  <2>1. health.at = "load" /\ UNCHANGED <<table, rested, overlapped>> /\ checking = TRUE
    BY <1>3 DEF LoadApproved, BusyMeansAtWork, TypeOK
  <2>2. CASE HealthBecomes(NoHealth)
    BY <1>0, <2>1, <2>2, InvHealthEnds DEF HealthBecomes, NoHealth, TypeOK
  <2>3. CASE HealthBecomes([health EXCEPT !.at = "ping", !.todo = Approved])
    <3>1. /\ health' \in HealthType /\ health'.at = "ping" /\ health'.todo = Approved
          /\ health'.result = health.result /\ checking' = TRUE /\ rested' = rested
      BY <2>1, <2>3 DEF HealthBecomes, TypeOK, HealthType, Approved
    <3>2. ToWrite(health'.result) = {} /\ rested' \in BOOLEAN
      BY <2>1, <3>1 DEF TaskState, TypeOK
    <3>. QED  BY <1>1, <2>1, <3>1, <3>2 DEF Approved
  <2>. QED  BY <1>3, <2>2, <2>3 DEF LoadApproved
<1>4. CASE HealthBatch
  <2>1. PICK b \in NextBatches(health.todo) : \E r \in Measured(b) :
          HealthBecomes([health EXCEPT !.at = "write", !.todo = @ \ b, !.result = r])
    BY <1>4 DEF HealthBatch
  <2>2. PICK r \in Measured(b) :
          HealthBecomes([health EXCEPT !.at = "write", !.todo = @ \ b, !.result = r])
    BY <2>1
  <2>3. b \subseteq health.todo /\ r \in [Ips -> Results] /\ ToWrite(r) = b
    BY Batches DEF TypeOK, HealthType
  <2>4. health.at = "ping" /\ UNCHANGED <<table, rested, overlapped>> /\ checking = TRUE
    BY <1>4 DEF HealthBatch, BusyMeansAtWork, TypeOK
  <2>5. /\ health' \in HealthType /\ health'.at = "write" /\ health'.todo = health.todo \ b
        /\ health'.result = r /\ checking' = TRUE /\ rested' \in BOOLEAN
    BY <2>2, <2>3, <2>4 DEF HealthBecomes, TypeOK, HealthType
  <2>. QED  BY <1>1, <2>3, <2>4, <2>5
<1>5. CASE HealthRaises
  BY <1>0, <1>5, InvHealthEnds DEF HealthRaises, HealthBecomes, NoHealth, TypeOK
<1>. QED  BY <1>2, <1>3, <1>4, <1>5

LEMMA InvHealthWrites ==
    ASSUME IInv, NEW ip \in Ips, HealthWrites(ip)
    PROVE  IInv'
<1> USE DEF IInv
<1> DEFINE left == ToWrite(health.result) \ {ip}
           on   == [health EXCEPT !.result[ip] = "none",
                                  !.at = IF left = {} THEN "ping" ELSE "write"]
<1>1. /\ health.at = "write" /\ ip \in ToWrite(health.result) /\ Store(ip, health.result[ip])
      /\ HealthBecomes(IF left = {} /\ health.todo = {} THEN NoHealth ELSE on)
      /\ HealthUnchanged /\ UNCHANGED <<rested, overlapped>> /\ checking = TRUE
  BY DEF HealthWrites, BusyMeansAtWork, TypeOK
<1>2. health.result \in [Ips -> Results] /\ health.result[ip] \in Results
  BY DEF TypeOK, HealthType
<1>3. /\ row' \in [Ips -> {"absent", "pending", "approved", "rejected"}] /\ fresh' \in SUBSET Ips
      /\ FreshJudged' /\ \A k \in Ips \ {ip} : row'[k] = row[k]
      /\ row'[ip] = "absent" <=> row[ip] = "absent"
      /\ row'[ip] = "pending" => row[ip] = "pending"
  BY <1>1, <1>2, Stores
<1>4. /\ \A k \in Ips : row'[k] = "pending" => row[k] = "pending"
      /\ Rows' = Rows
  BY <1>3 DEF Rows, TypeOK
<1>5. CASE left = {} /\ health.todo = {}
  BY <1>1, <1>3, <1>4, <1>5, InvHealthEnds DEF HealthBecomes, NoHealth
<1>6. CASE ~(left = {} /\ health.todo = {})
  <2>1. /\ health' \in HealthType /\ health'.todo = health.todo
        /\ health'.at = IF left = {} THEN "ping" ELSE "write"
        /\ health'.result = [health.result EXCEPT ![ip] = "none"] /\ checking' = TRUE
    BY <1>1, <1>2, <1>6 DEF HealthBecomes, TypeOK, HealthType, Results
  <2>2. ToWrite(health'.result) = left
    BY <1>2, <2>1, CrossedOff
  <2>3. TypeOK'
    BY <1>1, <1>3, <2>1 DEF HealthUnchanged, TypeOK
  <2>4. NewTasks' /\ TaskState' /\ BusyMeansAtWork'
    BY <1>1, <2>1, <2>2 DEF HealthUnchanged, NewTasks, TaskState, BusyMeansAtWork, ToWrite
  <2>5. ScanCovers'
    BY <1>1, <1>4 DEF HealthUnchanged, ScanCovers, ToWrite
  <2>6. HealthCovers'
    <3>1. \A k \in health'.todo \cup left : k \in Ips \ {ip}
      BY <1>1, <2>1 DEF TaskState, ToWrite, TypeOK, HealthType
    <3>. QED  BY <1>1, <1>3, <2>1, <2>2, <3>1 DEF HealthUnchanged, HealthCovers, Scanning
  <2>. QED  BY <1>3, <2>3, <2>4, <2>5, <2>6
<1>. QED  BY <1>5, <1>6

LEMMA InvNext == IInv /\ [Next]_vars => IInv'
<1> SUFFICES ASSUME IInv, [Next]_vars PROVE IInv'
  OBVIOUS
<1>1. CASE UNCHANGED vars
  BY <1>1 DEF vars, IInv, TypeOK, NewTasks, TaskState, BusyMeansAtWork, FreshJudged, ScanCovers,
              HealthCovers, Rows, ToWrite
<1>2. CASE HealthStep
  BY <1>2, InvHealthReads, InvHealthWrites DEF HealthStep
<1>3. CASE ScanStep
  BY <1>3, InvScan
<1>. QED  BY <1>1, <1>2, <1>3, InvLoop, InvOutside DEF Next

LEMMA Invariance == Spec => []IInv
BY InvInit, InvNext, PTL DEF Spec

-----------------------------------------------------------------------------
(* The theorems.                                                           *)

\* Type correctness (ip_pool_scorer 109-310).
THEOREM TypesHold == Spec => []TypeOK
<1>1. IInv => TypeOK
  BY DEF IInv
<1>. QED  BY <1>1, Invariance, PTL

\* The pool is in _scoring_pools and in _health_checking_pools exactly while a
\* task is at work on it, whatever raises (ip_pool_scorer 138-158).
THEOREM BusyHolds == Spec => []BusyMeansAtWork
<1>1. IInv => BusyMeansAtWork
  BY DEF IInv
<1>. QED  BY <1>1, Invariance, PTL

\* A scan that has come to its end, undisturbed, leaves exactly the addresses of
\* the sets and has judged all that it did not skip (ip_pool_scorer 240-310).
THEOREM ScansSettle == Spec => []EndedScanSettles
<1>1. IInv => EndedScanSettles
  BY DEF IInv, TaskState, ScanCovers, EndedScanSettles, Rows, ToWrite
<1>. QED  BY <1>1, Invariance, PTL

\* No pool is scanned twice at a time, health-checked twice, or health-checked
\* while it is scanned at the start (ip_pool_scorer 90-106, 138-158).
THEOREM OneTaskEach == Spec => TasksDoNotPile
<1>1. ASSUME IInv, [Next]_vars
      PROVE  [/\ scan.at # "new" /\ scan'.at = "new" => ~Scanning
              /\ health.at # "new" /\ health'.at = "new" => health.at = "off" /\ ~Scanning]_vars
  <2> USE <1>1 DEF IInv, BusyMeansAtWork, NewTasks, Scanning
  <2>1. CASE UNCHANGED vars
    BY <2>1 DEF vars
  <2>2. CASE LoopReadsDue \/ LoopScans \/ LoopChecks
    BY <2>2 DEF LoopReadsDue, LoopScans, LoopChecks, NoTaskIsNew
  <2>3. CASE ScanStep
    BY <2>3 DEF ScanStep, ScanUnchanged, ScanBecomes, StartScan, LoadPool, RemoveStale, UpsertIps,
                ListStale, ScanBatch, ScanWrites, MarkScanned, ScanRaises, NoScan, TypeOK, ScanType
  <2>4. CASE HealthStep
    BY <2>4 DEF HealthStep, HealthUnchanged, HealthBecomes, StartHealth, LoadApproved, HealthBatch,
                HealthWrites, HealthRaises, NoHealth, TypeOK, HealthType
  <2>. QED  BY <2>1, <2>2, <2>3, <2>4
       DEF Next, OutsideUnchanged, PressScan, PressClear, DeletePool, DeleteSet, IntervalElapses,
           HealthFallsDue, RowAges, Crash, NoScan, NoHealth
<1>. QED  BY <1>1, Invariance, PTL DEF Spec, TasksDoNotPile

\* A health check approves nothing that was not approved, unless a scan has run
\* beside it ("Non-approved IPs are not touched", ip_pool_scorer 165-167).
THEOREM HealthChecksRevoke == Spec => HealthCheckOnlyRevokes
<1>1. ASSUME IInv, [Next]_vars
      PROVE  [health.at = "write" /\ health' # health =>
                \A ip \in Ips : row'[ip] = "approved" => row[ip] = "approved" \/ overlapped]_vars
  <2> SUFFICES ASSUME health.at = "write", health' # health, ~overlapped, NEW k \in Ips,
                      row'[k] = "approved"
               PROVE  row[k] = "approved"
    OBVIOUS
  <2> USE <1>1 DEF IInv
  <2>1. CASE UNCHANGED vars
    BY <2>1 DEF vars
  <2>2. CASE LoopChecks
    BY <2>2 DEF LoopChecks
  <2>3. CASE Crash
    BY <2>3 DEF Crash
  <2>4. ASSUME NEW ip \in Ips, HealthWrites(ip) PROVE row[k] = "approved"
    <3>1. row[ip] \in {"approved", "absent"} /\ Store(ip, health.result[ip])
      BY <2>4 DEF HealthWrites, HealthCovers
    <3>. QED  BY <3>1 DEF Store, TypeOK
  <2>5. CASE HealthRaises
    BY <2>5 DEF HealthRaises
  <2>6. CASE StartHealth \/ LoadApproved \/ HealthBatch
    BY <2>6 DEF StartHealth, LoadApproved, HealthBatch
  <2>7. CASE ScanStep
    BY <2>7 DEF ScanStep, ScanUnchanged, StartScan, LoadPool, RemoveStale, UpsertIps, ListStale,
                ScanBatch, ScanWrites, MarkScanned, ScanRaises
  <2>. QED  BY <2>1, <2>2, <2>3, <2>4, <2>5, <2>6, <2>7
       DEF Next, HealthStep, OutsideUnchanged, LoopReadsDue, LoopScans, PressScan, PressClear,
           DeletePool, DeleteSet, IntervalElapses, HealthFallsDue, RowAges
<1>. QED  BY <1>1, Invariance, PTL DEF Spec, HealthCheckOnlyRevokes

\* An undisturbed scan of a cleared pool has yet to rebuild it.
ClearedAhead == cleared /\ ~outdated => scan.at \in {"off", "new", "load", "sync", "upsert"}

LEMMA ClearedAheadNext ==
    ASSUME IInv, ClearedAhead, [Next]_vars
    PROVE  ClearedAhead' /\ (cleared /\ cleared' /\ Due /\ ~outdated => Due')
<1> USE DEF ClearedAhead, Due
<1>1. CASE UNCHANGED vars
  BY <1>1 DEF vars
<1>2. CASE LoopReadsDue \/ LoopScans \/ LoopChecks
  BY <1>2, Idle DEF LoopReadsDue, LoopScans, LoopChecks, NoScan
<1>3. CASE ScanStep
  <2>1. CASE StartScan
    BY <2>1 DEF StartScan, ScanUnchanged, IInv, TypeOK, ScanType
  <2>2. CASE LoadPool
    BY <2>2 DEF LoadPool, ScanUnchanged, ScanBecomes, NoScan, IInv, TypeOK, ScanType
  <2>3. CASE RemoveStale
    BY <2>3 DEF RemoveStale, ScanUnchanged, ScanBecomes, IInv, TypeOK, ScanType
  <2>4. CASE UpsertIps
    BY <2>4 DEF UpsertIps, ScanUnchanged, ScanBecomes, NoScan
  <2>5. CASE MarkScanned
    BY <2>5 DEF MarkScanned, ScanUnchanged, ScanBecomes, NoScan
  <2>6. CASE ScanRaises
    BY <2>6 DEF ScanRaises, ScanUnchanged, ScanBecomes, NoScan
  <2>7. CASE ListStale \/ ScanBatch
    <3>1. scan.at \in {"list", "ping"} /\ ScanUnchanged /\ UNCHANGED <<scanned, hist>>
      BY <2>7 DEF ListStale, ScanBatch
    <3>. QED  BY <3>1 DEF ScanUnchanged
  <2>8. ASSUME NEW ip \in Ips, ScanWrites(ip)
        PROVE  ClearedAhead' /\ (cleared /\ cleared' /\ Due /\ ~outdated => Due')
    BY <2>8 DEF ScanWrites, ScanUnchanged
  <2>. QED  BY <1>3, <2>1, <2>2, <2>3, <2>4, <2>5, <2>6, <2>7, <2>8 DEF ScanStep
<1>4. CASE HealthStep
  <2>1. HealthUnchanged
    BY <1>4 DEF HealthStep, StartHealth, LoadApproved, HealthBatch, HealthWrites, HealthRaises
  <2>. QED  BY <2>1 DEF HealthUnchanged
<1>5. CASE PressClear
  BY <1>5 DEF PressClear, OutsideUnchanged, Scanning, IInv, TypeOK
<1>6. CASE DeletePool
  BY <1>6 DEF DeletePool, OutsideUnchanged
<1>7. CASE Crash
  BY <1>7 DEF Crash, NoScan
<1>. QED  BY <1>1, <1>2, <1>3, <1>4, <1>5, <1>6, <1>7
     DEF Next, OutsideUnchanged, PressScan, DeleteSet, IntervalElapses, HealthFallsDue, RowAges

\* A pool cleared while no scan was at work stays due until it is rebuilt
\* (managed_pool_service 196-215, ip_pool_scorer 253-310).
THEOREM ClearedIsRebuilt == Spec => ClearedStaysDueUnlessScanning
<1>1. Init => ClearedAhead
  BY DEF Init, ClearedAhead
<1>2. IInv /\ ClearedAhead /\ [Next]_vars => ClearedAhead'
  BY ClearedAheadNext
<1>3. IInv /\ ClearedAhead /\ [Next]_vars
        => [cleared /\ cleared' /\ Due /\ ~outdated => Due']_vars
  BY ClearedAheadNext
<1>. QED  BY <1>1, <1>2, <1>3, Invariance, PTL DEF Spec, ClearedStaysDueUnlessScanning

\* A result that costs an address its approval is a failed check of that address.
LEMMA StoreRevokes ==
    ASSUME TypeOK, NEW k \in Ips, NEW result \in Results, result # "none", Store(k, result),
           NEW ip \in Ips, row[ip] = "approved", row'[ip] # "approved"
    PROVE  ip = k /\ result = "fail"
BY DEF Store, TypeOK, Results

\* No scan and no health check takes the approval of an address but for a check of
\* it that failed, or its removal from the sets (ip_pool_scorer 209-236, 253-300).
THEOREM NoApprovalIsLost == Spec => ApprovalLostForCause
<1>1. ASSUME IInv, [Next]_vars
      PROVE  [\A ip \in Approved : row'[ip] # "approved" =>
                 \/ UNCHANGED <<scan, health>>
                 \/ scan.at = "sync" /\ ip \notin scan.ips
                 \/ scan.result[ip] = "fail" /\ scan'.result[ip] = "none"
                 \/ health.result[ip] = "fail" /\ health'.result[ip] = "none"]_vars
  <2> USE <1>1 DEF IInv
  <2> SUFFICES ASSUME NEW ip \in Ips, row[ip] = "approved", row'[ip] # "approved",
                      ~UNCHANGED <<scan, health>>
               PROVE  \/ scan.at = "sync" /\ ip \notin scan.ips
                      \/ scan.result[ip] = "fail" /\ scan'.result[ip] = "none"
                      \/ health.result[ip] = "fail" /\ health'.result[ip] = "none"
    BY DEF Approved
  <2>1. CASE RemoveStale
    BY <2>1 DEF RemoveStale, StaleRemoved
  <2>2. CASE UpsertIps
    BY <2>2 DEF UpsertIps, Upserted
  <2>3. ASSUME NEW k \in Ips, ScanWrites(k)
        PROVE  scan.result[ip] = "fail" /\ scan'.result[ip] = "none"
    <3>1. scan.result \in [Ips -> Results] /\ scan.result[k] # "none" /\ Store(k, scan.result[k])
      BY <2>3 DEF ScanWrites, ToWrite, TypeOK, ScanType
    <3>2. ip = k /\ scan.result[k] = "fail"
      BY <3>1, StoreRevokes
    <3>3. scan'.result = [scan.result EXCEPT ![k] = "none"]
      BY <2>3 DEF ScanWrites, ScanBecomes, TypeOK, ScanType
    <3>. QED  BY <3>1, <3>2, <3>3
  <2>4. ASSUME NEW k \in Ips, HealthWrites(k)
        PROVE  health.result[ip] = "fail" /\ health'.result[ip] = "none"
    <3>1. /\ health.result \in [Ips -> Results] /\ health.result[k] # "none"
          /\ Store(k, health.result[k])
      BY <2>4 DEF HealthWrites, ToWrite, TypeOK, HealthType
    <3>2. ip = k /\ health.result[k] = "fail"
      BY <3>1, StoreRevokes
    <3>3. health'.result \in {NoResult, [health.result EXCEPT ![k] = "none"]}
      BY <2>4 DEF HealthWrites, HealthBecomes, NoHealth, TypeOK, HealthType
    <3>. QED  BY <3>1, <3>2, <3>3 DEF NoResult
  <2>5. ~(StartScan \/ LoadPool \/ ListStale \/ ScanBatch \/ MarkScanned \/ ScanRaises)
    <3>1. StartScan \/ LoadPool \/ ListStale \/ ScanBatch \/ MarkScanned \/ ScanRaises
            => UNCHANGED table
      BY Zenon DEF StartScan, LoadPool, ListStale, ScanBatch, MarkScanned, ScanRaises
    <3>. QED  BY <3>1 DEF table
  <2>6. ~(StartHealth \/ LoadApproved \/ HealthBatch \/ HealthRaises)
    <3>1. StartHealth \/ LoadApproved \/ HealthBatch \/ HealthRaises => UNCHANGED table
      BY Zenon DEF StartHealth, LoadApproved, HealthBatch, HealthRaises
    <3>. QED  BY <3>1 DEF table
  <2>7. CASE UNCHANGED vars
    BY <2>7 DEF vars
  <2>. QED  BY <2>1, <2>2, <2>3, <2>4, <2>5, <2>6, <2>7
       DEF Next, ScanStep, HealthStep, OutsideUnchanged, LoopReadsDue, LoopScans, LoopChecks,
           PressScan, PressClear, DeletePool, DeleteSet, IntervalElapses, HealthFallsDue,
           RowAges, Crash
<1>. QED  BY <1>1, Invariance, PTL DEF Spec, ApprovalLostForCause
=============================================================================
