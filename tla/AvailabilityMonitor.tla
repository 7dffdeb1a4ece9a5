------------------------- MODULE AvailabilityMonitor ------------------------
(***************************************************************************)
(* The availability monitor: groups of hosts that share a tag are checked  *)
(* at intervals, and hosts whose address is dead or lossy are moved to an  *)
(* address from the group's IP sets or managed pool.                       *)
(*                                                                         *)
(* All groups here carry the same tag of the same panel, so they work on   *)
(* the same hosts; nothing in the code prevents that.  A step is what runs *)
(* between two awaits.  Time is left open: an interval may elapse, and a   *)
(* cooldown end, at any moment.  What Pingachock answers is left open too. *)
(***************************************************************************)
EXTENDS FiniteSets, Naturals

CONSTANTS
    Groups,   \* automation_groups
    Slots,    \* bound: checks of one group that exist at the same time
    NoIp,
    Batches,  \* how many batches of CHECK_BATCH the candidates make
    Plans,    \* what a behaviour may be about, see the operators named after its fields
    MaxCrashes \* bound: restarts of the process

ASSUME MonitorAssumption ==
    /\ Batches \in Nat \ {0}
    /\ \A p \in Plans :
          /\ NoIp \notin p.ips /\ p.pool \subseteq p.ips
          /\ p.same \subseteq Groups /\ p.managed \subseteq Groups
          /\ p.events \subseteq {"skip", "toggle", "edit", "failure", "lost"}
    /\ MaxCrashes \in Nat

Checks == Groups \X Slots

VARIABLES
    group,       \* automation_groups: "none", "enabled", "disabled" or "deleted"
    due,         \* groups with last_checked_at unset or older than the interval
    addr,        \* Remnawave: the address of every host
    processing,  \* _processing_groups
    cancel,      \* _cancel_flags
    cooling,     \* _get_cooldown_ips of every group
    read,        \* the main loop: due groups it has read and not yet handled
    firing,      \* avail_confirm_create: groups saved, first check not yet fired
    check,       \* the tasks running _process_group
    buttons,     \* groups whose skip button stands in some chat
    aimed,       \* history: checks that were in work when a skip was requested
    hushed,      \* history: of these, the ones that had not ended their search
    crashes,     \* restarts so far
    spoiled,     \* history: what may have put hosts beyond a check's control
    plan         \* the plan this behaviour follows

skipHistory == <<aimed, hushed>>
outside     == <<buttons, crashes>>
vars == <<group, due, addr, processing, cancel, cooling, read, firing, check,
          buttons, skipHistory, crashes, spoiled, plan>>

Hosts   == plan.hosts    \* the hosts with the tag
Ips     == plan.ips
Pool    == plan.pool     \* candidate addresses
Same    == plan.same     \* groups with distribution "same"; the others have "each"
Managed == plan.managed  \* groups that draw on a managed pool; the others on IP sets
Events  == plan.events   \* bound: what may happen besides the checks

CheckPCs == {"off", "new", "load", "hosts", "ping", "alert", "approved", "search",
             "settle", "apply", "update", "edit"}

Searching == {"new", "load", "hosts", "ping", "alert", "approved", "search"}

CheckType ==
    [at : CheckPCs,
     snap : [Hosts -> Ips \cup {NoIp}],  \* tagged_hosts, in "each" mode group_ips
     bad : SUBSET Ips,                   \* all_bad_ips
     todo : SUBSET Hosts,                \* hosts left in the loop under way
     host : SUBSET Hosts,                \* the host being given a new address
     avoid : SUBSET Ips,                 \* cooldown_ips
     batches : 0..Batches,               \* batches left
     pick : Ips \cup {NoIp}]             \* new_ip

TypeOK ==
    /\ group \in [Groups -> {"none", "enabled", "disabled", "deleted"}]
    /\ due \subseteq Groups /\ addr \in [Hosts -> Ips]
    /\ processing \subseteq Groups /\ cancel \subseteq Groups
    /\ cooling \in [Groups -> SUBSET Ips]
    /\ read \subseteq Groups /\ firing \subseteq Groups
    /\ check \in [Checks -> CheckType]
    /\ buttons \subseteq Groups
    /\ aimed \subseteq Checks /\ hushed \subseteq aimed
    /\ crashes \in 0..MaxCrashes
    /\ spoiled \subseteq {"twice", "groups", "failure", "lost", "edit"}

Off == [at |-> "off", snap |-> [h \in Hosts |-> NoIp], bad |-> {}, todo |-> {},
        host |-> {}, avoid |-> {}, batches |-> 0, pick |-> NoIp]

Distinct(a) == \A h, k \in Hosts : a[h] = a[k] => h = k

Init ==
    /\ plan \in Plans
    /\ group = [g \in Groups |-> "none"] /\ due = {}
    /\ addr \in {a \in [Hosts -> Ips] : Distinct(a)}
    /\ processing = {} /\ cancel = {} /\ cooling = [g \in Groups |-> {}]
    /\ read = {} /\ firing = {}
    /\ check = [c \in Checks |-> Off]
    /\ buttons = {} /\ aimed = {} /\ hushed = {} /\ crashes = 0 /\ spoiled = {}

-----------------------------------------------------------------------------
(* Starting checks.                                                        *)

Live(c) == check[c].at # "off"
ChecksOf(g) == {c \in Checks : c[1] = g}

\* create_task for one check of every group in gs.  Nothing registers a task
\* before it runs.
Spawn(gs) ==
    \E slot \in [gs -> Slots] :
        /\ \A g \in gs : ~Live(<<g, slot[g]>>)
        /\ check' = [c \in Checks |-> IF c[1] \in gs /\ c[2] = slot[c[1]]
                                      THEN [Off EXCEPT !.at = "new"] ELSE check[c]]
        /\ spoiled' = spoiled
             \cup (IF \E g \in gs : \E c \in ChecksOf(g) : Live(c) THEN {"twice"} ELSE {})
             \cup (IF \E g \in gs : \E c \in Checks : c[1] # g /\ (Live(c) \/ c[1] \in gs)
                   THEN {"groups"} ELSE {})

\* avail_confirm_create: the group is saved; clearing the dialogue is awaited.
CreateGroup(g) ==
    /\ group[g] = "none"
    /\ group' = [group EXCEPT ![g] = "enabled"]
    /\ due' = due \cup {g} /\ firing' = firing \cup {g}
    /\ UNCHANGED <<addr, processing, cancel, cooling, read, check, outside, skipHistory, spoiled>>

\* run_group_check_now.
FireFirstCheck(g) ==
    /\ g \in firing /\ firing' = firing \ {g}
    /\ IF g \in processing THEN UNCHANGED <<check, spoiled>> ELSE Spawn({g})
    /\ UNCHANGED <<group, due, addr, processing, cancel, cooling, read, outside, skipHistory>>

\* _get_due_groups ...  The loop sleeps between two turns, so a task it created, or
\* found created, has run its first step.
LoopReads ==
    /\ read = {} /\ \A c \in Checks : check[c].at # "new"
    /\ read' = {g \in due : group[g] = "enabled"}
    /\ UNCHANGED <<group, due, addr, processing, cancel, cooling, firing, check, outside,
                   skipHistory, spoiled>>

\* ... and the loop that starts their checks.
LoopFires ==
    /\ read # {} /\ read' = {}
    /\ Spawn(read \ processing)
    /\ UNCHANGED <<group, due, addr, processing, cancel, cooling, firing, outside, skipHistory>>

-----------------------------------------------------------------------------
(* A check.                                                                *)

\* Fault: a group stays in _processing_groups.
BecomesKept(c, r) ==
    /\ check' = [check EXCEPT ![c] = r]
    /\ UNCHANGED <<processing, skipHistory>>

\* The check goes on as r; one that is over leaves _processing_groups.
Becomes(c, r) ==
    /\ check' = [check EXCEPT ![c] = r]
    /\ processing' = IF r.at = "off" THEN processing \ {c[1]} ELSE processing
    /\ aimed' = IF r.at = "off" THEN aimed \ {c} ELSE aimed
    /\ hushed' = IF r.at = "off" THEN hushed \ {c} ELSE hushed

\* The skip request of c's group is taken.
Skips(c, taken) == cancel' = IF taken THEN cancel \ {c[1]} ELSE cancel

\* Fault: the check is not entered in _processing_groups.
StartUnlisted(c) ==
    /\ check[c].at = "new"
    /\ check' = [check EXCEPT ![c].at = "load"]
    /\ UNCHANGED <<group, due, addr, processing, cancel, cooling, read, firing, outside,
                   skipHistory, spoiled>>

StartCheck(c) ==
    /\ check[c].at = "new"
    /\ check' = [check EXCEPT ![c].at = "load"]
    /\ processing' = processing \cup {c[1]}
    /\ UNCHANGED <<group, due, addr, cancel, cooling, read, firing, outside, skipHistory, spoiled>>

\* Fault: the group is not marked as checked.
LoadUnmarked(c) ==
    /\ check[c].at = "load"
    /\ IF group[c[1]] = "enabled"
       THEN \E at \in {"hosts", "off"} : Becomes(c, [Off EXCEPT !.at = at])
       ELSE Becomes(c, Off)
    /\ UNCHANGED <<group, due, addr, cancel, cooling, read, firing, outside, spoiled>>

\* First session.  The panel, or the settings of Pingachock, may be missing.
LoadGroup(c) ==
    /\ check[c].at = "load"
    /\ IF group[c[1]] = "enabled"
       THEN /\ due' = due \ {c[1]}
            /\ \E at \in {"hosts", "off"} : Becomes(c, [Off EXCEPT !.at = at])
       ELSE Becomes(c, Off) /\ UNCHANGED due
    /\ UNCHANGED <<group, addr, cancel, cooling, read, firing, outside, spoiled>>

FetchHosts(c) ==
    /\ check[c].at = "hosts"
    /\ \E r \in {Off, [Off EXCEPT !.at = "ping", !.snap = addr]} : Becomes(c, r)
    /\ UNCHANGED <<group, due, addr, cancel, cooling, read, firing, outside, spoiled>>

Addresses(r) == {r.snap[h] : h \in Hosts}

\* Fault: the cooldown is left out.
ExcludesNoCooling(r) == Addresses(r)

\* What a replacement must not be: an address of the group's hosts, or one that
\* is cooling.
Excluded(r) == Addresses(r) \cup r.avoid

\* Fault: "each" gives every host a new address.
NextHostAny(c, r) ==
    LET managed == c[1] \in Managed
    IN  IF r.todo = {} \/ c[1] \in cancel
        THEN Becomes(c, Off) /\ Skips(c, r.todo # {})
        ELSE /\ UNCHANGED cancel
             /\ \E h \in r.todo :
                  Becomes(c, [r EXCEPT !.todo = @ \ {h}, !.host = {h}, !.pick = NoIp,
                                       !.at = IF managed THEN "approved" ELSE "search",
                                       !.batches = IF managed THEN 0 ELSE Batches - 1])

\* "each": the loop over the hosts up to its next await.  The order of the hosts
\* is the panel's, so it is left open.
NextHost(c, r) ==
    LET ill == {h \in r.todo : r.snap[h] \in r.bad}
        managed == c[1] \in Managed
    IN  IF ill = {} \/ c[1] \in cancel
        THEN Becomes(c, Off) /\ Skips(c, r.todo # {})
        ELSE /\ UNCHANGED cancel
             /\ \E h \in ill, passed \in SUBSET (r.todo \ ill) :
                  Becomes(c, [r EXCEPT !.todo = @ \ (passed \cup {h}), !.host = {h}, !.pick = NoIp,
                                       !.at = IF managed THEN "approved" ELSE "search",
                                       !.batches = IF managed THEN 0 ELSE Batches - 1])

\* The addresses are pinged and their TLS tried, which may leave any of them dead
\* or lossy; these start to cool.
PingHosts(c) ==
    /\ check[c].at = "ping"
    /\ \E bad \in SUBSET Addresses(check[c]) :
         LET hot == cooling[c[1]] \cup bad
             r   == [check[c] EXCEPT !.bad = bad, !.avoid = hot]
         IN  /\ cooling' = [cooling EXCEPT ![c[1]] = hot]
             /\ CASE bad = {} -> Becomes(c, Off) /\ UNCHANGED <<cancel, buttons>>
                  [] bad # {} /\ c[1] \in Same ->
                        /\ Becomes(c, [r EXCEPT !.at = "alert"])
                        /\ buttons' = buttons \cup {c[1]} /\ UNCHANGED cancel
                  [] bad # {} /\ c[1] \notin Same ->
                        NextHost(c, [r EXCEPT !.todo = Hosts]) /\ UNCHANGED buttons
    /\ UNCHANGED <<group, due, addr, read, firing, spoiled, crashes>>

-----------------------------------------------------------------------------
(* The search for a replacement.                                           *)

\* Fault: _replace_ip_for_hosts does not look at the flag after the search.
SearchOverDeaf(c, r, ip) ==
    IF c[1] \in Same
    THEN Becomes(c, [r EXCEPT !.at = "settle", !.batches = 0, !.pick = ip]) /\ UNCHANGED cancel
    ELSE IF ip = NoIp THEN NextHost(c, r)
    ELSE Becomes(c, [r EXCEPT !.at = "update", !.batches = 0, !.pick = ip]) /\ UNCHANGED cancel

\* The search returned ip, or NoIp: "same" takes a skip request now, "each" goes
\* on with the update or with the next host.
SearchOver(c, r, ip) ==
    IF c[1] \in Same
    THEN /\ Skips(c, TRUE)
         /\ Becomes(c, [r EXCEPT !.at = "settle", !.batches = 0,
                                 !.pick = IF c[1] \in cancel THEN NoIp ELSE ip])
    ELSE IF ip = NoIp THEN NextHost(c, r)
    ELSE Becomes(c, [r EXCEPT !.at = "update", !.batches = 0, !.pick = ip]) /\ UNCHANGED cancel

\* Fault: the search does not notice its end.
TryBatchForever(c, r, n) ==
    IF c[1] \in cancel THEN SearchOver(c, r, NoIp)
    ELSE Becomes(c, [r EXCEPT !.at = "search", !.batches = n - 1]) /\ UNCHANGED cancel

\* n batches are left: on to the next one, unless a skip was requested.
TryBatch(c, r, n) ==
    IF n = 0 \/ c[1] \in cancel THEN SearchOver(c, r, NoIp)
    ELSE Becomes(c, [r EXCEPT !.at = "search", !.batches = n - 1]) /\ UNCHANGED cancel

SearchUnchanged ==
    UNCHANGED <<group, due, addr, cooling, read, firing, outside, spoiled>>

\* The alerts are out.  With IP sets the cooldown is read again.
SendAlerts(c) ==
    /\ check[c].at = "alert"
    /\ IF c[1] \in Managed
       THEN Becomes(c, [check[c] EXCEPT !.at = "approved"]) /\ UNCHANGED cancel
       ELSE TryBatch(c, [check[c] EXCEPT !.avoid = cooling[c[1]]], Batches)
    /\ SearchUnchanged

\* get_approved_ips: what is not excluded makes some number of batches.
ReadApproved(c) ==
    /\ check[c].at = "approved"
    /\ \E n \in 0..Batches : TryBatch(c, check[c], n)
    /\ SearchUnchanged

BatchFinds(c) ==
    /\ check[c].at = "search"
    /\ \E ip \in Pool \ Excluded(check[c]) : SearchOver(c, check[c], ip)
    /\ SearchUnchanged

BatchFindsNone(c) ==
    /\ check[c].at = "search"
    /\ TryBatch(c, check[c], check[c].batches)
    /\ SearchUnchanged

\* In _find_replacement_from_pool only PingachockAPIError is handled.
SearchRaises(c) ==
    /\ check[c].at \in {"approved", "search"} /\ c[1] \in Managed
    /\ Becomes(c, Off)
    /\ SearchUnchanged /\ UNCHANGED cancel

\* "same": the ticker has ended.
Settle(c) ==
    /\ check[c].at = "settle"
    /\ Becomes(c, IF check[c].pick = NoIp THEN [check[c] EXCEPT !.at = "edit"]
                  ELSE [check[c] EXCEPT !.at = "apply", !.todo = Hosts])
    /\ SearchUnchanged /\ UNCHANGED cancel

-----------------------------------------------------------------------------
(* Applying it.                                                            *)

\* update_host_address as its caller sees it: done, refused by the panel
\* (RemnaWaveAPIError), or any other exception.  Whatever was raised, the panel
\* may have taken the address.
Patched(h, ip) == addr' = [addr EXCEPT ![h] = ip] /\ UNCHANGED spoiled

PatchFails(h, ip) ==
    \/ "failure" \in Events /\ UNCHANGED addr /\ spoiled' = spoiled \cup {"failure"}
    \/ "lost" \in Events /\ addr' = [addr EXCEPT ![h] = ip] /\ spoiled' = spoiled \cup {"lost"}

ApplyUnchanged == UNCHANGED <<group, due, cooling, read, firing, outside>>

\* Fault: only the first host is updated.
ApplyToFirst(c, h) ==
    /\ check[c].at = "apply" /\ h \in check[c].todo
    /\ LET next == [check[c] EXCEPT !.todo = {}, !.at = "edit"]
       IN  \/ Patched(h, check[c].pick) /\ Becomes(c, next)
           \/ PatchFails(h, check[c].pick) /\ (Becomes(c, next) \/ Becomes(c, Off))
    /\ ApplyUnchanged /\ UNCHANGED cancel

\* "same": the hosts one after the other; a refused update is logged.
ApplyToHost(c, h) ==
    /\ check[c].at = "apply" /\ h \in check[c].todo
    /\ LET left == check[c].todo \ {h}
           next == [check[c] EXCEPT !.todo = left, !.at = IF left = {} THEN "edit" ELSE "apply"]
       IN  \/ Patched(h, check[c].pick) /\ Becomes(c, next)
           \/ PatchFails(h, check[c].pick) /\ (Becomes(c, next) \/ Becomes(c, Off))
    /\ ApplyUnchanged /\ UNCHANGED cancel

\* Fault: the tracking table does not follow the updates.
UpdateUntracked(c) ==
    /\ check[c].at = "update"
    /\ \E h \in check[c].host :
         Patched(h, check[c].pick) /\ NextHost(c, check[c])
    /\ ApplyUnchanged

\* "each": the tracking table follows an update that was done.
UpdateHost(c) ==
    /\ check[c].at = "update"
    /\ \E h \in check[c].host :
         \/ /\ Patched(h, check[c].pick)
            /\ NextHost(c, [check[c] EXCEPT !.snap[h] = check[c].pick])
         \/ PatchFails(h, check[c].pick) /\ NextHost(c, check[c])
         \/ PatchFails(h, check[c].pick) /\ Becomes(c, Off) /\ UNCHANGED cancel
    /\ ApplyUnchanged

\* "same": the alerts get their final text, which removes the button from those
\* that could be edited.
EditAlerts(c) ==
    /\ check[c].at = "edit"
    /\ buttons' \in {buttons, buttons \ {c[1]}}
    /\ Becomes(c, Off)
    /\ UNCHANGED <<group, due, addr, cancel, cooling, read, firing, spoiled, crashes>>

CheckStep(c) ==
    \/ StartCheck(c) \/ LoadGroup(c) \/ FetchHosts(c) \/ PingHosts(c) \/ SendAlerts(c)
    \/ ReadApproved(c) \/ BatchFinds(c) \/ BatchFindsNone(c) \/ SearchRaises(c) \/ Settle(c)
    \/ UpdateHost(c) \/ EditAlerts(c) \/ \E h \in Hosts : ApplyToHost(c, h)

-----------------------------------------------------------------------------
(* People and time.                                                        *)

\* avail_skip_check: a button of an older alert works as well.
PressSkip(g) ==
    /\ "skip" \in Events /\ g \in buttons /\ g \in processing
    /\ cancel' = cancel \cup {g}
    /\ aimed' = aimed \cup {c \in ChecksOf(g) : Live(c)}
    /\ hushed' = hushed \cup {c \in ChecksOf(g) : check[c].at \in Searching}
    /\ UNCHANGED <<group, due, addr, processing, cooling, read, firing, check, outside, spoiled>>

ToggleGroup(g) ==
    /\ "toggle" \in Events /\ group[g] \in {"enabled", "disabled"}
    /\ group' = [group EXCEPT ![g] = IF @ = "enabled" THEN "disabled" ELSE "enabled"]
    /\ UNCHANGED <<due, addr, processing, cancel, cooling, read, firing, check, outside,
                   skipHistory, spoiled>>

DeleteGroup(g) ==
    /\ "toggle" \in Events /\ group[g] \in {"enabled", "disabled"}
    /\ group' = [group EXCEPT ![g] = "deleted"] /\ due' = due \ {g}
    /\ UNCHANGED <<addr, processing, cancel, cooling, read, firing, check, outside,
                   skipHistory, spoiled>>

\* Somebody gives a host another address, in the panel or by the hosts wizard.
EditHost(h) ==
    /\ "edit" \in Events
    /\ \E ip \in Ips : addr' = [addr EXCEPT ![h] = ip]
    /\ spoiled' = spoiled \cup {"edit"}
    /\ UNCHANGED <<group, due, processing, cancel, cooling, read, firing, check, outside, skipHistory>>

IntervalElapses(g) ==
    /\ group[g] \in {"enabled", "disabled"} /\ due' = due \cup {g}
    /\ UNCHANGED <<group, addr, processing, cancel, cooling, read, firing, check, outside,
                   skipHistory, spoiled>>

\* FAILED_IP_COOLDOWN is over for ip.
CooldownEnds(g, ip) ==
    /\ ip \in cooling[g] /\ cooling' = [cooling EXCEPT ![g] = @ \ {ip}]
    /\ UNCHANGED <<group, due, addr, processing, cancel, read, firing, check, outside,
                   skipHistory, spoiled>>

\* The process restarts: what was in memory is gone.
Crash ==
    /\ crashes < MaxCrashes /\ crashes' = crashes + 1
    /\ processing' = {} /\ cancel' = {} /\ cooling' = [g \in Groups |-> {}]
    /\ read' = {} /\ firing' = {} /\ check' = [c \in Checks |-> Off] /\ aimed' = {} /\ hushed' = {}
    /\ UNCHANGED <<group, due, addr, buttons, spoiled>>

Next ==
    /\ UNCHANGED plan
    /\ \/ \E c \in Checks : CheckStep(c)
       \/ LoopReads \/ LoopFires
       \/ \E g \in Groups :
            \/ CreateGroup(g) \/ FireFirstCheck(g) \/ PressSkip(g) \/ ToggleGroup(g)
            \/ DeleteGroup(g) \/ IntervalElapses(g) \/ \E ip \in Ips : CooldownEnds(g, ip)
       \/ \E h \in Hosts : EditHost(h)
       \/ Crash

\* The event loop runs checks, handlers and the main loop, whose body catches
\* every exception.
Fairness ==
    /\ \A c \in Checks : WF_vars(UNCHANGED plan /\ CheckStep(c))
    /\ WF_vars(UNCHANGED plan /\ LoopReads) /\ WF_vars(UNCHANGED plan /\ LoopFires)
    /\ \A g \in Groups : WF_vars(UNCHANGED plan /\ FireFirstCheck(g))

Spec == Init /\ [][Next]_vars
FairSpec == Spec /\ Fairness

-----------------------------------------------------------------------------
(* Properties.                                                             *)

\* _processing_groups holds the "group IDs currently in-flight"
\* (availability_monitor 89), which the skip button and the main loop rely on.
InFlightListed ==
    \A c \in Checks : check[c].at \notin {"off", "new"} => c[1] \in processing

\* It does unless a second check of the same group was created before the first
\* one ran: a check that ends takes the group out whoever else is at work.
InFlightListedUnlessTwice == "twice" \notin spoiled => InFlightListed

\* "Every host in the group must have a unique IP ... so the group never has
\* duplicates" (availability_monitor 398-401): "each" keeps distinct hosts
\* distinct although every replacement is chosen from a table that only this check
\* maintains, unless a second check or somebody else changes the same hosts, or an
\* update that failed took effect.
DistinctUnlessSpoiled ==
    Same = {} /\ spoiled \subseteq {"failure"} => Distinct(addr)

\* "same - one IP applied to every host with the tag" (db/models/automation_group
\* 25): when a replacement has been applied, all hosts have it.
ReplacementReachesAll ==
    \A c \in Checks : check[c].at = "edit" /\ check[c].pick # NoIp =>
        \A h \in Hosts : addr[h] = check[c].pick

\* It has, unless an update failed or somebody else was at work on the hosts.
ReplacementReachesAllUnlessSpoiled == spoiled = {} => ReplacementReachesAll

\* No replacement is an address this group found bad within the cooldown
\* ("prevents A<->B cycling between two bad IPs", availability_monitor 571-576).
ReplacementIsNotCooling ==
    "twice" \notin spoiled =>
        \A c \in Checks : check[c].pick # NoIp => check[c].pick \notin cooling[c[1]]

\* A skip requested before a check of a "same" group has ended its search keeps
\* that check from changing any host.
SkipInTimeIsHonoured ==
    "twice" \notin spoiled =>
        \A c \in hushed : c[1] \in Same => check[c].pick = NoIp

\* The button says "skip this check" and request_skip is there "to stop a running
\* search" (availability_monitor 102): a request is only ever taken by a check
\* that existed when it was made.
SkipHitsItsOwnCheck ==
    [][\A c \in Checks :
          c[1] \in cancel \ cancel' /\ check'[c] # check[c] => c \in aimed]_vars

\* "each" moves a host only off an address this check found bad: what the panel
\* says of the host is what the check believed of it.
EachMovesOnlyBad ==
    [][spoiled' \subseteq {"failure", "lost"} =>
         \A c \in Checks : check[c].at = "update" /\ check'[c] # check[c] =>
             \A h \in Hosts : addr'[h] # addr[h] => addr[h] \in check[c].bad]_vars

\* A group that is due is checked, or is disabled or deleted meanwhile.
DueIsChecked ==
    \A g \in Groups : (g \in due /\ group[g] = "enabled") ~> ~(g \in due /\ group[g] = "enabled")

\* A group is always released again, so it can be checked again.
CheckEnds == \A g \in Groups : (g \in processing) ~> (g \notin processing)
=============================================================================
