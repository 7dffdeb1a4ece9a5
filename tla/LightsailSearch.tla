--------------------------- MODULE LightsailSearch --------------------------
(***************************************************************************)
(* The data plane of the Lightsail searcher for one region config: the     *)
(* static IP addresses AWS holds, the rows of lightsail_static_ips that    *)
(* mirror them, and the one worker (a search or a periodic recheck) that   *)
(* allocates, attaches, checks, rotates and releases addresses.            *)
(*                                                                         *)
(* Every AWS call and every database session is a step of its own; an AWS  *)
(* call may fail at any time.  The worker can be cancelled or die at any   *)
(* await, and the AWS call it was awaiting then still takes effect later   *)
(* or never (`late`).  That at most one worker is at work is what          *)
(* LightsailTasks is about, and is assumed here.                           *)
(*                                                                         *)
(* Names abstract "fcc-<id>-<6 hex digits>", finitely many; a fresh one is  *)
(* never in use.                                                           *)
(***************************************************************************)
EXTENDS Naturals, FiniteSets

CONSTANTS
    Names,        \* names of static IPs
    NoName,
    MaxIps,       \* MAX_STATIC_IPS, 5 in the code
    MaxAttempts,  \* max_attempts of _find_one_replacement, 10 in the code
    Plans         \* bounds of a behaviour: how many static IPs AWS grants the account
                  \* in the region, which events from outside the worker may happen

ASSUME SearchAssumption ==
    /\ NoName \notin Names /\ IsFiniteSet(Names)
    /\ MaxIps \in Nat \ {0} /\ MaxAttempts \in Nat
    /\ Plans \subseteq
          [quota : Nat, events : SUBSET {"pause", "stop", "crash", "late", "target", "manual"}]

VARIABLES
    status, target,  \* lightsail_region_configs
    row,             \* lightsail_static_ips: is_working, or "absent"
    flagged,         \* lightsail_static_ips: rows with is_attached
    held,            \* AWS: the static IPs allocated under this config's prefix
    bound,           \* AWS: the one attached to the instance
    up,              \* AWS: the instance exists and runs
    late,            \* an AWS call whose worker is gone: <<call, name>> or NoCall
    mode, at,        \* the worker: what it runs, and where it is suspended
    new,             \* its candidate address
    cur,             \* the name of the call in progress
    todo, then,      \* names left in the present inner loop, and what follows it
    snap,            \* rows read as attached at the top of the iteration
    adds, dels,      \* what the reconciliation has left to add and to delete
    checks, prev,    \* recheck: rows left to check, the one attached last
    failed, fix,     \* recheck: rows that failed, the one being replaced
    tries,           \* attempts made for it
    stopper,         \* ls_pause / ls_stop: where it is
    doomed, dcur,    \* ls_stop: rows it has left to release, the one in hand
    orphaned,        \* history: held addresses that a failure or an interruption may cost the row
    base,            \* history: working rows when the recheck began
    plan             \* the plan this behaviour follows

dbVars     == <<status, target, row, flagged>>
awsVars    == <<held, bound, up, late>>
syncVars   == <<adds, dels>>
checkVars  == <<checks, prev, failed, fix, tries, base>>
loopVars   == <<new, cur, todo, then, snap>>
workerVars == <<mode, at, loopVars, syncVars, checkVars>>
stopVars   == <<stopper, doomed, dcur>>
vars == <<dbVars, awsVars, workerVars, stopVars, orphaned, plan>>

Quota  == plan.quota
Events == plan.events

Verdicts == {"untested", "good", "bad"}
NoCall   == <<"none", NoName>>
WorkerPCs == {"off", "ensure", "list", "compare", "sync", "loop", "try", "recover",
              "drop", "release", "forget", "alloc", "retry", "add", "clear", "unflag",
              "attach", "flag", "check", "sweep", "sweep2", "delete", "stop",
              "probe", "pattach", "pcheck", "next"}

TypeOK ==
    /\ status \in {"idle", "searching", "paused", "monitoring"}
    /\ target \in 1..MaxIps
    /\ row \in [Names -> Verdicts \cup {"absent"}]
    /\ flagged \subseteq Names /\ held \subseteq Names
    /\ bound \in Names \cup {NoName} /\ up \in BOOLEAN
    /\ late \in {NoCall} \cup {"allocate", "release", "attach", "detach"} \X Names
    /\ mode \in {"off", "search", "recheck"} /\ at \in WorkerPCs
    /\ new \in Names \cup {NoName} /\ cur \in Names \cup {NoName}
    /\ todo \subseteq Names /\ then \in WorkerPCs /\ snap \subseteq Names
    /\ adds \subseteq Names /\ dels \subseteq Names
    /\ checks \subseteq Names /\ prev \in Names \cup {NoName}
    /\ failed \subseteq Names /\ fix \in Names \cup {NoName}
    /\ tries \in 0..MaxAttempts
    /\ stopper \in {"none", "delete", "pause", "list", "detach", "release", "forget"}
    /\ doomed \subseteq Names /\ dcur \in Names \cup {NoName}
    /\ orphaned \subseteq Names /\ base \in Nat

Rows     == {n \in Names : row[n] # "absent"}
Good     == {n \in Names : row[n] = "good"}
NotGood  == Rows \ Good
Bad      == {n \in Names : row[n] = "bad"}

WorkerIdle ==
    /\ mode = "off" /\ at = "off" /\ new = NoName /\ cur = NoName
    /\ todo = {} /\ then = "off" /\ snap = {} /\ adds = {} /\ dels = {}
    /\ checks = {} /\ prev = NoName /\ failed = {} /\ fix = NoName
    /\ tries = 0 /\ base = 0

Init ==
    /\ status = "idle" /\ target \in 1..MaxIps
    /\ row = [n \in Names |-> "absent"] /\ flagged = {}
    /\ held = {} /\ bound = NoName /\ up = FALSE /\ late = NoCall
    /\ WorkerIdle
    /\ stopper = "none" /\ doomed = {} /\ dcur = NoName
    /\ orphaned = {} /\ plan \in Plans

-----------------------------------------------------------------------------
(* AWS, as the code uses it.                                               *)

Fresh(n) ==
    /\ n \notin held /\ row[n] = "absent" /\ late[2] # n
    /\ n \notin {new, cur, prev, fix, dcur}
    /\ n \notin todo \cup snap \cup adds \cup dels \cup checks \cup failed \cup doomed

\* detach_static_ip: an address that is not attached is no error.
Detach(n) == bound' = (IF bound = n THEN NoName ELSE bound) \/ UNCHANGED bound

\* release_static_ip: an address that is not there is no error.
Release(n) ==
    /\ held' = held \ {n}
    /\ bound' = IF bound = n THEN NoName ELSE bound

\* attach_static_ip takes the instance's public address over from the one that
\* was attached before, if AWS accepts that.
Attach(n) == n \in held /\ up /\ bound' = n

\* delete_instance leaves the static IPs allocated.
DeleteInstance == up' = FALSE /\ bound' = NoName

\* A detach or release of n that failed, in a handler that deletes the row all
\* the same: if AWS still holds n, nothing will name it any more.
GivesUpOn(n) == orphaned' = orphaned \cup ({n} \cap held)

\* delete_static_ip
ForgetRow(n) ==
    /\ row' = [row EXCEPT ![n] = "absent"]
    /\ flagged' = flagged \ {n}

-----------------------------------------------------------------------------
(* Beginnings.                                                             *)

Goto(pc) == at' = pc /\ UNCHANGED mode

\* An inner loop over `names`, suspended at pc in each turn; then `next`.
EnterLoop(pc, names, next) ==
    /\ todo' = names
    /\ IF names = {} THEN Goto(next) /\ then' = "off"
                     ELSE Goto(pc) /\ then' = next

\* One turn of it is over.
TurnOver(pc) ==
    /\ todo' = todo \ {cur} /\ cur' = NoName
    /\ IF todo' = {} THEN Goto(then) /\ then' = "off"
                     ELSE Goto(pc) /\ UNCHANGED then

Quit ==
    /\ mode' = "off" /\ at' = "off" /\ new' = NoName /\ cur' = NoName
    /\ todo' = {} /\ then' = "off" /\ snap' = {} /\ adds' = {} /\ dels' = {}
    /\ checks' = {} /\ prev' = NoName /\ failed' = {} /\ fix' = NoName
    /\ tries' = 0 /\ base' = 0

\* ls_start.
StartPressed ==
    /\ mode = "off" /\ status' = "searching"
    /\ UNCHANGED <<target, row, flagged, awsVars, workerVars, stopVars, orphaned>>

\* start_search, from the button or from the tick; a tick that read the config
\* before a stop handler began may start it under the handler.
BeginSearch ==
    /\ mode = "off" /\ (status = "searching" \/ stopper # "none")
    /\ mode' = "search" /\ at' = "ensure"
    /\ UNCHANGED <<dbVars, awsVars, loopVars, syncVars, checkVars, stopVars, orphaned>>

\* The instance is created or found, and mark_search_started sets the status; or
\* it never runs, and the search gives up without deleting it.
EnsureForSearch ==
    /\ mode = "search" /\ at = "ensure"
    /\ \/ up' = TRUE /\ status' = "searching" /\ Goto("list") /\ then' = "loop"
          /\ UNCHANGED <<new, cur, todo, snap, syncVars, checkVars>>
       \/ up' \in {up, TRUE} /\ status' = "idle" /\ Quit
    /\ UNCHANGED <<target, row, flagged, held, bound, late, stopVars, orphaned>>

\* _recheck of a config in "monitoring": without working rows it turns idle.
BeginRecheck ==
    /\ mode = "off" /\ status = "monitoring"
    /\ IF Good = {}
       THEN status' = "idle" /\ UNCHANGED workerVars
       ELSE /\ mode' = "recheck" /\ at' = "ensure"
            /\ checks' = Good /\ base' = Cardinality(Good)
            /\ UNCHANGED <<status, loopVars, syncVars, prev, failed, fix, tries>>
    /\ UNCHANGED <<target, row, flagged, awsVars, stopVars, orphaned>>

\* A recheck whose instance never runs deletes it; one that cannot create it, or
\* fails while waiting, just ends.
EnsureForRecheck ==
    /\ mode = "recheck" /\ at = "ensure"
    /\ \/ up' = TRUE /\ Goto("probe") /\ UNCHANGED <<bound, loopVars, syncVars, checkVars>>
       \/ up' \in {up, TRUE} /\ Quit /\ UNCHANGED bound
       \/ DeleteInstance /\ Quit
    /\ UNCHANGED <<dbVars, held, late, stopVars, orphaned>>

-----------------------------------------------------------------------------
(* _reconcile_static_ips, called by the search after the instance is ready *)
(* and again on a quota error; `then` is what follows.                     *)

\* The listing fails, or is what AWS holds now (prev remembers isAttached).
ListAws ==
    /\ at = "list"
    /\ \/ Goto(then) /\ then' = "off" /\ UNCHANGED <<adds, prev>>
       \/ Goto("compare") /\ adds' = held /\ prev' = bound /\ UNCHANGED then
    /\ UNCHANGED <<dbVars, awsVars, new, cur, todo, snap, dels, checks, failed, fix, tries, base,
                   stopVars, orphaned>>

CompareRows ==
    /\ at = "compare"
    /\ adds' = adds \ Rows /\ dels' = Rows \ adds
    /\ Goto("sync")
    /\ UNCHANGED <<dbVars, awsVars, loopVars, checkVars, stopVars, orphaned>>

SyncAdd(n) ==
    /\ at = "sync" /\ n \in adds
    /\ adds' = adds \ {n}
    /\ row' = [row EXCEPT ![n] = "untested"]
    /\ flagged' = IF prev = n THEN flagged \cup {n} ELSE flagged \ {n}
    /\ UNCHANGED <<status, target, awsVars, mode, at, loopVars, dels, checkVars,
                   stopVars, orphaned>>

SyncDelete(n) ==
    /\ at = "sync" /\ adds = {} /\ n \in dels
    /\ dels' = dels \ {n}
    /\ ForgetRow(n)
    /\ UNCHANGED <<status, target, awsVars, mode, at, loopVars, adds, checkVars,
                   stopVars, orphaned>>

SyncDone ==
    /\ at = "sync" /\ adds = {} /\ dels = {}
    /\ Goto(then) /\ then' = "off" /\ prev' = NoName
    /\ UNCHANGED <<dbVars, awsVars, new, cur, todo, snap, syncVars, checks, failed, fix, tries, base,
                   stopVars, orphaned>>

-----------------------------------------------------------------------------
(* The search loop.                                                        *)

\* Fault: the loop does not look at the status.
SearchOverIgnoringStatus ==
    \/ Cardinality(Good) >= target
    \/ Cardinality(Rows) >= MaxIps /\ NotGood = {}

SearchOver ==
    \/ status # "searching"
    \/ Cardinality(Good) >= target
    \/ Cardinality(Rows) >= MaxIps /\ NotGood = {}

SearchEnds ==
    /\ at = "loop" /\ SearchOver
    /\ Goto("sweep")
    /\ UNCHANGED <<dbVars, awsVars, loopVars, syncVars, checkVars, stopVars, orphaned>>

\* A free slot: allocate.
SearchExtends ==
    /\ at = "loop" /\ ~SearchOver /\ Cardinality(Rows) < MaxIps
    /\ Goto("alloc") /\ snap' = flagged
    /\ UNCHANGED <<dbVars, awsVars, new, cur, todo, then, syncVars, checkVars,
                   stopVars, orphaned>>

\* Fault: any row may be rotated out.
RotateAnyRow ==
    /\ at = "loop" /\ ~SearchOver /\ Cardinality(Rows) >= MaxIps
    /\ \E victim \in Rows : EnterLoop("drop", {victim}, "alloc")
    /\ snap' = flagged
    /\ UNCHANGED <<dbVars, awsVars, new, cur, syncVars, checkVars,
                   stopVars, orphaned>>

\* No free slot: a row that is not working goes first (the oldest one in the
\* code; which one is left open here).
SearchRotates ==
    /\ at = "loop" /\ ~SearchOver /\ Cardinality(Rows) >= MaxIps
    /\ \E victim \in NotGood : EnterLoop("drop", {victim}, "alloc")
    /\ snap' = flagged
    /\ UNCHANGED <<dbVars, awsVars, new, cur, syncVars, checkVars,
                   stopVars, orphaned>>

-----------------------------------------------------------------------------
(* Dropping the addresses in `todo`: detach, release, delete the row.  A    *)
(* failure of either call is logged and the row is deleted all the same.   *)

DropDetach(n) ==
    /\ at = "drop" /\ n \in todo
    /\ cur' = n
    /\ \/ Detach(n) /\ Goto("release") /\ UNCHANGED orphaned
       \/ Goto("forget") /\ UNCHANGED bound /\ GivesUpOn(n)
    /\ UNCHANGED <<dbVars, held, up, late, new, todo, then, snap, syncVars, checkVars,
                   stopVars>>

DropRelease ==
    /\ at = "release"
    /\ \/ Release(cur) /\ orphaned' = orphaned \ {cur}
       \/ UNCHANGED <<held, bound>> /\ GivesUpOn(cur)
    /\ Goto("forget")
    /\ UNCHANGED <<dbVars, up, late, loopVars, syncVars, checkVars, stopVars>>

DropForget ==
    /\ at = "forget"
    /\ ForgetRow(cur) /\ TurnOver("drop")
    /\ UNCHANGED <<status, target, awsVars, new, snap, syncVars, checkVars,
                   stopVars, orphaned>>

-----------------------------------------------------------------------------
(* Allocation.                                                             *)

\* Fault: a failed attempt is not counted.
AttemptFailsUncounted ==
    /\ snap' = {}
    /\ IF mode = "search" THEN Goto("loop") ELSE Goto("try")
    /\ UNCHANGED tries

\* What follows a failed attempt: the search loops, the replacement hunt has
\* used up one of its attempts.
AttemptFails ==
    /\ snap' = {}
    /\ IF mode = "search" THEN Goto("loop") /\ UNCHANGED tries
                          ELSE Goto("try") /\ tries' = tries + 1

\* allocate_static_ip is two AWS calls: the address may have been allocated when
\* the second one fails.  Only the search's first try handles a quota error, by
\* reconciling and releasing what does not work (_allocate_with_quota_recovery).
Allocate(n) ==
    /\ at \in {"alloc", "retry"} /\ Fresh(n)
    /\ \/ /\ Cardinality(held) < Quota
          /\ held' = held \cup {n} /\ new' = n
          /\ Goto("add") /\ UNCHANGED <<snap, tries, orphaned>>
       \/ /\ Cardinality(held) < Quota
          /\ held' = held \cup {n} /\ orphaned' = orphaned \cup {n}
          /\ AttemptFails /\ UNCHANGED new
    /\ UNCHANGED <<dbVars, bound, up, late, cur, todo, then, syncVars, checks, prev, failed,
                   fix, base, stopVars>>

AllocateNothing ==
    /\ at \in {"alloc", "retry"}
    /\ AttemptFails
    /\ UNCHANGED <<dbVars, awsVars, new, cur, todo, then, syncVars, checks, prev, failed, fix, base,
                   stopVars, orphaned>>

QuotaHit ==
    /\ at = "alloc" /\ mode = "search" /\ Cardinality(held) >= Quota
    /\ Goto("list") /\ then' = "recover"
    /\ UNCHANGED <<dbVars, awsVars, new, cur, todo, snap, syncVars, checkVars,
                   stopVars, orphaned>>

QuotaRecovery ==
    /\ at = "recover"
    /\ IF NotGood = {}
       THEN AttemptFails /\ UNCHANGED <<todo, then>>
       ELSE EnterLoop("drop", NotGood, "retry") /\ UNCHANGED <<snap, tries>>
    /\ UNCHANGED <<dbVars, awsVars, new, cur, syncVars, checks, prev, failed, fix, base,
                   stopVars, orphaned>>

-----------------------------------------------------------------------------
(* Testing the new address.                                                *)

\* The search then detaches what it read as attached at the top of the
\* iteration; the replacement hunt reads the rows afresh.
AddRow ==
    /\ at = "add"
    /\ row' = [row EXCEPT ![new] = "untested"] /\ flagged' = flagged \ {new}
    /\ EnterLoop("clear", IF mode = "search" THEN snap ELSE flagged \ {new}, "attach")
    /\ snap' = {}
    /\ UNCHANGED <<status, target, awsVars, new, cur, syncVars, checkVars,
                   stopVars, orphaned>>

ClearDetach(n) ==
    /\ at = "clear" /\ n \in todo
    /\ Detach(n) /\ cur' = n
    /\ Goto("unflag")
    /\ UNCHANGED <<dbVars, held, up, late, new, todo, then, snap, syncVars, checkVars,
                   stopVars, orphaned>>

\* Fault: the row is marked detached only if the call succeeded.
ClearFlagIfDetached ==
    /\ at = "unflag"
    /\ flagged' = IF bound = cur THEN flagged ELSE flagged \ {cur}
    /\ TurnOver("clear")
    /\ UNCHANGED <<status, target, row, awsVars, new, snap, syncVars, checkVars,
                   stopVars, orphaned>>

\* The row is marked detached whether or not AWS did it.
ClearFlag ==
    /\ at = "unflag"
    /\ flagged' = flagged \ {cur}
    /\ TurnOver("clear")
    /\ UNCHANGED <<status, target, row, awsVars, new, snap, syncVars, checkVars,
                   stopVars, orphaned>>

\* set_ip_result and set_ip_attached do nothing when the row is gone.
Mark(n, verdict, attached) ==
    IF row[n] = "absent" THEN UNCHANGED <<row, flagged>>
    ELSE /\ row' = [row EXCEPT ![n] = verdict]
         /\ flagged' = IF attached THEN flagged \cup {n} ELSE flagged \ {n}

AttachNew ==
    /\ at = "attach"
    /\ \/ Attach(new) /\ Goto("flag") /\ UNCHANGED <<row, flagged, new, snap, tries>>
       \/ Mark(new, "bad", FALSE) /\ AttemptFails /\ new' = NoName /\ UNCHANGED bound
    /\ UNCHANGED <<status, target, held, up, late, cur, todo, then, syncVars,
                   checks, prev, failed, fix, base, stopVars, orphaned>>

FlagNew ==
    /\ at = "flag"
    /\ Mark(new, row[new], TRUE)
    /\ Goto("check")
    /\ UNCHANGED <<status, target, awsVars, loopVars, syncVars, checkVars,
                   stopVars, orphaned>>

\* A check can only succeed when the instance answers at the address; a check
\* that times out, errors or reports unknown counts as a failure.
Reachable(n) == up /\ bound = n

CheckGood ==
    /\ at = "check" /\ Reachable(new)
    /\ Mark(new, "good", TRUE) /\ new' = NoName
    /\ IF mode = "search"
       THEN Goto("loop") /\ UNCHANGED <<cur, todo, then>>
       ELSE \* the failed address is replaced: release it (no detach), drop its row
            EnterLoop("release", {fix}, "next") /\ cur' = fix
    /\ UNCHANGED <<status, target, awsVars, snap, syncVars, checkVars,
                   stopVars, orphaned>>

CheckBad ==
    /\ at = "check"
    /\ Mark(new, "bad", TRUE) /\ new' = NoName
    /\ AttemptFails
    /\ UNCHANGED <<status, target, awsVars, cur, todo, then, syncVars, checks, prev,
                   failed, fix, base, stopVars, orphaned>>

-----------------------------------------------------------------------------
(* The end of a search: drop every row that is not working, detach the     *)
(* rest, delete the instance, record the outcome.                          *)

\* Fault: only rows known not to work are dropped, untested ones stay.
SweepOnlyBad ==
    /\ at = "sweep"
    /\ EnterLoop("drop", Bad, "sweep2")
    /\ UNCHANGED <<dbVars, awsVars, new, cur, snap, syncVars, checkVars,
                   stopVars, orphaned>>

Sweep ==
    /\ at = "sweep"
    /\ EnterLoop("drop", NotGood, "sweep2")
    /\ UNCHANGED <<dbVars, awsVars, new, cur, snap, syncVars, checkVars,
                   stopVars, orphaned>>

SweepAttached ==
    /\ at = "sweep2"
    /\ EnterLoop("clear", flagged, "delete")
    /\ UNCHANGED <<dbVars, awsVars, new, cur, snap, syncVars, checkVars,
                   stopVars, orphaned>>

EndInstance ==
    /\ at = "delete"
    /\ DeleteInstance \/ UNCHANGED <<up, bound>>
    /\ Goto("stop")
    /\ UNCHANGED <<dbVars, held, late, loopVars, syncVars, checkVars,
                   stopVars, orphaned>>

\* mark_search_stopped
MarkSearchStopped ==
    /\ at = "stop" /\ mode = "search"
    /\ status' = IF Cardinality(Good) >= target THEN "monitoring" ELSE "idle"
    /\ Quit
    /\ UNCHANGED <<target, row, flagged, awsVars, stopVars, orphaned>>

-----------------------------------------------------------------------------
(* The recheck: attach and check every working row in turn, without        *)
(* touching the rows, then hunt a replacement for each one that failed.    *)

ProbeNext(n) ==
    /\ at = "probe" /\ n \in checks
    /\ cur' = n
    /\ IF prev = NoName THEN UNCHANGED bound ELSE Detach(prev)
    /\ Goto("pattach")
    /\ UNCHANGED <<dbVars, held, up, late, new, todo, then, snap, syncVars, checkVars,
                   stopVars, orphaned>>

ProbeAttach ==
    /\ at = "pattach"
    /\ \/ Attach(cur) /\ prev' = cur /\ Goto("pcheck") /\ UNCHANGED <<cur, checks, failed>>
       \/ /\ failed' = failed \cup {cur} /\ checks' = checks \ {cur} /\ cur' = NoName
          /\ Goto("probe") /\ UNCHANGED <<bound, prev>>
    /\ UNCHANGED <<dbVars, held, up, late, new, todo, then, snap, syncVars, fix, tries, base,
                   stopVars, orphaned>>

ProbeCheck ==
    /\ at = "pcheck"
    /\ \/ Reachable(cur) /\ UNCHANGED failed
       \/ failed' = failed \cup {cur}
    /\ checks' = checks \ {cur} /\ cur' = NoName
    /\ Goto("probe")
    /\ UNCHANGED <<dbVars, awsVars, new, todo, then, snap, syncVars, prev, fix, tries, base,
                   stopVars, orphaned>>

ProbesDone ==
    /\ at = "probe" /\ checks = {}
    /\ IF prev = NoName THEN UNCHANGED bound ELSE Detach(prev)
    /\ prev' = NoName
    /\ Goto("next")
    /\ UNCHANGED <<dbVars, held, up, late, loopVars, syncVars, checks, failed, fix, tries, base,
                   stopVars, orphaned>>

NextFailed ==
    /\ at = "next"
    /\ \/ /\ failed = {} /\ Goto("delete") /\ fix' = NoName /\ UNCHANGED failed
       \/ \E n \in failed : fix' = n /\ failed' = failed \ {n} /\ Goto("try")
    /\ tries' = 0
    /\ UNCHANGED <<dbVars, awsVars, loopVars, syncVars, checks, prev, base,
                   stopVars, orphaned>>

\* Fault: the attempts are not limited.
TryForever ==
    /\ at = "try"
    /\ IF Cardinality(Rows) < MaxIps
       THEN Goto("alloc") /\ UNCHANGED <<todo, then>>
       ELSE \E victim \in Bad : EnterLoop("drop", {victim}, "alloc")
    /\ UNCHANGED <<dbVars, awsVars, new, cur, snap, syncVars, checkVars,
                   stopVars, orphaned>>

\* One attempt of _find_one_replacement: with every slot taken it needs a row
\* that is known not to work.
TryReplacement ==
    /\ at = "try" /\ tries < MaxAttempts
    /\ IF Cardinality(Rows) < MaxIps
       THEN Goto("alloc") /\ UNCHANGED <<todo, then>>
       ELSE \E victim \in Bad : EnterLoop("drop", {victim}, "alloc")
    /\ UNCHANGED <<dbVars, awsVars, new, cur, snap, syncVars, checkVars,
                   stopVars, orphaned>>

\* Fault: the failed address is released even without a replacement.
GiveUpAndRelease ==
    /\ at = "try"
    /\ tries = MaxAttempts \/ (Cardinality(Rows) >= MaxIps /\ Bad = {})
    /\ EnterLoop("release", {fix}, "next") /\ cur' = fix
    /\ UNCHANGED <<dbVars, awsVars, new, snap, syncVars, checkVars,
                   stopVars, orphaned>>

\* No replacement: the failed row stays as it is.
GiveUp ==
    /\ at = "try"
    /\ tries = MaxAttempts \/ (Cardinality(Rows) >= MaxIps /\ Bad = {})
    /\ Goto("next")
    /\ UNCHANGED <<dbVars, awsVars, loopVars, syncVars, checkVars,
                   stopVars, orphaned>>

MarkRecheck ==
    /\ at = "stop" /\ mode = "recheck"
    /\ Quit
    /\ UNCHANGED <<dbVars, awsVars, stopVars, orphaned>>

WorkerStep ==
    \/ EnsureForSearch \/ EnsureForRecheck \/ ListAws \/ CompareRows \/ SyncDone
    \/ \E n \in Names : SyncAdd(n) \/ SyncDelete(n) \/ DropDetach(n) \/ ClearDetach(n)
                        \/ Allocate(n) \/ ProbeNext(n)
    \/ SearchEnds \/ SearchExtends \/ SearchRotates \/ DropRelease \/ DropForget
    \/ AllocateNothing \/ QuotaHit \/ QuotaRecovery
    \/ AddRow \/ ClearFlag \/ AttachNew \/ FlagNew \/ CheckGood \/ CheckBad
    \/ Sweep \/ SweepAttached \/ EndInstance \/ MarkSearchStopped
    \/ ProbeAttach \/ ProbeCheck \/ ProbesDone \/ NextFailed \/ TryReplacement \/ GiveUp
    \/ MarkRecheck

-----------------------------------------------------------------------------
(* Interruptions.                                                          *)

\* The AWS call the worker is waiting for, if any.
Awaiting(call) ==
    \/ at \in {"drop", "clear"} /\ \E n \in todo : call = <<"detach", n>>
    \/ at = "probe" /\ call = <<"detach", prev>>
    \/ at = "release" /\ call = <<"release", cur>>
    \/ at \in {"alloc", "retry"} /\ \E n \in Names : Fresh(n) /\ call = <<"allocate", n>>
    \/ at = "attach" /\ call = <<"attach", new>>
    \/ at = "pattach" /\ call = <<"attach", cur>>

\* The worker disappears.  Bound: one abandoned call outstanding at a time.
Abandon ==
    /\ \/ UNCHANGED late
       \/ /\ "late" \in Events /\ late = NoCall
          /\ \E call \in {"detach", "release", "allocate", "attach"}, n \in Names :
                Awaiting(<<call, n>>) /\ late' = <<call, n>>
    /\ orphaned' = IF at = "add" THEN orphaned \cup {new} ELSE orphaned
    /\ Quit

\* The pause and stop buttons cancel the worker ...
StopPressed ==
    /\ Events \cap {"pause", "stop"} # {}
    /\ stopper = "none" /\ stopper' = "delete"
    /\ Abandon
    /\ UNCHANGED <<dbVars, held, bound, up, doomed, dcur>>

\* ... delete the instance if the config names one ...
StopDeletesInstance ==
    /\ stopper = "delete" /\ stopper' = "pause"
    /\ DeleteInstance \/ UNCHANGED <<up, bound>>
    /\ UNCHANGED <<dbVars, held, late, workerVars, doomed, dcur, orphaned>>

\* ... mark the config paused (unless the session's copy of it is stale and says
\* so already, see Writes in LightsailTasks); "pause" ends here ...
StopPauses ==
    /\ stopper = "pause"
    /\ status' \in {"paused", status}
    /\ \/ "pause" \in Events /\ stopper' = "none"
       \/ "stop" \in Events /\ stopper' = "list"
    /\ UNCHANGED <<target, row, flagged, awsVars, workerVars, doomed, dcur, orphaned>>

\* ... "stop" reads the rows that do not work ...
StopLists ==
    /\ stopper = "list" /\ stopper' = "detach"
    /\ doomed' = Bad
    /\ UNCHANGED <<dbVars, awsVars, workerVars, dcur, orphaned>>

\* Fault: the address is only detached.
StopOnlyDetaches(n) ==
    /\ stopper = "detach" /\ n \in doomed
    /\ dcur' = n /\ stopper' = "forget"
    /\ \/ Detach(n) /\ UNCHANGED orphaned
       \/ UNCHANGED bound /\ GivesUpOn(n)
    /\ UNCHANGED <<dbVars, held, up, late, workerVars, doomed>>

\* ... and to drop each of them, like the worker does.
StopDetaches(n) ==
    /\ stopper = "detach" /\ n \in doomed
    /\ dcur' = n
    /\ \/ Detach(n) /\ stopper' = "release" /\ UNCHANGED orphaned
       \/ stopper' = "forget" /\ UNCHANGED bound /\ GivesUpOn(n)
    /\ UNCHANGED <<dbVars, held, up, late, workerVars, doomed>>

StopReleases ==
    /\ stopper = "release" /\ stopper' = "forget"
    /\ \/ Release(dcur) /\ orphaned' = orphaned \ {dcur}
       \/ UNCHANGED <<held, bound>> /\ GivesUpOn(dcur)
    /\ UNCHANGED <<dbVars, up, late, workerVars, doomed, dcur>>

StopForgets ==
    /\ stopper = "forget" /\ stopper' = "detach"
    /\ ForgetRow(dcur)
    /\ doomed' = doomed \ {dcur} /\ dcur' = NoName
    /\ UNCHANGED <<status, target, awsVars, workerVars, orphaned>>

StopSetsIdle ==
    /\ stopper = "detach" /\ doomed = {} /\ stopper' = "none"
    /\ status' \in {"idle", status}
    /\ UNCHANGED <<target, row, flagged, awsVars, workerVars, doomed, dcur, orphaned>>

StopStep ==
    \/ StopDeletesInstance \/ StopPauses \/ StopLists \/ StopReleases \/ StopForgets \/ StopSetsIdle
    \/ \E n \in Names : StopDetaches(n)

LateCall ==
    /\ late # NoCall /\ late' = NoCall
    /\ \/ UNCHANGED <<held, bound, orphaned>>
       \/ late[1] = "detach" /\ Detach(late[2]) /\ UNCHANGED <<held, orphaned>>
       \/ late[1] = "release" /\ Release(late[2]) /\ orphaned' = orphaned \ {late[2]}
       \/ late[1] = "attach" /\ Attach(late[2]) /\ UNCHANGED <<held, orphaned>>
       \/ /\ late[1] = "allocate" /\ Cardinality(held) < Quota
          /\ held' = held \cup {late[2]} /\ orphaned' = orphaned \cup {late[2]}
          /\ UNCHANGED bound
    /\ UNCHANGED <<dbVars, up, workerVars, stopVars>>

Crash ==
    /\ "crash" \in Events
    /\ Abandon
    /\ stopper' = "none" /\ doomed' = {} /\ dcur' = NoName
    /\ UNCHANGED <<dbVars, held, bound, up>>

\* ls_target_input; any time.
SetTarget ==
    /\ "target" \in Events /\ target' \in 1..MaxIps
    /\ UNCHANGED <<status, row, flagged, awsVars, workerVars, stopVars, orphaned>>

\* Somebody releases an address by hand, as the reconciliation expects.
ManualRelease(n) ==
    /\ "manual" \in Events /\ n \in held /\ Release(n)
    /\ orphaned' = orphaned \ {n}
    /\ UNCHANGED <<dbVars, up, late, workerVars, stopVars>>

Next ==
    /\ UNCHANGED plan
    /\ \/ StartPressed \/ BeginSearch \/ BeginRecheck \/ WorkerStep
       \/ StopPressed \/ StopStep \/ LateCall \/ Crash \/ SetTarget
       \/ \E n \in Names : ManualRelease(n)

Spec == Init /\ [][Next]_vars

\* The event loop runs the worker; everything else may or may not happen.
FairSpec == Spec /\ WF_vars(UNCHANGED plan /\ WorkerStep)

-----------------------------------------------------------------------------
(* Properties.                                                             *)

\* Every address AWS holds for the config has a row, or is the one whose row is
\* being written, or lost its row to a failed release, a half-failed allocation
\* or an interruption: nothing leaks on the ordinary paths of the search, the
\* recheck, the quota recovery and the stop handler.
NoSilentLeak ==
    \A n \in held : row[n] # "absent" \/ n \in orphaned \/ (at = "add" /\ new = n)

\* A recheck never leaves the config with fewer working rows than it found,
\* although it deletes the rows that failed (_recheck 626-643).
RecheckKeepsGround == mode = "recheck" => Cardinality(Good) >= base

\* At most one row says it is attached, although rows are unflagged one by one
\* from lists read earlier, and flags survive interruptions (_search 364-378).
OneRowAttached == Cardinality(flagged) <= 1

\* A working address leaves AWS only by hand, or because a recheck found it
\* failing and has put one more working row in the table than it began with (or
\* was interrupted while releasing it): rotation, quota recovery, clean-up and
\* the stop button never release one.
WorkingReleasedOnlyWhenReplaced ==
    [][\A n \in held \ held' : row[n] = "good" =>
          \/ ManualRelease(n)
          \/ late = <<"release", n>>
          \/ at = "release" /\ mode = "recheck" /\ fix = n /\ Cardinality(Good) > base]_vars

\* A search that reaches its end leaves only working rows and none marked
\* attached, even when a stop handler is releasing rows at the same time.
SearchLeavesWorkingRows ==
    [][at = "stop" /\ mode = "search" /\ mode' = "off" => NotGood = {} /\ flagged = {}]_vars

\* A recheck always ends, whatever the calls and the checks answer.
RecheckEnds == (mode = "recheck") ~> (mode # "recheck")

\* A search whose config is no longer "searching" ends, unless it is made to
\* search again (the loop re-reads the status in every iteration).
PausedSearchEnds ==
    (mode = "search" /\ status # "searching") ~> (mode # "search" \/ status = "searching")
=============================================================================
