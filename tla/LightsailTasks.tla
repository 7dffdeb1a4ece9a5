--------------------------- MODULE LightsailTasks ---------------------------
(***************************************************************************)
(* The control plane of the Lightsail searcher for one region config: the  *)
(* in-memory task registry, the scheduler tick, the start / pause / stop   *)
(* handlers, the life of a search or recheck task and of the one Lightsail *)
(* instance they all share (its name is a function of the config id).      *)
(*                                                                         *)
(* The program is one asyncio loop: a step of the model is what runs       *)
(* between two awaits.  AWS calls run in threads, so cancelling the task   *)
(* that awaits one does not stop the call (`abandoned').  One short        *)
(* database session is one step.  What the search finds is left open here  *)
(* (LightsailSearch models it): the loop may end at any iteration.         *)
(***************************************************************************)
EXTENDS Naturals

CONSTANTS
    Tasks,       \* identities of asyncio tasks of this config
    NoTask,      \* an empty registry entry
    Starters,    \* concurrent invocations of the "start" button handler
    Stoppers,    \* concurrent invocations of the "pause" / "stop" handlers
    MaxCrashes   \* bound: restarts of the process

ASSUME TasksAssumption == NoTask \notin Tasks /\ MaxCrashes \in Nat

VARIABLES
    status,        \* lightsail_region_configs.status
    instanceName,  \* lightsail_region_configs.instance_name IS NOT NULL
    instance,      \* the Lightsail instance fcc-searcher-<id>, as AWS sees it
    abandoned,     \* instance calls whose awaiting task was cancelled
    activeTask,    \* _active_tasks.get(config_id)
    kind, pc,      \* every task: what it runs, and where it is suspended
    cancelling,    \* tasks whose cancellation has been requested
    starter,       \* ls_start: where it is suspended, and whether its session
                   \* will write the status (see Writes)
    stopper,       \* ls_pause / ls_stop, likewise
    tick,          \* the scheduler: "sleep", or the kind of config it has read
    crashes,       \* restarts so far
    reopened,      \* history: a task started while a cancelled one unwound
    excused        \* history: something happened that can orphan the instance

dbVars     == <<status, instanceName>>
awsVars    == <<instance, abandoned>>
taskVars   == <<activeTask, kind, pc, cancelling>>
history    == <<crashes, reopened, excused>>
vars == <<dbVars, awsVars, taskVars, starter, stopper, tick, history>>

Statuses  == {"idle", "searching", "paused", "monitoring"}
Kinds     == {"search", "recheck"}
TaskPCs   == {"free", "new", "probe", "create", "wait", "mark", "work",
              "abort", "delete", "record", "fail", "finish"}
StarterPCs == {"ready", "set", "start"}
StopperPCs == {"ready", "await", "delete", "pause", "paused", "release"}
Hows      == {"pause", "stop"}

TypeOK ==
    /\ status \in Statuses /\ instanceName \in BOOLEAN
    /\ instance \in {"absent", "pending", "running"}
    /\ abandoned \subseteq {"create", "delete"}
    /\ activeTask \in Tasks \cup {NoTask}
    /\ kind \in [Tasks -> Kinds] /\ pc \in [Tasks -> TaskPCs]
    /\ cancelling \subseteq Tasks
    /\ starter \in [Starters -> [at : StarterPCs, writes : BOOLEAN]]
    /\ stopper \in [Stoppers -> [at : StopperPCs, how : Hows, writes : BOOLEAN,
                                 awaits : Tasks \cup {NoTask}, raced : BOOLEAN]]
    /\ tick \in {"sleep", "searching", "monitoring"}
    /\ crashes \in 0..MaxCrashes /\ reopened \in BOOLEAN /\ excused \in BOOLEAN

StarterReady == [at |-> "ready", writes |-> FALSE]
StopperReady == [at |-> "ready", how |-> "pause", writes |-> FALSE,
                 awaits |-> NoTask, raced |-> FALSE]

Init ==
    /\ status = "idle" /\ instanceName = FALSE
    /\ instance = "absent" /\ abandoned = {}
    /\ activeTask = NoTask /\ cancelling = {}
    /\ kind = [t \in Tasks |-> "search"] /\ pc = [t \in Tasks |-> "free"]
    /\ starter = [s \in Starters |-> StarterReady]
    /\ stopper = [s \in Stoppers |-> StopperReady]
    /\ tick = "sleep"
    /\ crashes = 0 /\ reopened = FALSE /\ excused = FALSE

-----------------------------------------------------------------------------
(* The registry.                                                           *)

IsRunning == activeTask # NoTask /\ pc[activeTask] # "free"

Stopping(s) == stopper[s].at # "ready"

\* Stop handlers that are under way learn that somebody started something.
Disturb == stopper' = [s \in Stoppers |->
                          [stopper[s] EXCEPT !.raced = Stopping(s)]]

\* create_task + registration.  A task identity still awaited by a stop
\* handler is not reused.
Spawn(k) ==
    \E t \in Tasks :
        /\ pc[t] = "free"
        /\ \A s \in Stoppers : stopper[s].awaits # t
        /\ pc' = [pc EXCEPT ![t] = "new"]
        /\ kind' = [kind EXCEPT ![t] = k]
        /\ activeTask' = t
        /\ Disturb
        /\ reopened' = (reopened \/ cancelling # {})
        /\ excused' = (excused \/ \E s \in Stoppers : Stopping(s))
        /\ UNCHANGED <<cancelling, crashes>>

\* Fault: start_search does not ask is_running.
StartUnchecked == Spawn("search")

\* start_search: nothing happens when a task is already running.
StartSearch ==
    \/ IsRunning /\ UNCHANGED <<taskVars, stopper, history>>
    \/ ~IsRunning /\ Spawn("search")

-----------------------------------------------------------------------------
(* The life of a task.                                                     *)

Runs(t, at) == pc[t] = at /\ t \notin cancelling

Goto(t, at) ==
    /\ pc' = [pc EXCEPT ![t] = at]
    /\ UNCHANGED <<activeTask, kind, cancelling, starter, stopper, tick,
                   crashes, reopened>>

\* How a task leaves after a failed step that it, or its _safe wrapper, handles.
FailTo(t) == IF kind[t] = "search" THEN "fail" ELSE "finish"

\* First session of _search: config, account and Pingachock settings, one of
\* the last two possibly missing.  The status is not looked at.
LoadSearch(t) ==
    /\ Runs(t, "new") /\ kind[t] = "search"
    /\ \/ Goto(t, "probe") /\ UNCHANGED status
       \/ Goto(t, "finish") /\ status' = "idle"
       \/ Goto(t, "fail") /\ UNCHANGED status
    /\ UNCHANGED <<instanceName, awsVars, excused>>

\* First session of _recheck: it also returns when the config is no longer in
\* "monitoring", and turns a config without working addresses idle.
LoadRecheck(t) ==
    /\ Runs(t, "new") /\ kind[t] = "recheck"
    /\ \/ status = "monitoring" /\ Goto(t, "probe") /\ UNCHANGED status
       \/ Goto(t, "finish") /\ UNCHANGED status
       \/ status = "monitoring" /\ Goto(t, "finish") /\ status' = "idle"
    /\ UNCHANGED <<instanceName, awsVars, excused>>

ProbeInstance(t) ==
    /\ Runs(t, "probe")
    /\ \/ instance = "absent" /\ Goto(t, "create")
       \/ instance # "absent" /\ Goto(t, "wait")
       \/ Goto(t, FailTo(t))
    /\ UNCHANGED <<dbVars, awsVars, excused>>

CreateInstance(t) ==
    /\ Runs(t, "create")
    /\ \/ instance = "absent" /\ instance' = "pending" /\ Goto(t, "wait")
       \/ UNCHANGED instance /\ Goto(t, FailTo(t))
    /\ UNCHANGED <<dbVars, abandoned, excused>>

\* wait_for_instance_running returns True, returns False (timeout, or the
\* instance vanished), or raises.
WaitForInstance(t) ==
    /\ Runs(t, "wait")
    /\ \/ /\ instance = "running"
          /\ Goto(t, IF kind[t] = "search" THEN "mark" ELSE "work")
          /\ UNCHANGED excused
       \/ /\ Goto(t, IF kind[t] = "search" THEN "fail" ELSE "abort")
          /\ excused' = (excused \/ kind[t] = "search")
       \/ Goto(t, FailTo(t)) /\ excused' = TRUE
    /\ UNCHANGED <<dbVars, awsVars>>

\* mark_search_started sets the status whatever it is by now.
MarkSearchStarted(t) ==
    /\ Runs(t, "mark")
    /\ status' = "searching" /\ instanceName' = TRUE
    /\ Goto(t, "work")
    /\ UNCHANGED <<awsVars, excused>>

\* The loop re-reads the config at every iteration.
SearchSeesStatus(t) ==
    /\ Runs(t, "work") /\ kind[t] = "search" /\ status # "searching"
    /\ Goto(t, "delete")
    /\ UNCHANGED <<dbVars, awsVars, excused>>

\* The target is reached, or no address can be rotated.
SearchCompletes(t) ==
    /\ Runs(t, "work") /\ kind[t] = "search" /\ status = "searching"
    /\ Goto(t, "delete")
    /\ UNCHANGED <<dbVars, awsVars, excused>>

\* Fault: the recheck ends without deleting the instance.
RecheckLeavesInstance(t) ==
    /\ Runs(t, "work") /\ kind[t] = "recheck"
    /\ Goto(t, "record")
    /\ UNCHANGED <<dbVars, awsVars, excused>>

RecheckCompletes(t) ==
    /\ Runs(t, "work") /\ kind[t] = "recheck"
    /\ Goto(t, "delete")
    /\ UNCHANGED <<dbVars, awsVars, excused>>

\* An exception nobody handles inside the task.
UnexpectedError(t) ==
    /\ \E at \in {"mark", "work", "record"} : Runs(t, at)
    /\ Goto(t, FailTo(t))
    /\ excused' = TRUE
    /\ UNCHANGED <<dbVars, awsVars>>

AbortRecheck(t) ==
    /\ Runs(t, "abort")
    /\ \/ instance' = "absent" /\ UNCHANGED excused
       \/ UNCHANGED instance /\ excused' = TRUE
    /\ Goto(t, "finish")
    /\ UNCHANGED <<dbVars, abandoned>>

DeleteInstance(t) ==
    /\ Runs(t, "delete")
    /\ \/ instance' = "absent" /\ UNCHANGED excused
       \/ UNCHANGED instance /\ excused' = TRUE
    /\ Goto(t, "record")
    /\ UNCHANGED <<dbVars, abandoned>>

\* Fault: mark_search_stopped keeps the instance name.
MarkStoppedKeepsName(t) ==
    /\ Runs(t, "record") /\ kind[t] = "search"
    /\ status' \in {"monitoring", "idle"}
    /\ \E next \in {"finish", "fail"} : Goto(t, next)
    /\ UNCHANGED <<instanceName, awsVars, excused>>

\* mark_search_stopped; the closing notification may still raise.
MarkSearchStopped(t) ==
    /\ Runs(t, "record") /\ kind[t] = "search"
    /\ instanceName' = FALSE
    /\ status' \in {"monitoring", "idle"}
    /\ \E next \in {"finish", "fail"} : Goto(t, next)
    /\ UNCHANGED <<awsVars, excused>>

\* mark_recheck moves only last_recheck_at.
MarkRecheck(t) ==
    /\ Runs(t, "record") /\ kind[t] = "recheck"
    /\ Goto(t, "finish")
    /\ UNCHANGED <<dbVars, awsVars, excused>>

SetIdle(t) ==
    /\ Runs(t, "fail")
    /\ status' = "idle"
    /\ Goto(t, "finish")
    /\ UNCHANGED <<instanceName, awsVars, excused>>

\* CancelledError is thrown at the await where the task is suspended.  A task
\* that never ran has not entered its try block, so its finally does not run.
DeliverCancel(t) ==
    /\ t \in cancelling /\ pc[t] \notin {"free", "finish"}
    /\ pc' = [pc EXCEPT ![t] = IF pc[t] = "new" THEN "free" ELSE "finish"]
    /\ cancelling' = IF pc[t] = "new" THEN cancelling \ {t} ELSE cancelling
    /\ abandoned' = abandoned
                      \cup (IF pc[t] = "create" THEN {"create"} ELSE {})
                      \cup (IF pc[t] \in {"abort", "delete"} THEN {"delete"} ELSE {})
    /\ excused' = (excused \/ ~instanceName)
    /\ UNCHANGED <<dbVars, instance, activeTask, kind, starter, stopper, tick,
                   crashes, reopened>>

\* finally: _active_tasks.pop(config_id, None), whoever is registered.
Finish(t) ==
    /\ pc[t] = "finish"
    /\ pc' = [pc EXCEPT ![t] = "free"]
    /\ kind' = [kind EXCEPT ![t] = "search"]     \* the identity is free again
    /\ activeTask' = NoTask
    /\ cancelling' = cancelling \ {t}
    /\ UNCHANGED <<dbVars, awsVars, starter, stopper, tick, history>>

TaskStep(t) ==
    \/ LoadSearch(t) \/ LoadRecheck(t) \/ ProbeInstance(t) \/ CreateInstance(t)
    \/ WaitForInstance(t) \/ MarkSearchStarted(t) \/ SearchSeesStatus(t)
    \/ RecheckCompletes(t) \/ AbortRecheck(t) \/ DeleteInstance(t)
    \/ MarkSearchStopped(t) \/ MarkRecheck(t) \/ SetIdle(t)
    \/ DeliverCancel(t) \/ Finish(t)

-----------------------------------------------------------------------------
(* The scheduler.                                                          *)

\* Fault: the tick takes configs of every status.
TickReadAny ==
    /\ tick = "sleep"
    /\ tick' = status
    /\ UNCHANGED <<dbVars, awsVars, taskVars, starter, stopper, history>>

TickRead ==
    /\ tick = "sleep" /\ status \in {"searching", "monitoring"}
    /\ tick' = status
    /\ UNCHANGED <<dbVars, awsVars, taskVars, starter, stopper, history>>

\* Fault: the tick does not resume searches.
TickForgetsSearch ==
    /\ tick = "searching" /\ tick' = "sleep"
    /\ UNCHANGED <<dbVars, awsVars, taskVars, stopper, history, starter>>

TickResumeSearch ==
    /\ tick = "searching" /\ tick' = "sleep"
    /\ StartSearch
    /\ UNCHANGED <<dbVars, awsVars, starter>>

\* The recheck interval may or may not have elapsed.
TickRecheck ==
    /\ tick = "monitoring" /\ tick' = "sleep"
    /\ \/ UNCHANGED <<taskVars, stopper, history>>
       \/ ~IsRunning /\ Spawn("recheck")
    /\ UNCHANGED <<dbVars, awsVars, starter>>

-----------------------------------------------------------------------------
(* The start button.                                                       *)

\* The ORM writes a column only when the assigned value differs from the one the
\* session loaded, which may be stale: whether a session that has the config
\* loaded now will write `new`.
Writes(new) == status # new

StartPressed(s) ==
    /\ starter[s].at = "ready" /\ ~IsRunning
    /\ starter' = [starter EXCEPT ![s] = [at |-> "set", writes |-> Writes("searching")]]
    /\ UNCHANGED <<dbVars, awsVars, taskVars, stopper, tick, history>>

\* set_status("searching") in the session that loaded the config.
StartSetStatus(s) ==
    /\ starter[s].at = "set"
    /\ status' = IF starter[s].writes THEN "searching" ELSE status
    /\ starter' = [starter EXCEPT ![s] = [at |-> "start", writes |-> FALSE]]
    /\ Disturb
    /\ excused' = (excused \/ \E r \in Stoppers : Stopping(r))
    /\ UNCHANGED <<instanceName, awsVars, taskVars, tick, crashes, reopened>>

StartSpawn(s) ==
    /\ starter[s].at = "start"
    /\ starter' = [starter EXCEPT ![s] = StarterReady]
    /\ StartSearch
    /\ UNCHANGED <<dbVars, awsVars, tick>>

-----------------------------------------------------------------------------
(* The pause and stop buttons: stop_search, then for "stop" the release of *)
(* the addresses that do not work and status idle.                         *)

StopKeeps(s) == UNCHANGED <<kind, pc, starter, tick, crashes, reopened>>

\* Fault: the registry keeps the cancelled task.
StopKeepsEntry(s) ==
    /\ stopper[s].at = "ready"
    /\ \E how \in Hows :
         stopper' = [stopper EXCEPT ![s] =
            [StopperReady EXCEPT !.at = "await", !.how = how,
                                 !.awaits = IF IsRunning THEN activeTask ELSE NoTask,
                                 !.raced = \E r \in Stoppers : Stopping(r)]]
    /\ cancelling' = IF IsRunning THEN cancelling \cup {activeTask} ELSE cancelling
    /\ StopKeeps(s) /\ UNCHANGED <<activeTask, dbVars, awsVars, excused>>

\* The registry entry goes first; then the task is cancelled and awaited.
StopPressed(s) ==
    /\ stopper[s].at = "ready"
    /\ \E how \in Hows :
         stopper' = [stopper EXCEPT ![s] =
            [StopperReady EXCEPT !.at = "await", !.how = how,
                                 !.awaits = IF IsRunning THEN activeTask ELSE NoTask,
                                 !.raced = \E r \in Stoppers : Stopping(r)]]
    /\ cancelling' = IF IsRunning THEN cancelling \cup {activeTask} ELSE cancelling
    /\ activeTask' = NoTask
    /\ StopKeeps(s) /\ UNCHANGED <<dbVars, awsVars, excused>>

\* Fault: the cancelled task is not awaited.
StopNotAwaited(s) == stopper[s].at = "await"

StopAwaited(s) ==
    /\ stopper[s].at = "await"
    /\ \A t \in Tasks : stopper[s].awaits = t => pc[t] = "free"

\* The config names an instance: it is deleted before the config is marked.
StopFindsInstance(s) ==
    /\ StopAwaited(s) /\ instanceName
    /\ stopper' = [stopper EXCEPT ![s] = [@ EXCEPT !.at = "delete", !.awaits = NoTask,
                                                     !.writes = Writes("paused")]]
    /\ StopKeeps(s) /\ UNCHANGED <<dbVars, awsVars, activeTask, cancelling, excused>>

StopFindsNoInstance(s) ==
    /\ StopAwaited(s) /\ ~instanceName
    /\ stopper' = [stopper EXCEPT ![s] = [@ EXCEPT !.at = "paused", !.awaits = NoTask]]
    /\ status' = "paused"
    /\ StopKeeps(s) /\ UNCHANGED <<instanceName, awsVars, activeTask, cancelling, excused>>

StopDeletesInstance(s) ==
    /\ stopper[s].at = "delete"
    /\ \/ instance' = "absent" /\ UNCHANGED excused
       \/ UNCHANGED instance /\ excused' = TRUE
    /\ stopper' = [stopper EXCEPT ![s] = [@ EXCEPT !.at = "pause"]]
    /\ StopKeeps(s) /\ UNCHANGED <<dbVars, abandoned, activeTask, cancelling>>

\* mark_paused, in the session that loaded the config before the deletion.
StopMarksPaused(s) ==
    /\ stopper[s].at = "pause"
    /\ status' = IF stopper[s].writes THEN "paused" ELSE status
    /\ instanceName' = FALSE
    /\ stopper' = [stopper EXCEPT ![s] = [@ EXCEPT !.at = "paused", !.writes = FALSE]]
    /\ StopKeeps(s) /\ UNCHANGED <<awsVars, activeTask, cancelling, excused>>

PauseReturns(s) ==
    /\ stopper[s].at = "paused" /\ stopper[s].how = "pause"
    /\ stopper' = [stopper EXCEPT ![s] = StopperReady]
    /\ StopKeeps(s) /\ UNCHANGED <<dbVars, awsVars, activeTask, cancelling, excused>>

\* ls_stop reloads the config, then awaits the release of the failed addresses.
StopReloads(s) ==
    /\ stopper[s].at = "paused" /\ stopper[s].how = "stop"
    /\ stopper' = [stopper EXCEPT ![s] = [@ EXCEPT !.at = "release",
                                                     !.writes = Writes("idle")]]
    /\ StopKeeps(s) /\ UNCHANGED <<dbVars, awsVars, activeTask, cancelling, excused>>

StopSetsIdle(s) ==
    /\ stopper[s].at = "release"
    /\ status' = IF stopper[s].writes THEN "idle" ELSE status
    /\ stopper' = [stopper EXCEPT ![s] = StopperReady]
    /\ StopKeeps(s) /\ UNCHANGED <<instanceName, awsVars, activeTask, cancelling, excused>>

StopStep(s) ==
    \/ StopFindsInstance(s) \/ StopFindsNoInstance(s) \/ StopDeletesInstance(s)
    \/ StopMarksPaused(s) \/ PauseReturns(s) \/ StopReloads(s) \/ StopSetsIdle(s)

-----------------------------------------------------------------------------
(* AWS and the operating system.                                           *)

InstanceBoots ==
    /\ instance = "pending" /\ instance' = "running"
    /\ UNCHANGED <<dbVars, abandoned, taskVars, starter, stopper, tick, history>>

\* A call nobody awaits any more still takes effect, or fails.
AbandonedCall ==
    /\ \E call \in abandoned :
         /\ abandoned' = abandoned \ {call}
         /\ instance' \in {instance,
                           IF call = "delete" THEN "absent"
                           ELSE IF instance = "absent" THEN "pending" ELSE instance}
    /\ UNCHANGED <<dbVars, taskVars, starter, stopper, tick, history>>

\* The process dies and is started again: memory is lost, the database and AWS
\* keep their state, and a call already sent may still arrive.
Crash ==
    /\ crashes < MaxCrashes /\ crashes' = crashes + 1
    /\ activeTask' = NoTask /\ cancelling' = {}
    /\ pc' = [t \in Tasks |-> "free"]
    /\ starter' = [s \in Starters |-> StarterReady]
    /\ stopper' = [s \in Stoppers |-> StopperReady]
    /\ tick' = "sleep"
    /\ abandoned' = abandoned
         \cup (IF \E t \in Tasks : pc[t] = "create" THEN {"create"} ELSE {})
         \cup (IF \/ \E t \in Tasks : pc[t] \in {"abort", "delete"}
                  \/ \E s \in Stoppers : stopper[s].at = "delete"
               THEN {"delete"} ELSE {})
    /\ excused' = TRUE
    /\ UNCHANGED <<dbVars, instance, kind, reopened>>

Next ==
    \/ \E t \in Tasks : TaskStep(t) \/ SearchCompletes(t) \/ UnexpectedError(t)
    \/ TickRead \/ TickResumeSearch \/ TickRecheck
    \/ \E s \in Starters : StartPressed(s) \/ StartSetStatus(s) \/ StartSpawn(s)
    \/ \E s \in Stoppers : StopPressed(s) \/ StopStep(s)
    \/ InstanceBoots \/ AbandonedCall \/ Crash

\* The event loop runs every ready task and handler, and the scheduler wakes up
\* every WAKEUP_INTERVAL.  Buttons, AWS progress and crashes are not promised.
Fairness ==
    /\ \A t \in Tasks : WF_vars(TaskStep(t))
    /\ WF_vars(TickRead) /\ WF_vars(TickResumeSearch) /\ WF_vars(TickRecheck)
    /\ \A s \in Starters : WF_vars(StartSetStatus(s)) /\ WF_vars(StartSpawn(s))
    /\ \A s \in Stoppers : WF_vars(StopStep(s))

Spec == Init /\ [][Next]_vars
FairSpec == Spec /\ Fairness

-----------------------------------------------------------------------------
(* Properties.                                                             *)

Live(t) == pc[t] # "free"

\* A registered task is a task that is alive and that nobody has cancelled, so
\* is_running answers for a worker that will go on working (lightsail_searcher
\* 85-87, 100-108, 226).
RegisteredTaskLive ==
    activeTask # NoTask => Live(activeTask) /\ activeTask \notin cancelling

\* One config never has two tasks at work ("config_id -> Task",
\* lightsail_searcher 74; "search already running", lightsail_fsm 349).
SingleFlight ==
    \A t, u \in Tasks :
        Live(t) /\ Live(u) /\ t \notin cancelling /\ u \notin cancelling => t = u

\* The only way to two tasks at work is a start between the moment stop_search
\* empties the registry entry and the moment the cancelled task has unwound.
SingleFlightOutsideWindow == ~reopened => SingleFlight

\* A config that rests in "paused" or "monitoring" names no instance, although
\* the two columns are written by four handlers through partial updates.
RestingConfigNamesNoInstance == instanceName => status \in {"searching", "idle"}

\* A stop that no start and no earlier stop disturbs works: when stop_search has returned no task of
\* the config is alive, no instance is named and the status rests.  A task that
\* lost its registration in the window above is beyond its reach.
UndisturbedStopQuiesces ==
    ~reopened => \A s \in Stoppers :
        stopper[s].at \in {"paused", "release"} /\ ~stopper[s].raced =>
            /\ \A t \in Tasks : ~Live(t)
            /\ ~instanceName
            /\ status \in {"paused", "idle"}

Unowned ==
    /\ instance # "absent" /\ ~instanceName /\ abandoned = {}
    /\ \A t \in Tasks : ~Live(t)
    /\ \A s \in Stoppers : ~Stopping(s)

\* An instance that no task, no handler and no config row accounts for appears
\* only after a crash, a failed or abandoned call, a start during a stop, or a
\* cancellation before the config names the instance.
UnownedInstanceHasCause == Unowned => excused

\* A config left in "searching" (after a restart, say) gets a running search
\* again: the scheduler's resume loop, lightsail_searcher 191-195.
SearchingIsResumed ==
    status = "searching" ~>
        \/ status # "searching"
        \/ \E t \in Tasks : Live(t) /\ kind[t] = "search" /\ t \notin cancelling
=============================================================================
