----------------------- MODULE LightsailTasks_proofs ------------------------
(***************************************************************************)
(* Proofs about LightsailTasks, for any number of tasks, start and stop    *)
(* handlers and restarts.                                                  *)
(***************************************************************************)
EXTENDS LightsailTasks, TLAPS

USE DEF dbVars, awsVars, taskVars, history, Statuses, Kinds, TaskPCs, StarterPCs,
        StopperPCs, Hows

-----------------------------------------------------------------------------
(* Types.                                                                  *)

LEMMA TypeInit == Init => TypeOK
<1> SUFFICES ASSUME Init PROVE TypeOK
  OBVIOUS
<1>1. crashes \in 0..MaxCrashes
  BY TasksAssumption DEF Init
<1>2. kind \in [Tasks -> Kinds] /\ pc \in [Tasks -> TaskPCs]
  BY DEF Init
<1>3. starter \in [Starters -> [at : StarterPCs, writes : BOOLEAN]]
  BY DEF Init, StarterReady
<1>4. stopper \in [Stoppers -> [at : StopperPCs, how : Hows, writes : BOOLEAN,
                               awaits : Tasks \cup {NoTask}, raced : BOOLEAN]]
  BY DEF Init, StopperReady
<1>. QED  BY <1>1, <1>2, <1>3, <1>4 DEF Init, TypeOK

\* Every step of a task keeps the types.
LEMMA TypeTask ==
    ASSUME TypeOK, NEW t \in Tasks,
           TaskStep(t) \/ SearchCompletes(t) \/ UnexpectedError(t)
    PROVE  TypeOK'
<1> USE DEF TypeOK, Goto, Runs, FailTo
<1>1. CASE LoadSearch(t)         BY <1>1 DEF LoadSearch
<1>2. CASE LoadRecheck(t)        BY <1>2 DEF LoadRecheck
<1>3. CASE ProbeInstance(t)      BY <1>3 DEF ProbeInstance
<1>4. CASE CreateInstance(t)     BY <1>4 DEF CreateInstance
<1>5. CASE WaitForInstance(t)    BY <1>5 DEF WaitForInstance
<1>6. CASE MarkSearchStarted(t)  BY <1>6 DEF MarkSearchStarted
<1>7. CASE SearchSeesStatus(t)   BY <1>7 DEF SearchSeesStatus
<1>8. CASE RecheckCompletes(t)   BY <1>8 DEF RecheckCompletes
<1>9. CASE AbortRecheck(t)       BY <1>9 DEF AbortRecheck
<1>10. CASE DeleteInstance(t)    BY <1>10 DEF DeleteInstance
<1>11. CASE MarkSearchStopped(t)
  <2>1. PICK next \in {"finish", "fail"} : Goto(t, next)
    BY <1>11 DEF MarkSearchStopped
  <2>. QED  BY <1>11, <2>1 DEF MarkSearchStopped
<1>12. CASE MarkRecheck(t)       BY <1>12 DEF MarkRecheck
<1>13. CASE SetIdle(t)           BY <1>13 DEF SetIdle
<1>14. CASE DeliverCancel(t)
  <2>1. pc' \in [Tasks -> TaskPCs]
    BY <1>14 DEF DeliverCancel
  <2>2. cancelling' \subseteq Tasks /\ abandoned' \subseteq {"create", "delete"}
    BY <1>14 DEF DeliverCancel
  <2>3. excused' \in BOOLEAN
    BY <1>14 DEF DeliverCancel
  <2>. QED  BY <1>14, <2>1, <2>2, <2>3 DEF DeliverCancel
<1>15. CASE Finish(t)            BY <1>15 DEF Finish
<1>16. CASE SearchCompletes(t)   BY <1>16 DEF SearchCompletes
<1>17. CASE UnexpectedError(t)   BY <1>17 DEF UnexpectedError
<1>. QED  BY <1>1, <1>2, <1>3, <1>4, <1>5, <1>6, <1>7, <1>8, <1>9, <1>10, <1>11,
             <1>12, <1>13, <1>14, <1>15, <1>16, <1>17 DEF TaskStep

StopperType == [Stoppers -> [at : StopperPCs, how : Hows, writes : BOOLEAN,
                             awaits : Tasks \cup {NoTask}, raced : BOOLEAN]]

LEMMA TypeDisturb ==
    ASSUME TypeOK
    PROVE  [s \in Stoppers |-> [stopper[s] EXCEPT !.raced = Stopping(s)]] \in StopperType
<1> SUFFICES ASSUME NEW s \in Stoppers
             PROVE  [stopper[s] EXCEPT !.raced = Stopping(s)] \in
                       [at : StopperPCs, how : Hows, writes : BOOLEAN,
                        awaits : Tasks \cup {NoTask}, raced : BOOLEAN]
  BY DEF StopperType
<1>1. Stopping(s) \in BOOLEAN
  BY DEF Stopping
<1>. QED  BY <1>1 DEF TypeOK

\* What a spawn sets has its type.
LEMMA TypeSpawn ==
    ASSUME TypeOK, NEW k \in Kinds, Spawn(k)
    PROVE  /\ pc' \in [Tasks -> TaskPCs] /\ kind' \in [Tasks -> Kinds]
           /\ activeTask' \in Tasks /\ cancelling' \subseteq Tasks
           /\ stopper' \in StopperType
           /\ reopened' \in BOOLEAN /\ excused' \in BOOLEAN /\ crashes' = crashes
<1>1. PICK t \in Tasks :
        /\ pc' = [pc EXCEPT ![t] = "new"]
        /\ kind' = [kind EXCEPT ![t] = k]
        /\ activeTask' = t
        /\ stopper' = [s \in Stoppers |-> [stopper[s] EXCEPT !.raced = Stopping(s)]]
        /\ reopened' = (reopened \/ cancelling # {})
        /\ excused' = (excused \/ \E s \in Stoppers : Stopping(s))
        /\ UNCHANGED <<cancelling, crashes>>
  BY DEF Spawn, Disturb
<1>2. stopper' \in StopperType
  BY <1>1, TypeDisturb
<1>3. reopened' \in BOOLEAN /\ excused' \in BOOLEAN
  BY <1>1 DEF TypeOK
<1>. QED  BY <1>1, <1>2, <1>3 DEF TypeOK

LEMMA TypeTick ==
    ASSUME TypeOK, TickRead \/ TickResumeSearch \/ TickRecheck
    PROVE  TypeOK'
<1>1. CASE TickRead
  BY <1>1 DEF TickRead, TypeOK
<1>2. CASE TickResumeSearch /\ IsRunning
  BY <1>2 DEF TickResumeSearch, StartSearch, TypeOK
<1>3. CASE TickResumeSearch /\ Spawn("search")
  BY <1>3, TypeSpawn DEF TickResumeSearch, TypeOK, StopperType
<1>4. CASE TickRecheck /\ Spawn("recheck")
  BY <1>4, TypeSpawn DEF TickRecheck, TypeOK, StopperType
<1>5. CASE TickRecheck /\ UNCHANGED <<taskVars, stopper, history>>
  BY <1>5 DEF TickRecheck, TypeOK
<1>. QED  BY <1>1, <1>2, <1>3, <1>4, <1>5 DEF TickResumeSearch, TickRecheck, StartSearch

LEMMA TypeStart ==
    ASSUME TypeOK, NEW s \in Starters,
           StartPressed(s) \/ StartSetStatus(s) \/ StartSpawn(s)
    PROVE  TypeOK'
<1>1. CASE StartPressed(s)
  <2>1. Writes("searching") \in BOOLEAN  BY DEF Writes
  <2>. QED  BY <1>1, <2>1 DEF StartPressed, TypeOK
<1>2. CASE StartSetStatus(s)
  <2>1. stopper' = [r \in Stoppers |-> [stopper[r] EXCEPT !.raced = Stopping(r)]]
    BY <1>2 DEF StartSetStatus, Disturb
  <2>2. stopper' \in StopperType
    BY <2>1, TypeDisturb
  <2>3. excused' \in BOOLEAN
    BY <1>2 DEF StartSetStatus, TypeOK
  <2>. QED  BY <1>2, <2>2, <2>3 DEF StartSetStatus, TypeOK, StopperType
<1>3. CASE StartSpawn(s)
  <2>1. starter' \in [Starters -> [at : StarterPCs, writes : BOOLEAN]]
    BY <1>3 DEF StartSpawn, StarterReady, TypeOK
  <2>2. CASE IsRunning
    BY <1>3, <2>1, <2>2 DEF StartSpawn, StartSearch, TypeOK, Spawn
  <2>3. CASE Spawn("search")
    BY <1>3, <2>1, <2>3, TypeSpawn DEF StartSpawn, TypeOK, StopperType
  <2>. QED  BY <1>3, <2>2, <2>3 DEF StartSpawn, StartSearch
<1>. QED  BY <1>1, <1>2, <1>3

LEMMA TypeStop ==
    ASSUME TypeOK, NEW s \in Stoppers, StopPressed(s) \/ StopStep(s)
    PROVE  TypeOK'
<1> USE DEF StopKeeps
<1>1. CASE StopPressed(s)
  <2>1. PICK how \in Hows :
          stopper' = [stopper EXCEPT ![s] =
            [StopperReady EXCEPT !.at = "await", !.how = how,
                                 !.awaits = IF IsRunning THEN activeTask ELSE NoTask,
                                 !.raced = \E r \in Stoppers : Stopping(r)]]
    BY <1>1 DEF StopPressed
  <2>2. (\E r \in Stoppers : Stopping(r)) \in BOOLEAN
    OBVIOUS
  <2>3. stopper' \in StopperType
    BY <2>1, <2>2 DEF TypeOK, StopperType, StopperReady
  <2>4. cancelling' \subseteq Tasks
    BY <1>1 DEF StopPressed, TypeOK, IsRunning
  <2>. QED  BY <1>1, <2>3, <2>4 DEF StopPressed, TypeOK, StopperType
<1>2. \A b \in BOOLEAN, at \in StopperPCs, u \in Tasks \cup {NoTask} :
        /\ [stopper EXCEPT ![s] = [@ EXCEPT !.at = at]] \in StopperType
        /\ [stopper EXCEPT ![s] = [@ EXCEPT !.at = at, !.writes = b]] \in StopperType
        /\ [stopper EXCEPT ![s] = [@ EXCEPT !.at = at, !.awaits = u]] \in StopperType
        /\ [stopper EXCEPT ![s] = [@ EXCEPT !.at = at, !.awaits = u, !.writes = b]] \in StopperType
  <2> TAKE b \in BOOLEAN, at \in StopperPCs, u \in Tasks \cup {NoTask}
  <2> DEFINE Rec == [at : StopperPCs, how : Hows, writes : BOOLEAN,
                     awaits : Tasks \cup {NoTask}, raced : BOOLEAN]
  <2>1. stopper[s] \in Rec
    BY DEF TypeOK
  <2>2. /\ [stopper[s] EXCEPT !.at = at] \in Rec
        /\ [stopper[s] EXCEPT !.at = at, !.writes = b] \in Rec
        /\ [stopper[s] EXCEPT !.at = at, !.awaits = u] \in Rec
        /\ [stopper[s] EXCEPT !.at = at, !.awaits = u, !.writes = b] \in Rec
    BY <2>1
  <2>3. \A r \in Rec : [stopper EXCEPT ![s] = r] \in StopperType
    BY DEF TypeOK, StopperType
  <2> HIDE DEF Rec
  <2>. QED  BY <2>2, <2>3
<1>3. \A st \in Statuses : Writes(st) \in BOOLEAN
  BY DEF Writes
<1>4. CASE StopFindsInstance(s)
  <2>1. stopper' \in StopperType  BY <1>2, <1>3, <1>4 DEF StopFindsInstance
  <2>. QED  BY <1>4, <2>1 DEF StopFindsInstance, TypeOK, StopperType
<1>5. CASE StopFindsNoInstance(s)
  <2>1. stopper' \in StopperType  BY <1>2, <1>5 DEF StopFindsNoInstance
  <2>. QED  BY <1>5, <2>1 DEF StopFindsNoInstance, TypeOK, StopperType
<1>6. CASE StopDeletesInstance(s)
  <2>1. stopper' \in StopperType  BY <1>2, <1>6 DEF StopDeletesInstance
  <2>. QED  BY <1>6, <2>1 DEF StopDeletesInstance, TypeOK, StopperType
<1>7. CASE StopMarksPaused(s)
  <2>1. stopper' \in StopperType  BY <1>2, <1>7 DEF StopMarksPaused
  <2>. QED  BY <1>7, <2>1 DEF StopMarksPaused, TypeOK, StopperType
<1>8. CASE StopReloads(s)
  <2>1. stopper' \in StopperType  BY <1>2, <1>3, <1>8 DEF StopReloads
  <2>. QED  BY <1>8, <2>1 DEF StopReloads, TypeOK, StopperType
<1>9. CASE PauseReturns(s)
  BY <1>9 DEF PauseReturns, TypeOK, StopperReady
<1>10. CASE StopSetsIdle(s)
  BY <1>10 DEF StopSetsIdle, TypeOK, StopperReady
<1>. QED  BY <1>1, <1>4, <1>5, <1>6, <1>7, <1>8, <1>9, <1>10 DEF StopStep

LEMMA TypeWorld ==
    ASSUME TypeOK, InstanceBoots \/ AbandonedCall \/ Crash
    PROVE  TypeOK'
<1>1. CASE InstanceBoots  BY <1>1 DEF InstanceBoots, TypeOK
<1>2. CASE AbandonedCall
  <2>1. PICK call \in abandoned :
          /\ abandoned' = abandoned \ {call}
          /\ instance' \in {instance,
                            IF call = "delete" THEN "absent"
                            ELSE IF instance = "absent" THEN "pending" ELSE instance}
    BY <1>2 DEF AbandonedCall
  <2>. QED  BY <1>2, <2>1 DEF AbandonedCall, TypeOK
<1>3. CASE Crash
  <2>1. starter' \in [Starters -> [at : StarterPCs, writes : BOOLEAN]]
    BY <1>3 DEF Crash, StarterReady
  <2>2. stopper' \in StopperType
    BY <1>3 DEF Crash, StopperReady, StopperType
  <2>3. crashes' \in 0..MaxCrashes
    BY <1>3, TasksAssumption DEF Crash, TypeOK
  <2>4. abandoned' \subseteq {"create", "delete"}
    BY <1>3 DEF Crash, TypeOK
  <2>. QED  BY <1>3, <2>1, <2>2, <2>3, <2>4 DEF Crash, TypeOK, StopperType
<1>. QED  BY <1>1, <1>2, <1>3

\* The variables always have the types of TypeOK, whatever the numbers of
\* tasks, handlers and restarts.
THEOREM TypeCorrect == Spec => []TypeOK
<1>1. TypeOK /\ [Next]_vars => TypeOK'
  <2> SUFFICES ASSUME TypeOK, [Next]_vars PROVE TypeOK'
    OBVIOUS
  <2>1. CASE Next
    BY <2>1, TypeTask, TypeTick, TypeStart, TypeStop, TypeWorld DEF Next
  <2>2. CASE UNCHANGED vars
    BY <2>2 DEF vars, TypeOK
  <2>. QED  BY <2>1, <2>2
<1>. QED  BY TypeInit, <1>1, PTL DEF Spec

-----------------------------------------------------------------------------
(* The registry, the tasks and the stop handlers.                          *)

\* A task whose cancellation is requested has not unwound yet ...
CancellingLive == \A t \in cancelling : Live(t)

\* ... and a stop handler is awaiting it.
CancellingAwaited ==
    \A t \in cancelling :
        \E s \in Stoppers : stopper[s].at = "await" /\ stopper[s].awaits = t

\* A live task is registered or cancelled, and never some of both at a time.
LiveTasksKnown ==
    ~reopened =>
        /\ \A t \in Tasks : Live(t) => t = activeTask \/ t \in cancelling
        /\ cancelling # {} => activeTask = NoTask

\* What an undisturbed stop handler has achieved so far.
StopProgress ==
    ~reopened => \A s \in Stoppers : ~stopper[s].raced =>
        /\ stopper[s].at = "await" =>
              \A t \in Tasks : Live(t) => t = stopper[s].awaits
        /\ stopper[s].at \in {"delete", "pause", "paused", "release"} =>
              \A t \in Tasks : ~Live(t)
        /\ stopper[s].at \in {"delete", "pause"} /\ ~stopper[s].writes =>
              status \in {"paused", "idle"}
        /\ stopper[s].at \in {"paused", "release"} =>
              ~instanceName /\ status \in {"paused", "idle"}

IInv == /\ TypeOK /\ RegisteredTaskLive /\ CancellingLive /\ CancellingAwaited
        /\ LiveTasksKnown /\ StopProgress

LEMMA InvInit == Init => IInv
<1> SUFFICES ASSUME Init PROVE IInv
  OBVIOUS
<1>1. \A s \in Stoppers : stopper[s] = StopperReady
  BY DEF Init
<1>2. \A t \in Tasks : ~Live(t)
  BY DEF Init, Live
<1>3. StopProgress
  BY <1>1 DEF StopProgress, StopperReady
<1>. QED  BY TypeInit, <1>2, <1>3 DEF Init, IInv, RegisteredTaskLive, CancellingLive,
             CancellingAwaited, LiveTasksKnown

\* A step of a task that is not being cancelled only moves the task itself.
Advances(t) ==
    /\ pc[t] # "free" /\ t \notin cancelling
    /\ \E at \in TaskPCs \ {"free"} : pc' = [pc EXCEPT ![t] = at]
    /\ UNCHANGED <<activeTask, cancelling, stopper, reopened>>

LEMMA TaskAdvances ==
    ASSUME TypeOK, NEW t \in Tasks,
           TaskStep(t) \/ SearchCompletes(t) \/ UnexpectedError(t)
    PROVE  Advances(t) \/ DeliverCancel(t) \/ Finish(t)
<1> USE DEF TypeOK, Goto, Runs, FailTo, Advances
<1>1. CASE LoadSearch(t)         BY <1>1 DEF LoadSearch
<1>2. CASE LoadRecheck(t)        BY <1>2 DEF LoadRecheck
<1>3. CASE ProbeInstance(t)      BY <1>3 DEF ProbeInstance
<1>4. CASE CreateInstance(t)     BY <1>4 DEF CreateInstance
<1>5. CASE WaitForInstance(t)    BY <1>5 DEF WaitForInstance
<1>6. CASE MarkSearchStarted(t)  BY <1>6 DEF MarkSearchStarted
<1>7. CASE SearchSeesStatus(t)   BY <1>7 DEF SearchSeesStatus
<1>8. CASE RecheckCompletes(t)   BY <1>8 DEF RecheckCompletes
<1>9. CASE AbortRecheck(t)       BY <1>9 DEF AbortRecheck
<1>10. CASE DeleteInstance(t)    BY <1>10 DEF DeleteInstance
<1>11. CASE MarkSearchStopped(t)
  <2>1. PICK next \in {"finish", "fail"} : Goto(t, next)
    BY <1>11 DEF MarkSearchStopped
  <2>. QED  BY <1>11, <2>1 DEF MarkSearchStopped
<1>12. CASE MarkRecheck(t)       BY <1>12 DEF MarkRecheck
<1>13. CASE SetIdle(t)           BY <1>13 DEF SetIdle
<1>14. CASE SearchCompletes(t)   BY <1>14 DEF SearchCompletes
<1>15. CASE UnexpectedError(t)   BY <1>15 DEF UnexpectedError
<1>. QED  BY <1>1, <1>2, <1>3, <1>4, <1>5, <1>6, <1>7, <1>8, <1>9, <1>10, <1>11,
             <1>12, <1>13, <1>14, <1>15 DEF TaskStep

LEMMA InvTask ==
    ASSUME IInv, NEW t \in Tasks,
           TaskStep(t) \/ SearchCompletes(t) \/ UnexpectedError(t)
    PROVE  IInv'
<1>0. TypeOK'
  BY TypeTask DEF IInv
<1>1. CASE Advances(t)
  <2>1. \A u \in Tasks : Live(u)' <=> Live(u)
    BY <1>1 DEF Advances, Live, IInv, TypeOK
  <2>2. RegisteredTaskLive'
    BY <1>0, <1>1, <2>1 DEF Advances, IInv, RegisteredTaskLive, TypeOK
  <2>3. CancellingLive' /\ CancellingAwaited'
    BY <1>1, <2>1 DEF Advances, IInv, CancellingLive, CancellingAwaited, TypeOK
  <2>4. LiveTasksKnown'
    BY <1>1, <2>1 DEF Advances, IInv, LiveTasksKnown
  <2>5. StopProgress'
    \* the only handlers that have something to lose have seen no live task
    <3>1. SUFFICES ASSUME ~reopened, NEW s \in Stoppers, ~stopper[s].raced
                   PROVE  /\ stopper[s].at = "await" =>
                                \A u \in Tasks : Live(u) => u = stopper[s].awaits
                          /\ stopper[s].at \notin {"delete", "pause", "paused", "release"}
      BY <1>1, <2>1 DEF Advances, StopProgress
    <3>. QED  BY <1>1, <3>1 DEF Advances, IInv, StopProgress, Live
  <2>. QED  BY <1>0, <2>2, <2>3, <2>4, <2>5 DEF IInv
<1>2. CASE DeliverCancel(t)
  <2>1. /\ \A u \in Tasks : Live(u)' => Live(u)
        /\ \A u \in Tasks : Live(u) /\ ~Live(u)' => u = t /\ t \notin cancelling'
        /\ cancelling' \subseteq cancelling /\ t \in cancelling
        /\ \A u \in cancelling : u # t => u \in cancelling'
        /\ UNCHANGED <<status, instanceName, activeTask, stopper, reopened>>
    BY <1>2 DEF DeliverCancel, Live, IInv, TypeOK
  <2>2. RegisteredTaskLive'
    BY <1>0, <2>1 DEF IInv, RegisteredTaskLive, TypeOK
  <2>3. CancellingLive' /\ CancellingAwaited'
    BY <2>1 DEF IInv, CancellingLive, CancellingAwaited, TypeOK
  <2>4. LiveTasksKnown'
    <3>1. \A u \in Tasks : Live(u)' /\ u \in cancelling => u \in cancelling'
      BY <1>2 DEF DeliverCancel, Live, IInv, TypeOK
    <3>. QED  BY <2>1, <3>1 DEF IInv, LiveTasksKnown
  <2>5. StopProgress'
    BY <2>1 DEF IInv, StopProgress
  <2>. QED  BY <1>0, <2>2, <2>3, <2>4, <2>5 DEF IInv
<1>3. CASE Finish(t)
  <2>1. /\ \A u \in Tasks : Live(u)' <=> Live(u) /\ u # t
        /\ activeTask' = NoTask /\ cancelling' = cancelling \ {t}
        /\ UNCHANGED <<status, instanceName, stopper, reopened>>
    BY <1>3 DEF Finish, Live, IInv, TypeOK
  <2>2. RegisteredTaskLive'
    BY <2>1 DEF RegisteredTaskLive
  <2>3. CancellingLive' /\ CancellingAwaited'
    BY <2>1 DEF IInv, CancellingLive, CancellingAwaited, TypeOK
  <2>4. LiveTasksKnown'
    <3>1. Live(t)
      BY <1>3 DEF Finish, Live
    <3>. QED  BY <2>1, <3>1, TasksAssumption DEF IInv, LiveTasksKnown, TypeOK
  <2>5. StopProgress'
    BY <2>1 DEF IInv, StopProgress
  <2>. QED  BY <1>0, <2>2, <2>3, <2>4, <2>5 DEF IInv
<1>. QED  BY <1>1, <1>2, <1>3, TaskAdvances DEF IInv

\* A handler that learns of a disturbance keeps everything else.
LEMMA DisturbKeeps ==
    ASSUME TypeOK, Disturb, NEW s \in Stoppers
    PROVE  /\ stopper'[s].at = stopper[s].at /\ stopper'[s].awaits = stopper[s].awaits
           /\ ~stopper'[s].raced => stopper'[s].at = "ready"
<1>1. stopper'[s] = [stopper[s] EXCEPT !.raced = Stopping(s)]
  BY DEF Disturb
<1>. QED  BY <1>1 DEF TypeOK, Stopping

\* After a disturbance no handler claims anything.
LEMMA DisturbProgress ==
    ASSUME TypeOK, Disturb
    PROVE  StopProgress'
<1> SUFFICES ASSUME NEW s \in Stoppers, ~stopper'[s].raced
             PROVE  stopper'[s].at = "ready"
  BY DEF StopProgress
<1>. QED  BY DisturbKeeps

LEMMA InvSpawn ==
    ASSUME IInv, NEW k \in Kinds, ~IsRunning, Spawn(k), TypeOK'
    PROVE  IInv'
<1>1. PICK t \in Tasks :
        /\ pc[t] = "free" /\ pc' = [pc EXCEPT ![t] = "new"]
        /\ activeTask' = t
        /\ Disturb
        /\ reopened' = (reopened \/ cancelling # {})
        /\ UNCHANGED cancelling
  BY DEF Spawn
<1>2. \A u \in Tasks : Live(u)' <=> Live(u) \/ u = t
  BY <1>1 DEF Live, IInv, TypeOK
<1>3. t \notin cancelling
  BY <1>1 DEF IInv, CancellingLive, Live
<1>4. RegisteredTaskLive'
  BY <1>1, <1>2, <1>3 DEF RegisteredTaskLive
<1>5. CancellingLive'
  BY <1>1, <1>2 DEF IInv, CancellingLive, TypeOK
<1>6. CancellingAwaited'
  BY <1>1, DisturbKeeps DEF IInv, CancellingAwaited
<1>7. activeTask = NoTask
  BY DEF IInv, RegisteredTaskLive, IsRunning, Live
<1>8. LiveTasksKnown'
  BY <1>1, <1>2, <1>7, TasksAssumption DEF IInv, LiveTasksKnown
<1>9. StopProgress'
  BY <1>1, DisturbProgress DEF IInv
<1>. QED  BY <1>4, <1>5, <1>6, <1>8, <1>9 DEF IInv

\* What touches neither tasks nor handlers nor the database keeps the invariant.
LEMMA InvKeeps ==
    ASSUME IInv, TypeOK', UNCHANGED <<dbVars, activeTask, pc, cancelling, stopper, reopened>>
    PROVE  IInv'
BY DEF IInv, RegisteredTaskLive, CancellingLive, CancellingAwaited, LiveTasksKnown,
       StopProgress, Live

LEMMA InvTick ==
    ASSUME IInv, TickRead \/ TickResumeSearch \/ TickRecheck
    PROVE  IInv'
<1>0. TypeOK'
  BY TypeTick DEF IInv
<1>1. CASE TickRead
  BY <1>0, <1>1, InvKeeps DEF TickRead
<1>2. CASE TickResumeSearch
  BY <1>0, <1>2, InvKeeps, InvSpawn DEF TickResumeSearch, StartSearch
<1>3. CASE TickRecheck
  BY <1>0, <1>3, InvKeeps, InvSpawn DEF TickRecheck
<1>. QED  BY <1>1, <1>2, <1>3

LEMMA InvStart ==
    ASSUME IInv, NEW s \in Starters,
           StartPressed(s) \/ StartSetStatus(s) \/ StartSpawn(s)
    PROVE  IInv'
<1>0. TypeOK'
  BY TypeStart DEF IInv
<1>1. CASE StartPressed(s)
  BY <1>0, <1>1, InvKeeps DEF StartPressed
<1>2. CASE StartSetStatus(s)
  <2>1. Disturb /\ UNCHANGED <<taskVars, reopened>>
    BY <1>2 DEF StartSetStatus
  <2>2. StopProgress'
    BY <2>1, DisturbProgress DEF IInv
  <2>3. CancellingAwaited'
    BY <2>1, DisturbKeeps DEF IInv, CancellingAwaited
  <2>. QED  BY <1>0, <2>1, <2>2, <2>3 DEF IInv, RegisteredTaskLive, CancellingLive,
               LiveTasksKnown, Live
<1>3. CASE StartSpawn(s)
  BY <1>0, <1>3, InvKeeps, InvSpawn DEF StartSpawn, StartSearch
<1>. QED  BY <1>1, <1>2, <1>3

LEMMA InvWorld ==
    ASSUME IInv, InstanceBoots \/ AbandonedCall \/ Crash
    PROVE  IInv'
<1>0. TypeOK'
  BY TypeWorld DEF IInv
<1>1. CASE InstanceBoots
  BY <1>0, <1>1, InvKeeps DEF InstanceBoots
<1>2. CASE AbandonedCall
  BY <1>0, <1>2, InvKeeps DEF AbandonedCall
<1>3. CASE Crash
  <2>1. /\ activeTask' = NoTask /\ cancelling' = {}
        /\ \A t \in Tasks : ~Live(t)'
        /\ \A s \in Stoppers : stopper'[s].at = "ready"
    BY <1>3 DEF Crash, Live, StopperReady
  <2>2. StopProgress'
    BY <2>1 DEF StopProgress
  <2>. QED  BY <1>0, <2>1, <2>2 DEF IInv, RegisteredTaskLive, CancellingLive,
               CancellingAwaited, LiveTasksKnown
<1>. QED  BY <1>1, <1>2, <1>3

\* After its first step a stop handler touches no task.
LEMMA StopSteps ==
    ASSUME TypeOK, NEW s \in Stoppers, StopStep(s)
    PROVE  /\ UNCHANGED <<activeTask, pc, cancelling, reopened>>
           /\ \A r \in Stoppers : r # s => stopper'[r] = stopper[r]
           /\ stopper[s].at = "await" => \A t \in Tasks : stopper[s].awaits = t => ~Live(t)
           /\ stopper'[s].at # "await"
           /\ instanceName' => instanceName
           /\ status' \in {status, "paused", "idle"}
<1> USE DEF TypeOK, StopKeeps, StopAwaited, Live, StopperReady
<1>1. CASE StopFindsInstance(s)    BY <1>1 DEF StopFindsInstance
<1>2. CASE StopFindsNoInstance(s)  BY <1>2 DEF StopFindsNoInstance
<1>3. CASE StopDeletesInstance(s)  BY <1>3 DEF StopDeletesInstance
<1>4. CASE StopMarksPaused(s)      BY <1>4 DEF StopMarksPaused
<1>5. CASE PauseReturns(s)         BY <1>5 DEF PauseReturns
<1>6. CASE StopReloads(s)          BY <1>6 DEF StopReloads
<1>7. CASE StopSetsIdle(s)         BY <1>7 DEF StopSetsIdle
<1>. QED  BY <1>1, <1>2, <1>3, <1>4, <1>5, <1>6, <1>7 DEF StopStep

\* What the handler itself may claim after one of its steps.
LEMMA StopOwnProgress ==
    ASSUME IInv, ~reopened, NEW s \in Stoppers, StopStep(s), ~stopper'[s].raced
    PROVE  /\ stopper'[s].at \in {"delete", "pause", "paused", "release"} =>
                 \A t \in Tasks : ~Live(t)
           /\ stopper'[s].at \in {"delete", "pause"} /\ ~stopper'[s].writes =>
                 status' \in {"paused", "idle"}
           /\ stopper'[s].at \in {"paused", "release"} =>
                 ~instanceName' /\ status' \in {"paused", "idle"}
<1> USE DEF IInv, TypeOK, StopKeeps, StopAwaited, Live, StopProgress
<1>1. CASE StopFindsInstance(s)
  <2>1. stopper'[s] = [stopper[s] EXCEPT !.at = "delete", !.awaits = NoTask,
                                         !.writes = Writes("paused")]
    BY <1>1 DEF StopFindsInstance
  <2>2. stopper'[s].at = "delete" /\ (stopper'[s].writes <=> Writes("paused"))
    BY <2>1
  <2>3. \A t \in Tasks : ~Live(t)
    <3>1. stopper[s].at = "await" /\ ~stopper[s].raced
      BY <1>1, <2>1 DEF StopFindsInstance
    <3>. QED  BY <1>1, <3>1 DEF StopFindsInstance
  <2>. QED  BY <1>1, <2>2, <2>3 DEF StopFindsInstance, Writes
<1>2. CASE StopFindsNoInstance(s)  BY <1>2 DEF StopFindsNoInstance
<1>3. CASE StopDeletesInstance(s)  BY <1>3 DEF StopDeletesInstance
<1>4. CASE StopMarksPaused(s)
  <2>1. stopper'[s] = [stopper[s] EXCEPT !.at = "paused", !.writes = FALSE]
    BY <1>4 DEF StopMarksPaused
  <2>2. stopper[s].at = "pause" /\ ~stopper[s].raced /\ ~instanceName'
    BY <1>4, <2>1 DEF StopMarksPaused
  <2>3. CASE stopper[s].writes
    BY <1>4, <2>1, <2>2, <2>3 DEF StopMarksPaused
  <2>4. CASE ~stopper[s].writes
    BY <1>4, <2>1, <2>2, <2>4 DEF StopMarksPaused
  <2>. QED  BY <2>3, <2>4
<1>5. CASE PauseReturns(s)         BY <1>5 DEF PauseReturns, StopperReady
<1>6. CASE StopReloads(s)          BY <1>6 DEF StopReloads
<1>7. CASE StopSetsIdle(s)         BY <1>7 DEF StopSetsIdle, StopperReady
<1>. QED  BY <1>1, <1>2, <1>3, <1>4, <1>5, <1>6, <1>7 DEF StopStep

LEMMA InvStop ==
    ASSUME IInv, NEW s \in Stoppers, StopPressed(s) \/ StopStep(s)
    PROVE  IInv'
<1>0. TypeOK'
  BY TypeStop DEF IInv
<1>1. CASE StopPressed(s)
  <2>1. /\ stopper[s].at = "ready" /\ stopper'[s].at = "await"
        /\ stopper'[s].awaits = IF IsRunning THEN activeTask ELSE NoTask
        /\ ~stopper'[s].raced => \A r \in Stoppers : ~Stopping(r)
        /\ \A r \in Stoppers : r # s => stopper'[r] = stopper[r]
    <3>1. PICK how \in Hows :
            stopper' = [stopper EXCEPT ![s] =
              [StopperReady EXCEPT !.at = "await", !.how = how,
                                   !.awaits = IF IsRunning THEN activeTask ELSE NoTask,
                                   !.raced = \E r \in Stoppers : Stopping(r)]]
      BY <1>1 DEF StopPressed
    <3>2. stopper'[s] =
              [StopperReady EXCEPT !.at = "await", !.how = how,
                                   !.awaits = IF IsRunning THEN activeTask ELSE NoTask,
                                   !.raced = \E r \in Stoppers : Stopping(r)]
      BY <3>1 DEF IInv, TypeOK
    <3>. QED  BY <1>1, <3>1, <3>2 DEF StopPressed, StopperReady, IInv, TypeOK
  <2>2. /\ cancelling' = IF IsRunning THEN cancelling \cup {activeTask} ELSE cancelling
        /\ activeTask' = NoTask
        /\ UNCHANGED <<pc, reopened, status, instanceName>>
    BY <1>1 DEF StopPressed, StopKeeps
  <2>3. IsRunning => activeTask \in Tasks /\ Live(activeTask)
    BY DEF IsRunning, Live, IInv, TypeOK
  <2>4. ~IsRunning => activeTask = NoTask
    BY DEF IsRunning, IInv, RegisteredTaskLive, Live
  <2>5. CancellingLive'
    BY <2>2, <2>3 DEF IInv, CancellingLive, Live
  <2>6. CancellingAwaited'
    BY <2>1, <2>2, <2>3 DEF IInv, CancellingAwaited
  <2>7. LiveTasksKnown'
    BY <2>2, <2>4, TasksAssumption DEF IInv, LiveTasksKnown, Live
  <2>8. StopProgress'
    <3>1. SUFFICES ASSUME ~reopened, ~stopper'[s].raced
                   PROVE  \A t \in Tasks : Live(t) => t = stopper'[s].awaits
      BY <2>1, <2>2 DEF IInv, StopProgress, Live
    <3>2. cancelling = {}
      BY <2>1, <3>1 DEF IInv, CancellingAwaited, Stopping
    <3>. QED  BY <2>1, <2>3, <2>4, <3>1, <3>2, TasksAssumption DEF IInv, LiveTasksKnown
  <2>. QED  BY <1>0, <2>2, <2>5, <2>6, <2>7, <2>8 DEF IInv, RegisteredTaskLive
<1>2. CASE StopStep(s)
  <2>1. /\ UNCHANGED <<activeTask, pc, cancelling, reopened>>
        /\ \A r \in Stoppers : r # s => stopper'[r] = stopper[r]
        /\ stopper[s].at = "await" => \A t \in Tasks : stopper[s].awaits = t => ~Live(t)
        /\ stopper'[s].at # "await"
        /\ instanceName' => instanceName
        /\ status' \in {status, "paused", "idle"}
    BY <1>2, StopSteps DEF IInv
  <2>2. CancellingAwaited'
    <3>1. SUFFICES ASSUME NEW t \in cancelling
                   PROVE  \E r \in Stoppers \ {s} : stopper[r].at = "await" /\ stopper[r].awaits = t
      BY <2>1 DEF CancellingAwaited
    <3>2. Live(t) /\ t \in Tasks
      BY DEF IInv, CancellingLive, TypeOK
    <3>. QED  BY <2>1, <3>2 DEF IInv, CancellingAwaited
  <2>3. StopProgress'
    <3>1. SUFFICES ASSUME ~reopened, NEW r \in Stoppers, ~stopper'[r].raced
                   PROVE  /\ stopper'[r].at = "await" =>
                               \A t \in Tasks : Live(t)' => t = stopper'[r].awaits
                          /\ stopper'[r].at \in {"delete", "pause", "paused", "release"} =>
                               \A t \in Tasks : ~Live(t)'
                          /\ stopper'[r].at \in {"delete", "pause"} /\ ~stopper'[r].writes =>
                               status' \in {"paused", "idle"}
                          /\ stopper'[r].at \in {"paused", "release"} =>
                               ~instanceName' /\ status' \in {"paused", "idle"}
      BY <2>1 DEF StopProgress
    <3>2. CASE r = s
      BY <1>2, <2>1, <3>1, <3>2, StopOwnProgress DEF Live
    <3>3. CASE r # s
      BY <2>1, <3>1, <3>3 DEF IInv, StopProgress, Live
    <3>. QED  BY <3>2, <3>3
  <2>. QED  BY <1>0, <2>1, <2>2, <2>3 DEF IInv, RegisteredTaskLive, CancellingLive,
               LiveTasksKnown, Live
<1>. QED  BY <1>1, <1>2

LEMMA InvAlways == Spec => []IInv
<1>1. IInv /\ [Next]_vars => IInv'
  <2> SUFFICES ASSUME IInv, [Next]_vars PROVE IInv'
    OBVIOUS
  <2>1. CASE Next
    BY <2>1, InvTask, InvTick, InvStart, InvStop, InvWorld DEF Next
  <2>2. CASE UNCHANGED vars
    <3>1. TypeOK'  BY <2>2 DEF vars, IInv, TypeOK
    <3>. QED  BY <2>2, <3>1, InvKeeps DEF vars
  <2>. QED  BY <2>1, <2>2
<1>. QED  BY InvInit, <1>1, PTL DEF Spec

\* is_running never answers for a task that has ended or is being cancelled.
THEOREM RegistryCorrect == Spec => []RegisteredTaskLive
<1>1. IInv => RegisteredTaskLive
  BY DEF IInv
<1>. QED  BY InvAlways, <1>1, PTL

\* One config has two tasks at work only after a start in the window between
\* the clearing of a registry entry and the end of the task it named.
THEOREM OneTaskAtWork == Spec => []SingleFlightOutsideWindow
<1>1. IInv => SingleFlightOutsideWindow
  BY DEF IInv, LiveTasksKnown, SingleFlightOutsideWindow, SingleFlight
<1>. QED  BY InvAlways, <1>1, PTL

\* A stop that nothing disturbs stops everything, for any number of handlers.
THEOREM StopQuiesces == Spec => []UndisturbedStopQuiesces
<1>1. IInv => UndisturbedStopQuiesces
  BY DEF IInv, StopProgress, UndisturbedStopQuiesces
<1>. QED  BY InvAlways, <1>1, PTL

-----------------------------------------------------------------------------
(* The two columns of a config.                                            *)

\* What any step does to the two columns.
LEMMA ColumnSteps ==
    ASSUME TypeOK, [Next]_vars
    PROVE  instanceName' => status' \in {"searching", "idle"} \/ (status' = status /\ instanceName)
<1> USE DEF Goto, StopKeeps, StartSearch, Spawn
<1>1. ASSUME NEW t \in Tasks, TaskStep(t) \/ SearchCompletes(t) \/ UnexpectedError(t)
      PROVE  instanceName' => status' \in {"searching", "idle"} \/ (status' = status /\ instanceName)
  BY <1>1 DEF TaskStep, LoadSearch, LoadRecheck, ProbeInstance, CreateInstance,
     WaitForInstance, MarkSearchStarted, SearchSeesStatus, RecheckCompletes, AbortRecheck,
     DeleteInstance, MarkSearchStopped, MarkRecheck, SetIdle, DeliverCancel, Finish,
     SearchCompletes, UnexpectedError
<1>2. CASE TickRead \/ TickResumeSearch \/ TickRecheck
  BY <1>2 DEF TickRead, TickResumeSearch, TickRecheck
<1>3. ASSUME NEW s \in Starters, StartPressed(s) \/ StartSetStatus(s) \/ StartSpawn(s)
      PROVE  instanceName' => status' \in {"searching", "idle"} \/ (status' = status /\ instanceName)
  BY <1>3 DEF StartPressed, StartSetStatus, StartSpawn
<1>4. ASSUME NEW s \in Stoppers, StopPressed(s) \/ StopStep(s)
      PROVE  instanceName' => status' \in {"searching", "idle"} \/ (status' = status /\ instanceName)
  BY <1>4 DEF StopPressed, StopStep, StopFindsInstance, StopFindsNoInstance,
     StopDeletesInstance, StopMarksPaused, PauseReturns, StopReloads, StopSetsIdle
<1>5. CASE InstanceBoots \/ AbandonedCall \/ Crash
  BY <1>5 DEF InstanceBoots, AbandonedCall, Crash
<1>6. CASE UNCHANGED vars
  BY <1>6 DEF vars
<1>. QED  BY <1>1, <1>2, <1>3, <1>4, <1>5, <1>6 DEF Next

\* A config that rests in "paused" or "monitoring" names no instance.
THEOREM RestingConfig == Spec => []RestingConfigNamesNoInstance
<1>1. Init => RestingConfigNamesNoInstance
  BY DEF Init, RestingConfigNamesNoInstance
<1>2. TypeOK /\ RestingConfigNamesNoInstance /\ [Next]_vars => RestingConfigNamesNoInstance'
  BY ColumnSteps DEF RestingConfigNamesNoInstance
<1>. QED  BY TypeCorrect, <1>1, <1>2, PTL DEF Spec

-----------------------------------------------------------------------------
(* Who accounts for the instance.                                          *)

\* Nothing was abandoned that can create an instance, and no second task lives:
\* either would take something that excuses an orphan.
OneLives ==
    /\ ~reopened /\ "create" \notin abandoned
    /\ \A t, u \in Tasks : Live(t) /\ Live(u) => t = u

\* A stop handler lets no task work on, and deletes before it forgets.
StopsOwn ==
    \A s \in Stoppers :
        /\ Stopping(s) => \A t \in Tasks : Live(t) => t \in cancelling
        /\ stopper[s].at = "pause" => instance = "absent"
        /\ stopper[s].at \in {"paused", "release"} => ~instanceName

\* Where a task stands while its config names no instance.
Nameless(t) ==
    \/ Live(t) /\ kind[t] = "recheck"
    \/ pc[t] \in {"new", "probe", "create", "wait", "mark", "abort", "fail"}
    \/ pc[t] = "finish" /\ t \notin cancelling

\* The name of the instance is in the config exactly while a search that will
\* delete it, or a stop handler, is there to clear it.
NameOwned ==
    /\ \A t \in Tasks : Nameless(t) => ~instanceName
    /\ \A t \in Tasks : pc[t] = "mark" => kind[t] = "search"
    /\ instanceName => \/ \E s \in Stoppers : Stopping(s)
                       \/ \E t \in Tasks : kind[t] = "search"
                                             /\ pc[t] \in {"work", "delete", "record"}

\* The instance is named, or a task is between its creation and its deletion.
InstanceOwned ==
    /\ \A t \in Tasks : pc[t] = "record" => instance = "absent"
    /\ instance # "absent" =>
          \/ instanceName
          \/ \E t \in Tasks : pc[t] \in {"wait", "mark", "work", "abort", "delete"}

Owned == ~excused => OneLives /\ StopsOwn /\ NameOwned /\ InstanceOwned

LEMMA OwnedInit == Init => Owned
<1> SUFFICES ASSUME Init PROVE Owned
  OBVIOUS
<1>1. \A s \in Stoppers : stopper[s] = StopperReady
  BY DEF Init
<1>. QED  BY <1>1 DEF Init, Owned, OneLives, StopsOwn, NameOwned, InstanceOwned, Nameless,
             Live, Stopping, StopperReady

\* A task that is not being cancelled is the only one alive, and no stop handler
\* is under way.
LEMMA OnlyTask ==
    ASSUME Owned, ~excused, NEW t \in Tasks, Live(t), t \notin cancelling
    PROVE  /\ \A u \in Tasks : u # t => pc[u] = "free"
           /\ \A s \in Stoppers : stopper[s].at = "ready"
BY DEF Owned, OneLives, StopsOwn, Live, Stopping

LEMMA OwnedTask ==
    ASSUME IInv, Owned, NEW t \in Tasks,
           TaskStep(t) \/ SearchCompletes(t) \/ UnexpectedError(t), Advances(t)
    PROVE  Owned'
<1> SUFFICES ASSUME ~excused' PROVE (OneLives /\ StopsOwn /\ NameOwned /\ InstanceOwned)'
  BY DEF Owned
<1>1. ~DeliverCancel(t) /\ ~Finish(t)
  BY DEF DeliverCancel, Finish, Advances, IInv, TypeOK
<1>2. ~excused
  BY <1>1 DEF TaskStep, LoadSearch, LoadRecheck, ProbeInstance, CreateInstance,
     WaitForInstance, MarkSearchStarted, SearchSeesStatus, RecheckCompletes, AbortRecheck,
     DeleteInstance, MarkSearchStopped, MarkRecheck, SetIdle,
     SearchCompletes, UnexpectedError
<1>3. /\ \A u \in Tasks : u # t => pc[u] = "free"
      /\ \A s \in Stoppers : stopper[s].at = "ready"
  BY <1>2, OnlyTask DEF Live, Advances
<1>4. /\ \A u \in Tasks : u # t => pc'[u] = "free"
      /\ \A s \in Stoppers : stopper'[s].at = "ready"
      /\ cancelling' = cancelling /\ reopened' = reopened
  BY <1>3 DEF Advances, IInv, TypeOK
<1>5. StopsOwn'
  BY <1>4 DEF StopsOwn, Stopping
<1>6. OneLives'
  <2>1. abandoned' = abandoned
    BY <1>1 DEF TaskStep, LoadSearch, LoadRecheck, ProbeInstance, CreateInstance, awsVars,
       WaitForInstance, MarkSearchStarted, SearchSeesStatus, RecheckCompletes, AbortRecheck,
       DeleteInstance, MarkSearchStopped, MarkRecheck, SetIdle,
       SearchCompletes, UnexpectedError
  <2>. QED  BY <1>2, <1>4, <2>1 DEF Owned, OneLives, Live
<1> USE DEF Goto, Runs, FailTo, awsVars, dbVars
<1>7. ASSUME NEW at, pc' = [pc EXCEPT ![t] = at] PROVE pc'[t] = at
  BY <1>7 DEF IInv, TypeOK
<1>8. /\ Nameless(t) => ~instanceName
      /\ pc[t] = "mark" => kind[t] = "search"
      /\ instanceName => kind[t] = "search" /\ pc[t] \in {"work", "delete", "record"}
      /\ pc[t] = "record" => instance = "absent"
      /\ instance # "absent" => instanceName
                                  \/ pc[t] \in {"wait", "mark", "work", "abort", "delete"}
  BY <1>2, <1>3 DEF Owned, NameOwned, InstanceOwned, Stopping
<1>9. SUFFICES /\ Nameless(t)' => ~instanceName'
               /\ pc'[t] = "mark" => kind'[t] = "search"
               /\ instanceName' => kind'[t] = "search" /\ pc'[t] \in {"work", "delete", "record"}
               /\ pc'[t] = "record" => instance' = "absent"
               /\ instance' # "absent" => instanceName'
                                  \/ pc'[t] \in {"wait", "mark", "work", "abort", "delete"}
  <2>1. \A u \in Tasks : u # t => ~Nameless(u)' /\ pc'[u] \notin {"mark", "record"}
    BY <1>4 DEF Nameless, Live
  <2>. QED  BY <1>5, <1>6, <2>1 DEF NameOwned, InstanceOwned
<1>10. kind' = kind
  BY <1>1 DEF TaskStep, LoadSearch, LoadRecheck, ProbeInstance, CreateInstance,
       WaitForInstance, MarkSearchStarted, SearchSeesStatus, RecheckCompletes, AbortRecheck,
       DeleteInstance, MarkSearchStopped, MarkRecheck, SetIdle,
       SearchCompletes, UnexpectedError
<1>11. kind[t] \in Kinds
  BY DEF IInv, TypeOK
<1> USE <1>7, <1>8, <1>10, <1>11, <1>4, <1>2 DEF Nameless, Live, Kinds
<1>21. CASE LoadSearch(t)         BY <1>21 DEF LoadSearch
<1>22. CASE LoadRecheck(t)        BY <1>22 DEF LoadRecheck
<1>23. CASE ProbeInstance(t)      BY <1>23 DEF ProbeInstance
<1>24. CASE CreateInstance(t)     BY <1>24 DEF CreateInstance
<1>25. CASE WaitForInstance(t)    BY <1>25 DEF WaitForInstance
<1>26. CASE MarkSearchStarted(t)  BY <1>26 DEF MarkSearchStarted
<1>27. CASE SearchSeesStatus(t)   BY <1>27 DEF SearchSeesStatus
<1>28. CASE RecheckCompletes(t)   BY <1>28 DEF RecheckCompletes
<1>29. CASE AbortRecheck(t)       BY <1>29 DEF AbortRecheck
<1>30. CASE DeleteInstance(t)     BY <1>30 DEF DeleteInstance
<1>31. CASE MarkSearchStopped(t)
  <2>1. PICK next \in {"finish", "fail"} : pc' = [pc EXCEPT ![t] = next]
    BY <1>31 DEF MarkSearchStopped
  <2>. QED  BY <1>31, <2>1 DEF MarkSearchStopped
<1>32. CASE MarkRecheck(t)        BY <1>32 DEF MarkRecheck
<1>33. CASE SetIdle(t)            BY <1>33 DEF SetIdle
<1>34. CASE SearchCompletes(t)    BY <1>34 DEF SearchCompletes
<1>35. CASE UnexpectedError(t)    BY <1>35 DEF UnexpectedError
<1>. QED  BY <1>1, <1>21, <1>22, <1>23, <1>24, <1>25, <1>26, <1>27, <1>28, <1>29, <1>30, <1>31,
             <1>32, <1>33, <1>34, <1>35 DEF TaskStep

LEMMA OwnedDeliver ==
    ASSUME IInv, Owned, NEW t \in Tasks, DeliverCancel(t)
    PROVE  Owned'
<1> SUFFICES ASSUME ~excused' PROVE (OneLives /\ StopsOwn /\ NameOwned /\ InstanceOwned)'
  BY DEF Owned
<1> USE DEF Live, Stopping
<1>1. /\ ~excused /\ instanceName /\ t \in cancelling
      /\ \A u \in Tasks : u # t => pc'[u] = pc[u]
      /\ \A u \in Tasks : Live(u)' => Live(u)
      /\ pc'[t] = IF pc[t] = "new" THEN "free" ELSE "finish"
      /\ UNCHANGED <<instanceName, instance, kind, stopper, reopened>>
  BY DEF DeliverCancel, dbVars, IInv, TypeOK
<1>2. ~Nameless(t) /\ OneLives /\ StopsOwn /\ NameOwned /\ InstanceOwned
  BY <1>1 DEF Owned, NameOwned
<1>3. pc[t] \notin {"new", "create"} /\ cancelling' = cancelling
  BY <1>2 DEF DeliverCancel, Nameless
<1>4. OneLives'
  BY <1>1, <1>2, <1>3 DEF OneLives, DeliverCancel
<1>5. StopsOwn'
  BY <1>1, <1>2, <1>3 DEF StopsOwn
<1>6. PICK s \in Stoppers : Stopping(s)
  BY <1>1 DEF IInv, CancellingAwaited
<1>7. NameOwned'
  BY <1>1, <1>2, <1>3, <1>6 DEF NameOwned, Nameless
<1>8. InstanceOwned'
  BY <1>1, <1>2 DEF InstanceOwned
<1>. QED  BY <1>4, <1>5, <1>7, <1>8

LEMMA OwnedFinish ==
    ASSUME IInv, Owned, NEW t \in Tasks, Finish(t)
    PROVE  Owned'
<1> SUFFICES ASSUME ~excused' PROVE (OneLives /\ StopsOwn /\ NameOwned /\ InstanceOwned)'
  BY DEF Owned
<1> USE DEF Live, Stopping
<1>1. /\ ~excused /\ pc[t] = "finish" /\ pc'[t] = "free"
      /\ \A u \in Tasks : u # t => pc'[u] = pc[u] /\ kind'[u] = kind[u]
      /\ cancelling' = cancelling \ {t}
      /\ UNCHANGED <<instanceName, instance, abandoned, stopper, reopened>>
  BY DEF Finish, dbVars, awsVars, history, IInv, TypeOK
<1>2. OneLives /\ StopsOwn /\ NameOwned /\ InstanceOwned
  BY <1>1 DEF Owned
<1>3. OneLives'
  BY <1>1, <1>2 DEF OneLives
<1>4. StopsOwn'
  BY <1>1, <1>2 DEF StopsOwn
<1>5. \A u \in Tasks : Nameless(u)' => Nameless(u)
  BY <1>1 DEF Nameless
<1>6. instanceName => \E s \in Stoppers : Stopping(s)
  <2>1. CASE t \in cancelling
    BY <2>1 DEF IInv, CancellingAwaited
  <2>2. CASE t \notin cancelling
    BY <1>1, <1>2, <2>2 DEF NameOwned, Nameless
  <2>. QED  BY <2>1, <2>2
<1>7. NameOwned'
  BY <1>1, <1>2, <1>5, <1>6 DEF NameOwned
<1>8. InstanceOwned'
  BY <1>1, <1>2 DEF InstanceOwned
<1>. QED  BY <1>3, <1>4, <1>7, <1>8

LEMMA OwnedSpawn ==
    ASSUME IInv, Owned, NEW k \in Kinds, ~IsRunning, Spawn(k), TypeOK',
           UNCHANGED <<dbVars, awsVars>>
    PROVE  Owned'
<1> SUFFICES ASSUME ~excused' PROVE (OneLives /\ StopsOwn /\ NameOwned /\ InstanceOwned)'
  BY DEF Owned
<1> USE DEF Live, Stopping
<1>1. PICK t \in Tasks :
        /\ pc[t] = "free" /\ pc' = [pc EXCEPT ![t] = "new"] /\ kind' = [kind EXCEPT ![t] = k]
        /\ activeTask' = t
        /\ Disturb
        /\ reopened' = (reopened \/ cancelling # {})
        /\ excused' = (excused \/ \E s \in Stoppers : Stopping(s))
        /\ UNCHANGED cancelling
  BY DEF Spawn
<1>2. ~excused /\ \A s \in Stoppers : ~Stopping(s)
  BY <1>1
<1>3. \A s \in Stoppers : ~Stopping(s)'
  BY <1>1, <1>2, DisturbKeeps DEF IInv
<1>4. cancelling = {}
  BY <1>2 DEF IInv, CancellingAwaited
<1>5. OneLives /\ NameOwned /\ InstanceOwned
  BY <1>2 DEF Owned
<1>6. activeTask = NoTask
  BY DEF IInv, RegisteredTaskLive, IsRunning
<1>7. \A u \in Tasks : pc[u] = "free"
  BY <1>4, <1>5, <1>6, TasksAssumption DEF IInv, LiveTasksKnown, OneLives
<1>8. ~instanceName /\ instance = "absent"
  BY <1>2, <1>5, <1>7 DEF NameOwned, InstanceOwned
<1>9. pc'[t] = "new" /\ \A u \in Tasks : u # t => pc'[u] = "free"
  BY <1>1, <1>7 DEF IInv, TypeOK
<1>10. UNCHANGED <<instanceName, instance, abandoned>>
  BY DEF dbVars, awsVars
<1>11. OneLives'
  BY <1>1, <1>4, <1>5, <1>9, <1>10 DEF OneLives
<1>12. \A u \in Tasks : pc'[u] \in {"new", "free"}
  BY <1>9
<1>13. StopsOwn'
  BY <1>3 DEF StopsOwn
<1>14. NameOwned' /\ InstanceOwned'
  BY <1>8, <1>10, <1>12 DEF NameOwned, InstanceOwned
<1>. QED  BY <1>11, <1>13, <1>14

\* What the instance's owners depend on is left alone.
LEMMA OwnedKeeps ==
    ASSUME Owned, UNCHANGED <<instanceName, instance, abandoned, kind, pc, cancelling,
                              stopper, reopened, excused>>
    PROVE  Owned'
BY DEF Owned, OneLives, StopsOwn, NameOwned, InstanceOwned, Nameless, Live, Stopping

LEMMA OwnedTick ==
    ASSUME IInv, Owned, TickRead \/ TickResumeSearch \/ TickRecheck
    PROVE  Owned'
<1>0. TypeOK'
  BY TypeTick DEF IInv
<1> USE DEF dbVars, awsVars, taskVars, history
<1>1. CASE TickRead
  BY <1>1, OwnedKeeps DEF TickRead
<1>2. CASE TickResumeSearch
  BY <1>0, <1>2, OwnedKeeps, OwnedSpawn DEF TickResumeSearch, StartSearch, Kinds
<1>3. CASE TickRecheck
  BY <1>0, <1>3, OwnedKeeps, OwnedSpawn DEF TickRecheck, Kinds
<1>. QED  BY <1>1, <1>2, <1>3

LEMMA OwnedStart ==
    ASSUME IInv, Owned, NEW s \in Starters,
           StartPressed(s) \/ StartSetStatus(s) \/ StartSpawn(s)
    PROVE  Owned'
<1>0. TypeOK'
  BY TypeStart DEF IInv
<1> USE DEF dbVars, awsVars, taskVars, history
<1>1. CASE StartPressed(s)
  BY <1>1, OwnedKeeps DEF StartPressed
<1>2. CASE StartSetStatus(s)
  <2>1. /\ Disturb /\ UNCHANGED <<instanceName, instance, abandoned, kind, pc, cancelling, reopened>>
        /\ excused' = (excused \/ \E r \in Stoppers : Stopping(r))
    BY <1>2 DEF StartSetStatus
  <2>2. \A r \in Stoppers : stopper'[r].at = stopper[r].at
    BY <2>1, DisturbKeeps DEF IInv
  <2>. QED  BY <2>1, <2>2 DEF Owned, OneLives, StopsOwn, NameOwned, InstanceOwned, Nameless,
               Live, Stopping
<1>3. CASE StartSpawn(s)
  BY <1>0, <1>3, OwnedKeeps, OwnedSpawn DEF StartSpawn, StartSearch, Kinds
<1>. QED  BY <1>1, <1>2, <1>3

LEMMA OwnedPressed ==
    ASSUME IInv, Owned, NEW s \in Stoppers, StopPressed(s)
    PROVE  Owned'
<1> SUFFICES ASSUME ~excused' PROVE (OneLives /\ StopsOwn /\ NameOwned /\ InstanceOwned)'
  BY DEF Owned
<1> USE DEF Live, Stopping
<1>1. /\ cancelling' = IF IsRunning THEN cancelling \cup {activeTask} ELSE cancelling
      /\ UNCHANGED <<instanceName, instance, abandoned, kind, pc, reopened>>
      /\ ~excused
  BY DEF StopPressed, StopKeeps, dbVars, awsVars
<1>2. stopper'[s].at = "await" /\ \A r \in Stoppers : r # s => stopper'[r] = stopper[r]
  BY DEF StopPressed, IInv, TypeOK, StopperReady
<1>3. OneLives /\ StopsOwn /\ NameOwned /\ InstanceOwned
  BY <1>1 DEF Owned
<1>4. \A t \in Tasks : Live(t) => t \in cancelling'
  BY <1>1, <1>3, TasksAssumption DEF OneLives, IInv, LiveTasksKnown, IsRunning
<1>5. OneLives'
  BY <1>1, <1>3 DEF OneLives
<1>6. StopsOwn'
  BY <1>1, <1>2, <1>3, <1>4 DEF StopsOwn
<1>7. cancelling \subseteq cancelling'
  BY <1>1
<1>8. NameOwned'
  BY <1>1, <1>2, <1>3, <1>7 DEF NameOwned, Nameless
<1>9. InstanceOwned'
  BY <1>1, <1>3 DEF InstanceOwned
<1>. QED  BY <1>5, <1>6, <1>8, <1>9

LEMMA OwnedStop ==
    ASSUME IInv, Owned, NEW s \in Stoppers, StopStep(s)
    PROVE  Owned'
<1> SUFFICES ASSUME ~excused' PROVE (OneLives /\ StopsOwn /\ NameOwned /\ InstanceOwned)'
  BY DEF Owned
<1> USE DEF Live, Stopping
<1>1. /\ UNCHANGED <<abandoned, kind, pc, cancelling, reopened>>
      /\ \A r \in Stoppers : r # s => stopper'[r] = stopper[r]
      /\ ~excused /\ Stopping(s)
      /\ instance' \in {instance, "absent"}
      /\ instanceName' \in {instanceName, FALSE}
  <2> USE DEF StopKeeps, StopAwaited, dbVars, awsVars, IInv, TypeOK
  <2>1. CASE StopFindsInstance(s)    BY <2>1 DEF StopFindsInstance
  <2>2. CASE StopFindsNoInstance(s)  BY <2>2 DEF StopFindsNoInstance
  <2>3. CASE StopDeletesInstance(s)  BY <2>3 DEF StopDeletesInstance
  <2>4. CASE StopMarksPaused(s)      BY <2>4 DEF StopMarksPaused
  <2>5. CASE PauseReturns(s)         BY <2>5 DEF PauseReturns
  <2>6. CASE StopReloads(s)          BY <2>6 DEF StopReloads
  <2>7. CASE StopSetsIdle(s)         BY <2>7 DEF StopSetsIdle
  <2>. QED  BY <2>1, <2>2, <2>3, <2>4, <2>5, <2>6, <2>7 DEF StopStep
<1>2. OneLives /\ StopsOwn /\ NameOwned /\ InstanceOwned
  BY <1>1 DEF Owned
<1>3. OneLives'
  BY <1>1, <1>2 DEF OneLives
<1>4. \A t \in Tasks : Live(t)' => t \in cancelling'
  BY <1>1, <1>2 DEF StopsOwn
\* where the handler goes, and what it leaves behind
<1>5. /\ stopper'[s].at = "pause" => instance' = "absent"
      /\ stopper'[s].at \in {"paused", "release"} => ~instanceName'
      /\ instanceName /\ ~instanceName' => instance = "absent"
      /\ stopper'[s].at = "ready" => ~instanceName'
  <2> USE DEF StopKeeps, StopAwaited, StopperReady, dbVars, awsVars, IInv, TypeOK, StopsOwn
  <2>1. CASE StopFindsInstance(s)    BY <1>1, <1>2, <2>1 DEF StopFindsInstance
  <2>2. CASE StopFindsNoInstance(s)  BY <1>1, <1>2, <2>2 DEF StopFindsNoInstance
  <2>3. CASE StopDeletesInstance(s)  BY <1>1, <1>2, <2>3 DEF StopDeletesInstance
  <2>4. CASE StopMarksPaused(s)      BY <1>1, <1>2, <2>4 DEF StopMarksPaused
  <2>5. CASE PauseReturns(s)         BY <1>1, <1>2, <2>5 DEF PauseReturns
  <2>6. CASE StopReloads(s)          BY <1>1, <1>2, <2>6 DEF StopReloads
  <2>7. CASE StopSetsIdle(s)         BY <1>1, <1>2, <2>7 DEF StopSetsIdle
  <2>. QED  BY <2>1, <2>2, <2>3, <2>4, <2>5, <2>6, <2>7 DEF StopStep
<1>6. StopsOwn'
  BY <1>1, <1>2, <1>4, <1>5 DEF StopsOwn
<1>7. NameOwned'
  <2>1. \A t \in Tasks : Nameless(t)' <=> Nameless(t)
    BY <1>1 DEF Nameless
  <2>2. instanceName' => stopper'[s].at # "ready"
    BY <1>5
  <2>3. instanceName' => \E r \in Stoppers : Stopping(r)'
    BY <2>2
  <2>4. \A t \in Tasks : Nameless(t)' => ~instanceName'
    <3>1. instanceName' => instanceName
      BY <1>1
    <3>. QED  BY <1>2, <2>1, <3>1 DEF NameOwned
  <2>. QED  BY <1>1, <1>2, <2>3, <2>4 DEF NameOwned
<1>8. InstanceOwned'
  BY <1>1, <1>2, <1>5 DEF InstanceOwned
<1>. QED  BY <1>3, <1>6, <1>7, <1>8

LEMMA OwnedWorld ==
    ASSUME TypeOK, Owned, InstanceBoots \/ AbandonedCall \/ Crash
    PROVE  Owned'
<1> USE DEF dbVars, awsVars, taskVars, history
<1>1. CASE InstanceBoots
  BY <1>1 DEF InstanceBoots, Owned, OneLives, StopsOwn, NameOwned, InstanceOwned, Nameless,
     Live, Stopping
<1>2. CASE AbandonedCall
  <2>1. ~excused => instance' \in {instance, "absent"} /\ "create" \notin abandoned'
    BY <1>2 DEF AbandonedCall, Owned, OneLives, TypeOK
  <2>. QED  BY <1>2, <2>1 DEF AbandonedCall, Owned, OneLives, StopsOwn, NameOwned,
               InstanceOwned, Nameless, Live, Stopping
<1>3. CASE Crash
  BY <1>3 DEF Crash, Owned
<1>. QED  BY <1>1, <1>2, <1>3

LEMMA OwnedStep == IInv /\ Owned /\ [Next]_vars => Owned'
<1> SUFFICES ASSUME IInv, Owned, [Next]_vars PROVE Owned'
  OBVIOUS
<1>1. ASSUME NEW t \in Tasks, TaskStep(t) \/ SearchCompletes(t) \/ UnexpectedError(t)
      PROVE  Owned'
  BY <1>1, TaskAdvances, OwnedTask, OwnedDeliver, OwnedFinish DEF IInv
<1>2. CASE UNCHANGED vars
  BY <1>2, OwnedKeeps DEF vars, dbVars, awsVars, taskVars, history
<1>. QED  BY <1>1, <1>2, OwnedTick, OwnedStart, OwnedPressed, OwnedStop, OwnedWorld DEF Next, IInv

\* An instance that nothing accounts for has a cause, for any number of tasks,
\* handlers and restarts: a crash, a failed or abandoned call, a start during a
\* stop, or a cancellation before the config named it.
THEOREM OrphanHasCause == Spec => []UnownedInstanceHasCause
<1>1. Owned => UnownedInstanceHasCause
  BY DEF Owned, InstanceOwned, UnownedInstanceHasCause, Unowned, Live
<1>2. Spec => []Owned
  BY InvAlways, OwnedInit, OwnedStep, PTL DEF Spec
<1>. QED  BY <1>1, <1>2, PTL

=============================================================================
