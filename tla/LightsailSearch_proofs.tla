----------------------- MODULE LightsailSearch_proofs -----------------------
(***************************************************************************)
(* The leak property of LightsailSearch, proved for any set of names, any  *)
(* limits and any events from outside.                                     *)
(***************************************************************************)
EXTENDS LightsailSearch, TLAPS

USE DEF dbVars, awsVars, syncVars, checkVars, loopVars, workerVars, stopVars

LeakTypes ==
    /\ row \in [Names -> Verdicts \cup {"absent"}]
    /\ held \subseteq Names
    /\ late[1] = "allocate" => late[2] \in Names

\* What n's disappearance from the table may leave behind.
Excused(n) == n \notin held \/ n \in orphaned

\* NoSilentLeak alone is not inductive: it also takes that the row about to be
\* deleted is excused, that the listing being compared is exact but for excused
\* addresses, that what the comparison deletes is excused, and that inner loops
\* do not continue in the middle of another one.
LeakInv ==
    /\ LeakTypes
    /\ NoSilentLeak
    /\ at = "forget" => Excused(cur)
    /\ stopper = "forget" => Excused(dcur)
    /\ at = "compare" => \A n \in held \ adds : n \in orphaned
    /\ at = "sync" => \A n \in dels : Excused(n)
    /\ then \notin {"forget", "compare", "sync", "add"}
    /\ mode = "off" => at = "off"

LEMMA LeakInit == Init => LeakInv
BY DEF Init, LeakInv, LeakTypes, NoSilentLeak, WorkerIdle, Verdicts, NoCall

\* No row disappears.
RowsStay ==
    /\ row' \in [Names -> Verdicts \cup {"absent"}]
    /\ \A n \in Names : row'[n] = "absent" => row[n] = "absent"

\* A step of the worker between two points of no interest.
LEMMA LeakQuiet ==
    ASSUME LeakInv, RowsStay, UNCHANGED <<held, orphaned, late, stopper, dcur>>,
           at # "add", at' \notin {"forget", "compare", "sync"},
           then' \notin {"forget", "compare", "sync", "add"},
           mode' = "off" => at' = "off"
    PROVE  LeakInv'
BY DEF LeakInv, RowsStay, NoSilentLeak, Excused, LeakTypes

\* A step outside the worker that leaves addresses and rows alone.
LEMMA LeakOutside ==
    ASSUME LeakInv, UNCHANGED <<row, held, orphaned, late, mode, at, new, cur, then, adds, dels>>,
           stopper' = "forget" => Excused(dcur')
    PROVE  LeakInv'
BY DEF LeakInv, NoSilentLeak, Excused, LeakTypes

\* Where the worker has something at stake.
LeakPoints == {"forget", "compare", "sync", "add"}

LEMMA LoopCalm ==
    ASSUME LeakInv, NEW pc, NEW names, NEW next, EnterLoop(pc, names, next),
           pc \notin LeakPoints, next \notin LeakPoints
    PROVE  at' \notin LeakPoints /\ then' \notin LeakPoints /\ mode' = mode
BY DEF EnterLoop, Goto, LeakPoints

LEMMA TurnCalm ==
    ASSUME LeakInv, NEW pc, TurnOver(pc), pc \notin LeakPoints
    PROVE  at' \notin LeakPoints /\ then' \notin LeakPoints /\ mode' = mode
BY DEF TurnOver, Goto, LeakPoints, LeakInv

LEMMA RowsSame ==
    ASSUME LeakInv, UNCHANGED row
    PROVE  RowsStay
BY DEF LeakInv, LeakTypes, RowsStay

LEMMA MarkStays ==
    ASSUME LeakInv, NEW n, NEW v \in Verdicts, NEW b \in BOOLEAN, Mark(n, v, b)
    PROVE  RowsStay
BY DEF LeakInv, LeakTypes, RowsStay, Mark, Verdicts

\* What most steps of the worker are.
QuietStep ==
    /\ RowsStay /\ UNCHANGED <<held, orphaned, late, stopper, dcur>>
    /\ at # "add" /\ at' \notin {"forget", "compare", "sync"} /\ then' \notin LeakPoints
    /\ mode' = "off" => at' = "off"

LEMMA QuietKeeps == ASSUME LeakInv, QuietStep PROVE LeakInv'
BY LeakQuiet DEF QuietStep, LeakPoints

LEMMA ThenCalm == LeakInv => then \notin LeakPoints
BY DEF LeakInv, LeakPoints

\* Beginnings, ends and the search loop.
LEMMA QuietControl ==
    ASSUME LeakInv,
           \/ StartPressed \/ BeginSearch \/ EnsureForSearch \/ BeginRecheck
           \/ EnsureForRecheck \/ SyncDone \/ SearchEnds \/ SearchExtends \/ SearchRotates
           \/ Sweep \/ SweepAttached \/ EndInstance \/ MarkSearchStopped \/ MarkRecheck
    PROVE  QuietStep \/ (StartPressed /\ UNCHANGED <<row, held, orphaned, late, mode, at, new,
                                                     cur, then, adds, dels, stopper, dcur>>)
<1> USE ThenCalm, RowsSame DEF QuietStep, LeakInv, Goto, Quit, DeleteInstance
<1>1. CASE StartPressed       BY <1>1 DEF StartPressed
<1>2. CASE BeginSearch        BY <1>2 DEF BeginSearch, LeakPoints
<1>3. CASE EnsureForSearch    BY <1>3 DEF EnsureForSearch, LeakPoints
<1>4. CASE BeginRecheck       BY <1>4 DEF BeginRecheck, LeakPoints
<1>5. CASE EnsureForRecheck   BY <1>5 DEF EnsureForRecheck, LeakPoints
<1>6. CASE SyncDone           BY <1>6 DEF SyncDone, LeakPoints
<1>7. CASE SearchEnds         BY <1>7 DEF SearchEnds, LeakPoints
<1>8. CASE SearchExtends      BY <1>8 DEF SearchExtends, LeakPoints
<1>9. CASE SearchRotates
  <2>1. PICK victim \in NotGood : EnterLoop("drop", {victim}, "alloc")
    BY <1>9 DEF SearchRotates
  <2>2. at' \notin LeakPoints /\ then' \notin LeakPoints /\ mode' = mode
    BY <2>1, LoopCalm DEF LeakPoints
  <2>. QED  BY <1>9, <2>2 DEF SearchRotates, LeakPoints
<1>10. CASE Sweep
  <2>1. at' \notin LeakPoints /\ then' \notin LeakPoints /\ mode' = mode
    BY <1>10, LoopCalm DEF Sweep, LeakPoints
  <2>. QED  BY <1>10, <2>1 DEF Sweep, LeakPoints
<1>11. CASE SweepAttached
  <2>1. at' \notin LeakPoints /\ then' \notin LeakPoints /\ mode' = mode
    BY <1>11, LoopCalm DEF SweepAttached, LeakPoints
  <2>. QED  BY <1>11, <2>1 DEF SweepAttached, LeakPoints
<1>12. CASE EndInstance        BY <1>12 DEF EndInstance, LeakPoints
<1>13. CASE MarkSearchStopped  BY <1>13 DEF MarkSearchStopped, LeakPoints
<1>14. CASE MarkRecheck        BY <1>14 DEF MarkRecheck, LeakPoints
<1>. QED  BY <1>1, <1>2, <1>3, <1>4, <1>5, <1>6, <1>7, <1>8, <1>9, <1>10, <1>11,
             <1>12, <1>13, <1>14

\* Allocation attempts that allocate nothing, and the test of a new address.
LEMMA QuietTest ==
    ASSUME LeakInv,
           \/ AllocateNothing \/ QuotaHit \/ QuotaRecovery \/ ClearFlag
           \/ AttachNew \/ FlagNew \/ CheckGood \/ CheckBad
           \/ \E n \in Names : ClearDetach(n)
    PROVE  QuietStep
<1> USE ThenCalm, RowsSame DEF QuietStep, LeakInv, Goto, AttemptFails, Detach, Attach
<1>1. CASE AllocateNothing    BY <1>1 DEF AllocateNothing, LeakPoints
<1>2. CASE QuotaHit           BY <1>2 DEF QuotaHit, LeakPoints
<1>3. CASE QuotaRecovery
  <2>1. at' \notin LeakPoints /\ then' \notin LeakPoints /\ mode' = mode
    BY <1>3, LoopCalm DEF QuotaRecovery, LeakPoints
  <2>. QED  BY <1>3, <2>1 DEF QuotaRecovery, LeakPoints
<1>4. CASE ClearFlag
  <2>1. at' \notin LeakPoints /\ then' \notin LeakPoints /\ mode' = mode
    BY <1>4, TurnCalm DEF ClearFlag, LeakPoints
  <2>. QED  BY <1>4, <2>1 DEF ClearFlag, LeakPoints
<1>5. CASE AttachNew
  <2>1. RowsStay
    BY <1>5, MarkStays DEF AttachNew, Verdicts
  <2>. QED  BY <1>5, <2>1 DEF AttachNew, LeakPoints
<1>6. CASE FlagNew
  <2>1. RowsStay
    BY <1>6 DEF FlagNew, Mark, RowsStay, LeakInv, LeakTypes
  <2>. QED  BY <1>6, <2>1 DEF FlagNew, LeakPoints
<1>7. CASE CheckGood
  <2>1. RowsStay
    BY <1>7, MarkStays DEF CheckGood, Verdicts
  <2>2. at' \notin LeakPoints /\ then' \notin LeakPoints /\ mode' = mode
    BY <1>7, LoopCalm DEF CheckGood, LeakPoints
  <2>. QED  BY <1>7, <2>1, <2>2 DEF CheckGood, LeakPoints
<1>8. CASE CheckBad
  <2>1. RowsStay
    BY <1>8, MarkStays DEF CheckBad, Verdicts
  <2>. QED  BY <1>8, <2>1 DEF CheckBad, LeakPoints
<1>9. ASSUME NEW n \in Names, ClearDetach(n) PROVE QuietStep
  BY <1>9 DEF ClearDetach, LeakPoints
<1>. QED  BY <1>1, <1>2, <1>3, <1>4, <1>5, <1>6, <1>7, <1>8, <1>9

\* The recheck outside the test of a replacement.
LEMMA QuietRecheck ==
    ASSUME LeakInv,
           \/ ProbeAttach \/ ProbeCheck \/ ProbesDone \/ NextFailed \/ TryReplacement
           \/ GiveUp \/ \E n \in Names : ProbeNext(n)
    PROVE  QuietStep
<1> USE ThenCalm, RowsSame DEF QuietStep, LeakInv, Goto, Detach, Attach
<1>1. CASE ProbeAttach  BY <1>1 DEF ProbeAttach, LeakPoints
<1>2. CASE ProbeCheck   BY <1>2 DEF ProbeCheck, LeakPoints
<1>3. CASE ProbesDone   BY <1>3 DEF ProbesDone, LeakPoints
<1>4. CASE NextFailed   BY <1>4 DEF NextFailed, LeakPoints
<1>5. CASE TryReplacement
  <2>1. CASE \E victim \in Bad : EnterLoop("drop", {victim}, "alloc")
    <3>1. at' \notin LeakPoints /\ then' \notin LeakPoints /\ mode' = mode
      BY <2>1, LoopCalm DEF LeakPoints
    <3>. QED  BY <1>5, <3>1 DEF TryReplacement, LeakPoints
  <2>. QED  BY <1>5, <2>1 DEF TryReplacement, LeakPoints
<1>6. CASE GiveUp       BY <1>6 DEF GiveUp, LeakPoints
<1>7. ASSUME NEW n \in Names, ProbeNext(n) PROVE QuietStep
  BY <1>7 DEF ProbeNext, LeakPoints
<1>. QED  BY <1>1, <1>2, <1>3, <1>4, <1>5, <1>6, <1>7

-----------------------------------------------------------------------------
(* The steps that have something at stake.                                 *)

LEMMA LeakSync ==
    ASSUME LeakInv,
           ListAws \/ CompareRows \/ \E n \in Names : SyncAdd(n) \/ SyncDelete(n)
    PROVE  LeakInv'
<1> USE DEF LeakInv, LeakTypes, NoSilentLeak, Excused, Goto
<1>1. CASE ListAws       BY <1>1 DEF ListAws
<1>2. CASE CompareRows
  <2>1. \A n \in dels' : Excused(n)'
    BY <1>2 DEF CompareRows, Rows
  <2>. QED  BY <1>2, <2>1 DEF CompareRows
<1>3. ASSUME NEW n \in Names, SyncAdd(n) PROVE LeakInv'
  BY <1>3 DEF SyncAdd, Verdicts
<1>4. ASSUME NEW n \in Names, SyncDelete(n) PROVE LeakInv'
  BY <1>4 DEF SyncDelete, ForgetRow
<1>. QED  BY <1>1, <1>2, <1>3, <1>4

LEMMA LeakDrop ==
    ASSUME LeakInv, DropRelease \/ DropForget \/ \E n \in Names : DropDetach(n)
    PROVE  LeakInv'
<1> USE DEF LeakInv, LeakTypes, NoSilentLeak, Excused, Goto
<1>1. ASSUME NEW n \in Names, DropDetach(n) PROVE LeakInv'
  BY <1>1 DEF DropDetach, GivesUpOn
<1>2. CASE DropRelease /\ Release(cur) /\ orphaned' = orphaned \ {cur}
  <2>1. held' = held \ {cur} /\ UNCHANGED <<row, late, mode, new, cur, then, adds, dels, stopper, dcur>>
    BY <1>2 DEF DropRelease, Release
  <2>. QED  BY <1>2, <2>1 DEF DropRelease
<1>3. CASE DropRelease /\ UNCHANGED <<held, bound>> /\ GivesUpOn(cur)
  BY <1>3 DEF DropRelease, GivesUpOn
<1>4. CASE DropForget
  <2>1. /\ at' \notin LeakPoints /\ then' \notin LeakPoints /\ mode' = mode
    BY <1>4, TurnCalm DEF DropForget, LeakPoints
  <2>. QED  BY <1>4, <2>1 DEF DropForget, ForgetRow, LeakPoints
<1>. QED  BY <1>1, <1>2, <1>3, <1>4 DEF DropRelease

LEMMA LeakAllocate ==
    ASSUME LeakInv, AddRow \/ \E n \in Names : Allocate(n)
    PROVE  LeakInv'
<1> USE DEF LeakInv, LeakTypes, NoSilentLeak, Excused
<1>1. CASE AddRow
  <2>1. /\ at' \notin LeakPoints /\ then' \notin LeakPoints /\ mode' = mode
    BY <1>1, LoopCalm DEF AddRow, LeakPoints
  <2>. QED  BY <1>1, <2>1 DEF AddRow, LeakPoints, Verdicts
<1>2. ASSUME NEW n \in Names, Allocate(n) PROVE LeakInv'
  BY <1>2 DEF Allocate, AttemptFails, Goto, Fresh
<1>. QED  BY <1>1, <1>2

\* The worker goes; what it was about to record is excused.
LEMMA LeakAbandon ==
    ASSUME LeakInv, Abandon, UNCHANGED <<row, held>>, stopper' # "forget"
    PROVE  LeakInv'
<1>1. late'[1] = "allocate" => late'[2] \in Names
  <2>1. CASE UNCHANGED late
    BY <2>1 DEF LeakInv, LeakTypes
  <2>2. CASE \E call \in {"detach", "release", "allocate", "attach"}, n \in Names :
               late' = <<call, n>>
    BY <2>2
  <2>. QED  BY <2>1, <2>2 DEF Abandon
<1>. QED  BY <1>1 DEF Abandon, Quit, LeakInv, LeakTypes, NoSilentLeak, Excused

LEMMA LeakEvents ==
    ASSUME LeakInv,
           \/ StopPressed \/ StopStep \/ LateCall \/ Crash \/ SetTarget
           \/ \E n \in Names : ManualRelease(n)
    PROVE  LeakInv'
<1>1. CASE StopPressed
  BY <1>1, LeakAbandon DEF StopPressed
<1>2. CASE StopDeletesInstance \/ StopPauses \/ StopLists
  BY <1>2, LeakOutside DEF StopDeletesInstance, StopPauses, StopLists
<1>3. ASSUME NEW n \in Names, StopDetaches(n) PROVE LeakInv'
  BY <1>3 DEF StopDetaches, GivesUpOn, LeakInv, LeakTypes, NoSilentLeak, Excused
<1>4. CASE StopReleases /\ Release(dcur) /\ orphaned' = orphaned \ {dcur}
  BY <1>4 DEF StopReleases, Release, LeakInv, LeakTypes, NoSilentLeak, Excused
<1>5. CASE StopReleases /\ UNCHANGED <<held, bound>> /\ GivesUpOn(dcur)
  BY <1>5 DEF StopReleases, GivesUpOn, LeakInv, LeakTypes, NoSilentLeak, Excused
<1>6. CASE StopForgets
  BY <1>6 DEF StopForgets, ForgetRow, LeakInv, LeakTypes, NoSilentLeak, Excused
<1>7. CASE StopSetsIdle
  BY <1>7, LeakOutside DEF StopSetsIdle
<1>8. CASE LateCall
  BY <1>8 DEF LateCall, Release, NoCall, LeakInv, LeakTypes, NoSilentLeak, Excused
<1>9. CASE Crash
  BY <1>9, LeakAbandon DEF Crash
<1>10. CASE SetTarget
  BY <1>10, LeakOutside DEF SetTarget, LeakInv
<1>11. ASSUME NEW n \in Names, ManualRelease(n) PROVE LeakInv'
  BY <1>11 DEF ManualRelease, Release, LeakInv, LeakTypes, NoSilentLeak, Excused
<1>. QED  BY <1>1, <1>2, <1>3, <1>4, <1>5, <1>6, <1>7, <1>8, <1>9, <1>10, <1>11
          DEF StopStep, StopReleases

\* No address leaks on the ordinary paths, for any set of names, any limits of
\* the table and of AWS, any number of attempts and any events.
THEOREM NothingLeaksSilently == Spec => []NoSilentLeak
<1>1. LeakInv /\ [Next]_vars => LeakInv'
  <2> SUFFICES ASSUME LeakInv, [Next]_vars PROVE LeakInv'
    OBVIOUS
  <2>1. CASE StartPressed \/ BeginSearch \/ BeginRecheck
    BY <2>1, QuietControl, QuietKeeps, LeakOutside DEF LeakInv
  <2>2. CASE WorkerStep
    BY <2>2, QuietControl, QuietTest, QuietRecheck, QuietKeeps, LeakSync, LeakDrop,
       LeakAllocate, LeakOutside DEF WorkerStep, LeakInv
  <2>3. CASE UNCHANGED vars
    BY <2>3, LeakOutside DEF vars, LeakInv
  <2>. QED  BY <2>1, <2>2, <2>3, LeakEvents DEF Next
<1>2. LeakInv => NoSilentLeak
  BY DEF LeakInv
<1>. QED  BY LeakInit, <1>1, <1>2, PTL DEF Spec

=============================================================================
