--------------------- MODULE LightsailSearchRows_proofs ---------------------
(***************************************************************************)
(* The rows and the addresses of LightsailSearch, proved for any set of    *)
(* names, any limits and any events from outside: types, what a recheck    *)
(* may not lose, which addresses are released, what a search leaves.       *)
(***************************************************************************)
EXTENDS LightsailSearch, FiniteSetTheorems, TLAPS

USE DEF dbVars, awsVars, syncVars, checkVars, loopVars, workerVars, stopVars

-----------------------------------------------------------------------------
(* Types, and where the worker can be.                                     *)

\* A candidate address is in the worker's hands.
Testing == at \in {"add", "attach", "flag", "check"} \/ (at \in {"clear", "unflag"} /\ then = "attach")

\* An inner loop that releases addresses.
Dropping == at \in {"drop", "release", "forget"}

\* An attempt at a replacement that is not counted yet.
InTry == mode = "recheck" /\ (at = "alloc" \/ Testing \/ (Dropping /\ then = "alloc"))

\* What each point of the worker says about its mode and its registers: which
\* loop may continue where, and whose names are in hand.
Control ==
    /\ (mode = "off") <=> (at = "off")
    /\ at \in {"list", "compare", "sync"} => then \in {"loop", "recover"}
    /\ at \in {"list", "compare", "sync", "loop", "recover", "retry", "sweep", "sweep2"} =>
          mode = "search"
    /\ at \in {"probe", "pattach", "pcheck", "next", "try"} => mode = "recheck"
    /\ Dropping => then \in {"alloc", "retry", "sweep2", "next"}
    /\ Dropping /\ then \in {"retry", "sweep2"} => mode = "search"
    /\ Dropping /\ then = "next" =>
          mode = "recheck" /\ at # "drop" /\ todo = {fix} /\ cur = fix
    /\ at \in {"clear", "unflag"} => then = "attach" \/ (then = "delete" /\ mode = "search")
    /\ at \in {"release", "forget", "unflag"} => cur \in todo
    /\ at \in {"pattach", "pcheck"} => cur \in Names
    /\ IF Testing THEN new \in Names ELSE new = NoName
    /\ InTry => tries < MaxAttempts
    /\ InTry \/ at = "try" => fix \in Names

Types == TypeOK /\ Control /\ plan \in Plans

LEMMA GoodCounts == TypeOK => Cardinality(Good) \in Nat
BY FS_Subset, FS_CardinalityType, SearchAssumption DEF Good

LEMMA TypesInit == Init => Types
<1> SUFFICES ASSUME Init PROVE Types
  OBVIOUS
<1>1. TypeOK
  <2>1. late \in {NoCall} \cup {"allocate", "release", "attach", "detach"} \X Names
    BY DEF Init
  <2>2. row \in [Names -> Verdicts \cup {"absent"}]
    BY DEF Init
  <2>3. target \in 1..MaxIps /\ tries \in 0..MaxAttempts /\ base \in Nat
    BY SearchAssumption DEF Init, WorkerIdle
  <2>4. /\ status = "idle" /\ flagged = {} /\ held = {} /\ bound = NoName /\ up = FALSE
        /\ WorkerIdle /\ stopper = "none" /\ doomed = {} /\ dcur = NoName /\ orphaned = {}
    BY DEF Init
  <2>. QED  BY <2>1, <2>2, <2>3, <2>4 DEF WorkerIdle, TypeOK, WorkerPCs
<1>2. Control
  BY DEF Init, WorkerIdle, Control, Testing, Dropping, InTry
<1>. QED  BY <1>1, <1>2 DEF Types, Init

\* Beginnings and the reconciliation.
LEMMA TypesBegin ==
    ASSUME Types,
           \/ StartPressed \/ BeginSearch \/ EnsureForSearch \/ BeginRecheck
           \/ EnsureForRecheck \/ ListAws \/ CompareRows \/ SyncDone
           \/ \E n \in Names : SyncAdd(n) \/ SyncDelete(n)
    PROVE  TypeOK' /\ Control'
<1> USE SearchAssumption DEF Types, TypeOK, Control, Verdicts, WorkerPCs,
        Testing, Dropping, InTry, Goto, Quit
<1>1. CASE StartPressed       BY <1>1 DEF StartPressed
<1>2. CASE BeginSearch        BY <1>2 DEF BeginSearch
<1>3. CASE EnsureForSearch
  <2>1. up' \in BOOLEAN
    BY <1>3 DEF EnsureForSearch
  <2>2. CASE at' = "list"
    BY <1>3, <2>1, <2>2 DEF EnsureForSearch
  <2>3. CASE at' = "off"
    BY <1>3, <2>1, <2>3 DEF EnsureForSearch
  <2>. QED  BY <1>3, <2>2, <2>3 DEF EnsureForSearch
<1>4. CASE BeginRecheck
  <2>1. Good \subseteq Names /\ Cardinality(Good) \in Nat
    BY GoodCounts DEF Good
  <2>. QED  BY <1>4, <2>1 DEF BeginRecheck
<1>5. CASE EnsureForRecheck
  <2>1. up' \in BOOLEAN /\ bound' \in Names \cup {NoName}
    BY <1>5 DEF EnsureForRecheck, DeleteInstance
  <2>2. CASE at' = "probe" /\ UNCHANGED <<mode, loopVars, syncVars, checkVars>>
    BY <1>5, <2>1, <2>2 DEF EnsureForRecheck
  <2>3. CASE Quit
    BY <1>5, <2>1, <2>3 DEF EnsureForRecheck
  <2>. QED  BY <1>5, <2>2, <2>3 DEF EnsureForRecheck
<1>6. CASE ListAws
  <2>1. CASE at' = then /\ then' = "off" /\ UNCHANGED <<mode, adds, prev>>
    <3>1. at' \in {"loop", "recover"} /\ mode' = "search" /\ new' = NoName
      BY <1>6, <2>1 DEF ListAws
    <3>. QED  BY <1>6, <2>1, <3>1 DEF ListAws
  <2>2. CASE at' = "compare" /\ adds' = held /\ prev' = bound /\ UNCHANGED then
    BY <1>6, <2>2 DEF ListAws
  <2>. QED  BY <1>6, <2>1, <2>2 DEF ListAws
<1>7. CASE CompareRows        BY <1>7 DEF CompareRows, Rows
<1>8. CASE SyncDone           BY <1>8 DEF SyncDone
<1>9. ASSUME NEW n \in Names, SyncAdd(n) PROVE TypeOK' /\ Control'
  BY <1>9 DEF SyncAdd
<1>10. ASSUME NEW n \in Names, SyncDelete(n) PROVE TypeOK' /\ Control'
  BY <1>10 DEF SyncDelete, ForgetRow
<1>. QED  BY <1>1, <1>2, <1>3, <1>4, <1>5, <1>6, <1>7, <1>8, <1>9, <1>10

\* The search loop, releasing addresses, allocating.
LEMMA TypesLoop ==
    ASSUME Types,
           \/ SearchEnds \/ SearchExtends \/ SearchRotates
           \/ DropRelease \/ DropForget \/ \E n \in Names : DropDetach(n) \/ Allocate(n)
           \/ AllocateNothing \/ QuotaHit \/ QuotaRecovery
    PROVE  TypeOK' /\ Control'
<1> USE SearchAssumption DEF Types, TypeOK, Control, Verdicts, WorkerPCs,
        Testing, Dropping, InTry, Goto
<1>1. CASE SearchEnds      BY <1>1 DEF SearchEnds
<1>2. CASE SearchExtends   BY <1>2 DEF SearchExtends
<1>3. CASE SearchRotates
  <2>1. PICK victim \in Names : EnterLoop("drop", {victim}, "alloc")
    BY <1>3 DEF SearchRotates, NotGood, Rows
  <2>. QED  BY <1>3, <2>1 DEF SearchRotates, EnterLoop
<1>4. CASE DropRelease     BY <1>4 DEF DropRelease, Release, GivesUpOn
<1>5. CASE DropForget      BY <1>5 DEF DropForget, ForgetRow, TurnOver
<1>6. ASSUME NEW n \in Names, DropDetach(n) PROVE TypeOK' /\ Control'
  BY <1>6 DEF DropDetach, Detach, GivesUpOn
<1>7. ASSUME NEW n \in Names, Allocate(n) PROVE TypeOK' /\ Control'
  BY <1>7 DEF Allocate, AttemptFails
<1>8. CASE AllocateNothing BY <1>8 DEF AllocateNothing, AttemptFails
<1>9. CASE QuotaHit        BY <1>9 DEF QuotaHit
<1>10. CASE QuotaRecovery
  <2>1. NotGood \subseteq Names
    BY DEF NotGood, Rows
  <2>. QED  BY <1>10, <2>1 DEF QuotaRecovery, AttemptFails, EnterLoop
<1>. QED  BY <1>1, <1>2, <1>3, <1>4, <1>5, <1>6, <1>7, <1>8, <1>9, <1>10

LEMMA MarkTypes ==
    ASSUME TypeOK, NEW n \in Names, NEW v \in Verdicts \cup {"absent"}, NEW b \in BOOLEAN,
           Mark(n, v, b)
    PROVE  row' \in [Names -> Verdicts \cup {"absent"}] /\ flagged' \subseteq Names
BY DEF Mark, TypeOK

\* The test of a new address and the end of a search.
LEMMA TypesTest ==
    ASSUME Types,
           \/ AddRow \/ ClearFlag \/ AttachNew \/ FlagNew \/ CheckGood \/ CheckBad
           \/ \E n \in Names : ClearDetach(n)
           \/ Sweep \/ SweepAttached \/ EndInstance \/ MarkSearchStopped
    PROVE  TypeOK' /\ Control'
<1> USE SearchAssumption DEF Types, TypeOK, Control, WorkerPCs,
        Testing, Dropping, InTry, Goto
<1>1. CASE AddRow
  BY <1>1 DEF AddRow, EnterLoop, Verdicts
<1>2. CASE ClearFlag       BY <1>2 DEF ClearFlag, TurnOver
<1>3. CASE AttachNew
  <2>1. CASE Attach(new) /\ Goto("flag") /\ UNCHANGED <<row, flagged, new, snap, tries>>
    BY <1>3, <2>1 DEF AttachNew, Attach
  <2>2. CASE Mark(new, "bad", FALSE) /\ AttemptFails /\ new' = NoName /\ UNCHANGED bound
    <3>1. row' \in [Names -> Verdicts \cup {"absent"}] /\ flagged' \subseteq Names
      BY <1>3, <2>2, MarkTypes DEF AttachNew, Verdicts
    <3>. QED  BY <1>3, <2>2, <3>1 DEF AttachNew, AttemptFails
  <2>. QED  BY <1>3, <2>1, <2>2 DEF AttachNew
<1>4. CASE FlagNew
  <2>1. row' \in [Names -> Verdicts \cup {"absent"}] /\ flagged' \subseteq Names
    BY <1>4, MarkTypes DEF FlagNew
  <2>. QED  BY <1>4, <2>1 DEF FlagNew
<1>5. CASE CheckGood
  <2>1. row' \in [Names -> Verdicts \cup {"absent"}] /\ flagged' \subseteq Names
    BY <1>5, MarkTypes DEF CheckGood, Verdicts
  <2>2. CASE mode = "search"
    BY <1>5, <2>1, <2>2 DEF CheckGood
  <2>3. CASE mode # "search"
    <3>1. mode = "recheck"
      BY <1>5, <2>3 DEF CheckGood
    <3>2. at' = "release" /\ todo' = {fix} /\ then' = "next" /\ cur' = fix /\ UNCHANGED mode
      BY <1>5, <2>3 DEF CheckGood, EnterLoop
    <3>. QED  BY <1>5, <2>1, <3>1, <3>2 DEF CheckGood
  <2>. QED  BY <2>2, <2>3
<1>6. CASE CheckBad
  <2>1. row' \in [Names -> Verdicts \cup {"absent"}] /\ flagged' \subseteq Names
    BY <1>6, MarkTypes DEF CheckBad, Verdicts
  <2>. QED  BY <1>6, <2>1 DEF CheckBad, AttemptFails
<1>7. ASSUME NEW n \in Names, ClearDetach(n) PROVE TypeOK' /\ Control'
  BY <1>7 DEF ClearDetach, Detach
<1>8. CASE Sweep
  <2>1. NotGood \subseteq Names
    BY DEF NotGood, Rows
  <2>. QED  BY <1>8, <2>1 DEF Sweep, EnterLoop
<1>9. CASE SweepAttached   BY <1>9 DEF SweepAttached, EnterLoop
<1>10. CASE EndInstance
  <2>1. up' \in BOOLEAN /\ bound' \in Names \cup {NoName}
    BY <1>10 DEF EndInstance, DeleteInstance
  <2>. QED  BY <1>10, <2>1 DEF EndInstance
<1>11. CASE MarkSearchStopped
  <2>1. status' \in {"idle", "monitoring"}
    BY <1>11 DEF MarkSearchStopped
  <2>. QED  BY <1>11, <2>1 DEF MarkSearchStopped, Quit
<1>. QED  BY <1>1, <1>2, <1>3, <1>4, <1>5, <1>6, <1>7, <1>8, <1>9, <1>10, <1>11

\* The recheck outside the test of a replacement.
LEMMA TypesRecheck ==
    ASSUME Types,
           \/ ProbeAttach \/ ProbeCheck \/ ProbesDone \/ NextFailed \/ TryReplacement
           \/ GiveUp \/ MarkRecheck \/ \E n \in Names : ProbeNext(n)
    PROVE  TypeOK' /\ Control'
<1> USE SearchAssumption DEF Types, TypeOK, Control, WorkerPCs,
        Testing, Dropping, InTry, Goto
<1>1. CASE ProbeAttach     BY <1>1 DEF ProbeAttach, Attach
<1>2. CASE ProbeCheck      BY <1>2 DEF ProbeCheck
<1>3. CASE ProbesDone      BY <1>3 DEF ProbesDone, Detach
<1>4. CASE NextFailed      BY <1>4 DEF NextFailed
<1>5. CASE TryReplacement
  <2>1. CASE Goto("alloc") /\ UNCHANGED <<todo, then>>
    BY <1>5, <2>1 DEF TryReplacement
  <2>2. CASE \E victim \in Bad : EnterLoop("drop", {victim}, "alloc")
    <3>1. PICK victim \in Names : EnterLoop("drop", {victim}, "alloc")
      BY <2>2 DEF Bad
    <3>. QED  BY <1>5, <3>1 DEF TryReplacement, EnterLoop
  <2>. QED  BY <1>5, <2>1, <2>2 DEF TryReplacement
<1>6. CASE GiveUp          BY <1>6 DEF GiveUp
<1>7. CASE MarkRecheck     BY <1>7 DEF MarkRecheck, Quit
<1>8. ASSUME NEW n \in Names, ProbeNext(n) PROVE TypeOK' /\ Control'
  BY <1>8 DEF ProbeNext, Detach
<1>. QED  BY <1>1, <1>2, <1>3, <1>4, <1>5, <1>6, <1>7, <1>8

\* The worker goes.
LEMMA AbandonTypes ==
    ASSUME Types, Abandon
    PROVE  /\ late' \in {NoCall} \cup {"allocate", "release", "attach", "detach"} \X Names
           /\ orphaned' \subseteq Names
           /\ Control' /\ Quit
<1>1. late' \in {NoCall} \cup {"allocate", "release", "attach", "detach"} \X Names
  <2>1. CASE UNCHANGED late
    BY <2>1 DEF Types, TypeOK
  <2>2. CASE \E call \in {"detach", "release", "allocate", "attach"}, n \in Names :
               late' = <<call, n>>
    BY <2>2
  <2>. QED  BY <2>1, <2>2 DEF Abandon
<1>2. orphaned' \subseteq Names
  BY SearchAssumption DEF Abandon, Types, TypeOK, Control, Testing
<1>3. Control'
  BY DEF Abandon, Quit, Control, Testing, Dropping, InTry
<1>. QED  BY <1>1, <1>2, <1>3 DEF Abandon

\* A step that leaves the worker alone.
LEMMA ControlOutside ==
    ASSUME Types, UNCHANGED workerVars
    PROVE  Control'
BY DEF Types, Control, Testing, Dropping, InTry

LEMMA TypesEvents ==
    ASSUME Types,
           \/ StopPressed \/ StopStep \/ LateCall \/ Crash \/ SetTarget
           \/ \E n \in Names : ManualRelease(n)
    PROVE  TypeOK' /\ Control'
<1>1. CASE StopPressed
  BY <1>1, AbandonTypes, SearchAssumption DEF StopPressed, Quit, Types, TypeOK, WorkerPCs
<1>2. CASE Crash
  BY <1>2, AbandonTypes, SearchAssumption DEF Crash, Quit, Types, TypeOK, WorkerPCs
<1>3. CASE UNCHANGED workerVars
  <2>1. Control'
    BY <1>3, ControlOutside
  <2>2. CASE StopDeletesInstance
    BY <1>3, <2>1, <2>2 DEF StopDeletesInstance, DeleteInstance, Types, TypeOK
  <2>3. CASE StopPauses
    BY <1>3, <2>1, <2>3 DEF StopPauses, Types, TypeOK
  <2>4. CASE StopLists
    BY <1>3, <2>1, <2>4 DEF StopLists, Bad, Types, TypeOK
  <2>5. CASE StopReleases
    BY <1>3, <2>1, <2>5 DEF StopReleases, Release, GivesUpOn, Types, TypeOK
  <2>6. CASE StopForgets
    BY <1>3, <2>1, <2>6 DEF StopForgets, ForgetRow, Types, TypeOK
  <2>7. CASE StopSetsIdle
    BY <1>3, <2>1, <2>7 DEF StopSetsIdle, Types, TypeOK
  <2>8. ASSUME NEW n \in Names, StopDetaches(n) PROVE TypeOK'
    BY <2>8 DEF StopDetaches, Detach, GivesUpOn, Types, TypeOK
  <2>9. CASE LateCall
    <3>1. late' \in {NoCall} \cup {"allocate", "release", "attach", "detach"} \X Names
      BY <2>9 DEF LateCall
    <3>2. late[2] \in Names
      BY <2>9 DEF LateCall, Types, TypeOK
    <3>3. held' \subseteq Names /\ orphaned' \subseteq Names /\ bound' \in Names \cup {NoName}
      BY <2>9, <3>2 DEF LateCall, Detach, Release, Attach, Types, TypeOK
    <3>. QED  BY <1>3, <2>1, <2>9, <3>1, <3>3 DEF LateCall, Types, TypeOK
  <2>10. CASE SetTarget
    BY <1>3, <2>1, <2>10 DEF SetTarget, Types, TypeOK
  <2>11. ASSUME NEW n \in Names, ManualRelease(n) PROVE TypeOK'
    BY <2>11 DEF ManualRelease, Release, Types, TypeOK
  <2>. QED  BY <2>1, <2>2, <2>3, <2>4, <2>5, <2>6, <2>7, <2>8, <2>9, <2>10, <2>11, <1>1, <1>2
            DEF StopStep
<1>. QED  BY <1>1, <1>2, <1>3 DEF StopStep, StopDeletesInstance, StopPauses, StopLists,
          StopReleases, StopForgets, StopSetsIdle, StopDetaches, LateCall, SetTarget, ManualRelease

LEMMA TypesNext == Types /\ [Next]_vars => Types'
<1> SUFFICES ASSUME Types, [Next]_vars PROVE Types'
  OBVIOUS
<1>1. CASE UNCHANGED vars
  <2>1. TypeOK'
    BY <1>1 DEF vars, Types, TypeOK
  <2>2. Control'
    BY <1>1, ControlOutside DEF vars
  <2>. QED  BY <1>1, <2>1, <2>2 DEF vars, Types
<1>2. StartPressed \/ BeginSearch \/ BeginRecheck => TypeOK' /\ Control'
  BY TypesBegin
<1>3. WorkerStep => TypeOK' /\ Control'
  BY TypesBegin, TypesLoop, TypesTest, TypesRecheck DEF WorkerStep
<1>4. CASE Next
  <2>1. TypeOK' /\ Control'
    BY <1>2, <1>3, <1>4, TypesEvents DEF Next
  <2>. QED  BY <1>4, <2>1 DEF Next, Types
<1>. QED  BY <1>1, <1>4

\* Every variable of the searcher's data plane keeps its type, and the worker is
\* only ever suspended where the code suspends, with the loop it runs to return to.
THEOREM SearchTypes == Spec => []TypeOK
BY TypesInit, TypesNext, PTL DEF Spec, Types

-----------------------------------------------------------------------------
(* What the rows in hand may be.                                           *)

\* The candidate is untested, and no stop handler has it in its list.
Candidate ==
    /\ new # NoName => row[new] \in {"absent", "untested"} /\ new \notin doomed
    /\ Testing /\ at # "add" => row[new] = "untested"

\* What the stop handler or a loop of the worker releases is not working, but for
\* a failed address that has been replaced.
ReleasesNoGood ==
    /\ \A n \in doomed : row[n] # "good"
    /\ stopper \in {"release", "forget"} => dcur \in doomed
    /\ Dropping /\ then # "next" => \A n \in todo : row[n] # "good"

\* The clean-up at the end of a search has what is left to drop in its list, then
\* nothing; and then what is left to unflag.
Sweeping ==
    /\ Dropping /\ then = "sweep2" => NotGood \subseteq todo
    /\ at = "sweep2" => NotGood = {}
    /\ at \in {"clear", "unflag"} /\ then = "delete" => NotGood = {} /\ flagged \subseteq todo
    /\ at \in {"delete", "stop"} /\ mode = "search" => NotGood = {} /\ flagged = {}

Shape == Candidate /\ ReleasesNoGood /\ Sweeping

LEMMA ShapeInit == Init => Shape
BY DEF Init, WorkerIdle, Shape, Candidate, ReleasesNoGood, Sweeping, Testing, Dropping

\* No row changes, and no loop begins or ends.
LEMMA ShapeIdle ==
    ASSUME Types, Shape, UNCHANGED <<row, flagged, mode, at, new, todo, then, doomed, dcur>>,
           stopper' \in {"release", "forget"} => stopper \in {"release", "forget"} \/ dcur \in doomed
    PROVE  Shape'
BY DEF Shape, Candidate, ReleasesNoGood, Sweeping, Testing, Dropping, NotGood, Rows, Good

\* The worker moves between points where nothing is in hand.
Plain == {"off", "ensure", "list", "compare", "sync", "loop", "try", "recover", "alloc",
          "retry", "sweep", "probe", "pattach", "pcheck", "next"}

LEMMA ShapePlain ==
    ASSUME Types, Shape, UNCHANGED <<stopper, doomed, dcur>>,
           at' \in Plain, new' = NoName,
           \A n \in doomed : row'[n] # "good"
    PROVE  Shape'
BY DEF Shape, Candidate, ReleasesNoGood, Sweeping, Testing, Dropping, Plain

LEMMA ShapeBegin ==
    ASSUME Types, Shape,
           \/ StartPressed \/ BeginSearch \/ EnsureForSearch \/ BeginRecheck
           \/ EnsureForRecheck \/ ListAws \/ CompareRows \/ SyncDone
           \/ SearchEnds \/ SearchExtends \/ AllocateNothing \/ QuotaHit
           \/ \E n \in Names : SyncAdd(n) \/ SyncDelete(n)
    PROVE  Shape'
<1>1. CASE StartPressed
  BY <1>1, ShapeIdle DEF StartPressed
<1>2. ASSUME NEW n \in Names, SyncAdd(n) \/ SyncDelete(n) PROVE Shape'
  <2>1. row' = [row EXCEPT ![n] = "untested"] \/ row' = [row EXCEPT ![n] = "absent"]
    BY <1>2 DEF SyncAdd, SyncDelete, ForgetRow
  <2>2. \A m \in doomed : row'[m] # "good"
    BY <2>1 DEF Shape, ReleasesNoGood, Types, TypeOK
  <2>3. at' \in Plain /\ new' = NoName
    BY <1>2 DEF SyncAdd, SyncDelete, Types, Control, Testing, Plain
  <2>. QED  BY <1>2, <2>2, <2>3, ShapePlain DEF SyncAdd, SyncDelete
<1>. USE DEF Goto, Quit, Types, Control, Testing, Plain
<1>3. CASE BeginSearch \/ EnsureForSearch \/ EnsureForRecheck \/ CompareRows
  BY <1>3, ShapePlain DEF BeginSearch, EnsureForSearch, EnsureForRecheck, CompareRows,
     Shape, ReleasesNoGood
<1>4. CASE BeginRecheck
  <2>1. CASE at = at'
    BY <1>4, <2>1, ShapePlain DEF BeginRecheck, Shape, ReleasesNoGood
  <2>2. CASE at' = "ensure"
    BY <1>4, <2>2, ShapePlain DEF BeginRecheck, Shape, ReleasesNoGood
  <2>. QED  BY <1>4, <2>1, <2>2 DEF BeginRecheck
<1>5. CASE ListAws \/ SyncDone
  BY <1>5, ShapePlain DEF ListAws, SyncDone, Shape, ReleasesNoGood
<1>6. CASE SearchEnds \/ SearchExtends \/ QuotaHit
  BY <1>6, ShapePlain DEF SearchEnds, SearchExtends, QuotaHit, Shape, ReleasesNoGood
<1>7. CASE AllocateNothing
  BY <1>7, ShapePlain DEF AllocateNothing, AttemptFails, Shape, ReleasesNoGood
<1>. QED  BY <1>1, <1>2, <1>3, <1>4, <1>5, <1>6, <1>7

LEMMA ShapeLoop ==
    ASSUME Types, Shape,
           \/ SearchRotates \/ DropRelease \/ DropForget \/ QuotaRecovery \/ AddRow
           \/ \E n \in Names : DropDetach(n) \/ Allocate(n) \/ ClearDetach(n)
    PROVE  Shape'
<1> USE SearchAssumption DEF Goto, Types, Control, Testing, Dropping, Shape
<1>1. CASE SearchRotates
  <2>1. PICK victim \in NotGood : EnterLoop("drop", {victim}, "alloc")
    BY <1>1 DEF SearchRotates
  <2>. QED  BY <1>1, <2>1 DEF SearchRotates, EnterLoop, Candidate, ReleasesNoGood, Sweeping, NotGood, Good, Rows
<1>2. CASE DropRelease
  BY <1>2 DEF DropRelease, Candidate, ReleasesNoGood, Sweeping, NotGood, Good, Rows
<1>3. CASE DropForget
  <2>1. cur \in todo /\ cur \in Names /\ new = NoName /\ new' = NoName
    BY <1>3 DEF DropForget, TypeOK
  <2>2. row' = [row EXCEPT ![cur] = "absent"]
    BY <1>3 DEF DropForget, ForgetRow
  <2>3. \A n \in Names : row'[n] # "good" \/ row[n] = "good"
    BY <2>1, <2>2 DEF TypeOK
  <2>4. NotGood' = NotGood \ {cur}
    BY <2>1, <2>2 DEF NotGood, Good, Rows, TypeOK
  <2>5. Candidate'
    BY <1>3, <2>1 DEF DropForget, TurnOver, Candidate
  <2>6. ReleasesNoGood'
    BY <1>3, <2>1, <2>3 DEF DropForget, TurnOver, ReleasesNoGood, TypeOK
  <2>7. Sweeping'
    BY <1>3, <2>1, <2>4 DEF DropForget, TurnOver, Sweeping
  <2>. QED  BY <2>5, <2>6, <2>7
<1>4. CASE QuotaRecovery
  BY <1>4 DEF QuotaRecovery, EnterLoop, AttemptFails, Candidate, ReleasesNoGood, Sweeping, NotGood, Good, Rows
<1>5. CASE AddRow
  <2>1. new \in Names /\ row'[new] = "untested" /\ \A n \in Names : n # new => row'[n] = row[n]
    BY <1>5 DEF AddRow, TypeOK
  <2>2. Candidate'
    BY <1>5, <2>1 DEF AddRow, EnterLoop, Candidate
  <2>3. ReleasesNoGood'
    BY <1>5, <2>1 DEF AddRow, EnterLoop, ReleasesNoGood, TypeOK
  <2>4. Sweeping'
    BY <1>5 DEF AddRow, EnterLoop, Sweeping
  <2>. QED  BY <2>2, <2>3, <2>4
<1>6. ASSUME NEW n \in Names, DropDetach(n) PROVE Shape'
  BY <1>6 DEF DropDetach, Candidate, ReleasesNoGood, Sweeping, NotGood, Good, Rows
<1>7. ASSUME NEW n \in Names, Allocate(n) PROVE Shape'
  BY <1>7 DEF Allocate, Fresh, AttemptFails, Candidate, ReleasesNoGood, Sweeping
<1>8. ASSUME NEW n \in Names, ClearDetach(n) PROVE Shape'
  BY <1>8 DEF ClearDetach, Candidate, ReleasesNoGood, Sweeping, NotGood, Good, Rows
<1>. QED  BY <1>1, <1>2, <1>3, <1>4, <1>5, <1>6, <1>7, <1>8

LEMMA ShapeTest ==
    ASSUME Types, Shape,
           \/ ClearFlag \/ AttachNew \/ FlagNew \/ CheckGood \/ CheckBad
           \/ Sweep \/ SweepAttached \/ EndInstance \/ MarkSearchStopped
    PROVE  Shape'
<1> USE SearchAssumption DEF Goto, Types, Control, Testing, Dropping, Shape
<1>1. CASE ClearFlag
  <2>1. Candidate' /\ ReleasesNoGood'
    BY <1>1 DEF ClearFlag, TurnOver, Candidate, ReleasesNoGood
  <2>2. flagged' = flagged \ {cur} /\ cur \in todo /\ NotGood' = NotGood
    BY <1>1 DEF ClearFlag, NotGood, Good, Rows
  <2>3. Sweeping'
    BY <1>1, <2>2 DEF ClearFlag, TurnOver, Sweeping
  <2>. QED  BY <2>1, <2>3
<1>2. CASE AttachNew
  <2>1. CASE Attach(new) /\ Goto("flag") /\ UNCHANGED <<row, flagged, new, snap, tries>>
    BY <1>2, <2>1 DEF AttachNew, Candidate, ReleasesNoGood, Sweeping
  <2>2. CASE Mark(new, "bad", FALSE) /\ AttemptFails /\ new' = NoName
    <3>1. \A n \in doomed : row'[n] # "good"
      BY <1>2, <2>2 DEF AttachNew, Mark, ReleasesNoGood, TypeOK
    <3>2. at' \in Plain
      BY <2>2 DEF AttemptFails, Plain
    <3>. QED  BY <1>2, <2>2, <3>1, <3>2, ShapePlain DEF AttachNew
  <2>. QED  BY <1>2, <2>1, <2>2 DEF AttachNew
<1>3. CASE FlagNew
  <2>1. UNCHANGED row
    BY <1>3 DEF FlagNew, Mark, TypeOK
  <2>. QED  BY <1>3, <2>1 DEF FlagNew, Candidate, ReleasesNoGood, Sweeping
<1>4. CASE CheckGood
  <2>1. new \in Names /\ row[new] = "untested" /\ new \notin doomed
    BY <1>4 DEF CheckGood, Candidate
  <2>2. \A n \in doomed : row'[n] # "good"
    BY <1>4, <2>1 DEF CheckGood, Mark, ReleasesNoGood, TypeOK
  <2>3. CASE mode = "search"
    BY <1>4, <2>2, <2>3, ShapePlain DEF CheckGood, Plain
  <2>4. CASE mode # "search"
    <3>1. at' = "release" /\ then' = "next" /\ new' = NoName
      BY <1>4, <2>4 DEF CheckGood, EnterLoop
    <3>. QED  BY <1>4, <2>2, <3>1 DEF CheckGood, Candidate, ReleasesNoGood, Sweeping
  <2>. QED  BY <2>3, <2>4
<1>5. CASE CheckBad
  <2>1. \A n \in doomed : row'[n] # "good"
    BY <1>5 DEF CheckBad, Mark, ReleasesNoGood, TypeOK
  <2>2. at' \in Plain
    BY <1>5 DEF CheckBad, AttemptFails, Plain
  <2>. QED  BY <1>5, <2>1, <2>2, ShapePlain DEF CheckBad
<1>6. CASE Sweep
  BY <1>6 DEF Sweep, EnterLoop, Candidate, ReleasesNoGood, Sweeping, NotGood, Good, Rows
<1>7. CASE SweepAttached
  BY <1>7 DEF SweepAttached, EnterLoop, Candidate, ReleasesNoGood, Sweeping, NotGood, Good, Rows
<1>8. CASE EndInstance
  BY <1>8 DEF EndInstance, Candidate, ReleasesNoGood, Sweeping, NotGood, Good, Rows
<1>9. CASE MarkSearchStopped
  BY <1>9, ShapePlain DEF MarkSearchStopped, Quit, Plain, ReleasesNoGood
<1>. QED  BY <1>1, <1>2, <1>3, <1>4, <1>5, <1>6, <1>7, <1>8, <1>9

LEMMA ShapeRecheck ==
    ASSUME Types, Shape,
           \/ ProbeAttach \/ ProbeCheck \/ ProbesDone \/ NextFailed \/ TryReplacement
           \/ GiveUp \/ MarkRecheck \/ \E n \in Names : ProbeNext(n)
    PROVE  Shape'
<1> USE DEF Goto, Types, Control, Testing
<1>1. CASE ProbeAttach \/ ProbeCheck \/ ProbesDone \/ GiveUp \/ MarkRecheck
  <2>1. at' \in Plain /\ new' = NoName
    BY <1>1 DEF ProbeAttach, ProbeCheck, ProbesDone, GiveUp, MarkRecheck, Quit, Plain
  <2>. QED  BY <1>1, <2>1, ShapePlain DEF ProbeAttach, ProbeCheck, ProbesDone, GiveUp, MarkRecheck,
            Shape, ReleasesNoGood
<1>2. CASE NextFailed
  BY <1>2 DEF NextFailed, Shape, Candidate, ReleasesNoGood, Sweeping, Dropping
<1>3. CASE TryReplacement
  <2>1. CASE Goto("alloc")
    BY <1>3, <2>1, ShapePlain DEF TryReplacement, Plain, Shape, ReleasesNoGood
  <2>2. CASE \E victim \in Bad : EnterLoop("drop", {victim}, "alloc")
    <3>1. PICK victim \in Bad : EnterLoop("drop", {victim}, "alloc")
      BY <2>2
    <3>. QED  BY <1>3, <3>1 DEF TryReplacement, EnterLoop, Bad, Shape, Candidate, ReleasesNoGood,
              Sweeping, Dropping
  <2>. QED  BY <1>3, <2>1, <2>2 DEF TryReplacement
<1>4. ASSUME NEW n \in Names, ProbeNext(n) PROVE Shape'
  BY <1>4, ShapePlain DEF ProbeNext, Plain, Shape, ReleasesNoGood
<1>. QED  BY <1>1, <1>2, <1>3, <1>4

LEMMA ShapeEvents ==
    ASSUME Types, Shape,
           \/ StopPressed \/ StopStep \/ LateCall \/ Crash \/ SetTarget
           \/ \E n \in Names : ManualRelease(n)
    PROVE  Shape'
<1>1. CASE StopPressed \/ Crash
  BY <1>1 DEF StopPressed, Crash, Abandon, Quit, Types, TypeOK, Testing, Dropping,
     Shape, Candidate, ReleasesNoGood, Sweeping
<1>2. CASE StopDeletesInstance \/ StopPauses \/ StopSetsIdle \/ LateCall \/ SetTarget
  BY <1>2, ShapeIdle DEF StopDeletesInstance, StopPauses, StopSetsIdle, LateCall, SetTarget
<1>3. CASE StopLists
  <2>1. \A n \in doomed' : row[n] = "bad"
    BY <1>3 DEF StopLists, Bad
  <2>. QED  BY <1>3, <2>1 DEF StopLists, Types, TypeOK, Testing, Dropping,
            Shape, Candidate, ReleasesNoGood, Sweeping, NotGood, Good, Rows
<1>4. CASE StopReleases
  BY <1>4, ShapeIdle DEF StopReleases
<1>5. ASSUME NEW n \in Names, StopDetaches(n) PROVE Shape'
  BY <1>5 DEF StopDetaches, Types, TypeOK, Testing, Dropping,
     Shape, Candidate, ReleasesNoGood, Sweeping, NotGood, Good, Rows
<1>6. CASE StopForgets
  <2>1. /\ dcur \in doomed /\ dcur \in Names /\ row[dcur] # "good"
        /\ row' = [row EXCEPT ![dcur] = "absent"] /\ flagged' = flagged \ {dcur}
    BY <1>6 DEF StopForgets, ForgetRow, Shape, ReleasesNoGood, Types, TypeOK
  <2>2. Candidate'
    BY <1>6, <2>1, SearchAssumption DEF StopForgets, Shape, Candidate, Types, TypeOK, Control, Testing
  <2>3. ReleasesNoGood'
    BY <1>6, <2>1 DEF StopForgets, Shape, ReleasesNoGood, Types, TypeOK, Dropping
  <2>4. NotGood' \subseteq NotGood /\ flagged' \subseteq flagged
    BY <2>1 DEF NotGood, Good, Rows, Types, TypeOK
  <2>5. Sweeping'
    BY <1>6, <2>4 DEF StopForgets, Shape, Sweeping, Dropping
  <2>. QED  BY <2>2, <2>3, <2>5 DEF Shape
<1>7. ASSUME NEW n \in Names, ManualRelease(n) PROVE Shape'
  BY <1>7, ShapeIdle DEF ManualRelease
<1>. QED  BY <1>1, <1>2, <1>3, <1>4, <1>5, <1>6, <1>7 DEF StopStep

LEMMA ShapeNext == Types /\ Shape /\ [Next]_vars => Shape'
<1> SUFFICES ASSUME Types, Shape, [Next]_vars PROVE Shape'
  OBVIOUS
<1>1. CASE UNCHANGED vars
  BY <1>1, ShapeIdle DEF vars
<1>2. StartPressed \/ BeginSearch \/ BeginRecheck => Shape'
  BY ShapeBegin
<1>3. WorkerStep => Shape'
  BY ShapeBegin, ShapeLoop, ShapeTest, ShapeRecheck DEF WorkerStep
<1>. QED  BY <1>1, <1>2, <1>3, ShapeEvents DEF Next

\* A search that reaches its end leaves only working rows, and none flagged as
\* attached, whatever a stop handler releases at the same time.
THEOREM SearchCleansUp == Spec => SearchLeavesWorkingRows
<1>1. Types /\ Shape /\ [Next]_vars
      => [at = "stop" /\ mode = "search" /\ mode' = "off" => NotGood = {} /\ flagged = {}]_vars
  BY DEF Shape, Sweeping
<1>. QED  BY TypesInit, TypesNext, ShapeInit, ShapeNext, <1>1, PTL DEF Spec, SearchLeavesWorkingRows

-----------------------------------------------------------------------------
(* How many rows work.                                                     *)

\* A replacement is in the table before the address it replaces is released.
Count ==
    /\ RecheckKeepsGround
    /\ Dropping /\ then = "next" => Cardinality(Good) > base

LEMMA CountInit == Init => Count
BY DEF Init, WorkerIdle, Count, RecheckKeepsGround, Dropping

LEMMA CountOutside ==
    ASSUME Types', mode' # "recheck"
    PROVE  Count'
BY DEF Types, Control, Count, RecheckKeepsGround

\* The working rows stay the same, and no failed address is released that was
\* not being released before.
LEMMA CountKeeps ==
    ASSUME Count, Good' = Good, base' = base, mode' = mode,
           Dropping' /\ then' = "next" => Dropping /\ then = "next"
    PROVE  Count'
BY DEF Count, RecheckKeepsGround

LEMMA GoodEdit ==
    ASSUME TypeOK, NEW n \in Names, row[n] # "good", NEW v \in Verdicts \cup {"absent"}, v # "good",
           row' = [row EXCEPT ![n] = v]
    PROVE  Good' = Good
BY DEF TypeOK, Good

LEMMA GoodGain ==
    ASSUME TypeOK, NEW n \in Names, row[n] # "good", row' = [row EXCEPT ![n] = "good"]
    PROVE  Cardinality(Good') = Cardinality(Good) + 1
<1>1. Good' = Good \cup {n} /\ n \notin Good
  BY DEF TypeOK, Good
<1>2. IsFiniteSet(Good)
  BY FS_Subset, SearchAssumption DEF Good
<1>. QED  BY <1>1, <1>2, FS_AddElement

LEMMA GoodLoss ==
    ASSUME TypeOK, NEW n \in Names, row' = [row EXCEPT ![n] = "absent"]
    PROVE  Cardinality(Good') >= Cardinality(Good) - 1
<1>1. Good' = Good \ {n}
  BY DEF TypeOK, Good
<1>2. IsFiniteSet(Good) /\ Cardinality(Good) \in Nat
  BY FS_Subset, GoodCounts, SearchAssumption DEF Good
<1>3. Cardinality(Good \ {n}) = IF n \in Good THEN Cardinality(Good) - 1 ELSE Cardinality(Good)
  BY <1>2, FS_RemoveElement
<1>. QED  BY <1>1, <1>2, <1>3

\* The steps of a recheck that change rows.
LEMMA CountRows ==
    ASSUME Types, Shape, Count, mode = "recheck",
           AddRow \/ AttachNew \/ FlagNew \/ CheckGood \/ CheckBad \/ DropForget
    PROVE  Count'
<1> USE DEF Goto, Types, Control, Testing
<1>1. CASE AddRow
  <2>1. new \in Names /\ row[new] # "good" /\ row' = [row EXCEPT ![new] = "untested"]
    BY <1>1, SearchAssumption DEF AddRow, Shape, Candidate
  <2>2. Good' = Good
    BY <2>1, GoodEdit DEF Verdicts
  <2>. QED  BY <1>1, <2>2, CountKeeps DEF AddRow, EnterLoop, Dropping
<1>2. CASE AttachNew \/ FlagNew \/ CheckBad
  <2>1. new \in Names /\ row[new] = "untested"
    BY <1>2 DEF AttachNew, FlagNew, CheckBad, Shape, Candidate
  <2>2. row' = [row EXCEPT ![new] = "bad"] \/ row' = [row EXCEPT ![new] = "untested"] \/ row' = row
    BY <1>2, <2>1 DEF AttachNew, FlagNew, CheckBad, Mark
  <2>3. Good' = Good
    BY <2>1, <2>2, GoodEdit DEF Verdicts, Good
  <2>4. at' \in {"flag", "check", "loop", "try"}
    BY <1>2 DEF AttachNew, FlagNew, CheckBad, AttemptFails
  <2>. QED  BY <1>2, <2>3, <2>4, CountKeeps DEF AttachNew, FlagNew, CheckBad, AttemptFails, Dropping
<1>3. CASE CheckGood
  <2>1. new \in Names /\ row[new] = "untested" /\ row' = [row EXCEPT ![new] = "good"]
    BY <1>3 DEF CheckGood, Mark, Shape, Candidate
  <2>2. Cardinality(Good') = Cardinality(Good) + 1 /\ Cardinality(Good) \in Nat
    BY <2>1, GoodGain, GoodCounts
  <2>3. base' = base /\ base \in Nat /\ Cardinality(Good) >= base
    BY <1>3 DEF CheckGood, Count, RecheckKeepsGround, TypeOK
  <2>. QED  BY <2>2, <2>3 DEF Count, RecheckKeepsGround
<1>4. CASE DropForget /\ then = "next"
  <2>1. cur \in Names /\ row' = [row EXCEPT ![cur] = "absent"]
    BY <1>4 DEF DropForget, ForgetRow, TypeOK
  <2>2. Cardinality(Good') >= Cardinality(Good) - 1 /\ Cardinality(Good) \in Nat
    BY <2>1, GoodLoss, GoodCounts
  <2>3. base' = base /\ base \in Nat /\ Cardinality(Good) > base
    BY <1>4 DEF DropForget, Count, Dropping, TypeOK
  <2>4. Cardinality(Good') \in Nat
    <3>1. Good' \subseteq Names
      BY DEF Good
    <3>. QED  BY <3>1, FS_Subset, FS_CardinalityType, SearchAssumption
  <2>5. todo = {cur} /\ at' = "next"
    BY <1>4 DEF DropForget, TurnOver, Dropping
  <2>. QED  BY <2>2, <2>3, <2>4, <2>5 DEF Count, RecheckKeepsGround, Dropping
<1>5. CASE DropForget /\ then # "next"
  <2>1. cur \in Names /\ row[cur] # "good" /\ row' = [row EXCEPT ![cur] = "absent"]
    BY <1>5 DEF DropForget, ForgetRow, Dropping, TypeOK, Shape, ReleasesNoGood
  <2>2. Good' = Good
    BY <2>1, GoodEdit
  <2>3. then' # "next"
    BY <1>5 DEF DropForget, TurnOver
  <2>. QED  BY <1>5, <2>2, <2>3, CountKeeps DEF DropForget, TurnOver
<1>. QED  BY <1>1, <1>2, <1>3, <1>4, <1>5

\* Its other steps.
LEMMA CountWorker ==
    ASSUME Types, Count, mode = "recheck", mode' = "recheck",
           \/ EnsureForRecheck \/ DropRelease \/ AllocateNothing \/ ClearFlag
           \/ EndInstance \/ ProbeAttach \/ ProbeCheck \/ ProbesDone \/ NextFailed
           \/ TryReplacement \/ GiveUp
           \/ \E n \in Names : DropDetach(n) \/ ClearDetach(n) \/ Allocate(n) \/ ProbeNext(n)
    PROVE  Count'
<1> USE DEF Goto, Types, Control, Dropping
<1>1. row' = row /\ base' = base
  BY DEF EnsureForRecheck, DropRelease, AllocateNothing, ClearFlag, EndInstance, ProbeAttach,
     ProbeCheck, ProbesDone, NextFailed, TryReplacement, GiveUp, DropDetach, ClearDetach, Allocate,
     ProbeNext, Quit
<1>2. Good' = Good
  BY <1>1 DEF Good
<1>3. Dropping' /\ then' = "next" => Dropping /\ then = "next"
  <2>1. CASE \/ EnsureForRecheck \/ AllocateNothing \/ EndInstance \/ ProbeAttach \/ ProbeCheck
             \/ ProbesDone \/ NextFailed \/ GiveUp
             \/ \E n \in Names : ClearDetach(n) \/ Allocate(n) \/ ProbeNext(n)
    BY <2>1 DEF EnsureForRecheck, AllocateNothing, EndInstance, ProbeAttach, ProbeCheck,
       ProbesDone, NextFailed, GiveUp, ClearDetach, Allocate, ProbeNext, AttemptFails, Quit
  <2>2. CASE ClearFlag
    BY <2>2 DEF ClearFlag, TurnOver
  <2>3. CASE DropRelease \/ \E n \in Names : DropDetach(n)
    BY <2>3 DEF DropRelease, DropDetach
  <2>4. CASE TryReplacement
    BY <2>4 DEF TryReplacement, EnterLoop
  <2>. QED  BY <2>1, <2>2, <2>3, <2>4
<1>. QED  BY <1>1, <1>2, <1>3, CountKeeps

LEMMA CountEvents ==
    ASSUME Types, Shape, Count, mode' = "recheck",
           \/ StopPressed \/ StopStep \/ LateCall \/ Crash \/ SetTarget
           \/ \E n \in Names : ManualRelease(n)
    PROVE  Count'
<1>1. UNCHANGED workerVars
  BY DEF StopPressed, StopStep, StopDeletesInstance, StopPauses, StopLists, StopDetaches,
     StopReleases, StopForgets, StopSetsIdle, LateCall, Crash, SetTarget, ManualRelease, Abandon, Quit
<1>2. CASE StopForgets
  <2>1. dcur \in Names /\ row[dcur] # "good" /\ row' = [row EXCEPT ![dcur] = "absent"]
    BY <1>2 DEF StopForgets, ForgetRow, Shape, ReleasesNoGood, Types, TypeOK
  <2>2. Good' = Good
    BY <2>1, GoodEdit DEF Types
  <2>. QED  BY <1>1, <2>2, CountKeeps DEF Dropping
<1>3. CASE UNCHANGED row
  <2>1. Good' = Good
    BY <1>3 DEF Good
  <2>. QED  BY <1>1, <2>1, CountKeeps DEF Dropping
<1>. QED  BY <1>2, <1>3 DEF StopPressed, StopStep, StopDeletesInstance, StopPauses, StopLists,
          StopDetaches, StopReleases, StopSetsIdle, LateCall, Crash, SetTarget, ManualRelease

LEMMA CountNext == Types /\ Shape /\ Count /\ [Next]_vars => Count'
<1> SUFFICES ASSUME Types, Shape, Count, [Next]_vars PROVE Count'
  OBVIOUS
<1>1. Types'
  BY TypesNext
<1>2. CASE mode' # "recheck"
  BY <1>1, <1>2, CountOutside
<1>3. CASE mode' = "recheck" /\ UNCHANGED vars
  BY <1>3, CountKeeps DEF vars, Good, Dropping
<1>4. CASE mode' = "recheck" /\ BeginRecheck
  <2>1. mode = "off" /\ mode' = "recheck" /\ at' = "ensure" /\ base' = Cardinality(Good) /\ row' = row
    BY <1>4 DEF BeginRecheck
  <2>2. Good' = Good /\ Cardinality(Good) \in Nat
    BY <2>1, GoodCounts DEF Good, Types
  <2>. QED  BY <2>1, <2>2 DEF Count, RecheckKeepsGround, Dropping
<1>5. CASE mode' = "recheck" /\ WorkerStep
  <2>1. mode = "recheck"
    BY <1>5 DEF WorkerStep, EnsureForSearch, EnsureForRecheck, ListAws, CompareRows, SyncDone,
       SyncAdd, SyncDelete, DropDetach, ClearDetach, Allocate, ProbeNext, SearchEnds, SearchExtends,
       SearchRotates, DropRelease, DropForget, AllocateNothing, QuotaHit, QuotaRecovery, AddRow,
       ClearFlag, AttachNew, FlagNew, CheckGood, CheckBad, Sweep, SweepAttached, EndInstance,
       MarkSearchStopped, ProbeAttach, ProbeCheck, ProbesDone, NextFailed, TryReplacement, GiveUp,
       MarkRecheck, Goto, AttemptFails, EnterLoop, TurnOver, Quit
  <2>2. /\ ~EnsureForSearch /\ ~ListAws /\ ~CompareRows /\ ~SyncDone
        /\ ~SearchEnds /\ ~SearchExtends /\ ~SearchRotates /\ ~QuotaHit /\ ~QuotaRecovery
        /\ ~Sweep /\ ~SweepAttached /\ ~MarkSearchStopped /\ ~MarkRecheck
        /\ \A n \in Names : ~SyncAdd(n) /\ ~SyncDelete(n)
    BY <1>5, <2>1 DEF EnsureForSearch, ListAws, CompareRows, SyncDone, SyncAdd, SyncDelete,
       SearchEnds, SearchExtends, SearchRotates, QuotaHit, QuotaRecovery, Sweep, SweepAttached,
       MarkSearchStopped, MarkRecheck, Quit, Types, Control
  <2>. QED  BY <1>5, <2>1, <2>2, CountRows, CountWorker DEF WorkerStep
<1>6. CASE mode' = "recheck" /\ (StartPressed \/ BeginSearch)
  BY <1>6 DEF StartPressed, BeginSearch
<1>. QED  BY <1>2, <1>3, <1>4, <1>5, <1>6, CountEvents DEF Next

\* A recheck never leaves the config with fewer working rows than it found,
\* whatever it finds failing and whatever interferes.
THEOREM RecheckLosesNothing == Spec => []RecheckKeepsGround
<1>1. Count => RecheckKeepsGround
  BY DEF Count
<1>. QED  BY TypesInit, TypesNext, ShapeInit, ShapeNext, CountInit, CountNext, <1>1, PTL DEF Spec

-----------------------------------------------------------------------------
(* Which addresses leave AWS.                                              *)

LEMMA HeldShrinks ==
    ASSUME Next, ~(held \subseteq held')
    PROVE  \/ DropRelease \/ StopReleases \/ LateCall \/ \E n \in Names : ManualRelease(n)
<1>1. StartPressed \/ BeginSearch \/ BeginRecheck \/ StopPressed \/ Crash \/ SetTarget => held' = held
  BY DEF StartPressed, BeginSearch, BeginRecheck, StopPressed, Crash, SetTarget
<1>2. WorkerStep => DropRelease \/ held \subseteq held'
  BY DEF WorkerStep, EnsureForSearch, EnsureForRecheck, ListAws, CompareRows, SyncDone,
     SyncAdd, SyncDelete, DropDetach, ClearDetach, Allocate, ProbeNext, SearchEnds, SearchExtends,
     SearchRotates, DropForget, AllocateNothing, QuotaHit, QuotaRecovery, AddRow,
     ClearFlag, AttachNew, FlagNew, CheckGood, CheckBad, Sweep, SweepAttached, EndInstance,
     MarkSearchStopped, ProbeAttach, ProbeCheck, ProbesDone, NextFailed, TryReplacement, GiveUp,
     MarkRecheck
<1>3. StopStep => StopReleases \/ held' = held
  BY DEF StopStep, StopDeletesInstance, StopPauses, StopLists, StopDetaches, StopForgets, StopSetsIdle
<1>. QED  BY <1>1, <1>2, <1>3 DEF Next

\* No step of the searcher or of the stop handler takes a working address from
\* AWS, but for a failed one whose replacement is in the table already.
THEOREM WorkingStaysHeld == Spec => WorkingReleasedOnlyWhenReplaced
<1> DEFINE Cause(n) == \/ ManualRelease(n)
                       \/ late = <<"release", n>>
                       \/ at = "release" /\ mode = "recheck" /\ fix = n /\ Cardinality(Good) > base
<1>1. ASSUME Types, Shape, Count, [Next]_vars, NEW n \in held \ held', row[n] = "good"
      PROVE  Cause(n)
  <2>1. Next /\ n \in Names
    BY <1>1 DEF vars, Types, TypeOK
  <2>2. CASE DropRelease
    <3>1. cur = n /\ at = "release" /\ cur \in todo
      BY <1>1, <2>2 DEF DropRelease, Release, Types, Control
    <3>2. then = "next"
      BY <1>1, <3>1 DEF Shape, ReleasesNoGood, Dropping
    <3>. QED  BY <1>1, <3>1, <3>2 DEF Types, Control, Dropping, Count
  <2>3. CASE StopReleases
    BY <1>1, <2>3 DEF StopReleases, Release, Shape, ReleasesNoGood
  <2>4. CASE LateCall
    <3>1. late[1] = "release" /\ late[2] = n
      BY <1>1, <2>4 DEF LateCall, Release
    <3>. QED  BY <1>1, <3>1 DEF Types, TypeOK, NoCall
  <2>5. CASE \E m \in Names : ManualRelease(m)
    BY <1>1, <2>5 DEF ManualRelease, Release
  <2>. QED  BY <1>1, <2>1, <2>2, <2>3, <2>4, <2>5, HeldShrinks
<1>2. Types /\ Shape /\ Count /\ [Next]_vars
      => [\A n \in held \ held' : row[n] = "good" => Cause(n)]_vars
  BY <1>1
<1>. QED  BY TypesInit, TypesNext, ShapeInit, ShapeNext, CountInit, CountNext, <1>2, PTL
          DEF Spec, WorkingReleasedOnlyWhenReplaced

-----------------------------------------------------------------------------
(* Which rows say they are attached, when no abandoned call arrives late.   *)

\* AWS attaches only what it holds, and no call is outstanding.
AwsInv == late = NoCall /\ bound \in held \cup {NoName}

\* What a recheck still has to probe works.
Probing ==
    /\ mode = "recheck" /\ at \in {"ensure", "probe", "pattach", "pcheck"} =>
          \A n \in checks : row[n] = "good"
    /\ at = "pattach" => cur \in checks

\* A flag is true, unless nothing is attached or a recheck is probing (or was
\* when it was interrupted).
FlagsTrue == \A n \in flagged : bound \in {n, NoName} \/ row[bound] = "good"

OneFlag == \A m, n \in flagged : m = n

\* The listing that is compared and applied is still true of what is attached.
Listing ==
    /\ at \in {"compare", "sync"} =>
          /\ bound \in {prev, NoName}
          /\ prev # NoName => row[prev] = "good" \/ flagged \subseteq {prev}
    /\ at = "compare" => prev \in adds \cup {NoName}
    /\ at = "sync" => prev \notin dels /\ \A n \in adds : row[n] = "absent"

\* The rows read as attached at the top of an iteration include those that still
\* say so, but for what the quota recovery re-reads and drops.
Remembered ==
    /\ mode = "search" /\ (at \in {"alloc", "add", "retry"} \/ (Dropping /\ then = "alloc")) =>
          flagged \subseteq snap
    /\ at = "recover" \/ (at \in {"list", "compare", "sync"} /\ then = "recover") =>
          flagged \subseteq snap \cup NotGood
    /\ Dropping /\ then = "retry" => flagged \subseteq snap \cup todo

\* When the candidate is attached no row is flagged, and then only its own.
Cleared ==
    /\ at \in {"clear", "unflag"} => flagged \subseteq todo
    /\ at \in {"attach", "flag"} => flagged = {}
    /\ at \in {"flag", "check"} => bound \in {new, NoName}
    /\ at = "check" => flagged \subseteq {new}
    /\ Dropping /\ then = "next" => \A n \in flagged : bound \in {n, NoName}

Flags == FlagsTrue /\ OneFlag /\ Listing /\ Remembered /\ Cleared

Prompt == "late" \notin Events

LEMMA FlagsInit == Init => AwsInv /\ Probing /\ Flags
BY DEF Init, WorkerIdle, AwsInv, Probing, Flags, FlagsTrue, OneFlag, Listing, Remembered, Cleared,
   Dropping

LEMMA AwsNext == Types /\ Prompt /\ AwsInv /\ [Next]_vars => AwsInv'
<1> SUFFICES ASSUME Types, Prompt, AwsInv, [Next]_vars PROVE AwsInv'
  OBVIOUS
<1> USE DEF AwsInv, DeleteInstance, Detach, Attach, Release
<1>1. CASE UNCHANGED <<held, bound, late>>
  BY <1>1
<1>2. StartPressed \/ BeginSearch \/ BeginRecheck \/ SetTarget => UNCHANGED <<held, bound, late>>
  BY DEF StartPressed, BeginSearch, BeginRecheck, SetTarget
<1>3. CASE WorkerStep
  BY <1>3 DEF WorkerStep, EnsureForSearch, EnsureForRecheck, ListAws, CompareRows, SyncDone,
     SyncAdd, SyncDelete, DropDetach, ClearDetach, Allocate, ProbeNext, SearchEnds, SearchExtends,
     SearchRotates, DropRelease, DropForget, AllocateNothing, QuotaHit, QuotaRecovery, AddRow,
     ClearFlag, AttachNew, FlagNew, CheckGood, CheckBad, Sweep, SweepAttached, EndInstance,
     MarkSearchStopped, ProbeAttach, ProbeCheck, ProbesDone, NextFailed, TryReplacement, GiveUp,
     MarkRecheck
<1>4. CASE StopPressed \/ Crash
  BY <1>4 DEF StopPressed, Crash, Abandon, Prompt
<1>5. CASE StopStep
  BY <1>5 DEF StopStep, StopDeletesInstance, StopPauses, StopLists, StopDetaches, StopReleases,
     StopForgets, StopSetsIdle
<1>6. CASE LateCall
  BY <1>6 DEF LateCall
<1>7. ASSUME NEW n \in Names, ManualRelease(n) PROVE AwsInv'
  BY <1>7 DEF ManualRelease
<1>. QED  BY <1>1, <1>2, <1>3, <1>4, <1>5, <1>6, <1>7 DEF Next, vars

LEMMA ProbingNext == Types /\ Shape /\ Probing /\ [Next]_vars => Probing'
<1> SUFFICES ASSUME Types, Shape, Probing, [Next]_vars PROVE Probing'
  OBVIOUS
<1>1. CASE UNCHANGED <<row, mode, at, checks, cur>>
  BY <1>1 DEF Probing
<1>2. StartPressed \/ SetTarget \/ LateCall \/ UNCHANGED vars \/ (\E n \in Names : ManualRelease(n))
      => UNCHANGED <<row, mode, at, checks, cur>>
  BY DEF StartPressed, SetTarget, LateCall, ManualRelease, vars
<1>3. CASE BeginSearch \/ BeginRecheck
  BY <1>3 DEF BeginSearch, BeginRecheck, Probing, Good, Types, Control
<1>4. CASE StopPressed \/ Crash
  BY <1>4 DEF StopPressed, Crash, Abandon, Quit, Probing
<1>5. CASE StopStep
  <2>1. \A n \in Names : row[n] = "good" => row'[n] = "good"
    BY <1>5 DEF StopStep, StopDeletesInstance, StopPauses, StopLists, StopDetaches, StopReleases,
       StopForgets, StopSetsIdle, ForgetRow, Shape, ReleasesNoGood, Types, TypeOK
  <2>2. UNCHANGED <<mode, at, checks, cur>> /\ checks \subseteq Names
    BY <1>5 DEF StopStep, StopDeletesInstance, StopPauses, StopLists, StopDetaches, StopReleases,
       StopForgets, StopSetsIdle, Types, TypeOK
  <2>. QED  BY <2>1, <2>2 DEF Probing
<1>6. CASE WorkerStep /\ at' \notin {"ensure", "probe", "pattach", "pcheck"}
  BY <1>6 DEF Probing
<1>7. CASE WorkerStep /\ at' \in {"ensure", "probe", "pattach", "pcheck"}
  <2>1. EnsureForRecheck \/ ProbeAttach \/ ProbeCheck \/ \E n \in Names : ProbeNext(n)
    BY <1>7 DEF WorkerStep, EnsureForSearch, ListAws, CompareRows, SyncDone,
       SyncAdd, SyncDelete, DropDetach, ClearDetach, Allocate, SearchEnds, SearchExtends,
       SearchRotates, DropRelease, DropForget, AllocateNothing, QuotaHit, QuotaRecovery, AddRow,
       ClearFlag, AttachNew, FlagNew, CheckGood, CheckBad, Sweep, SweepAttached, EndInstance,
       MarkSearchStopped, ProbesDone, NextFailed, TryReplacement, GiveUp,
       MarkRecheck, Goto, AttemptFails, EnterLoop, TurnOver, Quit, Types, Control, Dropping
  <2>. QED  BY <1>7, <2>1 DEF EnsureForRecheck, ProbeAttach, ProbeCheck, ProbeNext, Goto, Quit, Probing
<1>. QED  BY <1>1, <1>2, <1>3, <1>4, <1>5, <1>6, <1>7 DEF Next

\* Flags are only taken down, nothing new is attached, and no working row is lost.
Settles ==
    /\ flagged' \subseteq flagged /\ bound' \in {bound, NoName}
    /\ \A n \in Names : row[n] = "good" => row'[n] = "good"

LEMMA SettlesKeeps ==
    ASSUME Types, Flags, Settles
    PROVE  FlagsTrue' /\ OneFlag'
BY DEF Types, TypeOK, Flags, FlagsTrue, OneFlag, Settles

\* Then the worker goes where no loop is under way.
LEMMA SettlesOff ==
    ASSUME Types, Flags, Settles,
           at' \in {"off", "ensure", "loop", "sweep", "sweep2", "delete", "stop", "probe", "pattach",
                   "pcheck", "next", "try"}
    PROVE  Flags'
BY SettlesKeeps DEF Flags, Listing, Remembered, Cleared, Dropping

\* Or something from outside settles, and the worker stays where it is.
LEMMA SettlesOutside ==
    ASSUME Types, Flags, Settles, UNCHANGED workerVars,
           \A n \in Names : row'[n] = row[n] \/ (row'[n] = "absent" /\ n \notin flagged')
    PROVE  Flags'
<1>1. FlagsTrue' /\ OneFlag'
  BY SettlesKeeps
<1>2. Listing'
  BY DEF Types, TypeOK, Flags, Listing, Settles
<1>3. flagged' \cap NotGood \subseteq NotGood'
  BY DEF NotGood, Good, Rows
<1>4. Remembered'
  BY <1>3 DEF Flags, Remembered, Settles, Dropping
<1>5. Cleared'
  BY DEF Flags, Cleared, Settles, Dropping
<1>. QED  BY <1>1, <1>2, <1>4, <1>5 DEF Flags

LEMMA SameSettles ==
    ASSUME UNCHANGED <<row, flagged>>, bound' \in {bound, NoName}
    PROVE  Settles
BY DEF Settles

LEMMA FlagsBegin ==
    ASSUME Types, Flags,
           \/ StartPressed \/ BeginSearch \/ BeginRecheck \/ EnsureForRecheck
           \/ SearchEnds \/ EndInstance \/ MarkSearchStopped \/ MarkRecheck
           \/ ProbeCheck \/ ProbesDone \/ NextFailed \/ GiveUp \/ \E n \in Names : ProbeNext(n)
           \/ AllocateNothing
    PROVE  Flags'
<1>1. UNCHANGED <<row, flagged>> /\ bound' \in {bound, NoName}
  BY DEF StartPressed, BeginSearch, BeginRecheck, EnsureForRecheck, SearchEnds, EndInstance,
     MarkSearchStopped, MarkRecheck, ProbeCheck, ProbesDone, NextFailed, GiveUp, ProbeNext,
     AllocateNothing, DeleteInstance, Detach
<1>2. CASE UNCHANGED workerVars
  BY <1>1, <1>2, SameSettles, SettlesOutside
<1>3. CASE at' \in {"off", "ensure", "loop", "sweep", "sweep2", "delete", "stop", "probe", "pattach",
                    "pcheck", "next", "try"}
  BY <1>1, <1>3, SameSettles, SettlesOff
<1>. QED  BY <1>2, <1>3 DEF StartPressed, BeginSearch, BeginRecheck, EnsureForRecheck, SearchEnds,
          EndInstance, MarkSearchStopped, MarkRecheck, ProbeCheck, ProbesDone, NextFailed, GiveUp,
          ProbeNext, AllocateNothing, AttemptFails, Goto, Quit

\* The reconciliation.
LEMMA FlagsSync ==
    ASSUME Types, Shape, AwsInv, Flags,
           \/ EnsureForSearch \/ ListAws \/ CompareRows \/ SyncDone \/ QuotaHit
           \/ \E n \in Names : SyncAdd(n) \/ SyncDelete(n)
    PROVE  Flags'
<1> USE SearchAssumption DEF Goto, Types, TypeOK, Control, Dropping
<1>1. CASE EnsureForSearch \/ ListAws \/ CompareRows \/ SyncDone \/ QuotaHit
  <2>1. UNCHANGED <<row, flagged, bound, held>>
    BY <1>1 DEF EnsureForSearch, ListAws, CompareRows, SyncDone, QuotaHit
  <2>2. FlagsTrue' /\ OneFlag'
    BY <2>1, SameSettles, SettlesKeeps
  <2>3. Listing'
    BY <1>1, <2>1 DEF EnsureForSearch, ListAws, CompareRows, SyncDone, QuotaHit, Quit, AwsInv,
       Flags, FlagsTrue, Listing, Rows
  <2>4. NotGood' = NotGood
    BY <2>1 DEF NotGood, Good, Rows
  <2>5. Remembered'
    BY <1>1, <2>1, <2>4 DEF EnsureForSearch, ListAws, CompareRows, SyncDone, QuotaHit, Quit,
       Flags, Remembered
  <2>6. Cleared'
    BY <1>1 DEF EnsureForSearch, ListAws, CompareRows, SyncDone, QuotaHit, Quit, Cleared
  <2>. QED  BY <2>2, <2>3, <2>5, <2>6 DEF Flags
<1>2. ASSUME NEW n \in Names, SyncAdd(n) PROVE Flags'
  <2>1. /\ row' = [row EXCEPT ![n] = "untested"] /\ row[n] = "absent" /\ n # NoName
        /\ flagged' = IF prev = n THEN flagged \cup {n} ELSE flagged \ {n}
        /\ UNCHANGED <<bound, mode, at, new, todo, then, snap, dels, prev>>
        /\ adds' = adds \ {n} /\ at = "sync" /\ bound \in {prev, NoName}
    BY <1>2 DEF SyncAdd, Flags, Listing
  <2>2. prev = n => flagged \subseteq {n}
    BY <2>1 DEF Flags, Listing
  <2>3. OneFlag'
    BY <2>1, <2>2 DEF Flags, OneFlag
  <2>4. FlagsTrue'
    BY <2>1, <2>2 DEF Flags, FlagsTrue
  <2>5. Listing'
    BY <2>1, <2>2 DEF Flags, Listing
  <2>6. NotGood' = NotGood \cup {n}
    BY <2>1 DEF NotGood, Good, Rows
  <2>7. Remembered'
    BY <2>1, <2>6 DEF Flags, Remembered
  <2>8. Cleared'
    BY <2>1 DEF Cleared
  <2>. QED  BY <2>3, <2>4, <2>5, <2>7, <2>8 DEF Flags
<1>3. ASSUME NEW n \in Names, SyncDelete(n) PROVE Flags'
  <2>1. /\ row' = [row EXCEPT ![n] = "absent"] /\ flagged' = flagged \ {n} /\ n # NoName
        /\ UNCHANGED <<bound, mode, at, new, todo, then, snap, adds, prev>>
        /\ dels' = dels \ {n} /\ at = "sync" /\ bound \in {prev, NoName} /\ n # prev
    BY <1>3 DEF SyncDelete, ForgetRow, Flags, Listing
  <2>2. OneFlag' /\ FlagsTrue'
    BY <2>1 DEF Flags, OneFlag, FlagsTrue
  <2>3. Listing'
    BY <2>1 DEF Flags, Listing
  <2>4. NotGood' = NotGood \ {n}
    BY <2>1 DEF NotGood, Good, Rows
  <2>5. Remembered'
    BY <2>1, <2>4 DEF Flags, Remembered
  <2>6. Cleared'
    BY <2>1 DEF Cleared
  <2>. QED  BY <2>2, <2>3, <2>5, <2>6 DEF Flags
<1>. QED  BY <1>1, <1>2, <1>3

\* Releasing and allocating.
LEMMA FlagsDrop ==
    ASSUME Types, Shape, AwsInv, Flags,
           \/ SearchExtends \/ SearchRotates \/ DropRelease \/ DropForget \/ QuotaRecovery
           \/ Sweep \/ TryReplacement \/ \E n \in Names : DropDetach(n) \/ Allocate(n)
    PROVE  Flags'
<1> USE SearchAssumption DEF Goto, Types, Control, Dropping
<1>1. CASE \/ SearchExtends \/ SearchRotates \/ DropRelease \/ QuotaRecovery \/ Sweep
           \/ TryReplacement \/ \E n \in Names : DropDetach(n) \/ Allocate(n)
  <2>1. UNCHANGED <<row, flagged>> /\ bound' \in {bound, NoName}
    BY <1>1 DEF SearchExtends, SearchRotates, DropRelease, QuotaRecovery, Sweep, TryReplacement,
       DropDetach, Allocate, Detach, Release
  <2>2. FlagsTrue' /\ OneFlag'
    BY <2>1, SameSettles, SettlesKeeps
  <2>3. at' \notin {"compare", "sync", "list", "clear", "unflag", "attach", "flag", "check", "recover"}
    BY <1>1 DEF SearchExtends, SearchRotates, DropRelease, QuotaRecovery, Sweep, TryReplacement,
       DropDetach, Allocate, AttemptFails, EnterLoop
  <2>4. CASE SearchExtends \/ SearchRotates \/ Sweep
    BY <2>1, <2>2, <2>3, <2>4 DEF SearchExtends, SearchRotates, Sweep, EnterLoop, Flags, Listing,
       Remembered, Cleared
  <2>5. CASE DropRelease \/ \E n \in Names : DropDetach(n)
    BY <2>1, <2>2, <2>3, <2>5 DEF DropRelease, DropDetach, Release, Detach, Flags, Listing,
       Remembered, Cleared
  <2>6. CASE QuotaRecovery \/ TryReplacement
    BY <2>1, <2>2, <2>3, <2>6 DEF QuotaRecovery, TryReplacement, AttemptFails, EnterLoop, Flags,
       Listing, Remembered, Cleared
  <2>7. ASSUME NEW n \in Names, Allocate(n) PROVE Flags'
    BY <2>1, <2>2, <2>3, <2>7 DEF Allocate, AttemptFails, Flags, Listing, Remembered, Cleared
  <2>. QED  BY <1>1, <2>4, <2>5, <2>6, <2>7
<1>2. CASE DropForget
  <2>1. /\ cur \in todo /\ cur \in Names /\ at = "forget"
        /\ row' = [row EXCEPT ![cur] = "absent"] /\ flagged' = flagged \ {cur}
        /\ UNCHANGED <<bound, mode, snap>> /\ todo' = todo \ {cur}
        /\ IF todo' = {} THEN at' = then ELSE at' = "drop" /\ then' = then
    BY <1>2 DEF DropForget, ForgetRow, TurnOver, TypeOK
  <2>2. OneFlag'
    BY <2>1 DEF Flags, OneFlag
  <2>3. FlagsTrue'
    <3>1. CASE then = "next"
      BY <2>1, <3>1 DEF Flags, FlagsTrue, Cleared
    <3>2. CASE then # "next"
      <4>1. row[cur] # "good"
        BY <2>1, <3>2 DEF Shape, ReleasesNoGood
      <4>. QED  BY <2>1, <4>1 DEF Flags, FlagsTrue, TypeOK
    <3>. QED  BY <3>1, <3>2
  <2>4. Listing'
    BY <2>1 DEF Listing
  <2>5. Remembered'
    BY <2>1 DEF Flags, Remembered
  <2>6. Cleared'
    BY <2>1 DEF Cleared
  <2>. QED  BY <2>2, <2>3, <2>4, <2>5, <2>6 DEF Flags
<1>. QED  BY <1>1, <1>2

\* Clearing the flags before the candidate is attached, or at the end.
LEMMA FlagsClear ==
    ASSUME Types, Shape, Flags,
           AddRow \/ ClearFlag \/ SweepAttached \/ \E n \in Names : ClearDetach(n)
    PROVE  Flags'
<1> USE SearchAssumption DEF Goto, Types, Control, Testing, Dropping
<1>1. CASE AddRow
  <2>1. /\ new \in Names /\ row[new] # "good" /\ row' = [row EXCEPT ![new] = "untested"]
        /\ flagged' = flagged \ {new} /\ bound' = bound
    BY <1>1 DEF AddRow, Shape, Candidate
  <2>2. Settles
    BY <2>1 DEF Settles, TypeOK
  <2>3. FlagsTrue' /\ OneFlag'
    BY <2>2, SettlesKeeps
  <2>4. flagged' \subseteq todo'
    BY <1>1, <2>1 DEF AddRow, EnterLoop, Flags, Remembered
  <2>5. IF todo' = {} THEN at' = "attach" ELSE at' = "clear"
    BY <1>1 DEF AddRow, EnterLoop
  <2>. QED  BY <2>3, <2>4, <2>5 DEF Flags, Listing, Remembered, Cleared
<1>2. CASE ClearFlag
  <2>1. Settles
    BY <1>2 DEF ClearFlag, Settles
  <2>2. FlagsTrue' /\ OneFlag'
    BY <2>1, SettlesKeeps
  <2>3. flagged' \subseteq todo'
    BY <1>2 DEF ClearFlag, TurnOver, Flags, Cleared
  <2>4. at' \in {"clear", "attach", "delete"} /\ (at' = "attach" => todo' = {})
    BY <1>2 DEF ClearFlag, TurnOver
  <2>. QED  BY <2>2, <2>3, <2>4 DEF Flags, Listing, Remembered, Cleared
<1>3. CASE SweepAttached
  <2>1. FlagsTrue' /\ OneFlag'
    BY <1>3, SameSettles, SettlesKeeps DEF SweepAttached
  <2>2. at' \in {"clear", "delete"} /\ flagged' \subseteq todo'
    BY <1>3 DEF SweepAttached, EnterLoop
  <2>. QED  BY <2>1, <2>2 DEF Flags, Listing, Remembered, Cleared
<1>4. ASSUME NEW n \in Names, ClearDetach(n) PROVE Flags'
  <2>1. FlagsTrue' /\ OneFlag'
    BY <1>4, SameSettles, SettlesKeeps DEF ClearDetach, Detach
  <2>2. at' = "unflag" /\ flagged' \subseteq todo'
    BY <1>4 DEF ClearDetach, Flags, Cleared
  <2>. QED  BY <2>1, <2>2 DEF Flags, Listing, Remembered, Cleared
<1>. QED  BY <1>1, <1>2, <1>3, <1>4

\* The test of the candidate, and the probes.
LEMMA FlagsTest ==
    ASSUME Types, Shape, Probing, Flags,
           AttachNew \/ FlagNew \/ CheckGood \/ CheckBad \/ ProbeAttach
    PROVE  Flags'
<1> USE SearchAssumption DEF Goto, Types, Control, Testing, Dropping
<1>1. CASE AttachNew
  <2>1. flagged = {}
    BY <1>1 DEF AttachNew, Flags, Cleared
  <2>2. flagged' = {}
    BY <1>1, <2>1 DEF AttachNew, Mark
  <2>3. at' \in {"loop", "try"} \/ (at' = "flag" /\ bound' = new /\ new' = new)
    BY <1>1 DEF AttachNew, Attach, AttemptFails
  <2>. QED  BY <2>2, <2>3 DEF Flags, FlagsTrue, OneFlag, Listing, Remembered, Cleared
<1>2. CASE FlagNew
  <2>1. flagged = {} /\ bound \in {new, NoName} /\ new \in Names
    BY <1>2 DEF FlagNew, Flags, Cleared
  <2>2. flagged' = {new} /\ bound' = bound /\ new' = new /\ at' = "check"
    BY <1>2, <2>1 DEF FlagNew, Mark, Shape, Candidate
  <2>. QED  BY <2>1, <2>2 DEF Flags, FlagsTrue, OneFlag, Listing, Remembered, Cleared
<1>3. CASE CheckGood \/ CheckBad
  <2>1. flagged \subseteq {new} /\ bound \in {new, NoName} /\ new \in Names
    BY <1>3 DEF CheckGood, CheckBad, Flags, Cleared
  <2>2. flagged' = {new} /\ bound' = bound
    BY <1>3, <2>1 DEF CheckGood, CheckBad, Mark, Shape, Candidate
  <2>3. at' \in {"loop", "try"} \/ (at' = "release" /\ then' = "next")
    BY <1>3 DEF CheckGood, CheckBad, AttemptFails, EnterLoop
  <2>. QED  BY <2>1, <2>2, <2>3 DEF Flags, FlagsTrue, OneFlag, Listing, Remembered, Cleared
<1>4. CASE ProbeAttach
  <2>1. UNCHANGED <<row, flagged>> /\ at' \in {"probe", "pcheck"}
    BY <1>4 DEF ProbeAttach
  <2>2. bound' = bound \/ row[bound'] = "good"
    BY <1>4 DEF ProbeAttach, Attach, Probing
  <2>. QED  BY <2>1, <2>2 DEF Flags, FlagsTrue, OneFlag, Listing, Remembered, Cleared
<1>. QED  BY <1>1, <1>2, <1>3, <1>4

LEMMA FlagsEvents ==
    ASSUME Types, Shape, AwsInv, Flags,
           \/ StopPressed \/ StopStep \/ LateCall \/ Crash \/ SetTarget
           \/ \E n \in Names : ManualRelease(n)
    PROVE  Flags'
<1>1. CASE StopPressed \/ Crash
  BY <1>1, SameSettles, SettlesOff DEF StopPressed, Crash, Abandon, Quit
<1>2. CASE \/ StopDeletesInstance \/ StopPauses \/ StopLists \/ StopReleases \/ StopSetsIdle
           \/ SetTarget \/ \E n \in Names : StopDetaches(n) \/ ManualRelease(n)
  <2>1. UNCHANGED <<row, flagged>> /\ bound' \in {bound, NoName} /\ UNCHANGED workerVars
    BY <1>2 DEF StopDeletesInstance, StopPauses, StopLists, StopReleases, StopSetsIdle, SetTarget,
       StopDetaches, ManualRelease, DeleteInstance, Release, Detach
  <2>. QED  BY <2>1, SameSettles, SettlesOutside
<1>3. CASE StopForgets
  <2>1. /\ row' = [row EXCEPT ![dcur] = "absent"] /\ flagged' = flagged \ {dcur}
        /\ row[dcur] # "good" /\ UNCHANGED bound /\ UNCHANGED workerVars
    BY <1>3 DEF StopForgets, ForgetRow, Shape, ReleasesNoGood
  <2>2. \A n \in Names : row'[n] = row[n] \/ (row'[n] = "absent" /\ n = dcur)
    BY <2>1 DEF Types, TypeOK
  <2>3. Settles
    BY <2>1, <2>2 DEF Settles
  <2>. QED  BY <2>1, <2>2, <2>3, SettlesOutside
<1>4. ~LateCall
  BY DEF LateCall, AwsInv
<1>. QED  BY <1>1, <1>2, <1>3, <1>4 DEF StopStep

LEMMA FlagsNext ==
    Types /\ Shape /\ AwsInv /\ Probing /\ Flags /\ [Next]_vars => Flags'
<1> SUFFICES ASSUME Types, Shape, AwsInv, Probing, Flags, [Next]_vars PROVE Flags'
  OBVIOUS
<1>1. CASE UNCHANGED vars
  BY <1>1, SameSettles, SettlesOutside DEF vars
<1>2. StartPressed \/ BeginSearch \/ BeginRecheck => Flags'
  BY FlagsBegin
<1>3. WorkerStep => Flags'
  BY FlagsBegin, FlagsSync, FlagsDrop, FlagsClear, FlagsTest DEF WorkerStep
<1>. QED  BY <1>1, <1>2, <1>3, FlagsEvents DEF Next

LEMMA OneFlagCounts == Types /\ OneFlag => OneRowAttached
<1> SUFFICES ASSUME Types, OneFlag PROVE OneRowAttached
  OBVIOUS
<1>1. CASE flagged = {}
  BY <1>1, FS_EmptySet DEF OneRowAttached
<1>2. CASE flagged # {}
  <2>1. PICK n \in flagged : flagged = {n}
    BY <1>2 DEF OneFlag
  <2>. QED  BY <2>1, FS_Singleton DEF OneRowAttached
<1>. QED  BY <1>1, <1>2

\* At most one row says it is attached, whatever is interrupted and released by
\* hand, as long as no call of an interrupted worker takes effect after it is gone
\* (an attachment that does may be picked up by the next reconciliation as a second
\* flag).
THEOREM OneRowFlagged == Spec => [](Prompt => OneRowAttached)
<1> DEFINE Inv == Types /\ Shape /\ Probing /\ (Prompt => AwsInv /\ Flags)
<1>1. Init => Inv
  BY TypesInit, ShapeInit, FlagsInit
<1>2. Inv /\ [Next]_vars => Inv'
  <2>1. [Next]_vars => (Prompt' <=> Prompt)
    BY DEF Next, vars, Prompt, Events
  <2>. QED  BY <2>1, TypesNext, ShapeNext, ProbingNext, AwsNext, FlagsNext
<1>3. Inv => (Prompt => OneRowAttached)
  BY OneFlagCounts DEF Flags
<1>. QED  BY <1>1, <1>2, <1>3, PTL DEF Spec

=============================================================================
