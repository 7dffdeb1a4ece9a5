--------------------------- MODULE IpCheck_proofs ---------------------------
(***************************************************************************)
(* A distributed check keeps the promise of Judgement, for any batch of    *)
(* addresses, any nodes and any deadline.                                  *)
(***************************************************************************)
EXTENDS IpCheck, TLAPS

\* What a call has settled, by where it is: nothing at first, alive and dead only
\* while "reach" polls, and for the others the addresses whose result is fetched.
Progress ==
    /\ at = "create" => /\ verdict = [ip \in Ips |-> Unset]
                        /\ pending = {} /\ toFetch = {} /\ lost = {}
    /\ at = "poll" /\ op = "reach" => \A ip \in Ips : verdict[ip] # "unknown"
    /\ at = "poll" /\ op # "reach" => /\ verdict = [ip \in Ips |-> Unset]
                                      /\ toFetch = Checks
    /\ at = "fetch" => /\ op # "reach"
                       /\ \A ip \in Ips : (verdict[ip] = Unset) = (<<op, ip>> \in toFetch)
    /\ at = "returned" => \A ip \in Ips : verdict[ip] # Unset

Inv == TypeOK /\ Progress

USE IpCheckAssumption

\* The checks of an address and of a call that is not "reach".
LEMMA OneCheckEach ==
    ASSUME op \in Ops
    PROVE  /\ Checks = Creates(op) \X Ips
           /\ op # "reach" => \A c \in Checks : c = <<op, c[2]>> /\ c[2] \in Ips
           /\ \A c \in Checks : c[1] \in Creates(op) /\ c[2] \in Ips
BY DEF Checks, Creates, Ops

LEMMA InvInit == Init => Inv
<1>. SUFFICES ASSUME Init PROVE Inv  OBVIOUS
<1>1. TypeOK
  <2>1. run \in [Checks -> [Nodes -> Runs]]  BY DEF Init, Runs
  <2>2. 0 \in 0..MaxPolls  BY DEF IpCheckAssumption
  <2>3. status \in [Checks -> Statuses]  BY DEF Init, Statuses
  <2>. QED  BY <2>1, <2>2, <2>3 DEF Init, TypeOK
<1>2. Progress
  BY DEF Init, Progress
<1>. QED  BY <1>1, <1>2 DEF Inv

\* Every step keeps the types.
LEMMA TypeStep == ASSUME TypeOK, Next PROVE TypeOK'
<1>1. CASE CheckMoves
  <2>1. status' \in [Checks -> Statuses]
    BY <1>1 DEF CheckMoves, TypeOK
  <2>2. UNCHANGED <<callVars, run>>  BY <1>1 DEF CheckMoves
  <2>3. Checks' = Checks  BY <2>2 DEF Checks, callVars
  <2>. QED  BY <2>1, <2>2, <2>3 DEF TypeOK, callVars
<1>2. CASE RunMoves
  <2>1. PICK c \in Checks, n \in Nodes, r \in Runs : run' = [run EXCEPT ![c][n] = r]
    BY <1>2 DEF RunMoves, Runs
  <2>2. run' \in [Checks -> [Nodes -> Runs]]
    <3>1. run[c] \in [Nodes -> Runs]  BY DEF TypeOK
    <3>2. [run[c] EXCEPT ![n] = r] \in [Nodes -> Runs]  BY <3>1
    <3>. QED  BY <2>1, <3>2 DEF TypeOK
  <2>3. UNCHANGED <<callVars, status>>  BY <1>2 DEF RunMoves
  <2>4. Checks' = Checks  BY <2>3 DEF Checks, callVars
  <2>. QED  BY <2>2, <2>3, <2>4 DEF TypeOK, callVars
<1>3. CASE Create
  <2>1. CASE Raises /\ UNCHANGED Service
    BY <2>1 DEF Raises, Service, TypeOK, Checks
  <2>2. CASE /\ at' = "returned" /\ AllUnknown /\ UNCHANGED Service
             /\ UNCHANGED <<op, shape, pending, polls, toFetch, lost>>
    BY <2>2 DEF AllUnknown, Service, TypeOK, Checks
  <2>3. CASE /\ UNCHANGED Service /\ UNCHANGED <<op, polls, lost>>
             /\ \E s \in [Creates(op) -> {"batch", "each", "odd"}] :
                   LET known == {c \in Checks : s[c[1]] # "odd"}
                   IN  /\ shape' = s /\ pending' = known
                       /\ IF known = {} THEN at' = "returned" /\ AllUnknown
                          ELSE at' = "poll" /\ verdict' = verdict
                       /\ toFetch' = IF op = "reach" THEN {} ELSE known
    BY <2>3 DEF AllUnknown, Service, TypeOK, Checks
  <2>. QED  BY <1>3, <2>1, <2>2, <2>3 DEF Create
<1>4. CASE Poll
  <2>1. CASE Raises /\ UNCHANGED Service
    BY <2>1 DEF Raises, Service, TypeOK, Checks
  <2>2. CASE ~Raises
    <3>1. PICK heard \in Learns :
             /\ pending' = {c \in pending : c \notin heard
                                  \/ ~(status[c] \in Terminal \/ (op # "reach" /\ Stuck(c)))}
             /\ verdict' = IF op = "reach" THEN [ip \in Ips |-> ByStatus(ip, heard)]
                           ELSE verdict
      BY <1>4, <2>2 DEF Poll
    <3>2. verdict' \in [Ips -> {Unset, "alive", "dead", "unknown"}]
      BY <3>1 DEF ByStatus, TypeOK
    <3>3. polls' \in 0..MaxPolls
      <4>1. polls' = polls + 1 /\ polls < MaxPolls  BY <1>4, <2>2 DEF Poll
      <4>2. MaxPolls \in Nat  BY DEF IpCheckAssumption
      <4>3. polls \in 0..MaxPolls  BY DEF TypeOK
      <4>. QED  BY <4>1, <4>2, <4>3
    <3>. QED  BY <1>4, <2>2, <3>1, <3>2, <3>3 DEF Poll, Service, TypeOK, Checks
  <2>. QED  BY <2>1, <2>2, <1>4 DEF Poll
<1>5. CASE PollEnds
  BY <1>5 DEF PollEnds, Service, TypeOK, Checks
<1>6. CASE Fetch
  <2>1. PICK c \in toFetch :
           /\ toFetch' = toFetch \ {c}
           /\ \/ verdict' = [verdict EXCEPT ![c[2]] = ByRuns(c)] /\ UNCHANGED lost
              \/ verdict' = [verdict EXCEPT ![c[2]] = "dead"] /\ lost' = lost \cup {c[2]}
    BY <1>6 DEF Fetch
  <2>2. ByRuns(c) \in {"alive", "dead", "unknown"}
    BY DEF ByRuns, PingVerdict, TlsVerdict, Took, Done, Reaches
  <2>3. c[2] \in Ips
    BY OneCheckEach DEF TypeOK
  <2>. QED  BY <1>6, <2>1, <2>2, <2>3 DEF Fetch, Service, TypeOK, Checks
<1>7. CASE Returns
  BY <1>7 DEF Returns, Service, TypeOK, Checks
<1>. QED  BY <1>1, <1>2, <1>3, <1>4, <1>5, <1>6, <1>7 DEF Next, CallStep

LEMMA ProgressStep == ASSUME Inv, Next PROVE Progress'
<1>. TypeOK /\ Progress  BY DEF Inv
<1>1. CASE CheckMoves
  BY <1>1 DEF CheckMoves, Progress, callVars, Checks
<1>2. CASE RunMoves
  BY <1>2 DEF RunMoves, Progress, callVars, Checks
<1>3. CASE Create
  <2>1. CASE Raises /\ UNCHANGED Service
    BY <2>1 DEF Raises, Progress
  <2>2. CASE /\ at' = "returned" /\ AllUnknown
    BY <2>2 DEF AllUnknown, Progress, IpCheckAssumption
  <2>3. CASE /\ at = "create" /\ UNCHANGED Service /\ UNCHANGED <<op, polls, lost>>
             /\ \E s \in [Creates(op) -> {"batch", "each", "odd"}] :
                   LET known == {c \in Checks : s[c[1]] # "odd"}
                   IN  /\ shape' = s /\ pending' = known
                       /\ IF known = {} THEN at' = "returned" /\ AllUnknown
                          ELSE at' = "poll" /\ verdict' = verdict
                       /\ toFetch' = IF op = "reach" THEN {} ELSE known
    <3>. PICK s \in [Creates(op) -> {"batch", "each", "odd"}] :
            LET known == {c \in Checks : s[c[1]] # "odd"}
            IN  /\ shape' = s /\ pending' = known
                /\ IF known = {} THEN at' = "returned" /\ AllUnknown
                   ELSE at' = "poll" /\ verdict' = verdict
                /\ toFetch' = IF op = "reach" THEN {} ELSE known
      BY <2>3
    <3>. DEFINE known == {c \in Checks : s[c[1]] # "odd"}
    <3>1. CASE known = {}
      BY <2>2, <3>1
    <3>2. CASE known # {}
      <4>1. at' = "poll" /\ verdict' = verdict /\ verdict = [ip \in Ips |-> Unset]
        BY <2>3, <3>2 DEF Progress
      <4>2. op # "reach" => known = Checks
        <5>. SUFFICES ASSUME op # "reach" PROVE known = Checks  OBVIOUS
        <5>1. \A c \in Checks : c[1] = op  BY OneCheckEach DEF TypeOK, Creates
        <5>2. s[op] # "odd"  BY <3>2, <5>1
        <5>. QED  BY <5>1, <5>2
      <4>3. Checks' = Checks  BY <2>3 DEF Checks
      <4>4. \A ip \in Ips : verdict'[ip] # "unknown"
        BY <4>1 DEF IpCheckAssumption
      <4>. QED  BY <2>3, <4>1, <4>2, <4>3, <4>4 DEF Progress
    <3>. QED  BY <3>1, <3>2
  <2>. QED  BY <1>3, <2>1, <2>2, <2>3 DEF Create
<1>4. CASE Poll
  <2>1. CASE Raises /\ UNCHANGED Service
    BY <2>1 DEF Raises, Progress
  <2>2. CASE ~Raises
    <3>1. PICK heard \in Learns :
             verdict' = IF op = "reach" THEN [ip \in Ips |-> ByStatus(ip, heard)] ELSE verdict
      BY <1>4, <2>2 DEF Poll
    <3>2. at = "poll" /\ at' = "poll" /\ UNCHANGED <<op, toFetch>>
      BY <1>4, <2>2 DEF Poll
    <3>3. op = "reach" => \A ip \in Ips : verdict'[ip] # "unknown"
      BY <3>1, <3>2 DEF ByStatus, Progress
    <3>4. Checks' = Checks  BY <3>2 DEF Checks
    <3>. QED  BY <3>1, <3>2, <3>3, <3>4 DEF Progress
  <2>. QED  BY <2>1, <2>2, <1>4 DEF Poll
<1>5. CASE PollEnds
  <2>1. CASE op = "reach"
    BY <1>5, <2>1 DEF PollEnds, Progress, IpCheckAssumption
  <2>2. CASE op # "reach"
    <3>1. at' = "fetch" /\ UNCHANGED <<op, verdict, toFetch>>  BY <1>5, <2>2 DEF PollEnds
    <3>2. verdict = [ip \in Ips |-> Unset] /\ toFetch = Checks
      BY <1>5, <2>2 DEF PollEnds, Progress
    <3>3. \A ip \in Ips : <<op, ip>> \in Checks
      BY <2>2 DEF Checks, Creates
    <3>. QED  BY <2>2, <3>1, <3>2, <3>3 DEF Progress
  <2>. QED  BY <2>1, <2>2
<1>6. CASE Fetch
  <2>1. PICK c \in toFetch :
           /\ toFetch' = toFetch \ {c}
           /\ \/ verdict' = [verdict EXCEPT ![c[2]] = ByRuns(c)]
              \/ verdict' = [verdict EXCEPT ![c[2]] = "dead"]
    BY <1>6 DEF Fetch
  <2>2. at = "fetch" /\ at' = "fetch" /\ op' = op /\ op # "reach"
    BY <1>6 DEF Fetch, Progress
  <2>3. c = <<op, c[2]>> /\ c[2] \in Ips
    BY <2>2, OneCheckEach DEF TypeOK
  <2>4. ByRuns(c) # Unset /\ "dead" # Unset
    BY DEF ByRuns, PingVerdict, TlsVerdict, Took, Done, Reaches, IpCheckAssumption
  <2>5. \A ip \in Ips : (verdict[ip] = Unset) = (<<op, ip>> \in toFetch)
    BY <2>2 DEF Progress
  <2>6. verdict'[c[2]] # Unset /\ \A ip \in Ips \ {c[2]} : verdict'[ip] = verdict[ip]
    BY <2>1, <2>3, <2>4 DEF TypeOK
  <2>7. \A ip \in Ips : (verdict'[ip] = Unset) = (<<op, ip>> \in toFetch')
    BY <2>1, <2>3, <2>5, <2>6
  <2>. QED  BY <2>2, <2>7 DEF Progress
<1>7. CASE Returns
  BY <1>7 DEF Returns, Progress
<1>. QED  BY <1>1, <1>2, <1>3, <1>4, <1>5, <1>6, <1>7 DEF Next, CallStep

LEMMA InvHolds == Spec => []Inv
<1>1. ASSUME Inv, UNCHANGED vars PROVE Inv'
  <2>. USE <1>1
  <2>1. Checks' = Checks  BY DEF vars, callVars, Checks
  <2>2. TypeOK'  BY <2>1 DEF Inv, TypeOK, vars, callVars
  <2>3. Progress'  BY <2>1 DEF Inv, Progress, vars, callVars
  <2>. QED  BY <2>2, <2>3 DEF Inv
<1>2. ASSUME Inv, Next PROVE Inv'
  BY <1>2, TypeStep, ProgressStep DEF Inv
<1>. QED  BY InvInit, <1>1, <1>2, PTL DEF Spec

\* Every state of a call is of the shape TypeOK describes.
THEOREM CallsAreTyped == Spec => []TypeOK
<1>1. Inv => TypeOK  BY DEF Inv
<1>. QED  BY <1>1, InvHolds, PTL

-----------------------------------------------------------------------------
(* The refinement.                                                          *)

\* While Pingachock stands still, the evidence does.
LEMMA EvidenceStands ==
    ASSUME UNCHANGED <<op, status, run>>
    PROVE  Reached' = Reached /\ Refuted' = Refuted
BY DEF Reached, Refuted, Checks

\* What Pingachock does only adds to what was reached.
LEMMA ServiceGivesEvidence ==
    ASSUME Inv, CheckMoves \/ RunMoves
    PROVE  Promise!Evidence
<1>. TypeOK  BY DEF Inv
<1>1. UNCHANGED callVars /\ Call' = Call
  BY DEF CheckMoves, RunMoves, callVars, Call
<1>2. Checks' = Checks  BY <1>1 DEF Checks, callVars
<1>3. Reached' \subseteq Ips /\ Refuted' \subseteq Ips
  BY DEF Reached, Refuted
<1>4. \A c \in Checks : status[c] = "completed" => status'[c] = "completed"
  BY DEF CheckMoves, RunMoves, TypeOK, Terminal
<1>5. \A c \in Checks, n \in Nodes : run[c][n] = "ok" => run'[c][n] = "ok"
  <2>1. CASE CheckMoves
    BY <2>1 DEF CheckMoves
  <2>2. CASE RunMoves
    <3>1. PICK d \in Checks, m \in Nodes, r \in Runs :
             run[d][m] # "ok" /\ run' = [run EXCEPT ![d][m] = r]
      BY <2>2 DEF RunMoves, Runs
    <3>2. ASSUME NEW c \in Checks, NEW n \in Nodes, run[c][n] = "ok"
          PROVE  run'[c][n] = "ok"
      <4>1. run[c] \in [Nodes -> Runs] /\ run[d] \in [Nodes -> Runs]  BY DEF TypeOK
      <4>2. c # d => run'[c] = run[c]  BY <3>1 DEF TypeOK
      <4>3. c = d => n # m /\ run'[c] = [run[c] EXCEPT ![m] = r]  BY <3>1, <3>2 DEF TypeOK
      <4>. QED  BY <3>2, <4>1, <4>2, <4>3
    <3>. QED  BY <3>2
  <2>. QED  BY <2>1, <2>2
<1>6. Reached \subseteq Reached'
  BY <1>1, <1>2, <1>4, <1>5 DEF Reached, callVars
<1>. QED  BY <1>1, <1>3, <1>6 DEF Promise!Evidence, callVars

\* What the runs of a check say is justified by the evidence.
LEMMA RunsJustify ==
    ASSUME TypeOK, op # "reach", NEW c \in Checks
    PROVE  /\ ByRuns(c) \in {"alive", "dead", "unknown"}
           /\ ByRuns(c) = "alive" => c[2] \in Reached
           /\ ByRuns(c) = "dead" => c[2] \in Refuted
<1>1. c[2] \in Ips  BY OneCheckEach DEF TypeOK
<1>2. ByRuns(c) = "alive" => \E n \in Nodes \ Excluded : run[c][n] = "ok"
  BY DEF ByRuns, PingVerdict, TlsVerdict, Took, Done, Reaches
<1>3. ByRuns(c) = "dead" => /\ status[c] \in Terminal
                           /\ \E n \in Nodes \ Excluded : run[c][n] # "none"
                           /\ \A m \in Nodes \ Excluded : run[c][m] # "ok"
  BY DEF ByRuns, PingVerdict, TlsVerdict, Took, Done, Reaches
<1>4. ByRuns(c) \in {"alive", "dead", "unknown"}
  BY DEF ByRuns, PingVerdict, TlsVerdict, Took, Done, Reaches
<1>. QED  BY <1>1, <1>2, <1>3, <1>4 DEF Reached, Refuted

\* Whatever the call itself does, it judges.
LEMMA CallJudges == ASSUME Inv, Inv', CallStep PROVE Promise!Judge
<1>. TypeOK /\ Progress /\ TypeOK' /\ Progress'  BY DEF Inv
<1>1. at \in {"create", "poll", "fetch"} /\ UNCHANGED <<op, status, run>>
  BY DEF CallStep, Create, Poll, PollEnds, Fetch, Returns, Raises, Service
<1>2. Reached' = Reached /\ Refuted' = Refuted  BY <1>1, EvidenceStands
<1>3. Call = "open" /\ Call' \in {"open", "returned", "raised"}
  BY <1>1 DEF Call
<1>4. Call' = "returned" => \A ip \in Ips : verdict'[ip] # Unset
  BY DEF Call, Progress, TypeOK
<1>5. DOMAIN verdict' = Ips  BY DEF TypeOK
<1>6. lost \subseteq lost'
  BY DEF CallStep, Create, Poll, PollEnds, Fetch, Returns, Raises
<1>. SUFFICES ASSUME NEW ip \in Ips
     PROVE  \/ verdict'[ip] = verdict[ip]
            \/ /\ Promise!Justified(ip, verdict'[ip])
               /\ verdict[ip] \notin {"alive", "unknown"}
  BY <1>2, <1>3, <1>4, <1>5, <1>6 DEF Promise!Judge
<1>7. CASE Create
  BY <1>7 DEF Create, Raises, AllUnknown, Progress, Promise!Justified, IpCheckAssumption
<1>8. CASE Poll
  <2>1. CASE Raises
    BY <2>1 DEF Raises
  <2>2. CASE ~Raises /\ op = "reach"
    <3>1. PICK heard \in Learns : verdict'[ip] = ByStatus(ip, heard)
      BY <1>8, <2>2 DEF Poll
    <3>2. heard \subseteq Checks  BY DEF Learns, TypeOK
    <3>3. verdict[ip] # "unknown"
      BY <1>8, <2>2 DEF Poll, Progress
    <3>4. verdict'[ip] = "alive" => verdict[ip] = "alive" \/ ip \in Reached
      BY <2>2, <3>1, <3>2 DEF ByStatus, Reached
    <3>5. verdict'[ip] = "dead" => \/ verdict[ip] = "dead"
                                   \/ verdict[ip] = Unset /\ ip \in Refuted
      BY <2>2, <3>1, <3>2 DEF ByStatus, Refuted, Terminal
    <3>6. verdict'[ip] \in {"alive", "dead", verdict[ip]}
      BY <3>1 DEF ByStatus
    <3>7. verdict[ip] = "alive" => verdict'[ip] = "alive"
      BY <3>1 DEF ByStatus, IpCheckAssumption
    <3>. QED  BY <3>3, <3>4, <3>5, <3>6, <3>7 DEF Promise!Justified
  <2>3. CASE ~Raises /\ op # "reach"
    BY <1>8, <2>3 DEF Poll
  <2>. QED  BY <2>1, <2>2, <2>3
<1>9. CASE PollEnds
  BY <1>9 DEF PollEnds, Promise!Justified, TypeOK, IpCheckAssumption
<1>10. CASE Fetch
  <2>1. PICK c \in toFetch :
           \/ verdict' = [verdict EXCEPT ![c[2]] = ByRuns(c)]
           \/ verdict' = [verdict EXCEPT ![c[2]] = "dead"] /\ lost' = lost \cup {c[2]}
    BY <1>10 DEF Fetch
  <2>2. op # "reach" /\ c \in Checks /\ c = <<op, c[2]>>
    BY <1>10, OneCheckEach DEF Fetch, Progress, TypeOK
  <2>3. CASE ip # c[2]
    BY <2>1, <2>3 DEF TypeOK
  <2>4. CASE ip = c[2]
    <3>1. verdict[ip] = Unset
      BY <1>10, <2>2, <2>4 DEF Fetch, Progress
    <3>2. CASE verdict' = [verdict EXCEPT ![c[2]] = ByRuns(c)]
      BY <2>2, <2>4, <3>1, <3>2, RunsJustify DEF TypeOK, Promise!Justified, IpCheckAssumption
    <3>3. CASE verdict' = [verdict EXCEPT ![c[2]] = "dead"] /\ lost' = lost \cup {c[2]}
      BY <2>4, <3>1, <3>3 DEF TypeOK, Promise!Justified, IpCheckAssumption
    <3>. QED  BY <2>1, <3>2, <3>3
  <2>. QED  BY <2>3, <2>4
<1>11. CASE Returns
  BY <1>11 DEF Returns
<1>. QED  BY <1>7, <1>8, <1>9, <1>10, <1>11 DEF CallStep

\* Every call of the checks judges as their docstrings promise.
THEOREM ChecksKeepTheirPromise == Spec => JudgesAsPromised
<1>1. Init => Promise!Init
  <2>. SUFFICES ASSUME Init PROVE Promise!Init  OBVIOUS
  <2>1. \A c \in Checks : status[c] = "pending" /\ \A n \in Nodes : run[c][n] = "none"
    BY DEF Init
  <2>2. Reached = {} /\ Refuted = {}
    BY <2>1 DEF Reached, Refuted, Terminal
  <2>. QED  BY <2>2 DEF Init, Promise!Init, Call
<1>2. ASSUME Inv, Inv', [Next]_vars
      PROVE  [Promise!Next]_Promise!judgementVars
  <2>1. CASE CheckMoves \/ RunMoves
    BY <1>2, <2>1, ServiceGivesEvidence DEF Promise!Next
  <2>2. CASE CallStep
    BY <1>2, <2>2, CallJudges DEF Promise!Next
  <2>3. CASE UNCHANGED vars
    <3>1. Reached' = Reached /\ Refuted' = Refuted
      BY <2>3, EvidenceStands DEF vars, callVars
    <3>2. Call' = Call /\ UNCHANGED <<lost, verdict>>
      BY <2>3 DEF Call, vars, callVars
    <3>. QED  BY <3>1, <3>2 DEF Promise!judgementVars
  <2>. QED  BY <1>2, <2>1, <2>2, <2>3 DEF Next
<1>. QED  BY <1>1, <1>2, InvHolds, PTL DEF Spec, JudgesAsPromised, Promise!Spec
=============================================================================
