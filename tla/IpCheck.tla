------------------------------ MODULE IpCheck -------------------------------
(***************************************************************************)
(* One distributed check through Pingachock (services/ip_check_service.py):*)
(* it is created, its checks are polled until they end or time is up, and  *)
(* every address is judged.  A "ping" and a "tls" call judge what the runs *)
(* of the nodes say, fetched once the polling is over; a "reach" call      *)
(* (distributed_check) creates a ping and a tcp check for every address    *)
(* and judges by their status while it polls.                              *)
(*                                                                         *)
(* Pingachock itself is external: its checks and runs move on as they      *)
(* like, and a check may end while runs of it are still under way.         *)
(***************************************************************************)
EXTENDS Naturals, FiniteSets

CONSTANTS
    Ips,        \* the addresses of the batch
    Nodes,      \* nodes of Pingachock, the one on its own server among them
    Excluded,   \* EXCLUDED_NODES: that one
    Unset,      \* no verdict yet
    MaxPolls,   \* polls before the deadline
    StuckPolls  \* polls after which a check that is still "pending" is given up

ASSUME IpCheckAssumption ==
    /\ Excluded \subseteq Nodes /\ Unset \notin {"alive", "dead", "unknown"}
    /\ MaxPolls \in Nat /\ StuckPolls \in Nat

VARIABLES
    op,       \* "ping", "tls" or "reach"
    shape,    \* how each create_check answered, see Create
    at,       \* where the call is
    pending,  \* checks it still polls
    polls,    \* polls so far
    verdict,  \* the verdict on each address
    toFetch,  \* checks whose result has not been fetched
    lost,     \* addresses whose result could not be fetched
    status,   \* Pingachock: the status of each check
    run       \* Pingachock: what each node has to say in each check

callVars == <<op, shape, at, pending, polls, verdict, toFetch, lost>>
vars == <<callVars, status, run>>

Ops   == {"ping", "tls", "reach"}
Kinds == {"ping", "tls", "tcp"}

\* The checks a call creates: <<kind, address>>.
Creates(o) == IF o = "reach" THEN {"ping", "tcp"} ELSE {o}
Checks == Creates(op) \X Ips

\* "partial" counts as "completed" and "cancelled" as "failed" throughout.
Statuses == {"pending", "running", "completed", "failed"}
Terminal == {"completed", "failed"}

Runs == {"none", "active", "ok", "bad"}

TypeOK ==
    /\ op \in Ops /\ at \in {"create", "poll", "fetch", "returned", "raised"}
    /\ DOMAIN shape = Creates(op) /\ \A k \in Creates(op) : shape[k] \in {"", "batch", "each", "odd"}
    /\ pending \subseteq Checks /\ toFetch \subseteq Checks /\ lost \subseteq Ips
    /\ polls \in 0..MaxPolls
    /\ verdict \in [Ips -> {Unset, "alive", "dead", "unknown"}]
    /\ status \in [Checks -> Statuses]
    /\ run \in [Checks -> [Nodes -> Runs]]

Init ==
    /\ op \in Ops /\ at = "create"
    /\ shape = [k \in Creates(op) |-> ""]
    /\ pending = {} /\ polls = 0 /\ toFetch = {} /\ lost = {}
    /\ verdict = [ip \in Ips |-> Unset]
    /\ status = [c \in Checks |-> "pending"]
    /\ run = [c \in Checks |-> [n \in Nodes |-> "none"]]

-----------------------------------------------------------------------------
(* Pingachock.                                                              *)

CheckMoves ==
    /\ at # "create" /\ UNCHANGED <<callVars, run>>
    /\ \E c \in Checks : \E s \in Statuses \ {"pending", status[c]} :
          status[c] \notin Terminal /\ status' = [status EXCEPT ![c] = s]

\* A "reach" call never looks at runs.
RunMoves ==
    /\ at # "create" /\ op # "reach" /\ UNCHANGED <<callVars, status>>
    /\ \E c \in Checks, n \in Nodes :
          \/ run[c][n] = "none" /\ run' = [run EXCEPT ![c][n] = "active"]
          \/ /\ run[c][n] = "active"
             /\ \E r \in {"ok", "bad"} : run' = [run EXCEPT ![c][n] = r]

-----------------------------------------------------------------------------
(* The call.                                                                *)

Service == <<status, run>>

Raises == at' = "raised" /\ UNCHANGED <<op, shape, pending, polls, verdict, toFetch, lost>>

AllUnknown == verdict' = [ip \in Ips |-> "unknown"]

\* create_check: a batch with its id, checks without a batch id, or neither.
Create ==
    /\ at = "create" /\ UNCHANGED Service
    /\ \/ Raises
       \/ /\ \* tls_check_batch catches PingachockAPIError
             op = "tls" /\ at' = "returned" /\ AllUnknown
          /\ UNCHANGED <<op, shape, pending, polls, toFetch, lost>>
       \/ \E s \in [Creates(op) -> {"batch", "each", "odd"}] :
             LET known == {c \in Checks : s[c[1]] # "odd"}
             IN  /\ shape' = s /\ pending' = known
                 /\ IF known = {}
                    THEN at' = "returned" /\ AllUnknown
                    ELSE at' = "poll" /\ verdict' = verdict
                 /\ toFetch' = IF op = "reach" THEN {} ELSE known
                 /\ UNCHANGED <<op, polls, lost>>

\* What a poll learns: the checks of a batch together, others one by one; a
\* "reach" call only ever asks for batches.
Learns ==
    {heard \in SUBSET pending :
        \A c \in pending :
            CASE shape[c[1]] = "batch" -> (c \in heard) = (\E d \in heard : d[1] = c[1])
              [] shape[c[1]] = "each"  -> op # "reach" \/ c \notin heard}

\* poll_batch gives a check up that is polled by itself and never dispatched.
Stuck(c) == shape[c[1]] = "each" /\ status[c] = "pending" /\ polls' > StuckPolls

\* What distributed_check makes of the statuses it reads.
ByStatus(ip, heard) ==
    LET ended(s) == \E c \in heard : c[2] = ip /\ status[c] = s
    IN  IF ended("completed") THEN "alive"
        ELSE IF ended("failed") /\ verdict[ip] = Unset THEN "dead"
        ELSE verdict[ip]

\* One round of poll_batch, or of the loop of distributed_check.
Poll ==
    /\ at = "poll" /\ pending # {} /\ polls < MaxPolls /\ UNCHANGED Service
    /\ \/ Raises   \* an error other than PingachockAPIError
       \/ /\ polls' = polls + 1
          /\ \E heard \in Learns :
                /\ pending' = {c \in pending : c \notin heard
                                  \/ ~(status[c] \in Terminal \/ (op # "reach" /\ Stuck(c)))}
                /\ verdict' = IF op = "reach" THEN [ip \in Ips |-> ByStatus(ip, heard)]
                              ELSE verdict
          /\ UNCHANGED <<op, shape, at, toFetch, lost>>

\* Fault: the deadline is not looked at.
PollEndsWaiting ==
    /\ at = "poll" /\ pending = {} /\ UNCHANGED Service
    /\ IF op = "reach"
       THEN /\ at' = "returned"
            /\ verdict' = [ip \in Ips |-> IF verdict[ip] = Unset THEN "unknown" ELSE verdict[ip]]
       ELSE at' = "fetch" /\ verdict' = verdict
    /\ UNCHANGED <<op, shape, pending, polls, toFetch, lost>>

\* Nothing is left to wait for, or the deadline has passed.
PollEnds ==
    /\ at = "poll" /\ (pending = {} \/ polls = MaxPolls) /\ UNCHANGED Service
    /\ IF op = "reach"
       THEN /\ at' = "returned"
            /\ verdict' = [ip \in Ips |-> IF verdict[ip] = Unset THEN "unknown" ELSE verdict[ip]]
       ELSE at' = "fetch" /\ verdict' = verdict
    /\ UNCHANGED <<op, shape, pending, polls, toFetch, lost>>

\* Fault: the status of the check is passed on as it is.
ByRunsRaw(c) == status[c]

\* Fault: the node on Pingachock's own server counts as well.
ByAllRuns(c) ==
    IF status[c] \notin Terminal \/ \A n \in Nodes : run[c][n] = "none" THEN "unknown"
    ELSE IF \E n \in Nodes : run[c][n] = "ok" THEN "alive" ELSE "dead"

\* The nodes that take part; those of EXCLUDED_NODES do not count.
Took(c) == {n \in Nodes \ Excluded : run[c][n] # "none"}
Done(c) == {n \in Took(c) : run[c][n] # "active"}

\* Packets came back, or a round trip was timed.
Reaches(c, n) == run[c][n] = "ok"

\* A node that is still trying when the check has ended will not reach it.
PingVerdict(c) ==
    IF status[c] \notin Terminal \/ Took(c) = {} THEN "unknown"
    ELSE IF \E n \in Done(c) : Reaches(c, n) THEN "alive" ELSE "dead"

TlsVerdict(c) ==
    IF status[c] \notin Terminal \/ Done(c) = {} THEN "unknown"
    ELSE IF \E n \in Done(c) : Reaches(c, n) THEN "alive" ELSE "dead"

\* What the runs of a check say.
ByRuns(c) == IF op = "tls" THEN TlsVerdict(c) ELSE PingVerdict(c)

\* get_check(expand="runs"), for all checks at once; a fetch that fails is read as
\* a failed check.
Fetch ==
    /\ at = "fetch" /\ UNCHANGED Service
    /\ \E c \in toFetch :
          /\ toFetch' = toFetch \ {c}
          /\ \/ verdict' = [verdict EXCEPT ![c[2]] = ByRuns(c)] /\ UNCHANGED lost
             \/ verdict' = [verdict EXCEPT ![c[2]] = "dead"] /\ lost' = lost \cup {c[2]}
    /\ UNCHANGED <<op, shape, at, pending, polls>>

Returns ==
    /\ at = "fetch" /\ toFetch = {} /\ at' = "returned" /\ UNCHANGED Service
    /\ UNCHANGED <<op, shape, pending, polls, verdict, toFetch, lost>>

CallStep == Create \/ Poll \/ PollEnds \/ Fetch \/ Returns

Next == CheckMoves \/ RunMoves \/ CallStep

Spec == Init /\ [][Next]_vars

\* Calls time out and sleeps end; Pingachock may stay silent for ever.
FairSpec == Spec /\ WF_vars(CallStep)

-----------------------------------------------------------------------------
(* Properties.                                                              *)

\* Addresses a node has reached: an included one, or, for "reach", any, as far as
\* the status of the check tells.
Reached ==
    {ip \in Ips : \E c \in Checks :
        c[2] = ip /\ IF op = "reach" THEN status[c] = "completed"
                     ELSE \E n \in Nodes \ Excluded : run[c][n] = "ok"}

\* Addresses that speak against themselves: a check of theirs has ended, and no
\* included node that took part has reached them.
Refuted ==
    {ip \in Ips : \E c \in Checks :
        /\ c[2] = ip /\ status[c] \in Terminal
        /\ IF op = "reach" THEN status[c] = "failed"
           ELSE /\ \E n \in Nodes \ Excluded : run[c][n] # "none"
                /\ \A n \in Nodes \ Excluded : run[c][n] # "ok"}

Call == IF at \in {"returned", "raised"} THEN at ELSE "open"

Promise == INSTANCE Judgement WITH reached <- Reached, refuted <- Refuted, call <- Call

\* Every call judges as its docstrings promise: alive only if a node outside
\* EXCLUDED_NODES reached the address, dead only on evidence or a lost answer,
\* unknown otherwise, and every address before it returns, whatever shape the
\* responses have and however Pingachock interleaves.
JudgesAsPromised == Promise!Spec

\* A call always ends, even if Pingachock never dispatches a check.
CallEnds == <>(at \in {"returned", "raised"})
=============================================================================
