----------------------------- MODULE Judgement ------------------------------
(***************************************************************************)
(* What a distributed check promises the monitor, the scorer, the searcher *)
(* and the wizard that call it: every address asked about is judged once,  *)
(* alive only on the word of a node that reached it, dead only on evidence *)
(* against it or because the answer was lost, and never for lack of one    *)
(* ("unknown, never failed").                                              *)
(***************************************************************************)
CONSTANTS Ips, Unset

VARIABLES
    reached,  \* addresses that a node has reached
    refuted,  \* addresses against which there is evidence now
    lost,     \* addresses whose answer could not be fetched
    verdict,  \* the verdict on each address so far
    call      \* "open" until it has "returned" or "raised"

judgementVars == <<reached, refuted, lost, verdict, call>>

Init ==
    /\ reached = {} /\ refuted = {} /\ lost = {}
    /\ verdict = [ip \in Ips |-> Unset] /\ call = "open"

\* Nodes report; what was reached stays reached.
Evidence ==
    /\ reached \subseteq reached' /\ reached' \subseteq Ips
    /\ refuted' \subseteq Ips /\ UNCHANGED <<lost, verdict, call>>

Justified(ip, v) ==
    \/ v = "alive" /\ ip \in reached
    \/ v = "dead" /\ verdict[ip] = Unset /\ ip \in refuted \cup lost'
    \/ v = "unknown" /\ verdict[ip] = Unset

\* A verdict of "dead" may be overturned while the call lasts, no other; a call
\* that returns has judged every address.
Judge ==
    /\ call = "open"
    /\ \A ip \in Ips : verdict'[ip] = verdict[ip] \/ Justified(ip, verdict'[ip])
    /\ DOMAIN verdict' = Ips
    /\ \A ip \in Ips : verdict[ip] \in {"alive", "unknown"} => verdict'[ip] = verdict[ip]
    /\ call' \in {"open", "returned", "raised"}
    /\ call' = "returned" => \A ip \in Ips : verdict'[ip] # Unset
    /\ lost \subseteq lost' /\ UNCHANGED <<reached, refuted>>

Next == Evidence \/ Judge

Spec == Init /\ [][Next]_judgementVars
=============================================================================
