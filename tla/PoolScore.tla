------------------------------ MODULE PoolScore -----------------------------
(***************************************************************************)
(* How an address of a managed pool is scored: compute_score of the        *)
(* ip_pool_scorer, in tenths of a point so that the penalty of 0.6 points  *)
(* per percent of loss is a whole number.  Losses are percentages, round   *)
(* trip times milliseconds; None stands for a measurement that is missing. *)
(***************************************************************************)
EXTENDS Integers

CONSTANT None

ASSUME NoneAssumption == None \notin Int \cup BOOLEAN

Percent == 0..100

\* A handshake that failed and one that never answered are the same here.
Gate(tls) == tls = TRUE

LossOf(loss) == IF loss = None THEN 0 ELSE loss

RttBonus(rtt) ==
    IF rtt = None THEN 0
    ELSE IF rtt < 80 THEN 150 ELSE IF rtt < 150 THEN 100 ELSE IF rtt < 300 THEN 50 ELSE 0

Capped(score) == IF score > 1000 THEN 1000 ELSE score

ComputeScore(tls, loss, rtt) ==
    IF ~Gate(tls) THEN 0
    ELSE IF LossOf(loss) > 50 THEN 300
    ELSE Capped(700 - 6 * LossOf(loss) + RttBonus(rtt))

\* What a scan and a health check do with a measured address: nothing if the
\* handshake did not answer, else the score is compared with the threshold.
Verdict(tls, loss, rtt, threshold) ==
    IF tls = None THEN "unknown"
    ELSE IF ComputeScore(tls, loss, rtt) >= threshold THEN "pass" ELSE "fail"
=============================================================================
