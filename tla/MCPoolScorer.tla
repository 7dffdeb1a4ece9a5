---------------------------- MODULE MCPoolScorer ----------------------------
(* Instances of PoolScorer for TLC.                                         *)
EXTENDS PoolScorer, TLC

\* One measurement on each side of every threshold of the score, and none.
SomeLosses == {None, 0, 1, 50, 51, 100}
SomeRtts == {None, 79, 80, 149, 150, 299, 300}

\* Addresses are only compared.
IpSymmetry == Permutations(Ips)
=============================================================================
