-------------------------- MODULE MCLightsailSearch -------------------------
(* Instances of LightsailSearch for TLC.                                   *)
EXTENDS LightsailSearch, TLC

\* Names are only compared.
NameSymmetry == Permutations(Names)

\* The buttons with room to spare; interruptions with as many addresses granted as
\* are wanted.
SafetyPlans == {[quota |-> 3, events |-> {"pause", "stop", "target"}],
                [quota |-> 2, events |-> {"crash", "late", "manual"}]}

LivePlans == {[quota |-> 2, events |-> {"pause", "crash"}]}
=============================================================================
