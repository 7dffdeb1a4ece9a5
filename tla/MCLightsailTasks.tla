-------------------------- MODULE MCLightsailTasks --------------------------
(* Instances of LightsailTasks for TLC.                                    *)
EXTENDS LightsailTasks, TLC

\* Task identities are only compared: any renaming of them is a symmetry.
TaskSymmetry == Permutations(Tasks)

\* So are invocations of the same handler.
StopperSymmetry == Permutations(Stoppers)
=============================================================================
