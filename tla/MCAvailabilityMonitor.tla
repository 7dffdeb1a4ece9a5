----------------------- MODULE MCAvailabilityMonitor -----------------------
(* Instances of AvailabilityMonitor for TLC.                               *)
EXTENDS AvailabilityMonitor, TLC

CONSTANTS g1, h1, h2, h3, i1, i2, i3, i4

\* Hosts and addresses are only compared, and every address is a candidate; those
\* that only one plan knows are left out.  With one group, so are the checks of it.
CheckSymmetry ==
    Permutations({h1, h2}) \cup Permutations({i1, i2, i3}) \cup Permutations(Slots)

\* One group draws on the set `ips` of candidates.
Plan(hosts, ips, same, managed, events) ==
    [hosts |-> hosts, ips |-> ips, pool |-> ips, same |-> same, managed |-> managed,
     events |-> events]

SamePlan  == Plan({h1, h2}, {i1, i2, i3}, {g1}, {}, {"skip", "toggle", "failure", "edit"})
EachPlan  == Plan({h1, h2, h3}, {i1, i2, i3, i4}, {}, {g1}, {"failure"})
SkipPlan  == Plan({h1, h2}, {i1, i2, i3}, {g1}, {}, {"skip"})
LoopPlan  == Plan({h1}, {i1, i2}, {}, {g1}, {"toggle", "failure", "lost"})

ChangePlans == {SamePlan, EachPlan}
SkipPlans   == {SkipPlan}
LoopPlans   == {LoopPlan}
=============================================================================
