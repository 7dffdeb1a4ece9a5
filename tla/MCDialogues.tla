---------------------------- MODULE MCDialogues -----------------------------
(* The wizards, alone and in the pairs that share keys of the FSM data.     *)
EXTENDS Dialogues, TLC

CONSTANTS h1, h2, h3, t, u, i1, i2

Disorder == Permutations(Slots) \cup Permutations(Domains)

Plan(seq, overlapsMax, mishapsMax, retagsMax) ==
    [wizards |-> seq, overlaps |-> overlapsMax, mishaps |-> mishapsMax, retags |-> retagsMax]

SomePlans == {Plan(<<"hysteria", "hysteria">>, 2, 1, 0),
              Plan(<<"remnanode", "hysteria">>, 2, 1, 0),
              Plan(<<"hosts">>, 1, 0, 0),
              Plan(<<"hosts">>, 0, 1, 1),
              Plan(<<"hosts", "hosts">>, 0, 1, 0),
              Plan(<<"hosts", "remnanode">>, 0, 0, 0)}

SomeServers == {<<1, 1>>, <<1, 2>>, <<2, 1>>}

ThreeHosts == <<h1, h2, h3>>
TwoTags    == h1 :> t @@ h2 :> t @@ h3 :> u
TwoSets    == {<<i1, i2>>, <<i1>>}
=============================================================================
