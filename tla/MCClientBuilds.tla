--------------------------- MODULE MCClientBuilds ---------------------------
(* Instances of ClientBuilds: two sends over three notes under one label,   *)
(* of which a spend takes two; a send beside a swap or a helper, and a      *)
(* withdrawal beside a refresh, over two notes under two labels; a swap     *)
(* beside a shield; two shields.                                            *)
EXTENDS ClientBuilds, TLC

CONSTANTS f, g

MCThreeNotes == [id : 1 .. 3, label : {1}, amount : {1}]
MCTwoLabels ==
  { [id |-> 1, label |-> 1, amount |-> 1], [id |-> 2, label |-> 2, amount |-> 1] }
MCOverlaps == { {"send", "swap"}, {"send", "unshieldToken"}, {"withdraw", "refresh"} }
MCScenario ==
  { [deposits |-> MCThreeNotes, overlaps |-> {{"send"}}, amounts |-> {2}, ether |-> 0],
    [deposits |-> MCTwoLabels, overlaps |-> {{"swap", "shield"}}, amounts |-> {1}, ether |-> 1],
    [deposits |-> {}, overlaps |-> {Shields}, amounts |-> {1}, ether |-> 2] }
  \cup [deposits : {MCTwoLabels}, overlaps : { {o} : o \in MCOverlaps }, amounts : {{2}}, ether : {0}]
Sym == Permutations(Flow)
=============================================================================
