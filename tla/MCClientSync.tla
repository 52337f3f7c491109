---------------------------- MODULE MCClientSync ----------------------------
(* Instances of ClientSync: a shield and the spend of its note by this      *)
(* account, and a swap with its claim note, in two or three blocks that     *)
(* hold none, one or two of them each.                                      *)
EXTENDS ClientSync

CONSTANTS shield, swap, spend, c1, c2

MCScenario ==
  { [calls |-> {c1, c2}, reorgs |-> 0, restarts |-> 0, lag |-> 0, blocks |-> 3],
    [calls |-> {c1, c2}, reorgs |-> 0, restarts |-> 0, lag |-> 1, blocks |-> 2],
    [calls |-> {c1, c2}, reorgs |-> 1, restarts |-> 0, lag |-> 0, blocks |-> 2],
    [calls |-> {c1}, reorgs |-> 0, restarts |-> 1, lag |-> 1, blocks |-> 2],
    [calls |-> {c1}, reorgs |-> 1, restarts |-> 1, lag |-> 0, blocks |-> 2],
    [calls |-> {c1}, reorgs |-> 2, restarts |-> 0, lag |-> 1, blocks |-> 2] }
MCTx == {shield, swap, spend}
MCSpenderOf == [t \in MCTx |-> IF t = shield THEN {spend} ELSE {}]
=============================================================================
