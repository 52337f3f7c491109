---------------------------- MODULE LabelLedger ----------------------------
(***************************************************************************)
(* What the shielded pool promises, with notes, nullifiers, roots and      *)
(* proofs forgotten. Every value entering the pool opens an account named  *)
(* by a label never used before; value leaves an account only downwards    *)
(* and only out of the pool, never into another account; and the vault     *)
(* holds exactly what the accounts add up to because every step moves both *)
(* by the same amount.                                                     *)
(***************************************************************************)
EXTENDS Integers

CONSTANTS Asset, Label

VARIABLES
  opened,   \* the labels used so far
  held,     \* held[l][a]: value of asset a in the pool under label l
  vault     \* vault[a]: tokens of asset a the pool owns

Init ==
  /\ opened = {}
  /\ held = [l \in Label |-> [a \in Asset |-> 0]]
  /\ vault = [a \in Asset |-> 0]

(* The label a step opens, never used before.                              *)
Opens(fresh) == fresh \notin opened /\ opened' = opened \cup {fresh}

(* What the vault gains of an asset in a step; nothing of the others.      *)
Gained(a) == vault'[a] - vault[a]
OnlyMoves(assets) == vault' = [a \in Asset |-> vault[a] + IF a \in assets THEN Gained(a) ELSE 0]

Open ==
  \E a \in Asset, l \in Label :
    /\ OnlyMoves({a}) /\ Gained(a) >= 0
    /\ Opens(l)
    /\ held' = [held EXCEPT ![l][a] = @ + Gained(a)]

Withdraw ==
  /\ UNCHANGED opened
  /\ \E a \in Asset, l \in Label :
       /\ OnlyMoves({a}) /\ -Gained(a) \in 0 .. held[l][a]
       /\ held' = [held EXCEPT ![l][a] = @ + Gained(a)]

(* Value leaves one account, and what the market returned for it opens     *)
(* another, in one step.                                                   *)
Exchange ==
  \E a, b \in Asset, fresh \in Label :
    /\ a # b /\ OnlyMoves({a, b}) /\ Gained(b) >= 0
    /\ Opens(fresh)
    /\ \E l \in opened :
         /\ -Gained(a) \in 0 .. held[l][a]
         /\ held' = [held EXCEPT ![l][a] = @ + Gained(a), ![fresh][b] = @ + Gained(b)]

Next == Open \/ Withdraw \/ Exchange

Spec == Init /\ [][Next]_<<opened, held, vault>>
=============================================================================
