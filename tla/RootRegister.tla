---------------------------- MODULE RootRegister ----------------------------
(***************************************************************************)
(* What a ring buffer of Merkle roots promises: a shift register that      *)
(* remembers the Size most recent roots, newest first, and forgets the     *)
(* oldest one whenever a new one is pushed. Both rings of the pool (the    *)
(* commitment roots and the association roots) are shown to implement it.  *)
(***************************************************************************)
EXTENDS Integers

CONSTANTS Size,    \* how many roots are remembered
          Unset    \* what an unused position holds

VARIABLE register  \* register[a]: the root pushed a pushes ago

Age == 0 .. Size - 1

Init ==
  /\ DOMAIN register = Age
  /\ \A a \in Age \ {0} : register[a] = Unset

(* Some root enters at age 0 and every other one grows older by one push.  *)
Push ==
  /\ DOMAIN register' = Age
  /\ \A a \in Age \ {0} : register'[a] = register[a - 1]

Spec == Init /\ [][Push]_register
=============================================================================
