------------------------------ MODULE MCSession ------------------------------
(***************************************************************************)
(* Instances of Session for TLC.                                            *)
(***************************************************************************)
EXTENDS Session, TLC

\* Two accounts, which behave alike.
CONSTANTS a, b

Symmetry == Permutations({a, b})
=============================================================================
