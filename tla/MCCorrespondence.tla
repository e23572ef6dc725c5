-------------------------- MODULE MCCorrespondence --------------------------
(***************************************************************************)
(* Small instances of Correspondence.                                      *)
(***************************************************************************)
EXTENDS Correspondence

CONSTANTS a, b, c

(***************************************************************************)
(* The users are alike, so it is a who sends the post.  There are two taps *)
(* whose answers arrive, or one whose answer is lost once, and at most     *)
(* three writes wait in a queue.  WriteApplied, the one action that is     *)
(* fair, leads to no state outside these bounds.                           *)
(***************************************************************************)
TwoCommits == /\ letter # << >> => letter[1].from = a
              /\ taps + faults <= 2
              /\ \A u \in Users : Len(queue[u]) <= 3
=============================================================================
