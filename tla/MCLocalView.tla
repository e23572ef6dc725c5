----------------------------- MODULE MCLocalView -----------------------------
(***************************************************************************)
(* Instances of LocalView for TLC.                                          *)
(***************************************************************************)
EXTENDS LocalView

\* Two accounts, and an element of the array field.
CONSTANTS a, b, m

\* One write of each kind; the field is written with the value 2.
AppMutations ==
    [type : {"set", "update", "merge", "delete"}, val : {2}, members : {{}}]
      \cup [type : {"union"}, val : {2}, members : {{m}}]

\* Others write the other value, with the element, or delete the document.
OthersContents == {Absent, [val |-> 1, members |-> {m}]}
=============================================================================
