---------------------------- MODULE MCCommunity ----------------------------
(***************************************************************************)
(* Small instances of Community.                                           *)
(***************************************************************************)
EXTENDS Community, TLC

CONSTANTS a, b, c, g, h, s

Symmetry == Permutations(Users) \cup Permutations(Groups)

(***************************************************************************)
(* Two parts of one instance that do not fit together.  In the first there *)
(* is one entry and one tap, on any of the groups and tabs; in the second  *)
(* there are more, and lost answers, but users only support and stay on    *)
(* the list of all entries of one group.                                   *)
(***************************************************************************)
OneEntry == Cardinality(Published) <= 1 /\ taps <= 1 /\ faults = 0

InGroup(x) ==
    /\ \A i \in Published : entry[i].group = x
    /\ \A u \in Users : /\ selectedGroup[u] \in {None, x}
                        /\ \A k \in Slots : cells[u][k] # None => cells[u][k].group = x

OnlySupports ==
    /\ taps + faults <= 2
    /\ \E x \in Groups : InGroup(x)
    /\ \A u \in Users : /\ tab[u] = "all" /\ searched[u] = None /\ popup[u] = None
                        /\ selectedGroup[u] # None => visible[u]

OneEntryOrSupports == OneEntry \/ OnlySupports
=============================================================================
