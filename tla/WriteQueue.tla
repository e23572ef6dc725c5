----------------------------- MODULE WriteQueue -----------------------------
(***************************************************************************)
(* What the Firestore client promises of plain writes (setData, updateData, *)
(* delete), and what StampPurchase, Correspondence and Community rely on:   *)
(* each account has one queue of pending writes; a write takes effect on    *)
(* the server only after every write queued before it has; the client       *)
(* decides the oldest write first, and acknowledges none that has not taken *)
(* effect; nothing but that decision takes a write out of the queue, neither *)
(* a sign-out nor the end of the process. A write may take effect more than *)
(* once: it is sent again when its answer is lost.                          *)
(***************************************************************************)
EXTENDS Naturals, Sequences

CONSTANTS
    Users,      \* accounts
    Writes      \* identities of writes

VARIABLES
    pending,        \* pending[u]: u's writes that are not decided, oldest first
    applied,        \* the writes that have taken effect on the server
    acknowledged    \* the writes the client has reported as done

vars == <<pending, applied, acknowledged>>

Init ==
    /\ pending = [u \in Users |-> <<>>]
    /\ applied = {}
    /\ acknowledged = {}

\* A write is queued.
Enqueue(u, w) ==
    /\ \A v \in Users : \A k \in DOMAIN pending[v] : pending[v][k] # w
    /\ w \notin applied \cup acknowledged
    /\ pending' = [pending EXCEPT ![u] = Append(@, w)]
    /\ UNCHANGED <<applied, acknowledged>>

\* The server applies a pending write, again or for the first time: every
\* write queued before it has been applied.
Apply(u, k) ==
    /\ k \in DOMAIN pending[u]
    /\ \A j \in 1..(k - 1) : pending[u][j] \in applied
    /\ applied' = applied \cup {pending[u][k]}
    /\ UNCHANGED <<pending, acknowledged>>

\* The oldest write is reported as done, after it has taken effect.
Acknowledge(u) ==
    /\ pending[u] # <<>>
    /\ Head(pending[u]) \in applied
    /\ acknowledged' = acknowledged \cup {Head(pending[u])}
    /\ pending' = [pending EXCEPT ![u] = Tail(@)]
    /\ UNCHANGED applied

\* The oldest write is reported as refused.
Refuse(u) ==
    /\ pending[u] # <<>>
    /\ pending' = [pending EXCEPT ![u] = Tail(@)]
    /\ UNCHANGED <<applied, acknowledged>>

Next ==
    \E u \in Users :
        \/ \E w \in Writes : Enqueue(u, w)
        \/ \E k \in DOMAIN pending[u] : Apply(u, k)
        \/ Acknowledge(u)
        \/ Refuse(u)

Spec == Init /\ [][Next]_vars
=============================================================================
