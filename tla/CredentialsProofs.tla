-------------------------- MODULE CredentialsProofs --------------------------
(***************************************************************************)
(* Proofs about Credentials, for any accounts and any number of sign-ins,   *)
(* sign-outs, refreshed tokens and faults: an open stream has a token of the *)
(* user it is for, no change of the user is lost, and no stream waits for a *)
(* token nobody will bring.                                                 *)
(***************************************************************************)
EXTENDS Credentials, SetInduction, SequenceTheorems, TLAPS

-----------------------------------------------------------------------------
(* Sequences without one of their elements.                                 *)

Remove(q, k) == SubSeq(q, 1, k - 1) \o SubSeq(q, k + 1, Len(q))

LEMMA RemoveRows ==
    ASSUME NEW S, NEW q \in Seq(S), NEW k \in DOMAIN q
    PROVE  /\ Remove(q, k) \in Seq(S) /\ Len(Remove(q, k)) = Len(q) - 1
           /\ DOMAIN q = 1 .. Len(q) /\ Len(q) \in Nat /\ k \in 1 .. Len(q)
           /\ DOMAIN Remove(q, k) = 1 .. (Len(q) - 1)
           /\ \A i \in 1 .. (Len(q) - 1) :
                Remove(q, k)[i] = IF i < k THEN q[i] ELSE q[i + 1]
<1> DEFINE L == Len(q)
           a == SubSeq(q, 1, k - 1)
           b == SubSeq(q, k + 1, L)
<1>1. /\ L \in Nat /\ DOMAIN q = 1 .. L /\ k \in 1 .. L
      /\ \A i \in 1 .. L : q[i] \in S
    BY LenProperties, ElementOfSeq
<1>2. /\ a \in Seq(S) /\ Len(a) = k - 1
      /\ \A i \in 1 .. (k - 1) : a[i] = q[i]
    <2>1. \A i \in 1 .. (k - 1) : q[i] \in S
        BY <1>1
    <2>2. /\ SubSeq(q, 1, k - 1) \in Seq(S)
          /\ Len(SubSeq(q, 1, k - 1)) = IF 1 <= k - 1 THEN (k - 1) - 1 + 1 ELSE 0
          /\ \A i \in 1 .. ((k - 1) - 1 + 1) : SubSeq(q, 1, k - 1)[i] = q[1 + i - 1]
        BY <1>1, <2>1, SubSeqProperties
    <2>3. (k - 1) - 1 + 1 = k - 1 /\ \A i \in Nat : 1 + i - 1 = i
        BY <1>1
    <2>4. Len(a) = k - 1
        BY <1>1, <2>2
    <2>5. ASSUME NEW i \in 1 .. (k - 1)
          PROVE  a[i] = q[i]
        BY <2>2, <2>3
    <2> QED BY <2>2, <2>4, <2>5
<1>3. /\ b \in Seq(S) /\ Len(b) = L - k
      /\ \A i \in 1 .. (L - k) : b[i] = q[k + i]
    <2>1. \A i \in (k + 1) .. L : q[i] \in S
        BY <1>1
    <2>2. /\ SubSeq(q, k + 1, L) \in Seq(S)
          /\ Len(SubSeq(q, k + 1, L)) = IF k + 1 <= L THEN L - (k + 1) + 1 ELSE 0
          /\ \A i \in 1 .. (L - (k + 1) + 1) : SubSeq(q, k + 1, L)[i] = q[(k + 1) + i - 1]
        BY <1>1, <2>1, SubSeqProperties
    <2>3. L - (k + 1) + 1 = L - k /\ \A i \in Nat : (k + 1) + i - 1 = k + i
        BY <1>1
    <2>4. Len(b) = L - k
        BY <1>1, <2>2
    <2>5. ASSUME NEW i \in 1 .. (L - k)
          PROVE  b[i] = q[k + i]
        <3>1. i \in 1 .. (L - (k + 1) + 1) /\ (k + 1) + i - 1 = k + i
            BY <1>1, <2>3
        <3>2. b[i] = q[(k + 1) + i - 1]
            BY <2>2, <3>1
        <3> QED BY <3>1, <3>2
    <2> QED BY <2>2, <2>4, <2>5
<1> HIDE DEF a, b
<1>4. /\ a \o b \in Seq(S) /\ Len(a \o b) = L - 1
      /\ \A i \in 1 .. (L - 1) : (a \o b)[i] = IF i <= k - 1 THEN a[i] ELSE b[i - (k - 1)]
    <2>1. /\ a \o b \in Seq(S) /\ Len(a \o b) = Len(a) + Len(b)
          /\ \A i \in 1 .. Len(a) + Len(b) :
                (a \o b)[i] = IF i <= Len(a) THEN a[i] ELSE b[i - Len(a)]
        BY <1>2, <1>3, ConcatProperties
    <2>2. Len(a) + Len(b) = L - 1
        BY <1>1, <1>2, <1>3
    <2> QED BY <1>2, <2>1, <2>2
<1>5. ASSUME NEW i \in 1 .. (L - 1)
      PROVE  (a \o b)[i] = IF i < k THEN q[i] ELSE q[i + 1]
    <2>1. CASE i < k
        <3>1. i <= k - 1 /\ i \in 1 .. (k - 1)
            BY <1>1, <2>1
        <3> QED BY <1>2, <1>4, <2>1, <3>1
    <2>2. CASE ~(i < k)
        <3> DEFINE j == i - (k - 1)
        <3>1. ~(i <= k - 1) /\ j \in 1 .. (L - k) /\ k + j = i + 1
            BY <1>1, <2>2
        <3>2. (a \o b)[i] = b[j]
            <4>1. (a \o b)[i] = IF i <= k - 1 THEN a[i] ELSE b[j]
                BY <1>4, Zenon
            <4> QED BY <3>1, <4>1, Zenon
        <3> HIDE DEF j
        <3>3. b[j] = q[k + j]
            BY <1>3, <3>1, Zenon
        <3> QED BY <2>2, <3>1, <3>2, <3>3
    <2> QED BY <2>1, <2>2
<1>6. Remove(q, k) = a \o b
    BY Zenon DEF Remove, a, b
<1>7. DOMAIN (a \o b) = 1 .. (L - 1)
    BY <1>1, <1>4, LenProperties
<1> QED BY <1>1, <1>4, <1>5, <1>6, <1>7

\* Elements of q that are in C: none, at most one.
Absent(q, C) == \A k \in DOMAIN q : q[k] \notin C
Single(q, C) == \A i, j \in DOMAIN q : q[i] \in C /\ q[j] \in C => i = j

LEMMA RemovePresence ==
    ASSUME NEW S, NEW q \in Seq(S), NEW k \in DOMAIN q, NEW C, Single(q, C)
    PROVE  /\ Single(Remove(q, k), C)
           /\ q[k] \in C => Absent(Remove(q, k), C)
           /\ q[k] \notin C => (Absent(Remove(q, k), C) <=> Absent(q, C))
<1> DEFINE r == Remove(q, k)
           L == Len(q)
           at(i) == IF i < k THEN i ELSE i + 1
<1>1. /\ DOMAIN q = 1 .. L /\ L \in Nat /\ k \in 1 .. L
      /\ DOMAIN r = 1 .. (L - 1)
      /\ \A i \in 1 .. (L - 1) : r[i] = IF i < k THEN q[i] ELSE q[i + 1]
    BY RemoveRows
<1> HIDE DEF r, L
<1>2. ASSUME NEW i \in DOMAIN r
      PROVE  at(i) \in DOMAIN q /\ at(i) # k /\ r[i] = q[at(i)]
    BY <1>1
<1>3. ASSUME NEW i \in DOMAIN r, NEW j \in DOMAIN r, at(i) = at(j)
      PROVE  i = j
    BY <1>1, <1>3
<1>4. ASSUME NEW j \in DOMAIN q, j # k
      PROVE  \E i \in DOMAIN r : r[i] = q[j]
    <2>1. CASE j < k
        <3>1. j \in DOMAIN r /\ r[j] = q[j]
            BY <1>1, <2>1
        <3> QED BY <3>1
    <2>2. CASE j > k
        <3>1. j - 1 \in DOMAIN r /\ ~(j - 1 < k) /\ (j - 1) + 1 = j
            BY <1>1, <2>2
        <3> QED BY <1>1, <3>1
    <2> QED BY <1>1, <1>4, <2>1, <2>2
<1> HIDE DEF at
<1>5. Single(r, C)
    BY <1>2, <1>3 DEF Single
<1>6. q[k] \in C => Absent(r, C)
    BY <1>2 DEF Single, Absent
<1>7. q[k] \notin C => (Absent(r, C) <=> Absent(q, C))
    BY <1>2, <1>4 DEF Absent
<1> QED BY <1>5, <1>6, <1>7 DEF r

LEMMA TailPresence ==
    ASSUME NEW S, NEW q \in Seq(S), q # << >>, NEW C, Single(q, C)
    PROVE  /\ Single(Tail(q), C)
           /\ Head(q) \in C => Absent(Tail(q), C)
           /\ Head(q) \notin C => (Absent(Tail(q), C) <=> Absent(q, C))
<1>1. /\ Len(q) \in Nat \ {0} /\ DOMAIN q = 1 .. Len(q) /\ Head(q) = q[1]
      /\ DOMAIN Tail(q) = 1 .. (Len(q) - 1)
      /\ \A i \in 1 .. (Len(q) - 1) : Tail(q)[i] = q[i + 1]
    OBVIOUS
<1>2. ASSUME NEW i \in DOMAIN Tail(q)
      PROVE  i + 1 \in DOMAIN q /\ i + 1 # 1 /\ i \in Nat /\ Tail(q)[i] = q[i + 1]
    BY <1>1
<1>3. ASSUME NEW j \in DOMAIN q, j # 1
      PROVE  \E i \in DOMAIN Tail(q) : Tail(q)[i] = q[j]
    <2>1. j - 1 \in DOMAIN Tail(q) /\ (j - 1) + 1 = j
        BY <1>1, <1>3
    <2> QED BY <1>1, <2>1
<1>4. 1 \in DOMAIN q
    BY <1>1
<1>5. Single(Tail(q), C)
    <2> SUFFICES ASSUME NEW i \in DOMAIN Tail(q), NEW j \in DOMAIN Tail(q),
                        Tail(q)[i] \in C, Tail(q)[j] \in C
                 PROVE  i = j
        BY DEF Single
    <2>1. i + 1 = j + 1
        BY <1>2 DEF Single
    <2> QED BY <1>2, <2>1
<1>6. Head(q) \in C => Absent(Tail(q), C)
    BY <1>1, <1>2, <1>4 DEF Single, Absent
<1>7. Head(q) \notin C => (Absent(Tail(q), C) <=> Absent(q, C))
    BY <1>1, <1>2, <1>3, <1>4 DEF Absent
<1> QED BY <1>5, <1>6, <1>7

LEMMA AppendPresence ==
    ASSUME NEW S, NEW q \in Seq(S), NEW x \in S, NEW C, Single(q, C)
    PROVE  /\ x \notin C => /\ Single(Append(q, x), C)
                            /\ Absent(Append(q, x), C) <=> Absent(q, C)
           /\ x \in C /\ Absent(q, C) => Single(Append(q, x), C)
           /\ x \in C => ~Absent(Append(q, x), C)
<1>1. /\ Len(q) \in Nat /\ DOMAIN q = 1 .. Len(q)
      /\ DOMAIN Append(q, x) = 1 .. (Len(q) + 1)
      /\ \A i \in 1 .. Len(q) : Append(q, x)[i] = q[i]
      /\ Append(q, x)[Len(q) + 1] = x
    OBVIOUS
<1>2. /\ \A i \in DOMAIN q : i \in DOMAIN Append(q, x) /\ Append(q, x)[i] = q[i]
      /\ Len(q) + 1 \in DOMAIN Append(q, x)
      /\ \A i \in DOMAIN Append(q, x) : i \in DOMAIN q \/ i = Len(q) + 1
    BY <1>1
<1> HIDE DEF Single
<1>3. x \notin C => Single(Append(q, x), C)
    BY <1>1, <1>2 DEF Single
<1>4. x \notin C => (Absent(Append(q, x), C) <=> Absent(q, C))
    BY <1>1, <1>2 DEF Absent
<1>5. x \in C /\ Absent(q, C) => Single(Append(q, x), C)
    BY <1>1, <1>2 DEF Single, Absent
<1>6. x \in C => ~Absent(Append(q, x), C)
    BY <1>1, <1>2 DEF Absent
<1> QED BY <1>3, <1>4, <1>5, <1>6
-----------------------------------------------------------------------------
(* The last change on a queue.                                              *)

\* Of the first k - 1 elements of q, the last one of the kind names u; without
\* one u is the initial one.
LastBefore(q, kind, initial, k, u) ==
    /\ (\A j \in DOMAIN q : j < k => q[j].kind # kind) => u = initial
    /\ \A j \in DOMAIN q :
        (/\ j < k /\ q[j].kind = kind
         /\ \A i \in DOMAIN q : j < i /\ i < k => q[i].kind # kind) => q[j].user = u

Follows(q, kind, initial, u) == LastBefore(q, kind, initial, Len(q) + 1, u)

\* Rows of a queue that an element is added to, or taken from.
LEMMA AppendRows ==
    ASSUME NEW S, NEW q \in Seq(S), NEW x \in S
    PROVE  /\ Append(q, x) \in Seq(S) /\ Len(q) \in Nat
           /\ DOMAIN q = 1 .. Len(q) /\ Len(Append(q, x)) = Len(q) + 1
           /\ DOMAIN Append(q, x) = 1 .. (Len(q) + 1)
           /\ \A i \in 1 .. Len(q) : Append(q, x)[i] = q[i]
           /\ Append(q, x)[Len(q) + 1] = x
OBVIOUS

LEMMA TailRows ==
    ASSUME NEW S, NEW q \in Seq(S), q # << >>
    PROVE  /\ Tail(q) \in Seq(S) /\ Len(q) \in Nat \ {0} /\ DOMAIN q = 1 .. Len(q)
           /\ Len(Tail(q)) = Len(q) - 1 /\ DOMAIN Tail(q) = 1 .. (Len(q) - 1)
           /\ \A i \in 1 .. (Len(q) - 1) : Tail(q)[i] = q[i + 1]
           /\ Head(q) = q[1]
OBVIOUS

LEMMA LastBeforeAppended ==
    ASSUME NEW S, NEW q \in Seq(S), NEW x \in S, NEW kind, NEW initial, NEW u,
           NEW k \in 1 .. (Len(q) + 1), LastBefore(q, kind, initial, k, u)
    PROVE  LastBefore(Append(q, x), kind, initial, k, u)
<1> DEFINE r == Append(q, x)
<1>1. /\ Len(q) \in Nat /\ DOMAIN q = 1 .. Len(q) /\ DOMAIN r = 1 .. (Len(q) + 1)
      /\ \A i \in 1 .. Len(q) : r[i] = q[i]
    BY AppendRows
<1> HIDE DEF r
<1>2. \A j \in DOMAIN r : j < k => j \in DOMAIN q /\ r[j] = q[j]
    BY <1>1
<1>3. \A j \in DOMAIN q : j \in DOMAIN r /\ r[j] = q[j]
    BY <1>1
<1>4. LastBefore(r, kind, initial, k, u)
    BY <1>2, <1>3 DEF LastBefore
<1> QED BY <1>4 DEF r

\* The new element is the last one, or it is of another kind.
LEMMA FollowsAppended ==
    ASSUME NEW S, NEW q \in Seq(S), NEW x \in S, NEW kind, NEW initial, NEW u
    PROVE  /\ x.kind = kind => Follows(Append(q, x), kind, initial, x.user)
           /\ x.kind # kind /\ Follows(q, kind, initial, u) =>
                Follows(Append(q, x), kind, initial, u)
<1> DEFINE r == Append(q, x)
           L == Len(q)
<1>1. /\ L \in Nat /\ DOMAIN q = 1 .. L /\ Len(r) = L + 1 /\ DOMAIN r = 1 .. (L + 1)
      /\ \A i \in 1 .. L : r[i] = q[i]
      /\ r[L + 1] = x
    BY AppendRows
<1> HIDE DEF r, L
<1>2. \A j \in DOMAIN r : j < (L + 1) + 1 /\ (j \in DOMAIN q \/ j = L + 1)
    BY <1>1
<1>3. \A j \in DOMAIN q : j \in DOMAIN r /\ r[j] = q[j] /\ j < L + 1
    BY <1>1
<1>4. L + 1 \in DOMAIN r
    BY <1>1
<1>5. ASSUME x.kind = kind
      PROVE  LastBefore(r, kind, initial, (L + 1) + 1, x.user)
    <2>1. ~(\A j \in DOMAIN r : j < (L + 1) + 1 => r[j].kind # kind)
        BY <1>1, <1>2, <1>4, <1>5
    <2>2. ASSUME NEW j \in DOMAIN r,
                 \A i \in DOMAIN r : j < i /\ i < (L + 1) + 1 => r[i].kind # kind
          PROVE  j = L + 1
        <3>1. ~(j < L + 1)
            BY <1>1, <1>2, <1>4, <1>5, <2>2
        <3> QED BY <1>2, <1>3, <3>1
    <2> QED BY <1>1, <2>1, <2>2 DEF LastBefore
<1>6. ASSUME x.kind # kind, LastBefore(q, kind, initial, L + 1, u)
      PROVE  LastBefore(r, kind, initial, (L + 1) + 1, u)
    <2>1. ASSUME \A j \in DOMAIN r : j < (L + 1) + 1 => r[j].kind # kind
          PROVE  u = initial
        <3>1. \A j \in DOMAIN q : j < L + 1 => q[j].kind # kind
            BY <1>2, <1>3, <2>1
        <3> QED BY <1>6, <3>1 DEF LastBefore
    <2>2. ASSUME NEW j \in DOMAIN r, r[j].kind = kind,
                 \A i \in DOMAIN r : j < i /\ i < (L + 1) + 1 => r[i].kind # kind
          PROVE  r[j].user = u
        <3>1. j \in DOMAIN q /\ r[j] = q[j] /\ j < L + 1
            BY <1>1, <1>2, <1>3, <1>6, <2>2
        <3>2. \A i \in DOMAIN q : j < i /\ i < L + 1 => q[i].kind # kind
            BY <1>2, <1>3, <2>2
        <3> QED BY <1>6, <2>2, <3>1, <3>2 DEF LastBefore
    <2> QED BY <2>1, <2>2 DEF LastBefore
<1> QED BY <1>1, <1>5, <1>6 DEF Follows, r, L

\* The first element is taken off; a change among those becomes the initial user.
LEMMA LastBeforeTail ==
    ASSUME NEW S, NEW q \in Seq(S), q # << >>, NEW kind, NEW initial, NEW u, NEW new,
           NEW k \in 1 .. Len(q), LastBefore(q, kind, initial, k + 1, u),
           Head(q).kind = kind => new = Head(q).user,
           Head(q).kind # kind => new = initial
    PROVE  LastBefore(Tail(q), kind, new, k, u)
<1> DEFINE r == Tail(q)
           L == Len(q)
<1>1. /\ L \in Nat \ {0} /\ DOMAIN q = 1 .. L /\ DOMAIN r = 1 .. (L - 1)
      /\ \A i \in 1 .. (L - 1) : r[i] = q[i + 1]
      /\ Head(q) = q[1]
    BY TailRows
<1> HIDE DEF r, L
<1>2. ASSUME NEW i \in DOMAIN r
      PROVE  i \in Nat /\ i + 1 \in DOMAIN q /\ r[i] = q[i + 1] /\ (i < k <=> i + 1 < k + 1)
    BY <1>1
<1>3. ASSUME NEW j \in DOMAIN q, j # 1
      PROVE  j - 1 \in DOMAIN r /\ (j - 1) + 1 = j /\ r[j - 1] = q[j]
    BY <1>1, <1>3
<1>4. 1 \in DOMAIN q /\ 1 < k + 1
    BY <1>1
<1>5. ASSUME \A j \in DOMAIN r : j < k => r[j].kind # kind
      PROVE  u = new
    <2>1. \A j \in DOMAIN q : j # 1 /\ j < k + 1 => q[j].kind # kind
        BY <1>1, <1>3, <1>5
    <2>2. CASE Head(q).kind = kind
        <3>1. \A i \in DOMAIN q : 1 < i /\ i < k + 1 => q[i].kind # kind
            BY <2>1
        <3>2. q[1].user = u
            BY <1>1, <1>4, <2>2, <3>1 DEF LastBefore
        <3> QED BY <1>1, <2>2, <3>2
    <2>3. CASE Head(q).kind # kind
        <3>1. \A j \in DOMAIN q : j < k + 1 => q[j].kind # kind
            BY <1>1, <2>1, <2>3
        <3> QED BY <2>3, <3>1 DEF LastBefore
    <2> QED BY <2>2, <2>3
<1>6. ASSUME NEW j \in DOMAIN r, j < k, r[j].kind = kind,
             \A i \in DOMAIN r : j < i /\ i < k => r[i].kind # kind
      PROVE  r[j].user = u
    <2>1. /\ j + 1 \in DOMAIN q /\ j + 1 < k + 1 /\ q[j + 1] = r[j] /\ j \in Nat
        BY <1>2, <1>6
    <2>2. ASSUME NEW i \in DOMAIN q, j + 1 < i, i < k + 1
          PROVE  q[i].kind # kind
        <3>1. i # 1 /\ j < i - 1 /\ i - 1 < k
            BY <1>1, <2>1, <2>2
        <3> QED BY <1>3, <1>6, <3>1
    <2> QED BY <1>6, <2>1, <2>2 DEF LastBefore
<1>7. LastBefore(r, kind, new, k, u)
    BY <1>5, <1>6 DEF LastBefore
<1> QED BY <1>7 DEF r

\* The relation is that of LastUser.
LEMMA LastUserFollows ==
    ASSUME NEW S, NEW q \in Seq(S), NEW kind, NEW initial, NEW u,
           Follows(q, kind, initial, u)
    PROVE  LastUser(q, kind, initial) = u
<1> DEFINE of == {k \in DOMAIN q : q[k].kind = kind}
           last == CHOOSE k \in of : \A j \in of : j <= k
<1>1. Len(q) \in Nat /\ DOMAIN q = 1 .. Len(q) /\ of \subseteq 1 .. Len(q)
    BY LenProperties
<1>2. LastUser(q, kind, initial) = IF of = {} THEN initial ELSE q[last].user
    BY DEF LastUser
<1>3. CASE of = {}
    BY <1>2, <1>3 DEF Follows, LastBefore
<1>4. CASE of # {}
    <2>1. last \in of /\ \A j \in of : j <= last
        <3>1. of \subseteq Nat /\ \A i \in of : i <= Len(q)
            BY <1>1
        <3> HIDE DEF of
        <3>2. \E i \in of : \A j \in of : j <= i
            BY <1>1, <1>4, <3>1, GreatestElement
        <3> QED BY <3>2
    <2> HIDE DEF last
    <2>2. last \in DOMAIN q /\ last < Len(q) + 1 /\ q[last].kind = kind
        BY <1>1, <2>1
    <2>3. ASSUME NEW i \in DOMAIN q, last < i, i < Len(q) + 1
          PROVE  q[i].kind # kind
        BY <1>1, <2>1, <2>2, <2>3
    <2>4. q[last].user = u
        BY <2>2, <2>3 DEF Follows, LastBefore
    <2> QED BY <1>2, <1>4, <2>4
<1> QED BY <1>3, <1>4
-----------------------------------------------------------------------------
(* The inductive invariant.                                                 *)

MainItem == Notification \cup Answer \cup Block
WorkerItem == Change \cup Resume

\* On the main queue: with the changes that are still posted, the provider
\* follows Auth. An answer, or a fetch, with the present token counter is for the
\* user the provider knows, unless a change comes first, which makes the counter
\* another one.
NoChange(mq, k) == \A j \in DOMAIN mq : j < k => mq[j].kind # "notification"

FetchIsCurrent(f, c) ==
    f.request.counter = c.token_counter => f.from.user = c.current_user

AnswerIsCurrent(x, c) ==
    x.kind = "answer" /\ x.ok /\ x.request.counter = c.token_counter =>
        x.owner = c.current_user

MainInv(a, fs, mq, c) ==
    /\ Follows(mq, "notification", c.current_user, a.user)
    /\ \A k \in DOMAIN mq : NoChange(mq, k) => AnswerIsCurrent(mq[k], c)
    /\ NoChange(mq, Len(mq) + 1) => \A k \in DOMAIN fs : FetchIsCurrent(fs[k], c)

\* On the worker queue: a token is of the user SyncEngine will have when it
\* arrives.
ResumesKnown(wq, cu) ==
    \A k \in DOMAIN wq : wq[k].kind = "resume" /\ wq[k].ok =>
        wq[k].tag = wq[k].owner /\ LastBefore(wq, "change", cu, k, wq[k].owner)

WorkerInv(c, wq, cu) ==
    Follows(wq, "change", cu, c.current_user) /\ ResumesKnown(wq, cu)

\* Where the requests in R are: nowhere, or in one place.
FetchesOf(R) == {f \in Fetch : f.request \in R}
AnswersOf(R) == {x \in Answer : x.request \in R}
ResumesOf(R) == {x \in Resume : x.request \in R}

Nowhere(rs, fs, mq, wq, R) ==
    /\ Absent(rs, R) /\ Absent(fs, FetchesOf(R))
    /\ Absent(mq, AnswersOf(R)) /\ Absent(wq, ResumesOf(R))

OnePlace(rs, fs, mq, wq, R) ==
    /\ Single(rs, R) /\ Single(fs, FetchesOf(R))
    /\ Single(mq, AnswersOf(R)) /\ Single(wq, ResumesOf(R))
    /\ Absent(rs, R) \/ (/\ Absent(fs, FetchesOf(R)) /\ Absent(mq, AnswersOf(R))
                         /\ Absent(wq, ResumesOf(R)))
    /\ Absent(fs, FetchesOf(R)) \/ (Absent(mq, AnswersOf(R)) /\ Absent(wq, ResumesOf(R)))
    /\ Absent(mq, AnswersOf(R)) \/ Absent(wq, ResumesOf(R))

\* The requests of the present start, and those not made yet.
Waited(s) == {r \in Request : r.close = s.close_count}

Future(c, s) == {r \in Request : r.counter > c.token_counter \/ r.close > s.close_count}

\* A stream is starting when its request is somewhere, and only then.
Placed(s, c, rs, fs, mq, wq) ==
    /\ OnePlace(rs, fs, mq, wq, Waited(s))
    /\ s.state = "Starting" <=> ~Nowhere(rs, fs, mq, wq, Waited(s))
    /\ Nowhere(rs, fs, mq, wq, Future(c, s))

StartInv == Placed(stream, contents, requests, fetches, main_queue, worker_queue)

CredInv ==
    /\ CredTypeOK
    /\ MainInv(auth, fetches, main_queue, contents)
    /\ WorkerInv(contents, worker_queue, current_user)
    /\ stream.state = "Open" => stream.token = current_user
    /\ auth.object = 0 => auth.user = nobody
    /\ StartInv
-----------------------------------------------------------------------------
(* The main queue.                                                          *)

LEMMA Items ==
    /\ \A x \in MainItem : x.kind \in {"notification", "answer", "block"}
    /\ \A x \in MainItem : x.kind = "notification" => x \in Notification /\ x.user \in Users
    /\ \A x \in MainItem : x.kind = "answer" =>
            /\ x \in Answer /\ x.request \in Request /\ x.ok \in BOOLEAN /\ x.owner \in Users
    /\ \A x \in WorkerItem : x.kind \in {"change", "resume"}
    /\ \A x \in WorkerItem : x.kind = "change" => x \in Change /\ x.user \in Users
    /\ \A x \in WorkerItem : x.kind = "resume" =>
            /\ x \in Resume /\ x.request \in Request /\ x.ok \in BOOLEAN
            /\ x.owner \in Users /\ x.tag \in Users
    /\ \A f \in Fetch : f.request \in Request /\ f.from \in AuthUser
    /\ \A r \in Request : r.counter \in Nat /\ r.close \in Nat
    /\ \A u \in AuthUser : u.user \in Users /\ u.object \in Nat
<1>1. \A x \in MainItem : x.kind \in {"notification", "answer", "block"}
    BY DEF MainItem, Notification, Answer, Block
<1>2. \A x \in MainItem : x.kind = "notification" => x \in Notification /\ x.user \in Users
    BY DEF MainItem, Notification, Answer, Block
<1>3. \A x \in MainItem : x.kind = "answer" =>
            /\ x \in Answer /\ x.request \in Request /\ x.ok \in BOOLEAN /\ x.owner \in Users
    BY DEF MainItem, Notification, Answer, Block
<1>4. \A x \in WorkerItem : x.kind \in {"change", "resume"}
    BY DEF WorkerItem, Change, Resume
<1>5. \A x \in WorkerItem : x.kind = "change" => x \in Change /\ x.user \in Users
    BY DEF WorkerItem, Change, Resume
<1>6. \A x \in WorkerItem : x.kind = "resume" =>
            /\ x \in Resume /\ x.request \in Request /\ x.ok \in BOOLEAN
            /\ x.owner \in Users /\ x.tag \in Users
    BY DEF WorkerItem, Change, Resume
<1>7. /\ \A f \in Fetch : f.request \in Request /\ f.from \in AuthUser
      /\ \A r \in Request : r.counter \in Nat /\ r.close \in Nat
      /\ \A u \in AuthUser : u.user \in Users /\ u.object \in Nat
    BY DEF Fetch, Request, AuthUser
<1> QED BY <1>1, <1>2, <1>3, <1>4, <1>5, <1>6, <1>7

\* Without a change on the way the provider knows whom Auth has signed in.
LEMMA NothingPosted ==
    ASSUME NEW mq \in Seq(MainItem), NEW a, NEW fs, NEW c, MainInv(a, fs, mq, c),
           NoChange(mq, Len(mq) + 1)
    PROVE  a.user = c.current_user
BY DEF MainInv, NoChange, Follows, LastBefore

LEMMA ChangePosted ==
    ASSUME NEW mq \in Seq(MainItem), NEW a, NEW fs, NEW c, MainInv(a, fs, mq, c),
           NEW new \in AuthUser
    PROVE  /\ MainInv(new, fs, Append(mq, Posted(new.user)), c)
           /\ Append(mq, Posted(new.user)) \in Seq(MainItem)
           /\ Posted(new.user) \in MainItem /\ Posted(new.user).kind = "notification"
           /\ ~NoChange(Append(mq, Posted(new.user)), Len(Append(mq, Posted(new.user))) + 1)
<1> DEFINE x == Posted(new.user)
           r == Append(mq, x)
           L == Len(mq)
<1>1. x \in MainItem /\ x.kind = "notification" /\ x.user = new.user
    BY Items DEF Posted, MainItem, Notification
<1> HIDE DEF x
<1>2. /\ r \in Seq(MainItem) /\ L \in Nat /\ DOMAIN mq = 1 .. L
      /\ Len(r) = L + 1 /\ DOMAIN r = 1 .. (L + 1)
      /\ \A i \in 1 .. L : r[i] = mq[i]
      /\ r[L + 1] = x
    BY <1>1, AppendRows
<1>3. Follows(r, "notification", c.current_user, new.user)
    BY <1>1, FollowsAppended
<1> HIDE DEF r, L
<1>4. ASSUME NEW k \in DOMAIN r, NoChange(r, k)
      PROVE  AnswerIsCurrent(r[k], c)
    <2>1. CASE k = L + 1
        BY <1>1, <1>2, <2>1 DEF AnswerIsCurrent
    <2>2. CASE k \in 1 .. L
        <3>1. \A j \in DOMAIN mq : j \in DOMAIN r /\ r[j] = mq[j]
            BY <1>2
        <3>2. NoChange(mq, k)
            BY <1>4, <3>1 DEF NoChange
        <3> QED BY <1>2, <2>2, <3>2 DEF MainInv
    <2> QED BY <1>2, <2>1, <2>2
<1>5. ~NoChange(r, Len(r) + 1)
    <2>1. L + 1 \in DOMAIN r /\ L + 1 < Len(r) + 1
        BY <1>2
    <2> QED BY <1>1, <1>2, <2>1 DEF NoChange
<1>6. MainInv(new, fs, r, c)
    BY <1>3, <1>4, <1>5 DEF MainInv
<1> QED BY <1>1, <1>2, <1>5, <1>6 DEF r, x

LEMMA ItemAppended ==
    ASSUME NEW mq \in Seq(MainItem), NEW a, NEW fs, NEW c, MainInv(a, fs, mq, c),
           NEW x \in MainItem, x.kind # "notification",
           NoChange(mq, Len(mq) + 1) => AnswerIsCurrent(x, c)
    PROVE  MainInv(a, fs, Append(mq, x), c) /\ Append(mq, x) \in Seq(MainItem)
<1> DEFINE r == Append(mq, x)
           L == Len(mq)
<1>1. /\ r \in Seq(MainItem) /\ L \in Nat /\ DOMAIN mq = 1 .. L
      /\ Len(r) = L + 1 /\ DOMAIN r = 1 .. (L + 1)
      /\ \A i \in 1 .. L : r[i] = mq[i]
      /\ r[L + 1] = x
    BY AppendRows
<1>2. Follows(r, "notification", c.current_user, a.user)
    BY FollowsAppended DEF MainInv
<1> HIDE DEF r
<1>3. \A j \in DOMAIN mq : j \in DOMAIN r /\ r[j] = mq[j] /\ j < L + 1 /\ j < (L + 1) + 1
    BY <1>1
<1>4. ASSUME NEW k, NoChange(r, k)
      PROVE  NoChange(mq, k)
    BY <1>3, <1>4 DEF NoChange
<1>5. NoChange(r, (L + 1) + 1) => NoChange(mq, L + 1)
    BY <1>3 DEF NoChange
<1>6. ASSUME NEW k \in DOMAIN r, NoChange(r, k)
      PROVE  AnswerIsCurrent(r[k], c)
    <2>1. NoChange(mq, k)
        BY <1>4, <1>6
    <2>2. CASE k = L + 1
        BY <1>1, <2>1, <2>2
    <2>3. CASE k \in 1 .. L
        BY <1>1, <2>1, <2>3 DEF MainInv
    <2> QED BY <1>1, <2>2, <2>3
<1>7. MainInv(a, fs, r, c)
    BY <1>1, <1>2, <1>5, <1>6 DEF MainInv
<1> QED BY <1>1, <1>7 DEF r

\* A new fetch is for the user Auth has.
LEMMA FetchesChanged ==
    ASSUME NEW mq \in Seq(MainItem), NEW a, NEW fs, NEW c, MainInv(a, fs, mq, c),
           NEW new,
           \A k \in DOMAIN new :
                (\E j \in DOMAIN fs : new[k] = fs[j]) \/ new[k].from.user = a.user
    PROVE  MainInv(a, new, mq, c)
<1>1. ASSUME NoChange(mq, Len(mq) + 1), NEW k \in DOMAIN new
      PROVE  FetchIsCurrent(new[k], c)
    <2>1. a.user = c.current_user
        BY <1>1, NothingPosted
    <2> QED BY <1>1, <2>1 DEF MainInv, FetchIsCurrent
<1> QED BY <1>1 DEF MainInv

\* The provider takes a change: what was asked for before is out of date.
LEMMA ChangeTaken ==
    ASSUME NEW mq \in Seq(MainItem), NEW a, NEW fs \in Seq(Fetch), NEW c,
           MainInv(a, fs, mq, c), c.token_counter \in Nat,
           mq # << >>, Head(mq).kind = "notification",
           NEW new, new.current_user = Head(mq).user,
           new.token_counter = c.token_counter + 1,
           \A k \in DOMAIN fs : fs[k].request.counter <= c.token_counter,
           \A k \in DOMAIN mq : mq[k].kind = "answer" =>
                mq[k].request.counter <= c.token_counter
    PROVE  MainInv(a, fs, Tail(mq), new) /\ Tail(mq) \in Seq(MainItem)
<1>1. /\ Tail(mq) \in Seq(MainItem) /\ Len(mq) \in Nat \ {0} /\ DOMAIN mq = 1 .. Len(mq)
      /\ Len(Tail(mq)) = Len(mq) - 1 /\ DOMAIN Tail(mq) = 1 .. (Len(mq) - 1)
      /\ \A i \in 1 .. (Len(mq) - 1) : Tail(mq)[i] = mq[i + 1]
    BY TailRows
<1>2. Follows(Tail(mq), "notification", new.current_user, a.user)
    <2>1. Len(mq) \in 1 .. Len(mq) /\ Len(Tail(mq)) + 1 = Len(mq)
        BY <1>1
    <2>2. LastBefore(mq, "notification", c.current_user, Len(mq) + 1, a.user)
        BY DEF MainInv, Follows
    <2>3. LastBefore(Tail(mq), "notification", new.current_user, Len(mq), a.user)
        BY <2>1, <2>2, LastBeforeTail
    <2> QED BY <2>1, <2>3 DEF Follows
<1>3. ASSUME NEW k \in DOMAIN Tail(mq)
      PROVE  AnswerIsCurrent(Tail(mq)[k], new)
    <2>1. k + 1 \in DOMAIN mq /\ Tail(mq)[k] = mq[k + 1] /\ mq[k + 1] \in MainItem
        BY <1>1, ElementOfSeq
    <2>2. CASE mq[k + 1].kind = "answer"
        <3>1. /\ mq[k + 1].request.counter \in Nat
              /\ mq[k + 1].request.counter <= c.token_counter
            BY <2>1, <2>2, Items
        <3>2. mq[k + 1].request.counter # new.token_counter
            BY <3>1
        <3> QED BY <2>1, <3>2 DEF AnswerIsCurrent
    <2> QED BY <2>1, <2>2 DEF AnswerIsCurrent
<1>4. ASSUME NEW k \in DOMAIN fs
      PROVE  FetchIsCurrent(fs[k], new)
    <2>1. fs[k] \in Fetch
        BY ElementOfSeq, LenProperties
    <2>2. fs[k].request.counter \in Nat /\ fs[k].request.counter <= c.token_counter
        BY <2>1, Items
    <2>3. fs[k].request.counter # new.token_counter
        BY <2>2
    <2> QED BY <2>3 DEF FetchIsCurrent
<1> QED BY <1>1, <1>2, <1>3, <1>4 DEF MainInv

LEMMA ItemTaken ==
    ASSUME NEW mq \in Seq(MainItem), NEW a, NEW fs, NEW c, MainInv(a, fs, mq, c),
           mq # << >>, Head(mq).kind # "notification"
    PROVE  /\ MainInv(a, fs, Tail(mq), c) /\ Tail(mq) \in Seq(MainItem)
           /\ AnswerIsCurrent(Head(mq), c) /\ Head(mq) \in MainItem
<1>1. /\ Tail(mq) \in Seq(MainItem) /\ Len(mq) \in Nat \ {0} /\ DOMAIN mq = 1 .. Len(mq)
      /\ Len(Tail(mq)) = Len(mq) - 1 /\ DOMAIN Tail(mq) = 1 .. (Len(mq) - 1)
      /\ \A i \in 1 .. (Len(mq) - 1) : Tail(mq)[i] = mq[i + 1]
      /\ Head(mq) = mq[1]
    BY TailRows
<1>2. Follows(Tail(mq), "notification", c.current_user, a.user)
    <2>1. Len(mq) \in 1 .. Len(mq) /\ Len(Tail(mq)) + 1 = Len(mq)
        BY <1>1
    <2>2. LastBefore(mq, "notification", c.current_user, Len(mq) + 1, a.user)
        BY DEF MainInv, Follows
    <2>3. LastBefore(Tail(mq), "notification", c.current_user, Len(mq), a.user)
        BY <2>1, <2>2, LastBeforeTail
    <2> QED BY <2>1, <2>3 DEF Follows
<1>3. ASSUME NEW k \in Nat, NoChange(Tail(mq), k)
      PROVE  NoChange(mq, k + 1)
    <2> SUFFICES ASSUME NEW j \in DOMAIN mq, j < k + 1
                 PROVE  mq[j].kind # "notification"
        BY DEF NoChange
    <2>1. CASE j = 1
        BY <1>1, <2>1
    <2>2. CASE j # 1
        <3>1. j - 1 \in DOMAIN Tail(mq) /\ j - 1 < k /\ Tail(mq)[j - 1] = mq[j]
            BY <1>1, <2>2
        <3> QED BY <1>3, <3>1 DEF NoChange
    <2> QED BY <2>1, <2>2
<1>4. ASSUME NEW k \in DOMAIN Tail(mq), NoChange(Tail(mq), k)
      PROVE  AnswerIsCurrent(Tail(mq)[k], c)
    <2>1. k \in Nat /\ k + 1 \in DOMAIN mq /\ Tail(mq)[k] = mq[k + 1]
        BY <1>1
    <2> QED BY <1>3, <1>4, <2>1 DEF MainInv
<1>5. ASSUME NoChange(Tail(mq), Len(Tail(mq)) + 1), NEW k \in DOMAIN fs
      PROVE  FetchIsCurrent(fs[k], c)
    <2>1. Len(Tail(mq)) + 1 = Len(mq) /\ Len(mq) \in Nat
        BY <1>1
    <2>2. NoChange(mq, Len(mq) + 1)
        BY <1>3, <1>5, <2>1
    <2> QED BY <2>2 DEF MainInv
<1>6. AnswerIsCurrent(Head(mq), c) /\ Head(mq) \in MainItem
    <2>1. 1 \in DOMAIN mq /\ \A j \in DOMAIN mq : ~(j < 1)
        BY <1>1
    <2>2. NoChange(mq, 1)
        BY <2>1 DEF NoChange
    <2> QED BY <1>1, <2>1, <2>2, ElementOfSeq DEF MainInv
<1> QED BY <1>1, <1>2, <1>4, <1>5, <1>6 DEF MainInv
-----------------------------------------------------------------------------
(* The worker queue.                                                        *)

LEMMA ChangeQueued ==
    ASSUME NEW wq \in Seq(WorkerItem), NEW c, NEW cu, WorkerInv(c, wq, cu),
           NEW x \in WorkerItem, x.kind = "change", NEW new, new.current_user = x.user
    PROVE  WorkerInv(new, Append(wq, x), cu)
<1> DEFINE r == Append(wq, x)
<1>1. /\ Len(wq) \in Nat /\ DOMAIN wq = 1 .. Len(wq)
      /\ DOMAIN r = 1 .. (Len(wq) + 1)
      /\ \A i \in 1 .. Len(wq) : r[i] = wq[i]
      /\ r[Len(wq) + 1] = x
    BY AppendRows
<1>2. Follows(r, "change", cu, new.current_user)
    BY FollowsAppended
<1>3. ASSUME NEW k \in 1 .. Len(wq), wq[k].kind = "resume", wq[k].ok
      PROVE  wq[k].tag = wq[k].owner /\ LastBefore(r, "change", cu, k, wq[k].owner)
    <2>1. wq[k].tag = wq[k].owner /\ LastBefore(wq, "change", cu, k, wq[k].owner)
        BY <1>1, <1>3 DEF WorkerInv, ResumesKnown
    <2>2. k \in 1 .. (Len(wq) + 1)
        BY <1>1
    <2> QED BY <2>1, <2>2, LastBeforeAppended
<1> HIDE DEF r
<1>4. ResumesKnown(r, cu)
    <2> SUFFICES ASSUME NEW k \in DOMAIN r, r[k].kind = "resume", r[k].ok
                 PROVE  r[k].tag = r[k].owner /\ LastBefore(r, "change", cu, k, r[k].owner)
        BY DEF ResumesKnown
    <2>1. k \in 1 .. Len(wq)
        BY <1>1
    <2> QED BY <1>1, <1>3, <2>1
<1> QED BY <1>2, <1>4 DEF WorkerInv, r

LEMMA ResumeQueued ==
    ASSUME NEW wq \in Seq(WorkerItem), NEW c, NEW cu, WorkerInv(c, wq, cu),
           NEW x \in WorkerItem, x.kind = "resume",
           x.ok => x.tag = x.owner /\ x.owner = c.current_user
    PROVE  WorkerInv(c, Append(wq, x), cu)
<1> DEFINE r == Append(wq, x)
<1>1. /\ Len(wq) \in Nat /\ DOMAIN wq = 1 .. Len(wq)
      /\ DOMAIN r = 1 .. (Len(wq) + 1)
      /\ \A i \in 1 .. Len(wq) : r[i] = wq[i]
      /\ r[Len(wq) + 1] = x
    BY AppendRows
<1>2. Follows(r, "change", cu, c.current_user)
    BY FollowsAppended DEF WorkerInv
<1>3. ASSUME NEW k \in 1 .. Len(wq), wq[k].kind = "resume", wq[k].ok
      PROVE  wq[k].tag = wq[k].owner /\ LastBefore(r, "change", cu, k, wq[k].owner)
    <2>1. wq[k].tag = wq[k].owner /\ LastBefore(wq, "change", cu, k, wq[k].owner)
        BY <1>1, <1>3 DEF WorkerInv, ResumesKnown
    <2>2. k \in 1 .. (Len(wq) + 1)
        BY <1>1
    <2> QED BY <2>1, <2>2, LastBeforeAppended
<1>4. LastBefore(r, "change", cu, Len(wq) + 1, c.current_user)
    <2>1. LastBefore(wq, "change", cu, Len(wq) + 1, c.current_user)
        BY DEF WorkerInv, Follows
    <2>2. Len(wq) + 1 \in 1 .. (Len(wq) + 1)
        BY <1>1
    <2> QED BY <2>1, <2>2, LastBeforeAppended
<1> HIDE DEF r
<1>5. ResumesKnown(r, cu)
    <2> SUFFICES ASSUME NEW k \in DOMAIN r, r[k].kind = "resume", r[k].ok
                 PROVE  r[k].tag = r[k].owner /\ LastBefore(r, "change", cu, k, r[k].owner)
        BY DEF ResumesKnown
    <2>1. CASE k \in 1 .. Len(wq)
        BY <1>1, <1>3, <2>1
    <2>2. CASE k = Len(wq) + 1
        BY <1>1, <1>4, <2>2
    <2> QED BY <1>1, <2>1, <2>2
<1> QED BY <1>2, <1>5 DEF WorkerInv, r

\* The worker queue runs its first operation; the user is that of a change.
LEMMA WorkerItemRun ==
    ASSUME NEW wq \in Seq(WorkerItem), NEW c, NEW cu, WorkerInv(c, wq, cu),
           wq # << >>, NEW new,
           Head(wq).kind = "change" => new = Head(wq).user,
           Head(wq).kind # "change" => new = cu
    PROVE  /\ WorkerInv(c, Tail(wq), new) /\ Tail(wq) \in Seq(WorkerItem)
           /\ Head(wq) \in WorkerItem
           /\ Head(wq).kind = "resume" /\ Head(wq).ok => Head(wq).owner = cu
<1> DEFINE r == Tail(wq)
           L == Len(wq)
<1>1. /\ r \in Seq(WorkerItem) /\ L \in Nat \ {0} /\ DOMAIN wq = 1 .. L
      /\ Len(r) = L - 1 /\ DOMAIN r = 1 .. (L - 1)
      /\ \A i \in 1 .. (L - 1) : r[i] = wq[i + 1]
      /\ Head(wq) = wq[1]
    BY TailRows
<1>2. \A k \in 1 .. L : \A u : LastBefore(wq, "change", cu, k + 1, u) =>
                               LastBefore(r, "change", new, k, u)
    BY LastBeforeTail
<1> HIDE DEF r
<1>3. Follows(r, "change", new, c.current_user)
    <2>1. L \in 1 .. L /\ Len(r) + 1 = L
        BY <1>1
    <2> QED BY <1>2, <2>1 DEF WorkerInv, Follows
<1>4. ResumesKnown(r, new)
    <2> SUFFICES ASSUME NEW k \in DOMAIN r, r[k].kind = "resume", r[k].ok
                 PROVE  r[k].tag = r[k].owner /\ LastBefore(r, "change", new, k, r[k].owner)
        BY DEF ResumesKnown
    <2>1. k \in 1 .. L /\ k + 1 \in DOMAIN wq /\ r[k] = wq[k + 1]
        BY <1>1
    <2> QED BY <1>2, <2>1 DEF WorkerInv, ResumesKnown
<1>5. 1 \in DOMAIN wq /\ \A j \in DOMAIN wq : ~(j < 1)
    BY <1>1
<1>6. Head(wq).kind = "resume" /\ Head(wq).ok => Head(wq).owner = cu
    BY <1>1, <1>5 DEF WorkerInv, ResumesKnown, LastBefore
<1>7. Head(wq) \in WorkerItem
    BY <1>1, <1>5, ElementOfSeq
<1> QED BY <1>1, <1>3, <1>4, <1>6, <1>7 DEF WorkerInv, r

-----------------------------------------------------------------------------
(* Where requests are.                                                      *)

\* One place stays one place, and nowhere stays nowhere.
SamePlaces(rs, fs, mq, wq, rs2, fs2, mq2, wq2, R) ==
    OnePlace(rs, fs, mq, wq, R) =>
        /\ OnePlace(rs2, fs2, mq2, wq2, R)
        /\ Nowhere(rs2, fs2, mq2, wq2, R) <=> Nowhere(rs, fs, mq, wq, R)

LEMMA FetchServes ==
    ASSUME NEW rs \in Seq(Request), NEW fs \in Seq(Fetch), NEW mq, NEW wq, NEW R,
           rs # << >>, NEW f \in Fetch, f.request = Head(rs)
    PROVE  SamePlaces(rs, fs, mq, wq, Tail(rs), Append(fs, f), mq, wq, R)
<1> SUFFICES ASSUME OnePlace(rs, fs, mq, wq, R)
             PROVE  /\ OnePlace(Tail(rs), Append(fs, f), mq, wq, R)
                    /\ Nowhere(Tail(rs), Append(fs, f), mq, wq, R) <=> Nowhere(rs, fs, mq, wq, R)
    BY DEF SamePlaces
<1> DEFINE F == FetchesOf(R)
<1>1. f \in F <=> Head(rs) \in R
    BY DEF FetchesOf
<1>2. Single(rs, R) /\ Single(fs, F)
    BY DEF OnePlace
<1>3. /\ Single(Tail(rs), R)
      /\ Head(rs) \in R => Absent(Tail(rs), R)
      /\ Head(rs) \notin R => (Absent(Tail(rs), R) <=> Absent(rs, R))
    BY <1>2, TailPresence
<1>4. Head(rs) \in R => ~Absent(rs, R)
    <2>1. 1 \in DOMAIN rs /\ Head(rs) = rs[1]
        BY TailRows
    <2> QED BY <2>1 DEF Absent
<1> HIDE DEF F
<1>5. /\ f \notin F => /\ Single(Append(fs, f), F)
                       /\ Absent(Append(fs, f), F) <=> Absent(fs, F)
      /\ f \in F /\ Absent(fs, F) => Single(Append(fs, f), F)
      /\ f \in F => ~Absent(Append(fs, f), F)
    BY <1>2, AppendPresence
<1> QED BY <1>1, <1>3, <1>4, <1>5 DEF OnePlace, Nowhere, F

LEMMA NilAnswered ==
    ASSUME NEW rs \in Seq(Request), NEW fs, NEW mq \in Seq(MainItem), NEW wq, NEW R,
           rs # << >>, NEW x \in Answer, x.request = Head(rs)
    PROVE  SamePlaces(rs, fs, mq, wq, Tail(rs), fs, Append(mq, x), wq, R)
<1> SUFFICES ASSUME OnePlace(rs, fs, mq, wq, R)
             PROVE  /\ OnePlace(Tail(rs), fs, Append(mq, x), wq, R)
                    /\ Nowhere(Tail(rs), fs, Append(mq, x), wq, R) <=> Nowhere(rs, fs, mq, wq, R)
    BY DEF SamePlaces
<1> DEFINE M == AnswersOf(R)
<1>1. x \in MainItem /\ (x \in M <=> Head(rs) \in R)
    BY DEF AnswersOf, MainItem
<1>2. Single(rs, R) /\ Single(mq, M)
    BY DEF OnePlace
<1>3. /\ Single(Tail(rs), R)
      /\ Head(rs) \in R => Absent(Tail(rs), R)
      /\ Head(rs) \notin R => (Absent(Tail(rs), R) <=> Absent(rs, R))
    BY <1>2, TailPresence
<1>4. Head(rs) \in R => ~Absent(rs, R)
    <2>1. 1 \in DOMAIN rs /\ Head(rs) = rs[1]
        BY TailRows
    <2> QED BY <2>1 DEF Absent
<1> HIDE DEF M
<1>5. /\ x \notin M => /\ Single(Append(mq, x), M)
                       /\ Absent(Append(mq, x), M) <=> Absent(mq, M)
      /\ x \in M /\ Absent(mq, M) => Single(Append(mq, x), M)
      /\ x \in M => ~Absent(Append(mq, x), M)
    BY <1>1, <1>2, AppendPresence
<1> QED BY <1>1, <1>3, <1>4, <1>5 DEF OnePlace, Nowhere, M

LEMMA FetchAnswered ==
    ASSUME NEW rs, NEW fs \in Seq(Fetch), NEW mq \in Seq(MainItem), NEW wq, NEW R,
           NEW k \in DOMAIN fs, NEW x \in Answer, x.request = fs[k].request
    PROVE  SamePlaces(rs, fs, mq, wq, rs, Remove(fs, k), Append(mq, x), wq, R)
<1> SUFFICES ASSUME OnePlace(rs, fs, mq, wq, R)
             PROVE  /\ OnePlace(rs, Remove(fs, k), Append(mq, x), wq, R)
                    /\ Nowhere(rs, Remove(fs, k), Append(mq, x), wq, R)
                            <=> Nowhere(rs, fs, mq, wq, R)
    BY DEF SamePlaces
<1> DEFINE M == AnswersOf(R)
           F == FetchesOf(R)
<1>1. x \in MainItem /\ (x \in M <=> fs[k] \in F)
    <2>1. fs[k] \in Fetch
        BY LenProperties, ElementOfSeq
    <2> QED BY <2>1 DEF AnswersOf, FetchesOf, MainItem
<1>2. Single(fs, F) /\ Single(mq, M)
    BY DEF OnePlace
<1> HIDE DEF M, F
<1>3. /\ Single(Remove(fs, k), F)
      /\ fs[k] \in F => Absent(Remove(fs, k), F)
      /\ fs[k] \notin F => (Absent(Remove(fs, k), F) <=> Absent(fs, F))
    BY <1>2, RemovePresence
<1>4. fs[k] \in F => ~Absent(fs, F)
    BY DEF Absent
<1>5. /\ x \notin M => /\ Single(Append(mq, x), M)
                       /\ Absent(Append(mq, x), M) <=> Absent(mq, M)
      /\ x \in M /\ Absent(mq, M) => Single(Append(mq, x), M)
      /\ x \in M => ~Absent(Append(mq, x), M)
    BY <1>1, <1>2, AppendPresence
<1> QED BY <1>1, <1>3, <1>4, <1>5 DEF OnePlace, Nowhere, M, F

LEMMA AnswerResumes ==
    ASSUME NEW rs, NEW fs, NEW mq \in Seq(MainItem), NEW wq \in Seq(WorkerItem), NEW R,
           mq # << >>, Head(mq) \in Answer, NEW x \in Resume, x.request = Head(mq).request
    PROVE  SamePlaces(rs, fs, mq, wq, rs, fs, Tail(mq), Append(wq, x), R)
<1> SUFFICES ASSUME OnePlace(rs, fs, mq, wq, R)
             PROVE  /\ OnePlace(rs, fs, Tail(mq), Append(wq, x), R)
                    /\ Nowhere(rs, fs, Tail(mq), Append(wq, x), R) <=> Nowhere(rs, fs, mq, wq, R)
    BY DEF SamePlaces
<1> DEFINE M == AnswersOf(R)
           W == ResumesOf(R)
<1>1. x \in WorkerItem /\ (x \in W <=> Head(mq) \in M)
    BY DEF AnswersOf, ResumesOf, WorkerItem
<1>2. Single(mq, M) /\ Single(wq, W)
    BY DEF OnePlace
<1> HIDE DEF M, W
<1>3. /\ Single(Tail(mq), M)
      /\ Head(mq) \in M => Absent(Tail(mq), M)
      /\ Head(mq) \notin M => (Absent(Tail(mq), M) <=> Absent(mq, M))
    BY <1>2, TailPresence
<1>4. Head(mq) \in M => ~Absent(mq, M)
    <2>1. 1 \in DOMAIN mq /\ Head(mq) = mq[1]
        BY TailRows
    <2> QED BY <2>1 DEF Absent
<1>5. /\ x \notin W => /\ Single(Append(wq, x), W)
                       /\ Absent(Append(wq, x), W) <=> Absent(wq, W)
      /\ x \in W /\ Absent(wq, W) => Single(Append(wq, x), W)
      /\ x \in W => ~Absent(Append(wq, x), W)
    BY <1>1, <1>2, AppendPresence
<1> QED BY <1>1, <1>3, <1>4, <1>5 DEF OnePlace, Nowhere, M, W

\* Elements that carry no request come and go.
LEMMA OthersPass ==
    ASSUME NEW rs, NEW fs, NEW mq \in Seq(MainItem), NEW wq \in Seq(WorkerItem), NEW R
    PROVE  /\ \A x \in MainItem : x.kind # "answer" =>
                    SamePlaces(rs, fs, mq, wq, rs, fs, Append(mq, x), wq, R)
           /\ mq # << >> /\ Head(mq).kind # "answer" =>
                    SamePlaces(rs, fs, mq, wq, rs, fs, Tail(mq), wq, R)
           /\ \A x \in WorkerItem : x.kind # "resume" =>
                    SamePlaces(rs, fs, mq, wq, rs, fs, mq, Append(wq, x), R)
           /\ wq # << >> /\ Head(wq).kind # "resume" =>
                    SamePlaces(rs, fs, mq, wq, rs, fs, mq, Tail(wq), R)
<1> DEFINE M == AnswersOf(R)
           W == ResumesOf(R)
<1>1. /\ \A x : x \in M => x.kind = "answer"
      /\ \A x : x \in W => x.kind = "resume"
    BY DEF AnswersOf, ResumesOf, Answer, Resume
<1> HIDE DEF M, W
<1>2. ASSUME NEW x \in MainItem, x.kind # "answer"
      PROVE  SamePlaces(rs, fs, mq, wq, rs, fs, Append(mq, x), wq, R)
    <2>1. Single(mq, M) => /\ Single(Append(mq, x), M)
                           /\ Absent(Append(mq, x), M) <=> Absent(mq, M)
        BY <1>1, <1>2, AppendPresence
    <2> QED BY <2>1 DEF SamePlaces, OnePlace, Nowhere, M
<1>3. ASSUME mq # << >>, Head(mq).kind # "answer"
      PROVE  SamePlaces(rs, fs, mq, wq, rs, fs, Tail(mq), wq, R)
    <2>1. Single(mq, M) => /\ Single(Tail(mq), M)
                           /\ Absent(Tail(mq), M) <=> Absent(mq, M)
        BY <1>1, <1>3, TailPresence
    <2> QED BY <2>1 DEF SamePlaces, OnePlace, Nowhere, M
<1>4. ASSUME NEW x \in WorkerItem, x.kind # "resume"
      PROVE  SamePlaces(rs, fs, mq, wq, rs, fs, mq, Append(wq, x), R)
    <2>1. Single(wq, W) => /\ Single(Append(wq, x), W)
                           /\ Absent(Append(wq, x), W) <=> Absent(wq, W)
        BY <1>1, <1>4, AppendPresence
    <2> QED BY <2>1 DEF SamePlaces, OnePlace, Nowhere, W
<1>5. ASSUME wq # << >>, Head(wq).kind # "resume"
      PROVE  SamePlaces(rs, fs, mq, wq, rs, fs, mq, Tail(wq), R)
    <2>1. Single(wq, W) => /\ Single(Tail(wq), W)
                           /\ Absent(Tail(wq), W) <=> Absent(wq, W)
        BY <1>1, <1>5, TailPresence
    <2> QED BY <2>1 DEF SamePlaces, OnePlace, Nowhere, W
<1> QED BY <1>2, <1>3, <1>4, <1>5

\* A token arrives at the stream.
LEMMA ResumeTaken ==
    ASSUME NEW rs, NEW fs, NEW mq, NEW wq \in Seq(WorkerItem), NEW R,
           wq # << >>, Head(wq) \in Resume, OnePlace(rs, fs, mq, wq, R)
    PROVE  /\ OnePlace(rs, fs, mq, Tail(wq), R)
           /\ Head(wq).request \in R => /\ ~Nowhere(rs, fs, mq, wq, R)
                                        /\ Nowhere(rs, fs, mq, Tail(wq), R)
           /\ Head(wq).request \notin R =>
                (Nowhere(rs, fs, mq, Tail(wq), R) <=> Nowhere(rs, fs, mq, wq, R))
<1> DEFINE W == ResumesOf(R)
<1>1. Head(wq) \in W <=> Head(wq).request \in R
    BY DEF ResumesOf
<1>2. Single(wq, W)
    BY DEF OnePlace
<1> HIDE DEF W
<1>3. /\ Single(Tail(wq), W)
      /\ Head(wq) \in W => Absent(Tail(wq), W)
      /\ Head(wq) \notin W => (Absent(Tail(wq), W) <=> Absent(wq, W))
    BY <1>2, TailPresence
<1>4. Head(wq) \in W => ~Absent(wq, W)
    <2>1. 1 \in DOMAIN wq /\ Head(wq) = wq[1]
        BY TailRows
    <2> QED BY <2>1 DEF Absent
<1> QED BY <1>1, <1>3, <1>4 DEF OnePlace, Nowhere, W

\* A token is asked for.
LEMMA RequestMade ==
    ASSUME NEW rs \in Seq(Request), NEW fs, NEW mq, NEW wq, NEW R, NEW r \in Request,
           OnePlace(rs, fs, mq, wq, R)
    PROVE  /\ r \notin R => /\ OnePlace(Append(rs, r), fs, mq, wq, R)
                            /\ Nowhere(Append(rs, r), fs, mq, wq, R) <=> Nowhere(rs, fs, mq, wq, R)
           /\ r \in R /\ Nowhere(rs, fs, mq, wq, R) =>
                /\ OnePlace(Append(rs, r), fs, mq, wq, R)
                /\ ~Nowhere(Append(rs, r), fs, mq, wq, R)
<1>1. Single(rs, R)
    BY DEF OnePlace
<1>2. /\ r \notin R => /\ Single(Append(rs, r), R)
                       /\ Absent(Append(rs, r), R) <=> Absent(rs, R)
      /\ r \in R /\ Absent(rs, R) => Single(Append(rs, r), R)
      /\ r \in R => ~Absent(Append(rs, r), R)
    BY <1>1, AppendPresence
<1> QED BY <1>2 DEF OnePlace, Nowhere
-----------------------------------------------------------------------------
(* Starts of the stream.                                                    *)

LEMMA NothingThere ==
    ASSUME NEW rs, NEW fs, NEW mq, NEW wq, NEW R, NEW Q \in SUBSET R,
           Nowhere(rs, fs, mq, wq, R)
    PROVE  Nowhere(rs, fs, mq, wq, Q) /\ OnePlace(rs, fs, mq, wq, Q)
<1>1. Nowhere(rs, fs, mq, wq, Q)
    BY DEF Nowhere, Absent, FetchesOf, AnswersOf, ResumesOf
<1>2. \A q, C : Absent(q, C) => Single(q, C)
    BY DEF Absent, Single
<1>3. OnePlace(rs, fs, mq, wq, Q)
    BY <1>1, <1>2 DEF Nowhere, OnePlace
<1> QED BY <1>1, <1>3

StreamType == [state : StreamState, close_count : Nat, token : Users]
ContentsType == [current_user : Users, token_counter : Nat]

\* What the rest of the client does with requests leaves the stream as it is.
LEMMA PlacedKept ==
    ASSUME NEW s \in StreamType, NEW c \in ContentsType,
           NEW rs, NEW fs, NEW mq, NEW wq, Placed(s, c, rs, fs, mq, wq),
           NEW d \in ContentsType, d.token_counter >= c.token_counter,
           NEW rs2, NEW fs2, NEW mq2, NEW wq2,
           \A R \in SUBSET Request : SamePlaces(rs, fs, mq, wq, rs2, fs2, mq2, wq2, R)
    PROVE  Placed(s, d, rs2, fs2, mq2, wq2)
<1>1. Waited(s) \in SUBSET Request /\ Future(c, s) \in SUBSET Request
    BY DEF Waited, Future
<1>2. Future(d, s) \in SUBSET Future(c, s)
    <2>1. c.token_counter \in Nat /\ d.token_counter \in Nat
        BY DEF ContentsType
    <2> QED BY <2>1, Items DEF Future
<1>3. /\ OnePlace(rs2, fs2, mq2, wq2, Waited(s))
      /\ Nowhere(rs2, fs2, mq2, wq2, Waited(s)) <=> Nowhere(rs, fs, mq, wq, Waited(s))
    BY <1>1 DEF Placed, SamePlaces
<1>4. Future(c, s) \in SUBSET Future(c, s) /\ Nowhere(rs, fs, mq, wq, Future(c, s))
    BY DEF Placed
<1>5. OnePlace(rs, fs, mq, wq, Future(c, s))
    BY <1>4, NothingThere
<1>6. Nowhere(rs2, fs2, mq2, wq2, Future(c, s))
    BY <1>1, <1>4, <1>5 DEF SamePlaces
<1>7. Nowhere(rs2, fs2, mq2, wq2, Future(d, s))
    BY <1>2, <1>6, NothingThere
<1> QED BY <1>3, <1>7 DEF Placed

\* A stream that is closed waits for a request that has not been made.
LEMMA PlacedClosed ==
    ASSUME NEW s \in StreamType, NEW c, NEW rs, NEW fs, NEW mq, NEW wq,
           Placed(s, c, rs, fs, mq, wq),
           NEW new, new.close_count = s.close_count + 1, new.state # "Starting"
    PROVE  Placed(new, c, rs, fs, mq, wq)
<1>1. s.close_count \in Nat
    BY DEF StreamType
<1>2. Waited(new) \in SUBSET Future(c, s) /\ Future(c, new) \in SUBSET Future(c, s)
    BY <1>1, Items DEF Waited, Future
<1>3. /\ OnePlace(rs, fs, mq, wq, Waited(new)) /\ Nowhere(rs, fs, mq, wq, Waited(new))
      /\ Nowhere(rs, fs, mq, wq, Future(c, new))
    BY <1>2, NothingThere DEF Placed
<1> QED BY <1>3 DEF Placed

\* Start, of a stream that is not starting.
LEMMA PlacedStarted ==
    ASSUME NEW s \in StreamType, NEW c \in ContentsType, NEW rs \in Seq(Request),
           NEW fs, NEW mq, NEW wq,
           Placed(s, c, rs, fs, mq, wq), s.state # "Starting",
           NEW new, new.close_count = s.close_count, new.state = "Starting",
           NEW r \in Request, r.close = s.close_count, r.counter = c.token_counter
    PROVE  Placed(new, c, Append(rs, r), fs, mq, wq)
<1>1. Waited(new) = Waited(s) /\ Future(c, new) = Future(c, s)
    BY DEF Waited, Future
<1>2. r \in Waited(s) /\ r \notin Future(c, s)
    BY DEF Waited, Future, StreamType, ContentsType
<1>3. OnePlace(rs, fs, mq, wq, Waited(s)) /\ Nowhere(rs, fs, mq, wq, Waited(s))
    BY DEF Placed
<1>4. /\ OnePlace(Append(rs, r), fs, mq, wq, Waited(s))
      /\ ~Nowhere(Append(rs, r), fs, mq, wq, Waited(s))
    BY <1>2, <1>3, RequestMade
<1>5. Future(c, s) \in SUBSET Future(c, s) /\ Nowhere(rs, fs, mq, wq, Future(c, s))
    BY DEF Placed
<1>6. OnePlace(rs, fs, mq, wq, Future(c, s))
    BY <1>5, NothingThere
<1>7. Nowhere(Append(rs, r), fs, mq, wq, Future(c, s))
    BY <1>2, <1>5, <1>6, RequestMade
<1> QED BY <1>1, <1>4, <1>7 DEF Placed

\* The stream has its token, or the token is of an earlier start.
LEMMA PlacedResumed ==
    ASSUME NEW s \in StreamType, NEW c, NEW rs, NEW fs, NEW mq, NEW wq \in Seq(WorkerItem),
           Placed(s, c, rs, fs, mq, wq), wq # << >>, Head(wq) \in Resume,
           NEW new, new.close_count = s.close_count,
           Head(wq).request.close = s.close_count => new.state # "Starting",
           Head(wq).request.close # s.close_count => new.state = s.state
    PROVE  /\ Placed(new, c, rs, fs, mq, Tail(wq))
           /\ Head(wq).request.close = s.close_count => s.state = "Starting"
<1>1. Waited(new) = Waited(s) /\ Future(c, new) = Future(c, s)
    BY DEF Waited, Future
<1>2. Head(wq).request \in Request
    BY DEF Resume
<1>3. Head(wq).request \in Waited(s) <=> Head(wq).request.close = s.close_count
    BY <1>2 DEF Waited
<1>4. OnePlace(rs, fs, mq, wq, Waited(s))
    BY DEF Placed
<1>5. /\ OnePlace(rs, fs, mq, Tail(wq), Waited(s))
      /\ Head(wq).request \in Waited(s) => /\ ~Nowhere(rs, fs, mq, wq, Waited(s))
                                   /\ Nowhere(rs, fs, mq, Tail(wq), Waited(s))
      /\ Head(wq).request \notin Waited(s) =>
            (Nowhere(rs, fs, mq, Tail(wq), Waited(s)) <=> Nowhere(rs, fs, mq, wq, Waited(s)))
    BY <1>4, ResumeTaken
<1>6. Future(c, s) \in SUBSET Future(c, s) /\ Nowhere(rs, fs, mq, wq, Future(c, s))
    BY DEF Placed
<1>7. OnePlace(rs, fs, mq, wq, Future(c, s))
    BY <1>6, NothingThere
<1>8. Nowhere(rs, fs, mq, Tail(wq), Future(c, s))
    BY <1>6, <1>7, ResumeTaken
<1> QED BY <1>1, <1>3, <1>5, <1>8 DEF Placed
-----------------------------------------------------------------------------
(* Steps of Auth and of the main queue.                                     *)

LEMMA Typed ==
    ASSUME CredTypeOK
    PROVE  /\ auth \in AuthUser /\ requests \in Seq(Request) /\ fetches \in Seq(Fetch)
           /\ main_queue \in Seq(MainItem) /\ contents \in ContentsType
           /\ worker_queue \in Seq(WorkerItem) /\ current_user \in Users
           /\ stream \in StreamType /\ events \in 0 .. MaxEvents
BY DEF CredTypeOK, MainItem, WorkerItem, ContentsType, StreamType

LEMMA SameThrough ==
    ASSUME NEW rs, NEW fs, NEW mq, NEW wq, NEW rs2, NEW fs2, NEW mq2, NEW wq2,
           NEW rs3, NEW fs3, NEW mq3, NEW wq3, NEW R,
           SamePlaces(rs, fs, mq, wq, rs2, fs2, mq2, wq2, R),
           SamePlaces(rs2, fs2, mq2, wq2, rs3, fs3, mq3, wq3, R)
    PROVE  SamePlaces(rs, fs, mq, wq, rs3, fs3, mq3, wq3, R)
BY DEF SamePlaces

\* What is left to show of a step that the client does not take part in.
LEMMA FrontKept ==
    ASSUME CredInv, UNCHANGED <<contents, worker_queue, current_user, stream>>,
           auth' \in AuthUser, auth'.object = 0 => auth'.user = nobody,
           requests' \in Seq(Request), fetches' \in Seq(Fetch),
           main_queue' \in Seq(MainItem), events' \in 0 .. MaxEvents,
           MainInv(auth', fetches', main_queue', contents),
           \A R \in SUBSET Request :
                SamePlaces(requests, fetches, main_queue, worker_queue,
                           requests', fetches', main_queue', worker_queue, R)
    PROVE  CredInv'
<1>1. CredTypeOK'
    BY DEF CredInv, CredTypeOK, MainItem
<1>2. MainInv(auth, fetches, main_queue, contents)'
    BY DEF CredInv, MainInv, Follows, LastBefore, NoChange, AnswerIsCurrent, FetchIsCurrent
<1>3. WorkerInv(contents, worker_queue, current_user)'
    BY DEF CredInv, WorkerInv, ResumesKnown, Follows, LastBefore
<1>4. StartInv'
    <2>1. /\ stream \in StreamType /\ contents \in ContentsType
          /\ Placed(stream, contents, requests, fetches, main_queue, worker_queue)
        BY Typed DEF CredInv, StartInv
    <2>2. contents.token_counter >= contents.token_counter
        BY <2>1 DEF ContentsType
    <2>3. Placed(stream, contents, requests', fetches', main_queue', worker_queue)
        BY <2>1, <2>2, PlacedKept
    <2> QED BY <2>3 DEF StartInv, Placed, OnePlace, Nowhere, Single, Absent, Waited, Future,
               FetchesOf, AnswersOf, ResumesOf
<1> QED BY <1>1, <1>2, <1>3, <1>4 DEF CredInv

\* The user is updated, before the blocks that follow are dispatched.
LEMMA Updated ==
    ASSUME CredInv, NEW new \in AuthUser, NEW blocks, UpdateCurrentUser(new, blocks),
           NEW posted, posted = Append(main_queue, Posted(new.user))
    PROVE  /\ auth' = new /\ events' \in 0 .. MaxEvents
           /\ main_queue' = posted \o blocks /\ posted \in Seq(MainItem)
           /\ MainInv(new, fetches, posted, contents)
           /\ ~NoChange(posted, Len(posted) + 1)
           /\ \A R \in SUBSET Request :
                SamePlaces(requests, fetches, main_queue, worker_queue,
                           requests, fetches, posted, worker_queue, R)
<1>1. /\ main_queue \in Seq(MainItem) /\ worker_queue \in Seq(WorkerItem)
      /\ MainInv(auth, fetches, main_queue, contents)
    BY Typed DEF CredInv
<1>2. /\ MainInv(new, fetches, posted, contents) /\ posted \in Seq(MainItem)
      /\ Posted(new.user) \in MainItem /\ Posted(new.user).kind = "notification"
      /\ ~NoChange(posted, Len(posted) + 1)
    BY <1>1, ChangePosted
<1>3. ASSUME NEW R \in SUBSET Request
      PROVE  SamePlaces(requests, fetches, main_queue, worker_queue,
                        requests, fetches, posted, worker_queue, R)
    <2>1. Posted(new.user).kind # "answer"
        BY <1>2
    <2> QED BY <1>1, <1>2, <2>1, OthersPass
<1>4. auth' = new /\ events' \in 0 .. MaxEvents /\ main_queue' = posted \o blocks
    BY CredentialBounds DEF CredInv, CredTypeOK, UpdateCurrentUser
<1> QED BY <1>2, <1>3, <1>4

LEMMA Following ==
    ASSUME NEW S, NEW q \in Seq(S)
    PROVE  q \o << >> = q /\ \A x \in S : q \o <<x>> = Append(q, x)
OBVIOUS

LEMMA UserUpdated ==
    ASSUME CredInv, NEW new \in AuthUser, new.object = 0 => new.user = nobody,
           UpdateCurrentUser(new, << >>),
           UNCHANGED <<requests, fetches, contents, worker_queue, current_user, stream>>
    PROVE  CredInv'
<1> DEFINE posted == Append(main_queue, Posted(new.user))
<1> HIDE DEF posted
<1>1. /\ auth' = new /\ events' \in 0 .. MaxEvents
      /\ main_queue' = posted \o << >> /\ posted \in Seq(MainItem)
      /\ MainInv(new, fetches, posted, contents)
      /\ \A R \in SUBSET Request :
                SamePlaces(requests, fetches, main_queue, worker_queue,
                           requests, fetches, posted, worker_queue, R)
    BY Updated DEF posted
<1>2. main_queue' = posted
    BY <1>1, Following
<1>3. requests \in Seq(Request) /\ fetches \in Seq(Fetch)
    BY Typed DEF CredInv
<1> QED BY <1>1, <1>2, <1>3, FrontKept

\* A block of the app, or of Auth for it, is dispatched.
BlockAdded(name) ==
    /\ main_queue' = Append(main_queue, [kind |-> "block", name |-> name])
    /\ UNCHANGED <<auth, requests, fetches, contents, worker_queue, current_user,
                   stream, events>>

LEMMA BlockItem ==
    ASSUME NEW name \in {"signedIn", "failed", "answered"}
    PROVE  /\ [kind |-> "block", name |-> name] \in MainItem
           /\ [kind |-> "block", name |-> name].kind = "block"
BY DEF MainItem, Block

LEMMA BlockAddedKept ==
    ASSUME CredInv, NEW name \in {"signedIn", "failed", "answered"}, BlockAdded(name)
    PROVE  CredInv'
<1> DEFINE x == [kind |-> "block", name |-> name]
<1>1. x \in MainItem /\ x.kind = "block"
    BY BlockItem
<1> HIDE DEF x
<1>2. /\ main_queue' = Append(main_queue, x)
      /\ UNCHANGED <<auth, requests, fetches, contents, worker_queue, current_user,
                     stream, events>>
    BY DEF BlockAdded, x
<1>3. /\ main_queue \in Seq(MainItem) /\ worker_queue \in Seq(WorkerItem)
      /\ MainInv(auth, fetches, main_queue, contents)
      /\ requests \in Seq(Request) /\ fetches \in Seq(Fetch) /\ auth \in AuthUser
      /\ events \in 0 .. MaxEvents /\ (auth.object = 0 => auth.user = nobody)
    BY Typed DEF CredInv
<1>4. AnswerIsCurrent(x, contents)
    BY <1>1 DEF AnswerIsCurrent
<1>5. MainInv(auth, fetches, main_queue', contents) /\ main_queue' \in Seq(MainItem)
    BY <1>1, <1>2, <1>3, <1>4, ItemAppended
<1>6. \A R \in SUBSET Request :
        SamePlaces(requests, fetches, main_queue, worker_queue,
                   requests, fetches, main_queue', worker_queue, R)
    BY <1>1, <1>2, <1>3, OthersPass
<1> QED BY <1>2, <1>3, <1>5, <1>6, FrontKept

LEMMA SignInKept ==
    ASSUME CredInv, NEW user \in Users \ {nobody}, SignIn(user)
    PROVE  CredInv'
<1> DEFINE new == NewUser(user)
           posted == Append(main_queue, Posted(new.user))
           x == [kind |-> "block", name |-> "signedIn"]
<1>1. new \in AuthUser /\ (new.object = 0 => new.user = nobody)
    BY DEF CredInv, CredTypeOK, NewUser, AuthUser
<1>2. x \in MainItem /\ x.kind = "block"
    BY BlockItem
<1> HIDE DEF new, posted, x
<1>3. /\ UpdateCurrentUser(new, <<x>>)
      /\ UNCHANGED <<requests, fetches, contents, worker_queue, current_user, stream>>
    BY DEF SignIn, new, x
<1>4. /\ auth' = new /\ events' \in 0 .. MaxEvents
      /\ main_queue' = posted \o <<x>> /\ posted \in Seq(MainItem)
      /\ MainInv(new, fetches, posted, contents)
      /\ \A R \in SUBSET Request :
                SamePlaces(requests, fetches, main_queue, worker_queue,
                           requests, fetches, posted, worker_queue, R)
    BY <1>1, <1>3, Updated DEF posted
<1>5. main_queue' = Append(posted, x)
    BY <1>2, <1>4, Following
<1>6. requests \in Seq(Request) /\ fetches \in Seq(Fetch) /\ worker_queue \in Seq(WorkerItem)
    BY Typed DEF CredInv
<1>7. MainInv(new, fetches, main_queue', contents) /\ main_queue' \in Seq(MainItem)
    <2>1. AnswerIsCurrent(x, contents)
        BY <1>2 DEF AnswerIsCurrent
    <2> QED BY <1>2, <1>4, <1>5, <2>1, ItemAppended
<1>8. ASSUME NEW R \in SUBSET Request
      PROVE  SamePlaces(requests, fetches, main_queue, worker_queue,
                        requests, fetches, main_queue', worker_queue, R)
    <2>1. SamePlaces(requests, fetches, posted, worker_queue,
                     requests, fetches, main_queue', worker_queue, R)
        BY <1>2, <1>4, <1>5, <1>6, OthersPass
    <2>2. SamePlaces(requests, fetches, main_queue, worker_queue,
                     requests, fetches, posted, worker_queue, R)
        BY <1>4
    <2> QED BY <2>1, <2>2, SameThrough
<1> QED BY <1>1, <1>3, <1>4, <1>6, <1>7, <1>8, FrontKept

LEMMA SignOutKept ==
    ASSUME CredInv, SignOut
    PROVE  CredInv'
<1>1. Nil \in AuthUser /\ Nil.user = nobody
    BY NobodyAssumption DEF Nil, AuthUser
<1>2. CASE auth.object = 0
    <2>1. UNCHANGED credVars
        BY <1>2 DEF SignOut, credVars
    <2> QED BY <2>1 DEF CredInv, CredTypeOK, MainInv, WorkerInv, ResumesKnown, Follows,
               LastBefore, NoChange, AnswerIsCurrent, FetchIsCurrent, StartInv, Placed,
               OnePlace, Nowhere, Single, Absent, Waited, Future, FetchesOf, AnswersOf,
               ResumesOf, credVars
<1>3. CASE auth.object # 0
    <2>1. /\ UpdateCurrentUser(Nil, << >>)
          /\ UNCHANGED <<requests, fetches, contents, worker_queue, current_user, stream>>
        BY <1>3 DEF SignOut
    <2> QED BY <1>1, <2>1, UserUpdated
<1> QED BY <1>2, <1>3

LEMMA AutoTokenRefreshKept ==
    ASSUME CredInv, AutoTokenRefresh
    PROVE  CredInv'
<1>1. Nil \in AuthUser /\ Nil.user = nobody
    BY NobodyAssumption DEF Nil, AuthUser
<1>2. auth \in AuthUser /\ (auth.object = 0 => auth.user = nobody)
    BY Typed DEF CredInv
<1>3. PICK new \in {auth, Nil} : UpdateCurrentUser(new, << >>)
    BY DEF AutoTokenRefresh
<1>4. UNCHANGED <<requests, fetches, contents, worker_queue, current_user, stream>>
    BY DEF AutoTokenRefresh
<1> QED BY <1>1, <1>2, <1>3, <1>4, UserUpdated
LEMMA GetTokenForcingRefreshKept ==
    ASSUME CredInv, GetTokenForcingRefresh
    PROVE  CredInv'
<1> DEFINE r == Head(requests)
           x == Answered(r, TRUE, nobody)
           f == [request |-> r, from |-> auth]
<1>1. /\ requests # << >> /\ requests' = Tail(requests)
      /\ UNCHANGED <<auth, contents, worker_queue, current_user, stream, events>>
      /\ auth.object = 0 => main_queue' = Append(main_queue, x) /\ fetches' = fetches
      /\ auth.object # 0 => fetches' = Append(fetches, f) /\ main_queue' = main_queue
    BY DEF GetTokenForcingRefresh
<1>2. /\ main_queue \in Seq(MainItem) /\ worker_queue \in Seq(WorkerItem)
      /\ MainInv(auth, fetches, main_queue, contents)
      /\ requests \in Seq(Request) /\ fetches \in Seq(Fetch) /\ auth \in AuthUser
      /\ events \in 0 .. MaxEvents /\ (auth.object = 0 => auth.user = nobody)
    BY Typed DEF CredInv
<1>3. r \in Request /\ requests' \in Seq(Request)
    BY <1>1, <1>2, TailRows, ElementOfSeq
<1>4. x \in Answer /\ x \in MainItem /\ x.kind = "answer" /\ x.request = r /\ x.owner = nobody
    BY <1>3, NobodyAssumption DEF Answered, Answer, MainItem
<1>5. f \in Fetch /\ f.request = r /\ f.from = auth
    BY <1>2, <1>3 DEF Fetch
<1> HIDE DEF x, f
<1>6. CASE auth.object = 0
    <2>1. main_queue' = Append(main_queue, x) /\ fetches' = fetches
        BY <1>1, <1>6
    <2>2. ASSUME NoChange(main_queue, Len(main_queue) + 1)
          PROVE  AnswerIsCurrent(x, contents)
        BY <1>2, <1>4, <1>6, <2>2, NothingPosted DEF AnswerIsCurrent
    <2>3. MainInv(auth, fetches, main_queue', contents) /\ main_queue' \in Seq(MainItem)
        BY <1>2, <1>4, <2>1, <2>2, ItemAppended
    <2>4. \A R \in SUBSET Request :
            SamePlaces(requests, fetches, main_queue, worker_queue,
                       requests', fetches', main_queue', worker_queue, R)
        BY <1>1, <1>2, <1>4, <2>1, NilAnswered
    <2>5. /\ UNCHANGED <<contents, worker_queue, current_user, stream>>
          /\ auth' = auth /\ auth' \in AuthUser /\ events' \in 0 .. MaxEvents
          /\ auth'.object = 0 => auth'.user = nobody
          /\ fetches' = fetches /\ fetches' \in Seq(Fetch) /\ requests' \in Seq(Request)
        BY <1>1, <1>2, <1>3, <2>1
    <2>6. MainInv(auth', fetches', main_queue', contents)
        BY <2>3, <2>5, Zenon
    <2> QED BY <2>3, <2>4, <2>5, <2>6, FrontKept
<1>7. CASE auth.object # 0
    <2>1. fetches' = Append(fetches, f) /\ main_queue' = main_queue
        BY <1>1, <1>7
    <2>2. /\ fetches' \in Seq(Fetch) /\ DOMAIN fetches' = 1 .. (Len(fetches) + 1)
          /\ DOMAIN fetches = 1 .. Len(fetches) /\ Len(fetches) \in Nat
          /\ \A i \in 1 .. Len(fetches) : fetches'[i] = fetches[i]
          /\ fetches'[Len(fetches) + 1] = f
        BY <1>2, <1>5, <2>1, AppendRows
    <2>3. \A k \in DOMAIN fetches' :
            (\E j \in DOMAIN fetches : fetches'[k] = fetches[j])
                \/ fetches'[k].from.user = auth.user
        BY <1>5, <2>2
    <2>4. MainInv(auth, fetches', main_queue', contents)
        BY <1>2, <2>1, <2>3, FetchesChanged
    <2>5. \A R \in SUBSET Request :
            SamePlaces(requests, fetches, main_queue, worker_queue,
                       requests', fetches', main_queue', worker_queue, R)
        BY <1>1, <1>2, <1>5, <2>1, FetchServes
    <2> QED BY <1>1, <1>2, <1>3, <2>1, <2>2, <2>4, <2>5, FrontKept
<1> QED BY <1>6, <1>7

\* Request k has been served, and its answer x put after what is posted.
LEMMA RequestServed ==
    ASSUME CredInv, NEW k \in DOMAIN fetches, Served(k),
           UNCHANGED <<requests, contents, worker_queue, current_user, stream>>,
           auth' \in AuthUser, auth'.object = 0 => auth'.user = nobody,
           events' \in 0 .. MaxEvents,
           NEW posted \in Seq(MainItem), MainInv(auth', fetches, posted, contents),
           NoChange(posted, Len(posted) + 1) => posted = main_queue,
           \A R \in SUBSET Request :
                SamePlaces(requests, fetches, main_queue, worker_queue,
                           requests, fetches, posted, worker_queue, R),
           NEW ok \in BOOLEAN,
           main_queue' = posted \o <<Answered(fetches[k].request, ok, fetches[k].from.user)>>
    PROVE  CredInv'
<1> DEFINE f == fetches[k]
           x == Answered(f.request, ok, f.from.user)
<1>1. /\ main_queue \in Seq(MainItem) /\ worker_queue \in Seq(WorkerItem)
      /\ MainInv(auth, fetches, main_queue, contents)
      /\ requests \in Seq(Request) /\ fetches \in Seq(Fetch)
    BY Typed DEF CredInv
<1>2. f \in Fetch /\ f.request \in Request /\ f.from \in AuthUser /\ f.from.user \in Users
    BY <1>1, LenProperties, ElementOfSeq, Items
<1> HIDE DEF f
<1>3. /\ x \in Answer /\ x \in MainItem /\ x.kind = "answer" /\ x.request = f.request
      /\ x.owner = f.from.user
    BY <1>2 DEF Answered, Answer, MainItem
<1>4. main_queue' = posted \o <<x>>
    BY DEF f
<1> HIDE DEF x
<1>5. main_queue' = Append(posted, x)
    BY <1>3, <1>4, Following
<1>6. ASSUME NoChange(posted, Len(posted) + 1)
      PROVE  AnswerIsCurrent(x, contents)
    <2>1. FetchIsCurrent(f, contents)
        BY <1>1, <1>6 DEF MainInv, f
    <2> QED BY <1>3, <2>1 DEF AnswerIsCurrent, FetchIsCurrent
<1>7. MainInv(auth', fetches, main_queue', contents) /\ main_queue' \in Seq(MainItem)
    BY <1>3, <1>5, <1>6, ItemAppended
<1>8. /\ fetches' = Remove(fetches, k) /\ fetches' \in Seq(Fetch)
      /\ \A i \in DOMAIN fetches' : \E j \in DOMAIN fetches : fetches'[i] = fetches[j]
    <2>1. fetches' = Remove(fetches, k)
        BY DEF Served, Remove
    <2>2. /\ Remove(fetches, k) \in Seq(Fetch)
          /\ DOMAIN fetches = 1 .. Len(fetches) /\ Len(fetches) \in Nat
          /\ DOMAIN Remove(fetches, k) = 1 .. (Len(fetches) - 1)
          /\ \A i \in 1 .. (Len(fetches) - 1) :
                Remove(fetches, k)[i] = IF i < k THEN fetches[i] ELSE fetches[i + 1]
        BY <1>1, RemoveRows
    <2>3. ASSUME NEW i \in DOMAIN fetches'
          PROVE  \E j \in DOMAIN fetches : fetches'[i] = fetches[j]
        <3>1. i \in 1 .. (Len(fetches) - 1)
            BY <2>1, <2>2
        <3>2. i \in DOMAIN fetches /\ i + 1 \in DOMAIN fetches
            BY <2>2, <3>1
        <3>3. fetches'[i] = fetches[i] \/ fetches'[i] = fetches[i + 1]
            BY <2>1, <2>2, <3>1
        <3> QED BY <3>2, <3>3
    <2> QED BY <2>1, <2>2, <2>3
<1>9. MainInv(auth', fetches', main_queue', contents)
    BY <1>7, <1>8, FetchesChanged
<1>10. ASSUME NEW R \in SUBSET Request
       PROVE  SamePlaces(requests, fetches, main_queue, worker_queue,
                         requests', fetches', main_queue', worker_queue, R)
    <2>1. SamePlaces(requests, fetches, posted, worker_queue,
                     requests, fetches', main_queue', worker_queue, R)
        BY <1>1, <1>3, <1>5, <1>8, FetchAnswered DEF f
    <2> QED BY <2>1, SameThrough
<1>11. requests' \in Seq(Request)
    BY <1>1
<1> QED BY <1>7, <1>8, <1>9, <1>10, <1>11, FrontKept

LEMMA NothingPlaced ==
    ASSUME CredInv
    PROVE  /\ main_queue \in Seq(MainItem) /\ MainInv(auth, fetches, main_queue, contents)
           /\ auth \in AuthUser /\ (auth.object = 0 => auth.user = nobody)
           /\ events \in 0 .. MaxEvents /\ contents \in ContentsType
           /\ requests \in Seq(Request) /\ fetches \in Seq(Fetch)
           /\ worker_queue \in Seq(WorkerItem) /\ stream \in StreamType
           /\ current_user \in Users
           /\ \A R \in SUBSET Request :
                SamePlaces(requests, fetches, main_queue, worker_queue,
                           requests, fetches, main_queue, worker_queue, R)
BY Typed DEF CredInv, SamePlaces

LEMMA TokenCachedKept ==
    ASSUME CredInv, NEW k \in DOMAIN fetches, TokenCached(k)
    PROVE  CredInv'
<1> DEFINE x == Answered(fetches[k].request, TRUE, fetches[k].from.user)
<1>1. /\ Served(k) /\ main_queue' = Append(main_queue, x)
      /\ UNCHANGED <<auth, requests, contents, worker_queue, current_user, stream, events>>
    BY DEF TokenCached
<1>2. x \in MainItem
    BY NothingPlaced, LenProperties, ElementOfSeq, Items DEF Answered, Answer, MainItem
<1> HIDE DEF x
<1>3. main_queue' = main_queue \o <<x>>
    BY <1>1, <1>2, NothingPlaced, Following
<1>4. main_queue' = main_queue \o <<Answered(fetches[k].request, TRUE, fetches[k].from.user)>>
    BY <1>3 DEF x
<1>5. /\ auth' \in AuthUser /\ (auth'.object = 0 => auth'.user = nobody)
      /\ events' \in 0 .. MaxEvents /\ MainInv(auth', fetches, main_queue, contents)
    BY <1>1, NothingPlaced
<1> QED BY <1>1, <1>4, <1>5, NothingPlaced, RequestServed

\* A user that was updated while request k was served.
LEMMA UpdatedAndServed ==
    ASSUME CredInv, NEW k \in DOMAIN fetches, Served(k),
           UNCHANGED <<requests, contents, worker_queue, current_user, stream>>,
           NEW new \in AuthUser, new.object = 0 => new.user = nobody, NEW ok \in BOOLEAN,
           UpdateCurrentUser(new, <<Answered(fetches[k].request, ok, fetches[k].from.user)>>)
    PROVE  CredInv'
<1> DEFINE posted == Append(main_queue, Posted(new.user))
           b == <<Answered(fetches[k].request, ok, fetches[k].from.user)>>
<1> HIDE DEF posted, b
<1>1. UpdateCurrentUser(new, b)
    BY DEF b
<1>2. /\ auth' = new /\ events' \in 0 .. MaxEvents
      /\ main_queue' = posted \o b /\ posted \in Seq(MainItem)
      /\ MainInv(new, fetches, posted, contents)
      /\ ~NoChange(posted, Len(posted) + 1)
      /\ \A R \in SUBSET Request :
                SamePlaces(requests, fetches, main_queue, worker_queue,
                           requests, fetches, posted, worker_queue, R)
    BY <1>1, Updated DEF posted
<1>3. main_queue' = posted \o <<Answered(fetches[k].request, ok, fetches[k].from.user)>>
    BY <1>2 DEF b
<1> QED BY <1>2, <1>3, RequestServed

LEMMA TokenRefreshedKept ==
    ASSUME CredInv, NEW k \in DOMAIN fetches, TokenRefreshed(k)
    PROVE  CredInv'
<1> DEFINE b == <<Answered(fetches[k].request, TRUE, fetches[k].from.user)>>
<1> HIDE DEF b
<1>1. /\ Served(k) /\ UNCHANGED <<requests, contents, worker_queue, current_user, stream>>
      /\ \/ UpdateCurrentUser(auth, b)
         \/ main_queue' = main_queue \o b /\ UNCHANGED <<auth, events>>
    BY DEF TokenRefreshed, b
<1>2. CASE UpdateCurrentUser(auth, b)
    <2>1. auth \in AuthUser /\ (auth.object = 0 => auth.user = nobody)
        BY NothingPlaced
    <2> QED BY <1>1, <1>2, <2>1, UpdatedAndServed DEF b
<1>3. CASE main_queue' = main_queue \o b /\ UNCHANGED <<auth, events>>
    <2>1. /\ auth' \in AuthUser /\ (auth'.object = 0 => auth'.user = nobody)
          /\ events' \in 0 .. MaxEvents /\ MainInv(auth', fetches, main_queue, contents)
        BY <1>3, NothingPlaced
    <2> QED BY <1>1, <1>3, <2>1, NothingPlaced, RequestServed DEF b
<1> QED BY <1>1, <1>2, <1>3

LEMMA TokenErrorKept ==
    ASSUME CredInv, NEW k \in DOMAIN fetches, TokenError(k)
    PROVE  CredInv'
<1> DEFINE b == <<Answered(fetches[k].request, FALSE, fetches[k].from.user)>>
<1> HIDE DEF b
<1>1. /\ Served(k) /\ UNCHANGED <<requests, contents, worker_queue, current_user, stream>>
      /\ \/ UpdateCurrentUser(Nil, b)
         \/ /\ events < MaxEvents /\ events' = events + 1
            /\ main_queue' = main_queue \o b /\ UNCHANGED auth
    BY DEF TokenError, b
<1>2. CASE UpdateCurrentUser(Nil, b)
    <2>1. Nil \in AuthUser /\ (Nil.object = 0 => Nil.user = nobody)
        BY NobodyAssumption DEF Nil, AuthUser
    <2> QED BY <1>1, <1>2, <2>1, UpdatedAndServed DEF b
<1>3. CASE /\ events < MaxEvents /\ events' = events + 1
           /\ main_queue' = main_queue \o b /\ UNCHANGED auth
    <2>1. /\ auth' \in AuthUser /\ (auth'.object = 0 => auth'.user = nobody)
          /\ MainInv(auth', fetches, main_queue, contents)
        BY <1>3, NothingPlaced
    <2>2. events' \in 0 .. MaxEvents
        BY <1>3, NothingPlaced, CredentialBounds
    <2> QED BY <1>1, <1>3, <2>1, <2>2, NothingPlaced, RequestServed DEF b
<1> QED BY <1>1, <1>2, <1>3
-----------------------------------------------------------------------------
(* Steps of the provider and of the stream.                                 *)

\* The parts of the invariant in the next state.
LEMMA Assembled ==
    ASSUME auth' \in AuthUser, auth'.object = 0 => auth'.user = nobody,
           requests' \in Seq(Request), fetches' \in Seq(Fetch),
           main_queue' \in Seq(MainItem), worker_queue' \in Seq(WorkerItem),
           contents' \in ContentsType, current_user' \in Users,
           stream' \in StreamType, events' \in 0 .. MaxEvents,
           MainInv(auth', fetches', main_queue', contents'),
           WorkerInv(contents', worker_queue', current_user'),
           stream'.state = "Open" => stream'.token = current_user',
           Placed(stream', contents', requests', fetches', main_queue', worker_queue')
    PROVE  CredInv'
<1>1. CredTypeOK'
    BY DEF CredTypeOK, MainItem, WorkerItem, ContentsType, StreamType
<1>2. MainInv(auth, fetches, main_queue, contents)'
    BY DEF MainInv, Follows, LastBefore, NoChange, AnswerIsCurrent, FetchIsCurrent
<1>3. WorkerInv(contents, worker_queue, current_user)'
    BY DEF WorkerInv, ResumesKnown, Follows, LastBefore
<1>4. StartInv'
    BY DEF StartInv, Placed, OnePlace, Nowhere, Single, Absent, Waited, Future,
       FetchesOf, AnswersOf, ResumesOf
<1> QED BY <1>1, <1>2, <1>3, <1>4 DEF CredInv

LEMMA Parts ==
    ASSUME CredInv
    PROVE  /\ WorkerInv(contents, worker_queue, current_user)
           /\ stream.state = "Open" => stream.token = current_user
           /\ Placed(stream, contents, requests, fetches, main_queue, worker_queue)
           /\ contents.current_user \in Users /\ contents.token_counter \in Nat
           /\ stream.state \in StreamState /\ stream.close_count \in Nat /\ stream.token \in Users
BY DEF CredInv, StartInv, CredTypeOK

\* Nobody has asked for a token with a counter that is still to come.
LEMMA CountersPast ==
    ASSUME CredInv
    PROVE  /\ \A k \in DOMAIN fetches : fetches[k].request.counter <= contents.token_counter
           /\ \A k \in DOMAIN main_queue : main_queue[k].kind = "answer" =>
                main_queue[k].request.counter <= contents.token_counter
<1>1. /\ fetches \in Seq(Fetch) /\ main_queue \in Seq(MainItem)
      /\ contents.token_counter \in Nat
      /\ Nowhere(requests, fetches, main_queue, worker_queue, Future(contents, stream))
    BY NothingPlaced, Parts DEF Placed
<1>2. \A r \in Request : r \notin Future(contents, stream) => r.counter <= contents.token_counter
    BY <1>1, Items DEF Future
<1>3. ASSUME NEW k \in DOMAIN fetches
      PROVE  fetches[k].request.counter <= contents.token_counter
    <2>1. fetches[k] \in Fetch /\ fetches[k].request \in Request
        BY <1>1, LenProperties, ElementOfSeq, Items
    <2> QED BY <1>1, <1>2, <2>1 DEF Nowhere, Absent, FetchesOf
<1>4. ASSUME NEW k \in DOMAIN main_queue, main_queue[k].kind = "answer"
      PROVE  main_queue[k].request.counter <= contents.token_counter
    <2>1. main_queue[k] \in Answer /\ main_queue[k].request \in Request
        BY <1>1, <1>4, LenProperties, ElementOfSeq, Items
    <2> QED BY <1>1, <1>2, <2>1 DEF Nowhere, Absent, AnswersOf
<1> QED BY <1>3, <1>4

LEMMA AuthStateDidChangeKept ==
    ASSUME CredInv, AuthStateDidChange
    PROVE  CredInv'
<1> DEFINE h == Head(main_queue)
           x == [kind |-> "change", user |-> h.user]
<1>1. /\ main_queue # << >> /\ h.kind = "notification" /\ main_queue' = Tail(main_queue)
      /\ contents' = [current_user |-> h.user, token_counter |-> contents.token_counter + 1]
      /\ worker_queue' = Append(worker_queue, x)
      /\ UNCHANGED <<auth, requests, fetches, current_user, stream, events>>
    BY DEF AuthStateDidChange
<1>2. h \in MainItem /\ h.user \in Users
    BY <1>1, NothingPlaced, TailRows, ElementOfSeq, Items
<1>3. /\ contents' \in ContentsType /\ contents'.current_user = h.user
      /\ contents'.token_counter = contents.token_counter + 1
      /\ contents'.token_counter >= contents.token_counter
    BY <1>1, <1>2, Parts DEF ContentsType
<1>4. x \in WorkerItem /\ x.kind = "change" /\ x.user = h.user
    BY <1>2 DEF WorkerItem, Change
<1> HIDE DEF h, x
<1>5. MainInv(auth, fetches, main_queue', contents') /\ main_queue' \in Seq(MainItem)
    <2>1. contents.token_counter \in Nat
        BY Parts
    <2>2. Head(main_queue).kind = "notification" /\ contents'.current_user = Head(main_queue).user
        BY <1>1, <1>3 DEF h
    <2> QED BY <1>1, <1>3, <2>1, <2>2, NothingPlaced, CountersPast, ChangeTaken
<1>6. WorkerInv(contents', worker_queue', current_user) /\ worker_queue' \in Seq(WorkerItem)
    BY <1>1, <1>3, <1>4, NothingPlaced, Parts, ChangeQueued, AppendRows
<1>7. ASSUME NEW R \in SUBSET Request
      PROVE  SamePlaces(requests, fetches, main_queue, worker_queue,
                        requests, fetches, main_queue', worker_queue', R)
    <2>1. SamePlaces(requests, fetches, main_queue, worker_queue,
                     requests, fetches, main_queue', worker_queue, R)
        BY <1>1, NothingPlaced, OthersPass DEF h
    <2>2. SamePlaces(requests, fetches, main_queue', worker_queue,
                     requests, fetches, main_queue', worker_queue', R)
        BY <1>1, <1>4, <1>5, NothingPlaced, OthersPass
    <2> QED BY <2>1, <2>2, SameThrough
<1>8. Placed(stream, contents', requests, fetches, main_queue', worker_queue')
    BY <1>3, <1>7, NothingPlaced, Parts, PlacedKept
<1> QED BY <1>1, <1>3, <1>5, <1>6, <1>8, NothingPlaced, Parts, Assembled

\* A token that is not refused is of the user the provider knows.
LEMMA TokenCallbackKept ==
    ASSUME CredInv, TokenCallback
    PROVE  CredInv'
<1> DEFINE h == Head(main_queue)
           x == Tagged(h)
<1>1. /\ main_queue # << >> /\ h.kind = "answer" /\ main_queue' = Tail(main_queue)
      /\ worker_queue' = Append(worker_queue, x)
      /\ UNCHANGED <<auth, requests, fetches, contents, current_user, stream, events>>
    BY DEF TokenCallback
<1>2. /\ h \in Answer /\ h.request \in Request /\ h.ok \in BOOLEAN /\ h.owner \in Users
    BY <1>1, NothingPlaced, TailRows, ElementOfSeq, Items
<1>3. /\ MainInv(auth, fetches, main_queue', contents) /\ main_queue' \in Seq(MainItem)
      /\ AnswerIsCurrent(h, contents)
    BY <1>1, NothingPlaced, ItemTaken
<1> HIDE DEF h
<1>4. /\ x.kind = "resume" /\ x.request = h.request /\ x.owner = h.owner
      /\ x.ok = (h.ok /\ h.request.counter = contents.token_counter)
      /\ x.tag = IF h.owner = nobody THEN nobody ELSE contents.current_user
    BY DEF Tagged
<1>5. x \in Resume /\ x \in WorkerItem
    <2>1. (h.ok /\ h.request.counter = contents.token_counter) \in BOOLEAN
        OBVIOUS
    <2>2. (IF h.owner = nobody THEN nobody ELSE contents.current_user) \in Users
        BY NobodyAssumption, Parts
    <2> QED BY <1>2, <2>1, <2>2 DEF Tagged, Resume, WorkerItem
<1> HIDE DEF x
<1>6. x.ok => x.tag = x.owner /\ x.owner = contents.current_user
    <2> SUFFICES ASSUME x.ok
                 PROVE  x.tag = x.owner /\ x.owner = contents.current_user
        OBVIOUS
    <2>1. h.ok /\ h.request.counter = contents.token_counter
        BY <1>4
    <2>2. h.owner = contents.current_user
        BY <1>1, <1>3, <2>1 DEF AnswerIsCurrent
    <2> QED BY <1>4, <2>2
<1>7. WorkerInv(contents, worker_queue', current_user) /\ worker_queue' \in Seq(WorkerItem)
    BY <1>1, <1>4, <1>5, <1>6, NothingPlaced, Parts, ResumeQueued, AppendRows
<1>8. ASSUME NEW R \in SUBSET Request
      PROVE  SamePlaces(requests, fetches, main_queue, worker_queue,
                        requests, fetches, main_queue', worker_queue', R)
    BY <1>1, <1>2, <1>4, <1>5, NothingPlaced, AnswerResumes DEF h
<1>9. Placed(stream, contents, requests, fetches, main_queue', worker_queue')
    <2>1. contents.token_counter >= contents.token_counter
        BY Parts
    <2> QED BY <1>8, <2>1, NothingPlaced, Parts, PlacedKept
<1> QED BY <1>1, <1>3, <1>7, <1>9, NothingPlaced, Parts, Assembled

LEMMA RunBlockKept ==
    ASSUME CredInv, RunBlock
    PROVE  CredInv'
<1>1. /\ main_queue # << >> /\ Head(main_queue).kind = "block"
      /\ main_queue' = Tail(main_queue)
      /\ UNCHANGED <<auth, requests, fetches, contents, worker_queue, current_user,
                     stream, events>>
    BY DEF RunBlock
<1>2. Head(main_queue).kind # "notification" /\ Head(main_queue).kind # "answer"
    BY <1>1
<1>3. MainInv(auth, fetches, main_queue', contents) /\ main_queue' \in Seq(MainItem)
    BY <1>1, <1>2, NothingPlaced, ItemTaken
<1>4. \A R \in SUBSET Request :
        SamePlaces(requests, fetches, main_queue, worker_queue,
                   requests, fetches, main_queue', worker_queue, R)
    BY <1>1, <1>2, NothingPlaced, OthersPass
<1> QED BY <1>1, <1>3, <1>4, NothingPlaced, FrontKept

\* The stream in state s asks for a token and is starting.
LEMMA StartMakesRequest ==
    ASSUME CredInv, NEW s \in StreamType, NEW wq, s.state # "Starting",
           Placed(s, contents, requests, fetches, main_queue, wq), Start(s)
    PROVE  /\ Placed(stream', contents, requests', fetches, main_queue, wq)
           /\ requests' \in Seq(Request) /\ stream' \in StreamType
           /\ stream'.state = "Starting"
<1> DEFINE r == [close |-> s.close_count, counter |-> contents.token_counter]
<1>1. requests' = Append(requests, r) /\ stream' = [s EXCEPT !.state = "Starting", !.token = nobody]
    BY DEF Start, GetToken
<1>2. r \in Request /\ r.close = s.close_count /\ r.counter = contents.token_counter
    BY Parts DEF Request, StreamType
<1>3. /\ stream' \in StreamType /\ stream'.state = "Starting"
      /\ stream'.close_count = s.close_count
    BY <1>1, NobodyAssumption DEF StreamType, StreamState
<1> HIDE DEF r
<1>4. Placed(stream', contents, requests', fetches, main_queue, wq)
    BY <1>1, <1>2, <1>3, NothingPlaced, PlacedStarted
<1> QED BY <1>1, <1>2, <1>3, <1>4, NothingPlaced, AppendRows

LEMMA StartStreamKept ==
    ASSUME CredInv, StartStream
    PROVE  CredInv'
<1>1. /\ stream.state # "Starting" /\ Start(stream)
      /\ UNCHANGED <<auth, fetches, main_queue, contents, worker_queue, current_user, events>>
    BY DEF StartStream, IsStarted
<1>2. /\ Placed(stream', contents, requests', fetches, main_queue, worker_queue)
      /\ requests' \in Seq(Request) /\ stream' \in StreamType
      /\ stream'.state = "Starting"
    BY <1>1, NothingPlaced, Parts, StartMakesRequest
<1>3. MainInv(auth', fetches', main_queue', contents')
    BY <1>1, NothingPlaced
<1>4. WorkerInv(contents', worker_queue', current_user')
    BY <1>1, Parts
<1> QED BY <1>1, <1>2, <1>3, <1>4, NothingPlaced, Assembled

LEMMA ClosedStream ==
    ASSUME CredInv, NEW state \in StreamState \ {"Starting"},
           NEW s \in StreamType, s.close_count = stream.close_count,
           NEW wq, Placed(s, contents, requests, fetches, main_queue, wq),
           NEW new, new = Closed(state)
    PROVE  /\ new \in StreamType /\ new.state = state
           /\ new.close_count = stream.close_count + 1
           /\ Placed(new, contents, requests, fetches, main_queue, wq)
<1>1. /\ new \in StreamType /\ new.state = state
      /\ new.close_count = stream.close_count + 1
    <2>1. stream \in StreamType
        BY NothingPlaced
    <2>2. new = [stream EXCEPT !.state = state, !.token = nobody,
                               !.close_count = stream.close_count + 1]
        BY <2>1 DEF Closed, StreamType
    <2>3. stream.close_count + 1 \in Nat
        BY <2>1 DEF StreamType
    <2> QED BY <2>1, <2>2, <2>3, NobodyAssumption DEF StreamType
<1>2. new.close_count = s.close_count + 1 /\ new.state # "Starting"
    BY <1>1
<1>3. Placed(new, contents, requests, fetches, main_queue, wq)
    BY <1>2, PlacedClosed
<1> QED BY <1>1, <1>3

LEMMA StreamEndsKept ==
    ASSUME CredInv, StreamEnds
    PROVE  CredInv'
<1>1. /\ events < MaxEvents /\ events' = events + 1
      /\ UNCHANGED <<auth, requests, fetches, main_queue, contents, worker_queue, current_user>>
    BY DEF StreamEnds
<1>2. PICK state \in {"Initial", "Error"} : stream' = Closed(state)
    BY DEF StreamEnds
<1>3. state \in StreamState \ {"Starting"} /\ state # "Open"
    BY DEF StreamState
<1>4. /\ stream' \in StreamType /\ stream'.state = state
      /\ Placed(stream', contents, requests, fetches, main_queue, worker_queue)
    BY <1>2, <1>3, NothingPlaced, Parts, ClosedStream
<1>5. events' \in 0 .. MaxEvents
    BY <1>1, NothingPlaced, CredentialBounds
<1>6. MainInv(auth', fetches', main_queue', contents')
    BY <1>1, NothingPlaced
<1>7. WorkerInv(contents', worker_queue', current_user')
    BY <1>1, Parts
<1> QED BY <1>1, <1>3, <1>4, <1>5, <1>6, <1>7, NothingPlaced, Assembled

\* SyncEngine takes the user; the stream that is open is not one for it.
LEMMA HandleCredentialChangeKept ==
    ASSUME CredInv, HandleCredentialChange
    PROVE  CredInv'
<1> DEFINE stopped == IF IsStarted THEN Closed("Initial") ELSE stream
<1>1. /\ worker_queue # << >> /\ Head(worker_queue).kind = "change"
      /\ worker_queue' = Tail(worker_queue) /\ current_user' = Head(worker_queue).user
      /\ UNCHANGED <<auth, fetches, main_queue, contents, events>>
      /\ Start(stopped) \/ (stream' = stopped /\ UNCHANGED requests)
    BY DEF HandleCredentialChange
<1>2. /\ WorkerInv(contents, worker_queue', current_user')
      /\ worker_queue' \in Seq(WorkerItem) /\ current_user' \in Users
    <2>1. Head(worker_queue) \in WorkerItem
        BY <1>1, NothingPlaced, TailRows, ElementOfSeq
    <2>2. current_user' \in Users
        BY <1>1, <2>1, Items
    <2> QED BY <1>1, <2>2, NothingPlaced, Parts, WorkerItemRun
<1>3. Placed(stream, contents, requests, fetches, main_queue, worker_queue')
    <2>1. Head(worker_queue).kind # "resume"
        BY <1>1
    <2>2. \A R \in SUBSET Request :
            SamePlaces(requests, fetches, main_queue, worker_queue,
                       requests, fetches, main_queue, worker_queue', R)
        BY <1>1, <2>1, NothingPlaced, OthersPass
    <2>3. contents.token_counter >= contents.token_counter
        BY Parts
    <2> QED BY <2>2, <2>3, NothingPlaced, Parts, PlacedKept
<1>4. /\ stopped \in StreamType /\ stopped.state # "Starting" /\ stopped.state # "Open"
      /\ Placed(stopped, contents, requests, fetches, main_queue, worker_queue')
    <2>1. CASE IsStarted
        <3>1. "Initial" \in StreamState \ {"Starting"} /\ stopped = Closed("Initial")
            BY <2>1 DEF StreamState
        <3> HIDE DEF stopped
        <3>2. /\ stopped \in StreamType /\ stopped.state = "Initial"
              /\ Placed(stopped, contents, requests, fetches, main_queue, worker_queue')
            BY <1>3, <3>1, NothingPlaced, ClosedStream
        <3> QED BY <3>2
    <2>2. CASE ~IsStarted
        BY <1>3, <2>2, NothingPlaced DEF IsStarted
    <2> QED BY <2>1, <2>2
<1> HIDE DEF stopped
<1>5. /\ Placed(stream', contents, requests', fetches, main_queue, worker_queue')
      /\ requests' \in Seq(Request) /\ stream' \in StreamType /\ stream'.state # "Open"
    <2>1. CASE Start(stopped)
        <3>1. /\ Placed(stream', contents, requests', fetches, main_queue, worker_queue')
              /\ requests' \in Seq(Request) /\ stream' \in StreamType
              /\ stream'.state = "Starting"
            BY <1>4, <2>1, StartMakesRequest
        <3> QED BY <3>1
    <2>2. CASE stream' = stopped /\ UNCHANGED requests
        BY <1>4, <2>2, NothingPlaced
    <2> QED BY <1>1, <2>1, <2>2
<1>6. MainInv(auth', fetches', main_queue', contents')
    BY <1>1, NothingPlaced
<1>7. WorkerInv(contents', worker_queue', current_user')
    BY <1>1, <1>2
<1> QED BY <1>1, <1>2, <1>5, <1>6, <1>7, NothingPlaced, Assembled

\* A token that is accepted is of the user SyncEngine has.
LEMMA ResumeStreamKept ==
    ASSUME CredInv, ResumeStream
    PROVE  CredInv'
<1> DEFINE h == Head(worker_queue)
           opened == [stream EXCEPT !.state = "Open", !.token = h.owner]
<1>1. /\ worker_queue # << >> /\ h.kind = "resume" /\ worker_queue' = Tail(worker_queue)
      /\ UNCHANGED <<auth, requests, fetches, main_queue, contents, current_user, events>>
      /\ h.request.close # stream.close_count => stream' = stream
      /\ h.request.close = stream.close_count =>
            stream' = IF h.ok THEN opened ELSE Closed("Error")
    BY DEF ResumeStream, ResumeStartWithCredentials
<1>2. /\ h \in WorkerItem /\ h \in Resume /\ h.owner \in Users
      /\ h.request.close \in Nat
    BY <1>1, NothingPlaced, TailRows, ElementOfSeq, Items
<1>3. /\ WorkerInv(contents, worker_queue', current_user)
      /\ worker_queue' \in Seq(WorkerItem) /\ (h.ok => h.owner = current_user)
    BY <1>1, NothingPlaced, Parts, WorkerItemRun
<1>4. /\ opened \in StreamType /\ opened.state = "Open" /\ opened.token = h.owner
      /\ opened.close_count = stream.close_count
    BY <1>2, NothingPlaced DEF StreamType, StreamState
<1> HIDE DEF opened
<1>5. CASE h.request.close # stream.close_count
    <2>1. stream' = stream /\ Placed(stream, contents, requests, fetches, main_queue, worker_queue')
        BY <1>1, <1>2, <1>5, NothingPlaced, Parts, PlacedResumed
    <2> QED BY <1>1, <1>3, <2>1, NothingPlaced, Parts, Assembled
<1>6. CASE h.request.close = stream.close_count
    <2>1. Placed(opened, contents, requests, fetches, main_queue, worker_queue')
        <3>1. opened.state # "Starting"
            BY <1>4
        <3> QED BY <1>1, <1>2, <1>4, <1>6, <3>1, NothingPlaced, Parts, PlacedResumed
    <2>2. CASE h.ok
        <3>1. /\ stream' \in StreamType /\ stream'.token = current_user
              /\ Placed(stream', contents, requests, fetches, main_queue, worker_queue')
            BY <1>1, <1>3, <1>4, <1>6, <2>1, <2>2
        <3> QED BY <1>1, <1>3, <3>1, NothingPlaced, Parts, Assembled
    <2>3. CASE ~h.ok
        <3>1. stream' = Closed("Error") /\ "Error" \in StreamState \ {"Starting"}
            BY <1>1, <1>6, <2>3 DEF StreamState
        <3>2. /\ stream' \in StreamType /\ stream'.state = "Error"
              /\ Placed(stream', contents, requests, fetches, main_queue, worker_queue')
            BY <1>4, <2>1, <3>1, ClosedStream
        <3> QED BY <1>1, <1>3, <3>2, NothingPlaced, Parts, Assembled
    <2> QED BY <2>2, <2>3
<1> QED BY <1>5, <1>6
-----------------------------------------------------------------------------
(* The invariant and the properties.                                        *)

LEMMA InitialState ==
    ASSUME NEW stored \in AuthUser, stored.object \in 0 .. MaxEvents,
           stored.object = 0 => stored.user = nobody, InitWith(stored)
    PROVE  CredInv
<1>1. /\ auth = stored /\ requests = << >> /\ fetches = << >> /\ worker_queue = << >>
      /\ main_queue = IF stored = Nil THEN << >> ELSE <<Posted(stored.user)>>
      /\ stream = [state |-> "Initial", close_count |-> 0, token |-> nobody]
      /\ events = stored.object
    BY DEF InitWith
<1>2. PICK user \in {nobody, stored.user} :
        /\ contents = [current_user |-> user, token_counter |-> 0]
        /\ current_user = user
    BY DEF InitWith
<1>3. user \in Users /\ stored.user \in Users
    BY NobodyAssumption DEF AuthUser
<1>4. CredTypeOK
    <2>1. main_queue \in Seq(Notification \cup Answer \cup Block)
        <3> DEFINE S == Notification \cup Answer \cup Block
                   x == Posted(stored.user)
        <3>1. x \in S
            BY <1>3 DEF Posted, Notification
        <3> HIDE DEF S, x
        <3>2. << >> \in Seq(S) /\ <<x>> \in Seq(S)
            BY <3>1
        <3>3. main_queue = << >> \/ main_queue = <<x>>
            BY <1>1 DEF x
        <3>4. main_queue \in Seq(S)
            BY <3>2, <3>3
        <3> QED BY <3>4 DEF S
    <2>2. stream \in [state : StreamState, close_count : Nat, token : Users]
        BY <1>1, NobodyAssumption DEF StreamState
    <2> QED BY <1>1, <1>2, <1>3, <2>1, <2>2 DEF CredTypeOK
<1>5. /\ DOMAIN requests = {} /\ DOMAIN fetches = {} /\ DOMAIN worker_queue = {}
      /\ Len(worker_queue) = 0
    BY <1>1
<1>6. \/ main_queue = << >> /\ stored.user = nobody
      \/ main_queue = <<Posted(stored.user)>>
    BY <1>1 DEF Nil
<1>7. \/ DOMAIN main_queue = {} /\ stored.user = nobody /\ Len(main_queue) = 0
      \/ /\ DOMAIN main_queue = {1} /\ Len(main_queue) = 1
         /\ main_queue[1].kind = "notification" /\ main_queue[1].user = stored.user
    BY <1>6 DEF Posted
<1>8. MainInv(auth, fetches, main_queue, contents)
    <2>1. Follows(main_queue, "notification", contents.current_user, auth.user)
        <3>1. CASE DOMAIN main_queue = {}
            BY <1>1, <1>2, <1>7, <3>1 DEF Follows, LastBefore
        <3>2. CASE DOMAIN main_queue # {}
            BY <1>1, <1>7, <3>2 DEF Follows, LastBefore
        <3> QED BY <3>1, <3>2
    <2>2. \A k \in DOMAIN main_queue : AnswerIsCurrent(main_queue[k], contents)
        BY <1>7 DEF AnswerIsCurrent
    <2> QED BY <1>5, <2>1, <2>2 DEF MainInv
<1>9. WorkerInv(contents, worker_queue, current_user)
    BY <1>2, <1>5 DEF WorkerInv, ResumesKnown, Follows, LastBefore
<1>10. ASSUME NEW R
       PROVE  /\ Nowhere(requests, fetches, main_queue, worker_queue, R)
              /\ OnePlace(requests, fetches, main_queue, worker_queue, R)
    <2>1. \A k \in DOMAIN main_queue : main_queue[k] \notin AnswersOf(R)
        BY <1>7 DEF AnswersOf, Answer
    <2>2. Nowhere(requests, fetches, main_queue, worker_queue, R)
        BY <1>5, <2>1 DEF Nowhere, Absent
    <2>3. R \in SUBSET R
        OBVIOUS
    <2> QED BY <2>2, <2>3, NothingThere
<1>11. StartInv
    <2>1. stream.state # "Starting"
        BY <1>1
    <2> QED BY <1>10, <2>1 DEF StartInv, Placed
<1>12. stream.state # "Open"
    BY <1>1
<1> QED BY <1>1, <1>4, <1>8, <1>9, <1>11, <1>12 DEF CredInv

LEMMA BackgroundKept ==
    ASSUME CredInv, Background
    PROVE  CredInv'
<1>1. ASSUME NEW k \in DOMAIN fetches, TokenCached(k) \/ TokenRefreshed(k) \/ TokenError(k)
      PROVE  CredInv'
    BY <1>1, TokenCachedKept, TokenRefreshedKept, TokenErrorKept
<1>2. CASE AutoTokenRefresh
    BY <1>2, AutoTokenRefreshKept
<1>3. CASE GetTokenForcingRefresh
    BY <1>3, GetTokenForcingRefreshKept
<1>4. CASE AuthStateDidChange
    BY <1>4, AuthStateDidChangeKept
<1>5. CASE TokenCallback
    BY <1>5, TokenCallbackKept
<1>6. CASE StartStream
    BY <1>6, StartStreamKept
<1>7. CASE StreamEnds
    BY <1>7, StreamEndsKept
<1>8. CASE HandleCredentialChange
    BY <1>8, HandleCredentialChangeKept
<1>9. CASE ResumeStream
    BY <1>9, ResumeStreamKept
<1> QED BY <1>1, <1>2, <1>3, <1>4, <1>5, <1>6, <1>7, <1>8, <1>9 DEF Background

LEMMA UnchangedKept ==
    ASSUME CredInv, UNCHANGED credVars
    PROVE  CredInv'
<1>1. UNCHANGED <<auth, requests, fetches, main_queue, contents, worker_queue,
                  current_user, stream, events>>
    BY DEF credVars
<1> QED BY <1>1, NothingPlaced, FrontKept

\* The tokens on the worker queue and the one of the open stream.
LEMMA TokensCurrent ==
    ASSUME CredInv
    PROVE  StreamTokenCurrent
BY Parts DEF StreamTokenCurrent, WorkerInv, ResumesKnown

LEMMA UsersFollow ==
    ASSUME CredInv
    PROVE  SyncFollowsAuth
<1>1. LastUser(main_queue, "notification", contents.current_user) = auth.user
    BY NothingPlaced, LastUserFollows DEF MainInv
<1>2. LastUser(worker_queue, "change", current_user) = contents.current_user
    BY NothingPlaced, Parts, LastUserFollows DEF WorkerInv
<1> QED BY <1>1, <1>2 DEF SyncFollowsAuth

LEMMA RequestsKnown ==
    ASSUME CredInv
    PROVE  StartHasRequest
<1> DEFINE W == Waited(stream)
<1>1. /\ requests \in Seq(Request) /\ fetches \in Seq(Fetch)
      /\ main_queue \in Seq(MainItem) /\ worker_queue \in Seq(WorkerItem)
      /\ stream.state = "Starting" <=>
            ~Nowhere(requests, fetches, main_queue, worker_queue, W)
    BY NothingPlaced, Parts DEF Placed
<1>2. \A r \in Request : r \in W <=> r.close = stream.close_count
    BY DEF Waited
<1> HIDE DEF W
<1>3. Absent(requests, W) <=> ~\E k \in DOMAIN requests : requests[k].close = stream.close_count
    <2>1. \A k \in DOMAIN requests : requests[k] \in Request
        BY <1>1, LenProperties, ElementOfSeq
    <2> QED BY <1>2, <2>1 DEF Absent
<1>4. Absent(fetches, FetchesOf(W)) <=>
        ~\E k \in DOMAIN fetches : fetches[k].request.close = stream.close_count
    <2>1. \A k \in DOMAIN fetches : fetches[k] \in Fetch /\ fetches[k].request \in Request
        BY <1>1, LenProperties, ElementOfSeq, Items
    <2> QED BY <1>2, <2>1 DEF Absent, FetchesOf
<1>5. Absent(main_queue, AnswersOf(W)) <=>
        ~\E k \in DOMAIN main_queue : /\ main_queue[k].kind = "answer"
                                      /\ main_queue[k].request.close = stream.close_count
    <2>1. \A k \in DOMAIN main_queue : main_queue[k] \in MainItem
        BY <1>1, LenProperties, ElementOfSeq
    <2>2. \A k \in DOMAIN main_queue : main_queue[k].kind = "answer" =>
            main_queue[k] \in Answer /\ main_queue[k].request \in Request
        BY <2>1, Items
    <2>3. \A x \in Answer : x.kind = "answer"
        BY DEF Answer
    <2> QED BY <1>2, <2>2, <2>3 DEF Absent, AnswersOf
<1>6. Absent(worker_queue, ResumesOf(W)) <=>
        ~\E k \in DOMAIN worker_queue : /\ worker_queue[k].kind = "resume"
                                        /\ worker_queue[k].request.close = stream.close_count
    <2>1. \A k \in DOMAIN worker_queue : worker_queue[k] \in WorkerItem
        BY <1>1, LenProperties, ElementOfSeq
    <2>2. \A k \in DOMAIN worker_queue : worker_queue[k].kind = "resume" =>
            worker_queue[k] \in Resume /\ worker_queue[k].request \in Request
        BY <2>1, Items
    <2>3. \A x \in Resume : x.kind = "resume"
        BY DEF Resume
    <2> QED BY <1>2, <2>2, <2>3 DEF Absent, ResumesOf
<1> QED BY <1>1, <1>3, <1>4, <1>5, <1>6 DEF StartHasRequest, Nowhere
LEMMA InitialInvariant ==
    ASSUME Init
    PROVE  CredInv
<1>1. PICK stored \in Stored : InitWith(stored)
    BY DEF Init
<1>2. Nil \in AuthUser /\ Nil.object = 0 /\ Nil.user = nobody
    BY NobodyAssumption DEF Nil, AuthUser
<1>3. 0 \in 0 .. MaxEvents /\ 1 \in 0 .. MaxEvents
    BY CredentialBounds
<1>4. /\ stored \in AuthUser /\ stored.object \in 0 .. MaxEvents
      /\ stored.object = 0 => stored.user = nobody
    BY <1>2, <1>3 DEF Stored, AuthUser
<1> QED BY <1>1, <1>4, InitialState

LEMMA NextKept ==
    ASSUME CredInv, [Next]_credVars
    PROVE  CredInv'
<1>1. ASSUME NEW user \in Users \ {nobody}, SignIn(user)
      PROVE  CredInv'
    BY <1>1, SignInKept
<1>2. CASE SignOut
    BY <1>2, SignOutKept
<1>3. CASE RunBlock
    BY <1>3, RunBlockKept
<1>4. CASE Background
    BY <1>4, BackgroundKept
<1>5. CASE UNCHANGED credVars
    BY <1>5, UnchangedKept
<1> QED BY <1>1, <1>2, <1>3, <1>4, <1>5 DEF Next

LEMMA Invariance == Spec => []CredInv
<1>1. Init => CredInv
    BY InitialInvariant
<1>2. CredInv /\ [Next]_credVars => CredInv'
    BY NextKept
<1> QED BY <1>1, <1>2, PTL DEF Spec

\* An open stream has a token of SyncEngine's user, and each token on its way to
\* the stream has the tag of the account it is of, although Auth, the provider
\* and the stream work on three queues (FirebaseCredentialsProvider::GetToken,
\* SyncEngine::HandleCredentialChange, Stream::ResumeStartWithCredentials).
THEOREM TokenCurrent == Spec => []StreamTokenCurrent
<1>1. CredInv => StreamTokenCurrent
    BY TokensCurrent
<1> QED BY <1>1, Invariance, PTL

\* With the changes that are under way, the provider knows whom Auth has signed
\* in and SyncEngine knows whom the provider knows: no notification of
\* updateCurrentUser is lost, and none overtakes another.
THEOREM ChangesArrive == Spec => []SyncFollowsAuth
<1>1. CredInv => SyncFollowsAuth
    BY UsersFollow
<1> QED BY <1>1, Invariance, PTL

\* A stream is starting exactly as long as its own request for a token, not that
\* of an earlier start (close_count_), is on one of the three queues.
THEOREM StartIsServed == Spec => []StartHasRequest
<1>1. CredInv => StartHasRequest
    BY RequestsKnown
<1> QED BY <1>1, Invariance, PTL
=============================================================================
