------------------------ MODULE CorrespondenceProofs ------------------------
(***************************************************************************)
(* Proofs about Correspondence, for every set of users and gifts and every *)
(* bound.                                                                  *)
(***************************************************************************)
EXTENDS Correspondence, SequenceTheorems, TLAPS

-----------------------------------------------------------------------------
(***************************************************************************)
(* Facts about the records and about sequences of writes.                  *)
(***************************************************************************)
LEMMA ConstantFacts ==
    /\ \A g \in Gifts : g \in Nat
    /\ \A g \in Gifts \cup {0} : g \in Nat
    /\ MaxPosts \in Nat /\ MaxOpens \in Nat /\ MaxTaps \in Nat /\ MaxTransfers \in Nat
    /\ MaxFaults \in Nat
BY GiftAssumption, BoundAssumption

LEMMA WriteRecord ==
    ASSUME NEW u \in Users, NEW id \in Ids, NEW n \in 0 .. MaxOpens,
           NEW op \in {"read", "resetRecipient", "resetSender", "transfer", "delete"}
    PROVE  LET w == [op |-> op, id |-> id, to |-> u, no |-> n]
           IN  w \in Write /\ w.op = op /\ w.id = id
BY DEF Write

LEMMA PlainWrite ==
    ASSUME NEW u \in Users, NEW id \in Ids,
           NEW op \in {"read", "resetRecipient", "resetSender", "transfer", "delete"}
    PROVE  W(u, op, id) \in Write /\ W(u, op, id).op = op /\ W(u, op, id).id = id
<1>1. 0 \in 0 .. MaxOpens
      BY ConstantFacts
<1> QED
    BY <1>1, WriteRecord, ZenonT(40) DEF W

LEMMA ScreenRecord ==
    ASSUME NEW id \in Ids, NEW path \in {"inbox", "outbox"}, NEW g \in Gifts \cup {0},
           NEW b \in BOOLEAN, NEW c \in {"recipient", "sender"}, NEW a \in Nat,
           NEW n \in 1 .. MaxOpens
    PROVE  [id |-> id, via |-> path, numStampsGiven |-> g, claimEnabled |-> b,
            unread |-> c, atOpen |-> a, no |-> n] \in Screen
BY DEF Screen

LEMMA ScreenFields ==
    ASSUME NEW s \in Screen
    PROVE  /\ s.id \in Ids /\ s.via \in {"inbox", "outbox"}
           /\ s.numStampsGiven \in Gifts \cup {0} /\ s.unread \in {"recipient", "sender"}
           /\ s.atOpen \in Nat /\ s.no \in 1 .. MaxOpens /\ s.no \in 0 .. MaxOpens
<1>1. \A n \in 1 .. MaxOpens : n \in 0 .. MaxOpens
      BY ConstantFacts
<1> QED
    BY <1>1 DEF Screen

LEMMA TxnRecord ==
    ASSUME NEW ty \in {"reply", "claim"}, NEW id \in Ids, NEW c \in {"recipient", "sender"},
           NEW g \in Gifts \cup {0}, NEW n \in 1 .. MaxOpens, NEW k \in 1 .. MaxTaps
    PROVE  LET t == [type |-> ty, id |-> id, unread |-> c, amount |-> g, no |-> n,
                     tap |-> k]
           IN  t \in Txn /\ t.type = ty /\ t.id = id /\ t.unread = c /\ t.amount = g
BY DEF Txn

\* w is an element of the sequence q, and of which sequences it then is one.
In(w, q) == \E i \in 1 .. Len(q) : q[i] = w

LEMMA InConcat ==
    ASSUME NEW s \in Seq(Write), NEW t \in Seq(Write), NEW w
    PROVE  s \o t \in Seq(Write) /\ (In(w, s \o t) <=> In(w, s) \/ In(w, t))
<1>1. /\ s \o t \in Seq(Write) /\ Len(s \o t) = Len(s) + Len(t)
      /\ \A i \in 1 .. Len(s) + Len(t) :
            (s \o t)[i] = IF i <= Len(s) THEN s[i] ELSE t[i - Len(s)]
      BY ConcatProperties
<1>2. Len(s) \in Nat /\ Len(t) \in Nat
      BY LenProperties
<1>3. \A i \in 1 .. Len(s) + Len(t) : \/ i \in 1 .. Len(s) /\ i <= Len(s)
                                      \/ ~(i <= Len(s)) /\ i - Len(s) \in 1 .. Len(t)
      BY <1>2
<1>4. \A j \in 1 .. Len(s) : j \in 1 .. Len(s) + Len(t) /\ j <= Len(s)
      BY <1>2
<1>5. \A j \in 1 .. Len(t) : /\ j + Len(s) \in 1 .. Len(s) + Len(t)
                             /\ ~(j + Len(s) <= Len(s)) /\ (j + Len(s)) - Len(s) = j
      BY <1>2
<1>6. In(w, s \o t) => In(w, s) \/ In(w, t)
      BY <1>1, <1>3 DEF In
<1>7. In(w, s) => In(w, s \o t)
      BY <1>1, <1>4 DEF In
<1>8. In(w, t) => In(w, s \o t)
      BY <1>1, <1>5 DEF In
<1> QED
    BY <1>1, <1>6, <1>7, <1>8

LEMMA InAppend ==
    ASSUME NEW s \in Seq(Write), NEW x \in Write, NEW w
    PROVE  Append(s, x) \in Seq(Write) /\ (In(w, Append(s, x)) <=> In(w, s) \/ w = x)
<1>1. /\ Append(s, x) \in Seq(Write) /\ Len(Append(s, x)) = Len(s) + 1
      /\ \A i \in 1 .. Len(s) : Append(s, x)[i] = s[i]
      /\ Append(s, x)[Len(s) + 1] = x
      BY AppendProperties
<1>2. Len(s) \in Nat
      BY LenProperties
<1>3. /\ \A i \in 1 .. Len(s) + 1 : i \in 1 .. Len(s) \/ i = Len(s) + 1
      /\ \A i \in 1 .. Len(s) : i \in 1 .. Len(s) + 1
      /\ Len(s) + 1 \in 1 .. Len(s) + 1
      BY <1>2
<1> QED
    BY <1>1, <1>3 DEF In

LEMMA InTail ==
    ASSUME NEW s \in Seq(Write), s # << >>, NEW w
    PROVE  /\ Head(s) \in Write /\ Tail(s) \in Seq(Write)
           /\ In(w, s) <=> w = Head(s) \/ In(w, Tail(s))
<1>1. /\ Head(s) \in Write /\ Tail(s) \in Seq(Write)
      /\ Head(s) = s[1] /\ Len(Tail(s)) = Len(s) - 1
      /\ \A i \in 1 .. Len(Tail(s)) : Tail(s)[i] = s[i + 1]
      BY HeadTailProperties
<1>2. Len(s) \in Nat /\ Len(s) # 0
      BY LenProperties, EmptySeq
<1>3. /\ \A i \in 1 .. Len(s) - 1 : i + 1 \in 1 .. Len(s)
      /\ \A j \in 1 .. Len(s) :
            j = 1 \/ (j - 1 \in 1 .. Len(s) - 1 /\ (j - 1) + 1 = j)
      /\ 1 \in 1 .. Len(s)
      BY <1>2
<1>4. In(w, s) => w = Head(s) \/ In(w, Tail(s))
    <2> SUFFICES ASSUME NEW j \in 1 .. Len(s), s[j] = w, j # 1 PROVE In(w, Tail(s))
        BY <1>1 DEF In
    <2>1. j - 1 \in 1 .. Len(Tail(s)) /\ (j - 1) + 1 = j
          BY <1>1, <1>3
    <2> QED
        BY <1>1, <2>1 DEF In
<1>5. In(w, Tail(s)) => In(w, s)
      BY <1>1, <1>3 DEF In
<1>6. In(Head(s), s)
      BY <1>1, <1>3 DEF In
<1> QED
    BY <1>1, <1>4, <1>5, <1>6

LEMMA InSeq ==
    ASSUME NEW s \in Seq(Write), NEW w, In(w, s)
    PROVE  w \in Write
BY ElementOfSeq DEF In

-----------------------------------------------------------------------------
(***************************************************************************)
(* What the pieces of the actions add to the write queue.                  *)
(***************************************************************************)
LEMMA SentIds ==
    ASSUME HistoryType
    PROVE  Len(letter) \in Nat /\ Sent \subseteq Ids
<1>1. Len(letter) \in Nat /\ Len(letter) <= MaxPosts /\ MaxPosts \in Nat
      BY LenProperties, ConstantFacts DEF HistoryType
<1> QED
    BY <1>1 DEF Sent, Ids

LEMMA SentIdsNext ==
    ASSUME HistoryType'
    PROVE  Sent' \subseteq Ids
<1>1. Len(letter') \in Nat /\ Len(letter') <= MaxPosts /\ MaxPosts \in Nat
      BY LenProperties, ConstantFacts DEF HistoryType
<1> QED
    BY <1>1 DEF Sent, Ids

LEMMA MovedWrites ==
    ASSUME NEW u \in Users, NEW id \in Ids
    PROVE  /\ Moved(u, id) \in Seq(Write)
           /\ \A w : In(w, Moved(u, id)) =>
                 w \in Write /\ w.id = id /\ w.op = ResetOp(u, id)
           /\ ResetOp(u, id) \in {"resetRecipient", "resetSender"}
           /\ letter[id].ongoing => In(W(u, ResetOp(u, id), id), Moved(u, id))
<1>1. ResetOp(u, id) \in {"resetRecipient", "resetSender"}
      BY DEF ResetOp
<1>2. /\ W(u, ResetOp(u, id), id) \in Write
      /\ W(u, ResetOp(u, id), id).op = ResetOp(u, id) /\ W(u, ResetOp(u, id), id).id = id
      BY <1>1, PlainWrite
<1> QED
    BY <1>1, <1>2 DEF Moved, In

LEMMA MarkReadWrites ==
    ASSUME NEW u \in Users, NEW id \in Ids
    PROVE  /\ MarkRead(u, id) \in Seq(Write)
           /\ \A w : In(w, MarkRead(u, id)) =>
                 w \in Write /\ w.id = id /\ w.op = "read"
<1>1. /\ W(u, "read", id) \in Write
      /\ W(u, "read", id).op = "read" /\ W(u, "read", id).id = id
      BY PlainWrite
<1> QED
    BY <1>1 DEF MarkRead, In

\* An open screen's fields.
LEMMA OpenScreen ==
    ASSUME DeviceType, NEW u \in Users, screen[u] # None
    PROVE  /\ screen[u] \in Screen /\ screen[u].id \in Ids
           /\ screen[u].via \in {"inbox", "outbox"}
           /\ screen[u].numStampsGiven \in Gifts \cup {0}
           /\ screen[u].unread \in {"recipient", "sender"}
           /\ screen[u].atOpen \in Nat /\ screen[u].no \in 1 .. MaxOpens
           /\ screen[u].no \in 0 .. MaxOpens
<1>1. screen[u] \in Screen
      BY DEF DeviceType
<1> QED
    BY <1>1, ScreenFields

LEMMA OpenedType ==
    ASSUME TypeOK, NEW u \in Users, NEW id \in Ids, NEW path \in {"inbox", "outbox"},
           NEW g \in Gifts \cup {0}, Opened(u, id, path, g)
    PROVE  /\ screen' \in [Users -> Screen \cup {None}]
           /\ opened' \in [Ids -> SUBSET [user : Users, via : {"inbox", "outbox"}]]
           /\ anonymous' \subseteq Ids /\ opens' \in 0 .. MaxOpens
<1>1. opens + 1 \in 1 .. MaxOpens /\ opens' \in 0 .. MaxOpens
      BY ConstantFacts DEF TypeOK, HistoryType, Opened
<1>2. RepliesTo(path, id) \in Nat
      BY DEF RepliesTo, TypeOK, ServerType
<1>3. UnreadReplyConstant(u, id) \in {"recipient", "sender"}
      BY DEF UnreadReplyConstant
<1>4. [id |-> id, via |-> path, numStampsGiven |-> g, claimEnabled |-> TRUE,
       unread |-> UnreadReplyConstant(u, id), atOpen |-> RepliesTo(path, id),
       no |-> opens + 1] \in Screen
      BY <1>1, <1>2, <1>3, ScreenRecord
<1>5. screen' \in [Users -> Screen \cup {None}]
      BY <1>4 DEF TypeOK, DeviceType, Opened
<1>6. [user |-> u, via |-> path] \in [user : Users, via : {"inbox", "outbox"}]
      OBVIOUS
<1>7. opened' \in [Ids -> SUBSET [user : Users, via : {"inbox", "outbox"}]]
      BY <1>6 DEF TypeOK, HistoryType, Opened
<1>8. anonymous' \subseteq Ids
      BY DEF TypeOK, HistoryType, Opened
<1> QED
    BY <1>1, <1>5, <1>7, <1>8

-----------------------------------------------------------------------------
(***************************************************************************)
(* Type correctness.                                                       *)
(***************************************************************************)
LEMMA TypeInit == Init => TypeOK
<1> SUFFICES ASSUME Init PROVE TypeOK
    OBVIOUS
<1>1. ServerType
      BY DEF Init, ServerType
<1>2. DeviceType
      BY DEF Init, DeviceType
<1>3. HistoryType
      BY ConstantFacts DEF Init, HistoryType
<1> QED
    BY <1>1, <1>2, <1>3 DEF TypeOK

\* What the server does to a document keeps its type.
LEMMA UpdatedType ==
    ASSUME NEW p \in PostDoc, NEW w \in Write
    PROVE  Updated(p, w) \in PostDoc \cup {None}
<1>1. w.op \in {"read", "resetRecipient", "resetSender", "transfer", "delete"}
      /\ w.to \in Users
      BY DEF Write
<1>2. CASE w.op = "read"
      BY <1>2 DEF Updated, PostDoc
<1>3. CASE w.op = "resetRecipient"
      BY <1>3 DEF Updated, PostDoc
<1>4. CASE w.op = "resetSender"
      BY <1>4 DEF Updated, PostDoc
<1>5. CASE w.op = "transfer"
      BY <1>1, <1>5 DEF Updated, PostDoc
<1>6. CASE w.op = "delete"
      BY <1>6 DEF Updated
<1> QED
    BY <1>1, <1>2, <1>3, <1>4, <1>5, <1>6

LEMMA IncrementedType ==
    ASSUME NEW p \in PostDoc, NEW c \in {"recipient", "sender"}
    PROVE  Incremented(p, c) \in PostDoc
BY DEF Incremented, PostDoc

\* A transaction is over, or a fault is left for its answer to be lost.
LEMMA AnsweredType ==
    ASSUME TypeOK, NEW u \in Users, NEW t, Answered(u, t)
    PROVE  txns' \in [Users -> SUBSET Txn] /\ faults' \in 0 .. MaxFaults
<1>1. txns \in [Users -> SUBSET Txn] /\ faults \in 0 .. MaxFaults
      BY DEF TypeOK, DeviceType, HistoryType
<1> QED
    BY <1>1, ConstantFacts DEF Answered

LEMMA TypeStep == TypeOK /\ [Next]_vars => TypeOK'
<1> SUFFICES ASSUME TypeOK, [Next]_vars PROVE TypeOK'
    OBVIOUS
<1>1. CASE UNCHANGED vars
      BY <1>1 DEF vars, deviceVars, TypeOK, ServerType, DeviceType, HistoryType
<1>2. ASSUME NEW u \in Users, NEW to \in Users, NEW b \in BOOLEAN, NEW g \in Gifts,
             PostSent(u, to, b, g)
      PROVE  TypeOK'
    <2> DEFINE id == Len(letter) + 1
    <2>1. id \in Ids
          BY <1>2, SentIds, ConstantFacts DEF PostSent, Ids, TypeOK
    <2>2. NewDoc(to, g) \in PostDoc
          BY DEF NewDoc, PostDoc
    <2>3. ServerType'
          BY <1>2, <2>1, <2>2 DEF PostSent, TypeOK, ServerType
    <2>4. [from |-> u, ongoing |-> b, gift |-> g] \in Letter
          BY DEF Letter
    <2>5. letter' \in Seq(Letter) /\ Len(letter') <= MaxPosts
          BY <1>2, <2>4, SentIds, AppendProperties DEF PostSent, TypeOK, HistoryType
    <2>6. HistoryType'
          BY <1>2, <2>5 DEF PostSent, TypeOK, HistoryType
    <2>7. DeviceType'
          BY <1>2 DEF PostSent, deviceVars, TypeOK, DeviceType
    <2> QED
        BY <2>3, <2>6, <2>7 DEF TypeOK
<1>3. ASSUME NEW u \in Users, UserKnown(u)
      PROVE  TypeOK'
      BY <1>3 DEF UserKnown, TypeOK, ServerType, DeviceType, HistoryType
<1>4. ASSUME NEW u \in Users, InboxSnapshot(u)
      PROVE  TypeOK'
    <2> DEFINE row(id) == [didRead |-> doc[id].didRead \/ Pending(u, id, "read"),
                           numStampsGiven |-> doc[id].numStampsGiven]
    <2>1. \A id \in Ids : doc[id] # None => row(id) \in Row
        <3> SUFFICES ASSUME NEW id \in Ids, doc[id] # None PROVE row(id) \in Row
            OBVIOUS
        <3>1. doc[id].numStampsGiven \in Gifts \cup {0}
              BY DEF TypeOK, ServerType, PostDoc
        <3>2. (doc[id].didRead \/ Pending(u, id, "read")) \in BOOLEAN
              OBVIOUS
        <3> QED
            BY <3>1, <3>2 DEF Row
    <2>2. \A id \in Ids : Exists(u, id) => doc[id] # None
          BY DEF Exists
    <2> HIDE DEF row
    <2>3. inbox' = [inbox EXCEPT ![u] =
              [id \in Ids |-> IF Exists(u, id) /\ AddressedTo(u, id)
                                THEN row(id) ELSE None]]
          BY <1>4 DEF InboxSnapshot, row
    <2>4. inbox' \in [Users -> [Ids -> Row \cup {None}]]
          BY <2>1, <2>2, <2>3 DEF TypeOK, DeviceType
    <2> QED
        BY <1>4, <2>4 DEF InboxSnapshot, TypeOK, ServerType, DeviceType, HistoryType
<1>5. ASSUME NEW u \in Users, OutboxSnapshot(u)
      PROVE  TypeOK'
    <2>1. {id \in 1 .. Len(letter) : letter[id].from = u /\ Exists(u, id)} \subseteq Ids
          BY SentIds DEF TypeOK, Sent
    <2> QED
        BY <1>5, <2>1 DEF OutboxSnapshot, TypeOK, ServerType, DeviceType, HistoryType
<1>6. ASSUME NEW u \in Users, NEW id \in Ids, DetailsOpened(u, id)
      PROVE  TypeOK'
    <2>1. inbox[u][id].numStampsGiven \in Gifts \cup {0}
          BY <1>6 DEF DetailsOpened, TypeOK, DeviceType, Row
    <2>2. Opened(u, id, "inbox", inbox[u][id].numStampsGiven)
          BY <1>6 DEF DetailsOpened
    <2>3. /\ screen' \in [Users -> Screen \cup {None}]
          /\ opened' \in [Ids -> SUBSET [user : Users, via : {"inbox", "outbox"}]]
          /\ anonymous' \subseteq Ids /\ opens' \in 0 .. MaxOpens
          BY <2>1, <2>2, OpenedType
    <2>4. queue[u] \o MarkRead(u, id) \o Moved(u, id) \in Seq(Write)
          BY MovedWrites, MarkReadWrites, InConcat DEF TypeOK, DeviceType
    <2>5. queue' \in [Users -> Seq(Write)]
          BY <1>6, <2>4 DEF DetailsOpened, TypeOK, DeviceType
    <2> QED
        BY <1>6, <2>3, <2>5 DEF DetailsOpened, TypeOK, ServerType, DeviceType, HistoryType
<1>7. ASSUME NEW u \in Users, NEW id \in Ids, RowExpanded(u, id)
      PROVE  TypeOK'
    <2> DEFINE rest == IF screen[u] = None THEN << >> ELSE Moved(u, screen[u].id)
    <2>1. Opened(u, id, "outbox", 0)
          BY <1>7 DEF RowExpanded
    <2>2. /\ screen' \in [Users -> Screen \cup {None}]
          /\ opened' \in [Ids -> SUBSET [user : Users, via : {"inbox", "outbox"}]]
          /\ anonymous' \subseteq Ids /\ opens' \in 0 .. MaxOpens
          BY <2>1, OpenedType
    <2>3. rest \in Seq(Write)
          BY MovedWrites, OpenScreen DEF TypeOK
    <2>4. queue[u] \o Moved(u, id) \o rest \in Seq(Write)
          BY <2>3, MovedWrites, InConcat DEF TypeOK, DeviceType
    <2>5. queue' \in [Users -> Seq(Write)]
          BY <1>7, <2>4 DEF RowExpanded, TypeOK, DeviceType
    <2> QED
        BY <1>7, <2>2, <2>5 DEF RowExpanded, TypeOK, ServerType, DeviceType, HistoryType
<1>8. ASSUME NEW u \in Users, RowCollapsed(u)
      PROVE  TypeOK'
    <2>1. queue[u] \o Moved(u, screen[u].id) \in Seq(Write)
          BY <1>8, OpenScreen, MovedWrites, InConcat
          DEF RowCollapsed, TypeOK, DeviceType
    <2>2. queue' \in [Users -> Seq(Write)] /\ screen' \in [Users -> Screen \cup {None}]
          BY <1>8, <2>1 DEF RowCollapsed, TypeOK, DeviceType
    <2> QED
        BY <1>8, <2>2 DEF RowCollapsed, TypeOK, ServerType, DeviceType, HistoryType
<1>9. ASSUME NEW u \in Users, DetailsClosed(u)
      PROVE  TypeOK'
      BY <1>9 DEF DetailsClosed, TypeOK, ServerType, DeviceType, HistoryType
<1>10. ASSUME NEW u \in Users, SendBtnTapped(u) \/ ClaimTapped(u)
       PROVE  TypeOK'
    <2>1. taps + 1 \in 1 .. MaxTaps /\ taps' \in 0 .. MaxTaps
          BY <1>10, ConstantFacts DEF SendBtnTapped, ClaimTapped, TypeOK, HistoryType
    <2>2. ClaimAmount(u) \in Gifts \cup {0} /\ screen[u].id \in Ids
          /\ screen[u].unread \in {"recipient", "sender"} /\ screen[u].no \in 1 .. MaxOpens
          BY <1>10, OpenScreen DEF SendBtnTapped, ClaimTapped, ClaimAmount, TypeOK
    <2> DEFINE t1 == [type |-> "reply", id |-> screen[u].id, unread |-> screen[u].unread,
                      amount |-> 0, no |-> screen[u].no, tap |-> taps + 1]
               t2 == [type |-> "claim", id |-> screen[u].id, unread |-> screen[u].unread,
                      amount |-> ClaimAmount(u), no |-> screen[u].no, tap |-> taps + 1]
    <2>a. t1 \in Txn /\ t2 \in Txn
          BY <2>1, <2>2, TxnRecord
    <2>b. \/ txns' = [txns EXCEPT ![u] = @ \cup {t1}]
          \/ txns' = [txns EXCEPT ![u] = @ \cup {t2}]
          BY <1>10 DEF SendBtnTapped, ClaimTapped
    <2> HIDE DEF t1, t2
    <2>3. PICK t \in Txn : txns' = [txns EXCEPT ![u] = @ \cup {t}]
          BY <2>a, <2>b
    <2>4. txns' \in [Users -> SUBSET Txn]
          BY <2>3 DEF TypeOK, DeviceType
    <2> QED
        BY <1>10, <2>1, <2>4
        DEF SendBtnTapped, ClaimTapped, TypeOK, ServerType, DeviceType, HistoryType
<1>11. ASSUME NEW u \in Users, NEW to \in Users, TransferChosen(u, to)
       PROVE  TypeOK'
    <2>1. 0 \in 0 .. MaxOpens /\ transfers' \in 0 .. MaxTransfers
          BY <1>11, ConstantFacts DEF TransferChosen, TypeOK, HistoryType
    <2>2. PICK w \in Write : queue' = [queue EXCEPT ![u] = Append(@, w)]
          BY <1>11, <2>1, OpenScreen, WriteRecord DEF TransferChosen, TypeOK
    <2>3. queue' \in [Users -> Seq(Write)] /\ screen' \in [Users -> Screen \cup {None}]
          BY <1>11, <2>2, InAppend DEF TransferChosen, TypeOK, DeviceType
    <2> QED
        BY <1>11, <2>1, <2>3 DEF TransferChosen, TypeOK, ServerType, DeviceType, HistoryType
<1>12. ASSUME NEW u \in Users, DeleteTapped(u)
       PROVE  TypeOK'
    <2>1. PICK w \in Write : queue' = [queue EXCEPT ![u] = Append(@, w)]
          BY <1>12, OpenScreen, WriteRecord DEF DeleteTapped, TypeOK
    <2>2. queue' \in [Users -> Seq(Write)]
          BY <2>1, InAppend DEF TypeOK, DeviceType
    <2> QED
        BY <1>12, <2>2 DEF DeleteTapped, TypeOK, ServerType, DeviceType, HistoryType
<1>13. ASSUME NEW u \in Users, NEW id \in Ids,
              InboxRowDeleted(u, id) \/ OutboxRowDeleted(u, id)
       PROVE  TypeOK'
    <2>1. W(u, "delete", id) \in Write
          BY PlainWrite
    <2>a. Append(queue[u], W(u, "delete", id)) \in Seq(Write)
          BY <2>1, InAppend DEF TypeOK, DeviceType
    <2>b. queue' = [queue EXCEPT ![u] = Append(@, W(u, "delete", id))]
          BY <1>13 DEF InboxRowDeleted, OutboxRowDeleted
    <2>2. queue' \in [Users -> Seq(Write)]
          BY <2>a, <2>b DEF TypeOK, DeviceType
    <2>3. CASE InboxRowDeleted(u, id)
        <3>1. inbox' \in [Users -> [Ids -> Row \cup {None}]]
              BY <2>3 DEF InboxRowDeleted, TypeOK, DeviceType
        <3> QED
            BY <2>3, <3>1, <2>2
            DEF InboxRowDeleted, TypeOK, ServerType, DeviceType, HistoryType
    <2>4. CASE OutboxRowDeleted(u, id)
        <3>1. outbox' \in [Users -> SUBSET Ids] /\ screen' \in [Users -> Screen \cup {None}]
              BY <2>4 DEF OutboxRowDeleted, TypeOK, DeviceType
        <3> QED
            BY <2>4, <3>1, <2>2
            DEF OutboxRowDeleted, TypeOK, ServerType, DeviceType, HistoryType
    <2> QED
        BY <1>13, <2>3, <2>4
<1>14. ASSUME NEW u \in Users, WriteApplied(u)
       PROVE  TypeOK'
    <2> DEFINE w == Head(queue[u])
    <2>1. w \in Write /\ Tail(queue[u]) \in Seq(Write)
          BY <1>14, InTail DEF WriteApplied, TypeOK, DeviceType
    <2>2. w.id \in Ids
          BY <2>1 DEF Write
    <2> HIDE DEF w
    <2>3. doc[w.id] # None => Updated(doc[w.id], w) \in PostDoc \cup {None}
          BY <2>1, <2>2, UpdatedType DEF TypeOK, ServerType
    <2>4. doc' = [doc EXCEPT ![w.id] = IF @ = None THEN None ELSE Updated(@, w)]
          BY <1>14 DEF WriteApplied, w
    <2>5. doc' \in [Ids -> PostDoc \cup {None}]
          BY <2>2, <2>3, <2>4 DEF TypeOK, ServerType
    <2>6. queue' \in [Users -> Seq(Write)] /\ screen' \in [Users -> Screen \cup {None}]
          BY <1>14, <2>1 DEF WriteApplied, TypeOK, DeviceType
    <2> QED
        BY <1>14, <2>5, <2>6 DEF WriteApplied, TypeOK, ServerType, DeviceType, HistoryType
<1>15. ASSUME NEW u \in Users, ReplyCommitted(u)
       PROVE  TypeOK'
    <2>1. PICK t \in txns[u] :
             /\ t.type = "reply" /\ doc[t.id] # None
             /\ replies' = IF u = letter[t.id].from
                             THEN [replies EXCEPT ![t.id].sender = @ + 1]
                             ELSE [replies EXCEPT ![t.id].others = @ + 1]
             /\ \E c \in CounterRead(u, t) : doc' = [doc EXCEPT ![t.id] = Incremented(@, c)]
             /\ Answered(u, t)
             /\ UNCHANGED <<queue, currentUser, inbox, outbox, screen, letter, claimed,
                            opened, anonymous, opens, taps, transfers>>
          BY <1>15 DEF ReplyCommitted
    <2>a. PICK c \in CounterRead(u, t) : doc' = [doc EXCEPT ![t.id] = Incremented(@, c)]
          BY <2>1
    <2>2. t \in Txn /\ t.id \in Ids /\ t.unread \in {"recipient", "sender"}
          BY DEF TypeOK, DeviceType, Txn
    <2>b. c \in {"recipient", "sender"}
          BY <2>2 DEF CounterRead, UnreadReplyConstant
    <2>3. doc' \in [Ids -> PostDoc \cup {None}]
          BY <2>1, <2>2, <2>a, <2>b, IncrementedType DEF TypeOK, ServerType
    <2>4. replies' \in [Ids -> [sender : Nat, others : Nat]]
          BY <2>1, <2>2 DEF TypeOK, ServerType
    <2>5. txns' \in [Users -> SUBSET Txn] /\ faults' \in 0 .. MaxFaults
          BY <2>1, AnsweredType
    <2> QED
        BY <2>1, <2>3, <2>4, <2>5 DEF TypeOK, ServerType, DeviceType, HistoryType
<1>16. ASSUME NEW u \in Users, ClaimCommitted(u)
       PROVE  TypeOK'
    <2>1. PICK t \in txns[u] :
             /\ t.type = "claim" /\ doc[t.id] # None
             /\ doc' = [doc EXCEPT ![t.id].numStampsGiven = 0]
             /\ claimed' = [claimed EXCEPT ![t.id] = @ + t.amount]
             /\ Answered(u, t)
             /\ \/ screen' = [screen EXCEPT ![u].claimEnabled = FALSE] /\ screen[u] # None
                \/ screen' = screen
             /\ UNCHANGED <<replies, queue, currentUser, inbox, outbox, letter, opened,
                            anonymous, opens, taps, transfers>>
          BY <1>16 DEF ClaimCommitted
    <2>2. t \in Txn /\ t.id \in Ids /\ t.amount \in Nat
          BY ConstantFacts DEF TypeOK, DeviceType, Txn
    <2>3. doc[t.id] \in PostDoc /\ [doc[t.id] EXCEPT !.numStampsGiven = 0] \in PostDoc
          BY <2>1, <2>2 DEF TypeOK, ServerType, PostDoc
    <2>4. doc' \in [Ids -> PostDoc \cup {None}]
          BY <2>1, <2>2, <2>3 DEF TypeOK, ServerType
    <2>5. claimed' \in [Ids -> Nat]
          BY <2>1, <2>2 DEF TypeOK, HistoryType
    <2>a. txns' \in [Users -> SUBSET Txn] /\ faults' \in 0 .. MaxFaults
          BY <2>1, AnsweredType
    <2>6. screen[u] # None => [screen[u] EXCEPT !.claimEnabled = FALSE] \in Screen
          BY DEF TypeOK, DeviceType, Screen
    <2>7. screen' \in [Users -> Screen \cup {None}]
          BY <2>1, <2>6 DEF TypeOK, DeviceType
    <2> QED
        BY <2>1, <2>4, <2>5, <2>7, <2>a DEF TypeOK, ServerType, DeviceType, HistoryType
<1>17. ASSUME NEW u \in Users, TxnFailed(u)
       PROVE  TypeOK'
    <2>1. txns' \in [Users -> SUBSET Txn]
          BY <1>17 DEF TxnFailed, TypeOK, DeviceType
    <2> QED
        BY <1>17, <2>1 DEF TxnFailed, TypeOK, ServerType, DeviceType, HistoryType
<1> QED
    BY <1>1, <1>2, <1>3, <1>4, <1>5, <1>6, <1>7, <1>8, <1>9, <1>10, <1>11, <1>12,
       <1>13, <1>14, <1>15, <1>16, <1>17 DEF Next

\* The state is well typed in every reachable state.
THEOREM TypeCorrect == Spec => []TypeOK
BY TypeInit, TypeStep, PTL DEF Spec

-----------------------------------------------------------------------------
(***************************************************************************)
(* The inductive invariant.  Whatever names a post names one that was      *)
(* sent, and remembers of it what the device that made it knew: a reset    *)
(* and a reply are made on the right side unless the post was opened       *)
(* anonymously, a report of reading stems from an opening, and a claim has *)
(* the whole gift as its amount, which is not nothing.                     *)
(***************************************************************************)
Resets == {"resetRecipient", "resetSender"}

WriteInv(u, w) ==
    /\ w.id \in Sent
    /\ w.op = "read" => \E o \in opened[w.id] : o.via = "inbox"
    /\ w.op \in Resets => \E o \in opened[w.id] : o.user = u
    /\ w.op \in Resets /\ w.id \notin anonymous
          => (w.op = "resetSender" <=> u = letter[w.id].from)

TxnInv(u, t) ==
    /\ t.id \in Sent
    /\ t.type = "reply" /\ t.id \notin anonymous
          => (t.unread = "recipient" <=> u = letter[t.id].from)
    /\ t.type = "reply" => currentUser[u]
    /\ t.type = "claim" => t.amount = letter[t.id].gift /\ t.amount # 0

ScreenInv(u, s) ==
    /\ s.id \in Sent
    /\ \E o \in opened[s.id] : o.user = u
    /\ s.id \notin anonymous =>
          currentUser[u] /\ (s.unread = "recipient" <=> u = letter[s.id].from)
    /\ s.numStampsGiven \in {0, letter[s.id].gift}
    /\ s.atOpen <= RepliesTo(s.via, s.id)

FreshInv ==
    \A id \in Ids : id \notin Sent =>
        /\ replies[id].sender = 0 /\ replies[id].others = 0
        /\ opened[id] = {} /\ claimed[id] = 0
DocInv ==
    \A id \in Ids : doc[id] # None =>
        id \in Sent /\ doc[id].numStampsGiven \in {0, letter[id].gift}
ListInv ==
    /\ \A u \in Users, id \in Ids : inbox[u][id] # None =>
          id \in Sent /\ inbox[u][id].numStampsGiven \in {0, letter[id].gift}
    /\ \A u \in Users : \A id \in outbox[u] : id \in Sent
QueueInv   == \A u \in Users : \A w \in Write : In(w, queue[u]) => WriteInv(u, w)
TxnsInv    == \A u \in Users : \A t \in txns[u] : TxnInv(u, t)
ScreensInv == \A u \in Users : screen[u] # None => ScreenInv(u, screen[u])

Inv == /\ TypeOK /\ FreshInv /\ DocInv /\ ListInv
       /\ QueueInv /\ TxnsInv /\ ScreensInv

(***************************************************************************)
(* What a step never takes back: letters, openings, replies, and the       *)
(* knowledge of who the user is.                                           *)
(***************************************************************************)
Grows ==
    /\ \A id \in Sent : id \in Sent' /\ letter'[id] = letter[id]
    /\ \A id \in Ids : \A o \in opened[id] : o \in opened'[id]
    /\ \A id \in anonymous : id \in anonymous'
    /\ \A u \in Users : currentUser[u] => currentUser'[u]
    /\ \A id \in Ids : /\ replies[id].sender <= replies'[id].sender
                        /\ replies[id].others <= replies'[id].others

LEMMA PostSentGrows ==
    ASSUME TypeOK, NEW u \in Users, NEW to \in Users, NEW b \in BOOLEAN, NEW g \in Gifts,
           PostSent(u, to, b, g)
    PROVE  /\ Len(letter) + 1 \in Ids /\ Len(letter) + 1 \notin Sent
           /\ Sent' = Sent \cup {Len(letter) + 1}
           /\ \A id \in Sent : id \in Sent' /\ letter'[id] = letter[id] /\ id # Len(letter) + 1
           /\ letter'[Len(letter) + 1] = [from |-> u, ongoing |-> b, gift |-> g]
<1>1. Len(letter) \in Nat /\ letter \in Seq(Letter)
      BY SentIds DEF TypeOK, HistoryType
<1>2. /\ Len(letter) + 1 \in Ids /\ Len(letter) + 1 \notin Sent
      /\ 1 .. (Len(letter) + 1) = Sent \cup {Len(letter) + 1}
      /\ \A id \in Sent : id # Len(letter) + 1
      BY <1>1, ConstantFacts DEF Sent, Ids, PostSent
<1>3. [from |-> u, ongoing |-> b, gift |-> g] \in Letter
      BY DEF Letter
<1>4. letter' = Append(letter, [from |-> u, ongoing |-> b, gift |-> g])
      BY DEF PostSent
<1>5. /\ Len(letter') = Len(letter) + 1
      /\ \A id \in 1 .. Len(letter) : letter'[id] = letter[id]
      /\ letter'[Len(letter) + 1] = [from |-> u, ongoing |-> b, gift |-> g]
      BY <1>1, <1>3, <1>4, AppendProperties
<1> QED
    BY <1>2, <1>5 DEF Sent

LEMMA StepGrows == TypeOK /\ [Next]_vars => Grows
<1> SUFFICES ASSUME TypeOK, [Next]_vars PROVE Grows
    OBVIOUS
<1> DEFINE Same == UNCHANGED <<letter, opened, anonymous, currentUser, replies>>
<1>1. \A id \in Ids : replies[id].sender \in Nat /\ replies[id].others \in Nat
      BY DEF TypeOK, ServerType
<1>2. CASE Same
      BY <1>1, <1>2 DEF Grows, Sent
<1>3. ASSUME NEW u \in Users, NEW to \in Users, NEW b \in BOOLEAN, NEW g \in Gifts,
             PostSent(u, to, b, g)
      PROVE  Grows
    <2>1. UNCHANGED <<opened, anonymous, currentUser, replies>>
          BY <1>3 DEF PostSent, deviceVars
    <2>2. \A id \in Sent : id \in Sent' /\ letter'[id] = letter[id]
          BY <1>3, PostSentGrows
    <2> QED
        BY <1>1, <2>1, <2>2 DEF Grows
<1>4. ASSUME NEW u \in Users, UserKnown(u)
      PROVE  Grows
      BY <1>1, <1>4 DEF UserKnown, Grows, Sent, TypeOK, DeviceType
<1>5. ASSUME NEW u \in Users, NEW id \in Ids, NEW path, NEW g, Opened(u, id, path, g),
             UNCHANGED <<letter, currentUser, replies>>
      PROVE  Grows
      BY <1>1, <1>5 DEF Opened, Grows, Sent, TypeOK, HistoryType
<1>6. ASSUME NEW u \in Users, NEW id \in Ids, DetailsOpened(u, id) \/ RowExpanded(u, id)
      PROVE  Grows
      BY <1>5, <1>6 DEF DetailsOpened, RowExpanded
<1>7. ASSUME NEW u \in Users, ReplyCommitted(u)
      PROVE  Grows
    <2>1. PICK t \in txns[u] :
             replies' = IF u = letter[t.id].from
                          THEN [replies EXCEPT ![t.id].sender = @ + 1]
                          ELSE [replies EXCEPT ![t.id].others = @ + 1]
          BY <1>7 DEF ReplyCommitted
    <2>2. UNCHANGED <<letter, opened, anonymous, currentUser>>
          BY <1>7 DEF ReplyCommitted
    <2>3. \A id \in Ids : /\ replies[id].sender <= replies'[id].sender
                          /\ replies[id].others <= replies'[id].others
          BY <1>1, <2>1 DEF TypeOK, ServerType
    <2> QED
        BY <2>2, <2>3 DEF Grows, Sent
<1>8. ASSUME NEW u \in Users
      PROVE  /\ InboxSnapshot(u) => Same
             /\ OutboxSnapshot(u) => Same
             /\ RowCollapsed(u) => Same
             /\ DetailsClosed(u) => Same
             /\ SendBtnTapped(u) => Same
             /\ ClaimTapped(u) => Same
             /\ \A to \in Users : TransferChosen(u, to)
                   => Same
             /\ DeleteTapped(u) => Same
             /\ \A id \in Ids : InboxRowDeleted(u, id) \/ OutboxRowDeleted(u, id)
                   => Same
             /\ WriteApplied(u) => Same
             /\ ClaimCommitted(u) => Same
             /\ TxnFailed(u) => Same
      BY DEF InboxSnapshot, OutboxSnapshot, RowCollapsed, DetailsClosed, SendBtnTapped,
             ClaimTapped, TransferChosen, DeleteTapped, InboxRowDeleted, OutboxRowDeleted,
             WriteApplied, ClaimCommitted, TxnFailed
<1>9. CASE UNCHANGED vars
      BY <1>2, <1>9 DEF vars, deviceVars
<1> QED
    BY <1>2, <1>3, <1>4, <1>6, <1>7, <1>8, <1>9 DEF Next

\* So what a write, a transaction or a screen remembers stays true.
LEMMA WriteInvGrows ==
    ASSUME HistoryType, Grows, NEW u \in Users, NEW w, WriteInv(u, w)
    PROVE  WriteInv(u, w)'
BY SentIds DEF Grows, WriteInv

LEMMA TxnInvGrows ==
    ASSUME HistoryType, Grows, NEW u \in Users, NEW t, TxnInv(u, t)
    PROVE  TxnInv(u, t)'
BY SentIds DEF Grows, TxnInv

LEMMA ScreenInvGrows ==
    ASSUME TypeOK, TypeOK', Grows, NEW u \in Users, NEW s \in Screen, ScreenInv(u, s)
    PROVE  ScreenInv(u, s)'
<1>1. s.id \in Ids /\ s.atOpen \in Nat
      BY ScreenFields
<1>2. /\ replies[s.id].sender \in Nat /\ replies[s.id].others \in Nat
      /\ replies'[s.id].sender \in Nat /\ replies'[s.id].others \in Nat
      BY <1>1 DEF TypeOK, ServerType
<1>3. RepliesTo(s.via, s.id) <= RepliesTo(s.via, s.id)'
      BY <1>1 DEF Grows, RepliesTo
<1>4. s.atOpen <= RepliesTo(s.via, s.id)'
      BY <1>1, <1>2, <1>3 DEF ScreenInv, RepliesTo
<1> QED
    BY <1>1, <1>4 DEF Grows, ScreenInv

-----------------------------------------------------------------------------
(***************************************************************************)
(* The invariant holds initially and is kept, part by part.                *)
(***************************************************************************)
LEMMA InvInit == Init => Inv
<1> SUFFICES ASSUME Init PROVE Inv
    OBVIOUS
<1>1. TypeOK
      BY TypeInit
<1>2. Sent = {}
      BY DEF Init, Sent
<1>3. FreshInv /\ DocInv /\ ListInv
      BY DEF Init, FreshInv, DocInv, ListInv
<1>4. QueueInv /\ TxnsInv /\ ScreensInv
      BY DEF Init, QueueInv, In, TxnsInv, ScreensInv
<1> QED
    BY <1>1, <1>3, <1>4 DEF Inv

\* An opening leaves its mark, and knows whose it is unless anonymous.
LEMMA OpenedFacts ==
    ASSUME TypeOK, NEW u \in Users, NEW id \in Ids, NEW path, NEW g,
           Opened(u, id, path, g)
    PROVE  /\ [user |-> u, via |-> path] \in opened'[id]
           /\ id \notin anonymous' => currentUser[u]
BY DEF Opened, TypeOK, HistoryType

\* A device that knows its user resets its own side's counter.
LEMMA SideOfReset ==
    ASSUME NEW u \in Users, NEW id, currentUser[u]
    PROVE  /\ ResetOp(u, id) = "resetSender" <=> u = letter[id].from
           /\ UnreadReplyConstant(u, id) = "recipient" <=> u = letter[id].from
BY DEF ResetOp, UnreadReplyConstant

LEMMA QueueStep ==
    ASSUME Inv, [Next]_vars, Grows
    PROVE  QueueInv'
<1>1. /\ TypeOK /\ HistoryType /\ DeviceType /\ queue \in [Users -> Seq(Write)]
      /\ ScreensInv /\ ListInv
      BY DEF Inv, TypeOK, DeviceType
<1>2. SUFFICES ASSUME NEW v \in Users, NEW w \in Write, In(w, queue'[v]), ~In(w, queue[v])
               PROVE  WriteInv(v, w)'
      BY <1>1, WriteInvGrows DEF Inv, QueueInv
<1>3. queue'[v] # queue[v]
      BY <1>2
<1>4. ASSUME NEW u \in Users, NEW id \in Ids, In(w, Moved(u, id)),
             id \in Sent', \E o \in opened'[id] : o.user = u,
             id \notin anonymous' => currentUser[u], letter'[id] = letter[id]
      PROVE  WriteInv(u, w)'
    <2>1. w.id = id /\ w.op = ResetOp(u, id) /\ w.op \in Resets
          BY <1>4, MovedWrites DEF Resets
    <2>2. id \notin anonymous' => (w.op = "resetSender" <=> u = letter'[id].from)
          BY <1>4, <2>1, SideOfReset
    <2> QED
        BY <1>4, <2>1, <2>2 DEF WriteInv, Resets
<1>5. ASSUME NEW u \in Users, NEW id \in Ids, DetailsOpened(u, id)
      PROVE  WriteInv(v, w)'
    <2>1. /\ queue' = [queue EXCEPT ![u] = @ \o MarkRead(u, id) \o Moved(u, id)]
          /\ Opened(u, id, "inbox", inbox[u][id].numStampsGiven) /\ inbox[u][id] # None
          BY <1>5 DEF DetailsOpened
    <2>2. v = u /\ queue'[v] = queue[u] \o MarkRead(u, id) \o Moved(u, id)
          BY <1>1, <1>3, <2>1
    <2>3. In(w, MarkRead(u, id)) \/ In(w, Moved(u, id))
        <3>1. queue[u] \in Seq(Write) /\ MarkRead(u, id) \in Seq(Write)
              /\ Moved(u, id) \in Seq(Write)
              BY <1>1, MarkReadWrites, MovedWrites
        <3>2. /\ queue[u] \o MarkRead(u, id) \in Seq(Write)
              /\ In(w, queue[u] \o MarkRead(u, id))
                    <=> In(w, queue[u]) \/ In(w, MarkRead(u, id))
              BY ONLY <3>1, InConcat
        <3>3. In(w, (queue[u] \o MarkRead(u, id)) \o Moved(u, id))
                 <=> In(w, queue[u] \o MarkRead(u, id)) \/ In(w, Moved(u, id))
              BY ONLY <3>1, <3>2, InConcat
        <3> QED
            BY <1>2, <2>2, <3>2, <3>3
    <2>4. id \in Sent /\ id \in Sent' /\ letter'[id] = letter[id]
          BY <1>1, <2>1 DEF ListInv, Grows
    <2>5. /\ [user |-> u, via |-> "inbox"] \in opened'[id]
          /\ id \notin anonymous' => currentUser[u]
          BY <1>1, <2>1, OpenedFacts
    <2>6. CASE In(w, MarkRead(u, id))
        <3>1. w.id = id /\ w.op = "read"
              BY <2>6, MarkReadWrites
        <3> QED
            BY <3>1, <2>4, <2>5 DEF WriteInv, Resets
    <2>7. CASE In(w, Moved(u, id))
          BY <1>4, <2>2, <2>4, <2>5, <2>7
    <2> QED
        BY <2>3, <2>6, <2>7
<1>6. ASSUME NEW u \in Users, screen[u] # None, UNCHANGED anonymous
      PROVE  /\ screen[u].id \in Ids /\ screen[u].id \in Sent /\ screen[u].id \in Sent'
             /\ \E o \in opened'[screen[u].id] : o.user = u
             /\ screen[u].id \notin anonymous' => currentUser[u]
             /\ letter'[screen[u].id] = letter[screen[u].id]
      BY <1>1, <1>6, OpenScreen DEF ScreensInv, ScreenInv, Grows
<1>7. ASSUME NEW u \in Users, NEW id \in Ids, RowExpanded(u, id)
      PROVE  WriteInv(v, w)'
    <2> DEFINE rest == IF screen[u] = None THEN << >> ELSE Moved(u, screen[u].id)
    <2>1. /\ queue' = [queue EXCEPT ![u] = @ \o Moved(u, id) \o rest]
          /\ Opened(u, id, "outbox", 0) /\ id \in outbox[u]
          BY <1>7 DEF RowExpanded
    <2>2. rest \in Seq(Write)
          BY <1>1, MovedWrites, OpenScreen
    <2>3. In(w, rest) => screen[u] # None /\ In(w, Moved(u, screen[u].id))
          BY DEF In
    <2> HIDE DEF rest
    <2>4. v = u /\ queue'[v] = queue[u] \o Moved(u, id) \o rest
          BY <1>1, <1>3, <2>1
    <2>5. In(w, rest) \/ In(w, Moved(u, id))
        <3>1. queue[u] \in Seq(Write) /\ Moved(u, id) \in Seq(Write)
              BY <1>1, MovedWrites
        <3>2. /\ queue[u] \o Moved(u, id) \in Seq(Write)
              /\ In(w, queue[u] \o Moved(u, id)) <=> In(w, queue[u]) \/ In(w, Moved(u, id))
              BY ONLY <3>1, InConcat
        <3>3. In(w, (queue[u] \o Moved(u, id)) \o rest)
                 <=> In(w, queue[u] \o Moved(u, id)) \/ In(w, rest)
              BY ONLY <2>2, <3>2, InConcat
        <3> QED
            BY <1>2, <2>4, <3>2, <3>3
    <2>6. id \in Sent /\ id \in Sent' /\ letter'[id] = letter[id]
          BY <1>1, <2>1 DEF ListInv, Grows
    <2>7. /\ [user |-> u, via |-> "outbox"] \in opened'[id]
          /\ id \notin anonymous' => currentUser[u]
          BY <1>1, <2>1, OpenedFacts
    <2>8. CASE In(w, Moved(u, id))
          BY <1>4, <2>4, <2>6, <2>7, <2>8
    <2>9. CASE In(w, rest)
        <3>1. /\ screen[u] # None /\ screen[u].id \in Ids /\ screen[u].id \in Sent'
              /\ \E o \in opened'[screen[u].id] : o.user = u
              /\ screen[u].id \notin anonymous' => currentUser[u]
              /\ letter'[screen[u].id] = letter[screen[u].id]
              BY <1>1, <2>3, <2>9, OpenScreen DEF ScreensInv, ScreenInv, Grows
        <3> QED
            BY <1>4, <2>3, <2>4, <2>9, <3>1
    <2> QED
        BY <2>5, <2>8, <2>9
<1>8. ASSUME NEW u \in Users, RowCollapsed(u)
      PROVE  WriteInv(v, w)'
    <2>1. /\ queue' = [queue EXCEPT ![u] = @ \o Moved(u, screen[u].id)]
          /\ screen[u] # None /\ UNCHANGED anonymous
          BY <1>8 DEF RowCollapsed
    <2>2. v = u /\ queue'[v] = queue[u] \o Moved(u, screen[u].id)
          BY <1>1, <1>3, <2>1
    <2>3. screen[u].id \in Ids
          BY <1>1, <2>1, OpenScreen
    <2>4. In(w, Moved(u, screen[u].id))
          BY <1>1, <1>2, <2>2, <2>3, InConcat, MovedWrites
    <2> QED
        BY <1>4, <1>6, <2>1, <2>2, <2>3, <2>4
<1>9. ASSUME NEW u \in Users, NEW x \in Write, queue' = [queue EXCEPT ![u] = Append(@, x)],
             x.id \in Sent, x.op \in {"transfer", "delete"}
      PROVE  WriteInv(v, w)'
    <2>1. v = u /\ w = x
          BY <1>1, <1>2, <1>3, <1>9, InAppend
    <2> QED
        BY <1>9, <2>1 DEF WriteInv, Grows, Resets
<1>10. ASSUME NEW u \in Users, NEW to \in Users, TransferChosen(u, to)
       PROVE  WriteInv(v, w)'
    <2>1. screen[u] # None /\ screen[u].id \in Ids /\ screen[u].id \in Sent /\ 0 \in 0 .. MaxOpens
          BY <1>1, <1>10, OpenScreen, ConstantFacts DEF TransferChosen, ScreensInv, ScreenInv
    <2> DEFINE x == [op |-> "transfer", id |-> screen[u].id, to |-> to, no |-> 0]
    <2>2. x \in Write /\ x.op = "transfer" /\ x.id = screen[u].id
          BY <2>1, WriteRecord, ZenonT(40)
    <2>3. queue' = [queue EXCEPT ![u] = Append(@, x)]
          BY <1>10 DEF TransferChosen
    <2> HIDE DEF x
    <2> QED
        BY <1>9, <2>1, <2>2, <2>3
<1>11. ASSUME NEW u \in Users, DeleteTapped(u)
       PROVE  WriteInv(v, w)'
    <2>1. /\ screen[u] # None /\ screen[u].id \in Ids /\ screen[u].id \in Sent
          /\ screen[u].no \in 0 .. MaxOpens
          BY <1>1, <1>11, OpenScreen DEF DeleteTapped, ScreensInv, ScreenInv
    <2> DEFINE x == [op |-> "delete", id |-> screen[u].id, to |-> u, no |-> screen[u].no]
    <2>2. x \in Write /\ x.op = "delete" /\ x.id = screen[u].id
          BY <2>1, WriteRecord, ZenonT(40)
    <2>3. queue' = [queue EXCEPT ![u] = Append(@, x)]
          BY <1>11 DEF DeleteTapped
    <2> HIDE DEF x
    <2> QED
        BY <1>9, <2>1, <2>2, <2>3
<1>12. ASSUME NEW u \in Users, NEW id \in Ids,
              InboxRowDeleted(u, id) \/ OutboxRowDeleted(u, id)
       PROVE  WriteInv(v, w)'
    <2>1. /\ W(u, "delete", id) \in Write /\ W(u, "delete", id).op = "delete"
          /\ W(u, "delete", id).id = id
          BY PlainWrite
    <2>2. id \in Sent /\ queue' = [queue EXCEPT ![u] = Append(@, W(u, "delete", id))]
          BY <1>1, <1>12 DEF InboxRowDeleted, OutboxRowDeleted, ListInv
    <2> QED
        BY <1>9, <2>1, <2>2
<1>13. ASSUME NEW u \in Users, WriteApplied(u)
       PROVE  WriteInv(v, w)'
    <2>1. queue' = [queue EXCEPT ![u] = Tail(@)] /\ queue[u] # << >>
          BY <1>13 DEF WriteApplied
    <2>2. v = u /\ queue'[v] = Tail(queue[v])
          BY <1>1, <1>3, <2>1
    <2> QED
        BY <1>1, <1>2, <2>1, <2>2, InTail
<1>14. \A u \in Users :
          /\ ~UserKnown(u) /\ ~InboxSnapshot(u) /\ ~OutboxSnapshot(u) /\ ~DetailsClosed(u)
          /\ ~SendBtnTapped(u) /\ ~ClaimTapped(u) /\ ~ReplyCommitted(u)
          /\ ~ClaimCommitted(u) /\ ~TxnFailed(u)
          /\ \A to \in Users, b \in BOOLEAN, g \in Gifts : ~PostSent(u, to, b, g)
      BY <1>3 DEF UserKnown, InboxSnapshot, OutboxSnapshot, DetailsClosed, SendBtnTapped,
         ClaimTapped, ReplyCommitted, ClaimCommitted, TxnFailed, PostSent, deviceVars
<1>15. ~UNCHANGED vars
      BY <1>3 DEF vars, deviceVars
<1> QED
    BY <1>5, <1>7, <1>8, <1>10, <1>11, <1>12, <1>13, <1>14, <1>15 DEF Next

LEMMA TxnsStep ==
    ASSUME Inv, [Next]_vars, Grows
    PROVE  TxnsInv'
<1>1. /\ TypeOK /\ HistoryType /\ DeviceType /\ txns \in [Users -> SUBSET Txn]
      /\ ScreensInv
      BY DEF Inv, TypeOK, DeviceType
<1>2. SUFFICES ASSUME NEW v \in Users, NEW t \in txns'[v], t \notin txns[v]
               PROVE  TxnInv(v, t)'
      BY <1>1, TxnInvGrows DEF Inv, TxnsInv
<1>3. ASSUME NEW u \in Users, SendBtnTapped(u) \/ ClaimTapped(u)
      PROVE  TxnInv(v, t)'
    <2>1. /\ screen[u] # None /\ ScreenInv(u, screen[u]) /\ screen[u].id \in Ids
          /\ screen[u].id \in Sent
          BY <1>1, <1>3, OpenScreen DEF SendBtnTapped, ClaimTapped, ScreensInv, ScreenInv
    <2>2. CASE SendBtnTapped(u)
        <3>1. v = u /\ t = [type |-> "reply", id |-> screen[u].id, unread |-> screen[u].unread,
                            amount |-> 0, no |-> screen[u].no, tap |-> taps + 1]
              BY <1>1, <1>2, <2>2 DEF SendBtnTapped
        <3>2. /\ v = u /\ t.type = "reply" /\ t.id = screen[u].id
              /\ t.unread = screen[u].unread /\ currentUser[u]
              BY <2>2, <3>1 DEF SendBtnTapped
        <3>3. TxnInv(u, t)
              BY <2>1, <3>2 DEF ScreenInv, TxnInv
        <3> QED
            BY <1>1, <3>2, <3>3, TxnInvGrows
    <2>3. CASE ClaimTapped(u)
        <3>1. /\ v = u /\ screen[u].numStampsGiven # 0
              /\ t = [type |-> "claim", id |-> screen[u].id, unread |-> screen[u].unread,
                       amount |-> ClaimAmount(u), no |-> screen[u].no, tap |-> taps + 1]
              BY <1>1, <1>2, <2>3 DEF ClaimTapped
        <3>2. t.type = "claim" /\ t.id = screen[u].id /\ t.amount = screen[u].numStampsGiven
              BY <3>1 DEF ClaimAmount
        <3>3. TxnInv(u, t)
              BY <2>1, <3>1, <3>2 DEF ScreenInv, TxnInv
        <3> QED
            BY <1>1, <3>1, <3>3, TxnInvGrows
    <2> QED
        BY <1>3, <2>2, <2>3
<1>4. ASSUME NEW u \in Users,
             ReplyCommitted(u) \/ ClaimCommitted(u) \/ TxnFailed(u)
      PROVE  FALSE
    <2>1. PICK x \in txns[u] : txns' = txns \/ txns' = [txns EXCEPT ![u] = @ \ {x}]
          BY <1>4 DEF ReplyCommitted, ClaimCommitted, TxnFailed, Answered
    <2> QED
        BY <1>1, <1>2, <2>1
<1>5. \A u \in Users :
          /\ ~UserKnown(u) /\ ~InboxSnapshot(u) /\ ~OutboxSnapshot(u) /\ ~DetailsClosed(u)
          /\ ~RowCollapsed(u) /\ ~DeleteTapped(u) /\ ~WriteApplied(u)
      BY <1>2 DEF UserKnown, InboxSnapshot, OutboxSnapshot, DetailsClosed, RowCollapsed,
         DeleteTapped, WriteApplied
<1>6. \A u \in Users :
          /\ \A id \in Ids : /\ ~DetailsOpened(u, id) /\ ~RowExpanded(u, id)
                              /\ ~InboxRowDeleted(u, id) /\ ~OutboxRowDeleted(u, id)
          /\ \A to \in Users : ~TransferChosen(u, to)
      BY <1>2 DEF TransferChosen, DetailsOpened, RowExpanded, InboxRowDeleted,
         OutboxRowDeleted
<1>7. \A u \in Users : \A to \in Users, b \in BOOLEAN, g \in Gifts : ~PostSent(u, to, b, g)
      BY <1>2 DEF PostSent, deviceVars
<1>8. ~UNCHANGED vars
      BY <1>2 DEF vars, deviceVars
<1>9. \A u \in Users : ~ReplyCommitted(u) /\ ~ClaimCommitted(u) /\ ~TxnFailed(u)
      BY <1>4
<1> QED
    BY <1>3, <1>5, <1>6, <1>7, <1>8, <1>9 DEF Next

LEMMA ScreensStep ==
    ASSUME Inv, [Next]_vars, Grows, TypeOK'
    PROVE  ScreensInv'
<1>1. /\ TypeOK /\ HistoryType /\ DeviceType /\ ServerType /\ ScreensInv /\ ListInv
      /\ screen \in [Users -> Screen \cup {None}]
      BY DEF Inv, TypeOK, DeviceType
<1>2. SUFFICES ASSUME NEW v \in Users, screen'[v] # None PROVE ScreenInv(v, screen[v])'
      BY DEF ScreensInv
<1>3. CASE screen'[v] = screen[v]
    <2>1. screen[v] \in Screen /\ ScreenInv(v, screen[v])
          BY <1>1, <1>2, <1>3 DEF ScreensInv
    <2>2. \A s \in Screen : ScreenInv(v, s) => ScreenInv(v, s)'
          BY <1>1, ScreenInvGrows
    <2>3. PICK s \in Screen : s = screen[v]
          BY <2>1
    <2>4. ScreenInv(v, s)'
          BY <2>1, <2>2, <2>3
    <2> QED
        BY <1>3, <2>3, <2>4 DEF ScreenInv
<1>4. ASSUME NEW u \in Users, NEW id \in Ids, NEW path \in {"inbox", "outbox"}, NEW g,
             Opened(u, id, path, g), id \in Sent, g \in {0, letter[id].gift},
             UNCHANGED <<currentUser, replies, letter>>
      PROVE  ScreenInv(v, screen[v])'
    <2>1. CASE v # u
          BY <1>1, <1>3, <1>4, <2>1 DEF Opened
    <2>2. CASE v = u
        <3>1. /\ screen'[v].id = id /\ screen'[v].via = path
              /\ screen'[v].numStampsGiven = g
              /\ screen'[v].unread = UnreadReplyConstant(u, id)
              /\ screen'[v].atOpen = RepliesTo(path, id)
              BY <1>1, <1>4, <2>2 DEF Opened
        <3>2. /\ [user |-> u, via |-> path] \in opened'[id]
              /\ id \notin anonymous' => currentUser[u]
              BY <1>1, <1>4, OpenedFacts
        <3>3. id \notin anonymous' =>
                 (UnreadReplyConstant(u, id) = "recipient" <=> u = letter[id].from)
              BY <3>2, SideOfReset
        <3>4. RepliesTo(path, id) <= RepliesTo(path, id)'
              BY <1>1, <1>4 DEF RepliesTo, ServerType
        <3>5. id \in Sent' /\ letter'[id] = letter[id] /\ currentUser' = currentUser
              BY <1>4 DEF Grows
        <3>6. \E o \in opened'[id] : o.user = u
              BY <3>2
        <3> QED
            BY <1>4, <2>2, <3>1, <3>2, <3>3, <3>4, <3>5, <3>6 DEF ScreenInv
    <2> QED
        BY <2>1, <2>2
<1>5. ASSUME NEW u \in Users, NEW id \in Ids, DetailsOpened(u, id)
      PROVE  ScreenInv(v, screen[v])'
    <2>1. id \in Sent /\ inbox[u][id].numStampsGiven \in {0, letter[id].gift}
          BY <1>1, <1>5 DEF DetailsOpened, ListInv
    <2>2. Opened(u, id, "inbox", inbox[u][id].numStampsGiven)
          /\ UNCHANGED <<currentUser, replies, letter>>
          BY <1>5 DEF DetailsOpened
    <2> QED
        BY <1>4, <2>1, <2>2
<1>6. ASSUME NEW u \in Users, NEW id \in Ids, RowExpanded(u, id)
      PROVE  ScreenInv(v, screen[v])'
    <2>1. id \in Sent /\ Opened(u, id, "outbox", 0) /\ UNCHANGED <<currentUser, replies, letter>>
          BY <1>1, <1>6 DEF RowExpanded, ListInv
    <2> QED
        BY <1>4, <2>1
<1>7. ASSUME NEW u \in Users, RowCollapsed(u) \/ DetailsClosed(u) \/ WriteApplied(u)
                               \/ \E to \in Users : TransferChosen(u, to)
                               \/ \E id \in Ids : OutboxRowDeleted(u, id)
      PROVE  screen'[v] = screen[v]
    <2>1. screen' = [screen EXCEPT ![u] = None] \/ screen' = screen
          BY <1>7 DEF RowCollapsed, DetailsClosed, WriteApplied, TransferChosen,
                      OutboxRowDeleted
    <2> QED
        BY <1>1, <1>2, <2>1
<1>8. ASSUME NEW u \in Users, ClaimCommitted(u)
      PROVE  ScreenInv(v, screen[v])'
    <2>1. \/ screen' = screen
          \/ screen[u] # None /\ screen' = [screen EXCEPT ![u].claimEnabled = FALSE]
          BY <1>8 DEF ClaimCommitted
    <2>2. CASE screen[v] # None /\ screen'[v] = [screen[v] EXCEPT !.claimEnabled = FALSE]
        <3>1. screen[v] \in Screen /\ ScreenInv(v, screen[v])
              BY <1>1, <2>2 DEF ScreensInv
        <3>2. PICK s \in Screen : s = screen[v]
              BY <3>1
        <3>3. ScreenInv(v, s)'
              BY <1>1, <3>1, <3>2, ScreenInvGrows
        <3>4. /\ screen'[v].id = s.id /\ screen'[v].via = s.via
              /\ screen'[v].numStampsGiven = s.numStampsGiven
              /\ screen'[v].unread = s.unread /\ screen'[v].atOpen = s.atOpen
              BY <2>2, <3>2 DEF Screen
        <3> QED
            BY <3>3, <3>4 DEF ScreenInv
    <2> QED
        BY <1>1, <1>3, <2>1, <2>2
<1>9. ASSUME NEW u \in Users
      PROVE  /\ UserKnown(u) => screen' = screen
             /\ InboxSnapshot(u) => screen' = screen
             /\ OutboxSnapshot(u) => screen' = screen
             /\ SendBtnTapped(u) => screen' = screen
             /\ ClaimTapped(u) => screen' = screen
             /\ DeleteTapped(u) => screen' = screen
             /\ ReplyCommitted(u) => screen' = screen
             /\ TxnFailed(u) => screen' = screen
             /\ \A id \in Ids : InboxRowDeleted(u, id) => screen' = screen
             /\ \A to \in Users, b \in BOOLEAN, g \in Gifts :
                   PostSent(u, to, b, g) => screen' = screen
      BY DEF UserKnown, InboxSnapshot, OutboxSnapshot, SendBtnTapped, ClaimTapped,
             DeleteTapped, ReplyCommitted, TxnFailed, InboxRowDeleted, PostSent, deviceVars
<1>10. UNCHANGED vars => screen' = screen
      BY DEF vars, deviceVars
<1> QED
    BY <1>3, <1>5, <1>6, <1>7, <1>8, <1>9, <1>10 DEF Next

\* What the server does to the stamps attached to a post, and to which posts.
LEMMA UpdatedFields ==
    ASSUME NEW p \in PostDoc, NEW w \in Write, Updated(p, w) # None
    PROVE  /\ Updated(p, w).numStampsGiven = p.numStampsGiven
           /\ Updated(p, w).numRecipientUnreadReplies =
                 IF w.op = "resetRecipient" THEN 0 ELSE p.numRecipientUnreadReplies
           /\ Updated(p, w).numSenderUnreadReplies =
                 IF w.op = "resetSender" THEN 0 ELSE p.numSenderUnreadReplies
<1>1. w.op \in {"read", "resetRecipient", "resetSender", "transfer", "delete"}
      /\ w.to \in Users
      BY DEF Write
<1>2. CASE w.op = "read"
      BY <1>2 DEF Updated, PostDoc
<1>3. CASE w.op = "resetRecipient"
      BY <1>3 DEF Updated, PostDoc
<1>4. CASE w.op = "resetSender"
      BY <1>4 DEF Updated, PostDoc
<1>5. CASE w.op = "transfer"
      BY <1>1, <1>5 DEF Updated, PostDoc
<1>6. CASE w.op = "delete"
      BY <1>6 DEF Updated
<1> QED
    BY <1>1, <1>2, <1>3, <1>4, <1>5, <1>6

LEMMA UpdatedRead ==
    ASSUME NEW p \in PostDoc, NEW w \in Write, Updated(p, w) # None, Updated(p, w).didRead
    PROVE  p.didRead \/ w.op = "read"
<1>1. w.op \in {"read", "resetRecipient", "resetSender", "transfer", "delete"}
      BY DEF Write
<1>2. w.op # "delete"
      BY DEF Updated
<1>3. w.op = "resetRecipient" => p.didRead
      BY DEF Updated, PostDoc
<1>4. w.op = "resetSender" => p.didRead
      BY DEF Updated, PostDoc
<1>5. w.op = "transfer" => p.didRead
      BY DEF Updated, PostDoc
<1> QED
    BY <1>1, <1>2, <1>3, <1>4, <1>5

LEMMA IncrementedFields ==
    ASSUME NEW p \in PostDoc, NEW c \in {"recipient", "sender"}
    PROVE  /\ Incremented(p, c).numStampsGiven = p.numStampsGiven
           /\ Incremented(p, c).didRead = p.didRead
           /\ Incremented(p, c).numRecipientUnreadReplies =
                 IF c = "recipient" THEN p.numRecipientUnreadReplies + 1
                                    ELSE p.numRecipientUnreadReplies
           /\ Incremented(p, c).numSenderUnreadReplies =
                 IF c = "recipient" THEN p.numSenderUnreadReplies
                                    ELSE p.numSenderUnreadReplies + 1
BY DEF Incremented, PostDoc

Sides == {"recipient", "sender"}

(***************************************************************************)
(* Every step leaves a document alone, creates it, deletes it, or is one   *)
(* of these: a plain write, a reply, a claim.                              *)
(***************************************************************************)
Wrote(u, w, id) ==
    /\ In(w, queue[u]) /\ w.id = id /\ doc[id] # None
    /\ doc'[id] = Updated(doc[id], w) /\ queue'[u] = Tail(queue[u])
    /\ w = Head(queue[u]) /\ queue[u] # << >>
    /\ \A v \in Users \ {u} : queue'[v] = queue[v]
    /\ UNCHANGED <<replies, letter, opened, anonymous, claimed>>

Replied(u, c, id) ==
    /\ doc[id] # None /\ doc'[id] = Incremented(doc[id], c)
    /\ id \notin anonymous => (c = "recipient" <=> u = letter[id].from)
    /\ replies'[id].sender = IF u = letter[id].from THEN replies[id].sender + 1
                                                    ELSE replies[id].sender
    /\ replies'[id].others = IF u = letter[id].from THEN replies[id].others
                                                    ELSE replies[id].others + 1
    /\ UNCHANGED <<queue, screen, letter, opened, anonymous, claimed>>

Claimed(u, t, id) ==
    /\ t \in txns[u] /\ t.type = "claim" /\ t.id = id /\ doc[id] # None
    /\ doc'[id] = [doc[id] EXCEPT !.numStampsGiven = 0]
    /\ claimed'[id] = claimed[id] + t.amount
    /\ UNCHANGED <<queue, replies, letter, opened, anonymous>>

Created(id) ==
    /\ id \notin Sent /\ id \in Sent'
    /\ \E to \in Users : doc'[id] = NewDoc(to, letter'[id].gift)
    /\ UNCHANGED <<queue, replies, screen, opened, anonymous, claimed>>

Untouched(id) ==
    /\ doc'[id] = doc[id] \/ doc'[id] = None
    /\ UNCHANGED <<replies[id], claimed[id]>>

\* The counter that a reply increments is the other side's, unless the post was
\* opened anonymously: when the view has set it anew, it was with the same test.
LEMMA SideOfReply ==
    ASSUME Inv, NEW u \in Users, NEW t \in txns[u], t.type = "reply",
           NEW c \in CounterRead(u, t)
    PROVE  /\ c \in Sides
           /\ t.id \notin anonymous => (c = "recipient" <=> u = letter[t.id].from)
<1>1. TxnInv(u, t) /\ t.unread \in Sides
      BY DEF Inv, TxnsInv, TypeOK, DeviceType, Txn, Sides
<1>2. CASE c = t.unread
      BY <1>1, <1>2 DEF TxnInv
<1>3. CASE c = UnreadReplyConstant(u, t.id)
      BY <1>1, <1>3, SideOfReset DEF TxnInv, UnreadReplyConstant, Sides
<1> QED
    BY <1>2, <1>3 DEF CounterRead

LEMMA DocCases ==
    ASSUME Inv, [Next]_vars, NEW id \in Ids
    PROVE  \/ Untouched(id)
           \/ Created(id)
           \/ \E u \in Users, w \in Write : Wrote(u, w, id)
           \/ \E u \in Users, c \in Sides : Replied(u, c, id)
           \/ \E u \in Users, t \in Txn : Claimed(u, t, id)
<1>1. /\ TypeOK /\ ServerType /\ DeviceType /\ HistoryType
      BY DEF Inv, TypeOK
<1>2. CASE UNCHANGED <<doc, replies, claimed>>
      BY <1>2 DEF Untouched
<1>3. ASSUME NEW u \in Users, NEW to \in Users, NEW b \in BOOLEAN, NEW g \in Gifts,
             PostSent(u, to, b, g)
      PROVE  Untouched(id) \/ Created(id)
    <2>1. /\ doc' = [doc EXCEPT ![Len(letter) + 1] = NewDoc(to, g)]
          /\ UNCHANGED <<queue, replies, screen, opened, anonymous, claimed>>
          BY <1>3 DEF PostSent, deviceVars
    <2>2. CASE id # Len(letter) + 1
          BY <1>1, <2>1, <2>2 DEF Untouched, ServerType
    <2>3. CASE id = Len(letter) + 1
        <3>1. /\ id \notin Sent /\ id \in Sent'
              /\ letter'[id] = [from |-> u, ongoing |-> b, gift |-> g]
              BY <1>1, <1>3, <2>3, PostSentGrows
        <3>2. letter'[id].gift = g
              BY <3>1
        <3>3. doc'[id] = NewDoc(to, g)
              BY <1>1, <2>1, <2>3 DEF ServerType
        <3> QED
            BY <2>1, <3>1, <3>2, <3>3 DEF Created
    <2> QED
        BY <2>2, <2>3
<1>4. ASSUME NEW u \in Users, WriteApplied(u)
      PROVE  Untouched(id) \/ \E w \in Write : Wrote(u, w, id)
    <2> DEFINE x == Head(queue[u])
    <2>1. x \in Write /\ In(x, queue[u]) /\ queue[u] # << >>
          BY <1>1, <1>4, InTail DEF WriteApplied, DeviceType
    <2>2. /\ doc' = [doc EXCEPT ![x.id] = IF @ = None THEN None ELSE Updated(@, x)]
          /\ queue' = [queue EXCEPT ![u] = Tail(@)]
          /\ UNCHANGED <<replies, letter, opened, anonymous, claimed>>
          BY <1>4 DEF WriteApplied
    <2>3. x = Head(queue[u])
          OBVIOUS
    <2> HIDE DEF x
    <2>4. CASE id = x.id /\ doc[id] # None
        <3>1. doc'[id] = Updated(doc[id], x)
              BY <1>1, <2>2, <2>4 DEF ServerType
        <3>2. queue'[u] = Tail(queue[u]) /\ \A v \in Users \ {u} : queue'[v] = queue[v]
              BY <1>1, <2>2 DEF DeviceType
        <3> QED
            BY <2>1, <2>2, <2>3, <2>4, <3>1, <3>2 DEF Wrote
    <2>5. CASE ~(id = x.id /\ doc[id] # None)
          BY <1>1, <2>2, <2>5 DEF Untouched, ServerType
    <2> QED
        BY <2>1, <2>4, <2>5
<1>5. ASSUME NEW u \in Users, ReplyCommitted(u)
      PROVE  Untouched(id) \/ \E c \in Sides : Replied(u, c, id)
    <2>1. PICK t \in txns[u] :
             /\ t.type = "reply" /\ doc[t.id] # None
             /\ replies' = IF u = letter[t.id].from
                             THEN [replies EXCEPT ![t.id].sender = @ + 1]
                             ELSE [replies EXCEPT ![t.id].others = @ + 1]
             /\ \E c \in CounterRead(u, t) : doc' = [doc EXCEPT ![t.id] = Incremented(@, c)]
             /\ UNCHANGED <<queue, screen, letter, claimed, opened, anonymous>>
          BY <1>5 DEF ReplyCommitted
    <2>a. PICK c \in CounterRead(u, t) : doc' = [doc EXCEPT ![t.id] = Incremented(@, c)]
          BY <2>1
    <2>2. /\ c \in Sides
          /\ t.id \notin anonymous => (c = "recipient" <=> u = letter[t.id].from)
          BY <2>1, SideOfReply
    <2>3. CASE id # t.id
          BY <1>1, <2>1, <2>3, <2>a DEF Untouched, ServerType
    <2>4. CASE id = t.id
        <3>1. doc'[id] = Incremented(doc[id], c)
              BY <1>1, <2>4, <2>a DEF ServerType
        <3>2. CASE u = letter[id].from
            <4>1. replies'[id] = [replies[id] EXCEPT !.sender = @ + 1]
                  BY <1>1, <2>1, <2>4, <3>2 DEF ServerType
            <4> QED
                BY <1>1, <2>1, <2>2, <2>4, <3>1, <3>2, <4>1 DEF Replied, ServerType
        <3>3. CASE u # letter[id].from
            <4>1. replies'[id] = [replies[id] EXCEPT !.others = @ + 1]
                  BY <1>1, <2>1, <2>4, <3>3 DEF ServerType
            <4> QED
                BY <1>1, <2>1, <2>2, <2>4, <3>1, <3>3, <4>1 DEF Replied, ServerType
        <3> QED
            BY <3>2, <3>3
    <2> QED
        BY <2>3, <2>4
<1>6. ASSUME NEW u \in Users, ClaimCommitted(u)
      PROVE  Untouched(id) \/ \E t \in Txn : Claimed(u, t, id)
    <2>1. PICK t \in txns[u] :
             /\ t.type = "claim" /\ doc[t.id] # None
             /\ doc' = [doc EXCEPT ![t.id].numStampsGiven = 0]
             /\ claimed' = [claimed EXCEPT ![t.id] = @ + t.amount]
             /\ UNCHANGED <<replies, queue, letter, opened, anonymous>>
          BY <1>6 DEF ClaimCommitted
    <2>2. t \in Txn
          BY <1>1 DEF DeviceType
    <2>3. CASE id # t.id
          BY <1>1, <2>1, <2>3 DEF Untouched, ServerType, HistoryType
    <2>4. CASE id = t.id
        <3>1. /\ doc'[id] = [doc[id] EXCEPT !.numStampsGiven = 0]
              /\ claimed'[id] = claimed[id] + t.amount
              BY <1>1, <2>1, <2>4 DEF ServerType, HistoryType
        <3> QED
            BY <2>1, <2>2, <2>4, <3>1 DEF Claimed
    <2> QED
        BY <2>3, <2>4
<1>7. ASSUME NEW u \in Users
      PROVE  /\ UserKnown(u) => UNCHANGED <<doc, replies, claimed>>
             /\ InboxSnapshot(u) => UNCHANGED <<doc, replies, claimed>>
             /\ OutboxSnapshot(u) => UNCHANGED <<doc, replies, claimed>>
             /\ RowCollapsed(u) => UNCHANGED <<doc, replies, claimed>>
             /\ DetailsClosed(u) => UNCHANGED <<doc, replies, claimed>>
             /\ SendBtnTapped(u) => UNCHANGED <<doc, replies, claimed>>
             /\ ClaimTapped(u) => UNCHANGED <<doc, replies, claimed>>
             /\ DeleteTapped(u) => UNCHANGED <<doc, replies, claimed>>
             /\ TxnFailed(u) => UNCHANGED <<doc, replies, claimed>>
             /\ \A to \in Users : TransferChosen(u, to) => UNCHANGED <<doc, replies, claimed>>
             /\ \A i \in Ids :
                   DetailsOpened(u, i) \/ RowExpanded(u, i)
                     \/ InboxRowDeleted(u, i) \/ OutboxRowDeleted(u, i)
                   => UNCHANGED <<doc, replies, claimed>>
      BY DEF UserKnown, InboxSnapshot, OutboxSnapshot, RowCollapsed, DetailsClosed,
             SendBtnTapped, ClaimTapped, DeleteTapped, TxnFailed, TransferChosen,
             DetailsOpened, RowExpanded, InboxRowDeleted, OutboxRowDeleted
<1>8. UNCHANGED vars => UNCHANGED <<doc, replies, claimed>>
      BY DEF vars
<1> QED
    BY <1>2, <1>3, <1>4, <1>5, <1>6, <1>7, <1>8 DEF Next

LEMMA DocStep ==
    ASSUME Inv, [Next]_vars, Grows, TypeOK'
    PROVE  DocInv'
<1> SUFFICES ASSUME NEW id \in Ids, doc'[id] # None
             PROVE  id \in Sent' /\ doc'[id].numStampsGiven \in {0, letter'[id].gift}
    BY DEF DocInv, Ids
<1>1. /\ TypeOK /\ ServerType /\ DocInv
      BY DEF Inv, TypeOK
<1>2. doc[id] # None => /\ doc[id] \in PostDoc /\ id \in Sent' /\ letter'[id] = letter[id]
                        /\ doc[id].numStampsGiven \in {0, letter[id].gift}
      BY <1>1 DEF ServerType, DocInv, Grows
<1>3. CASE Untouched(id)
      BY <1>2, <1>3 DEF Untouched
<1>4. CASE Created(id)
      BY <1>4 DEF Created, NewDoc
<1>5. ASSUME NEW u \in Users, NEW w \in Write, Wrote(u, w, id)
      PROVE  id \in Sent' /\ doc'[id].numStampsGiven \in {0, letter'[id].gift}
    <2>1. doc[id] # None /\ doc'[id] = Updated(doc[id], w)
          BY <1>5 DEF Wrote
    <2>2. doc'[id].numStampsGiven = doc[id].numStampsGiven
          BY <1>2, <2>1, UpdatedFields
    <2> QED
        BY <1>2, <2>1, <2>2
<1>6. ASSUME NEW u \in Users, NEW c \in Sides, Replied(u, c, id)
      PROVE  id \in Sent' /\ doc'[id].numStampsGiven \in {0, letter'[id].gift}
    <2>1. doc[id] # None /\ doc'[id] = Incremented(doc[id], c)
          BY <1>6 DEF Replied
    <2>2. c \in {"recipient", "sender"}
          BY DEF Sides
    <2>3. doc'[id].numStampsGiven = doc[id].numStampsGiven
          BY <1>2, <2>1, <2>2, IncrementedFields
    <2> QED
        BY <1>2, <2>1, <2>3
<1>7. ASSUME NEW u \in Users, NEW t \in Txn, Claimed(u, t, id)
      PROVE  id \in Sent' /\ doc'[id].numStampsGiven \in {0, letter'[id].gift}
    <2>1. doc[id] # None /\ doc'[id] = [doc[id] EXCEPT !.numStampsGiven = 0]
          BY <1>7 DEF Claimed
    <2>2. doc'[id].numStampsGiven = 0
          BY <1>2, <2>1 DEF PostDoc
    <2> QED
        BY <1>2, <2>1, <2>2
<1> QED
    BY <1>3, <1>4, <1>5, <1>6, <1>7, DocCases

LEMMA FreshStep ==
    ASSUME Inv, [Next]_vars, Grows
    PROVE  FreshInv'
<1> SUFFICES ASSUME NEW id \in Ids, id \notin Sent'
             PROVE  /\ replies'[id].sender = 0 /\ replies'[id].others = 0
                    /\ opened'[id] = {} /\ claimed'[id] = 0
    BY DEF FreshInv, Ids
<1>1. /\ TypeOK /\ ServerType /\ DeviceType /\ HistoryType /\ ListInv /\ TxnsInv
      BY DEF Inv, TypeOK
<1>2. /\ id \notin Sent /\ replies[id].sender = 0 /\ replies[id].others = 0
      /\ opened[id] = {} /\ claimed[id] = 0
      BY DEF Inv, FreshInv, Grows
<1>3. ASSUME NEW u \in Users, ReplyCommitted(u)
      PROVE  UNCHANGED <<replies[id], opened, claimed>>
    <2>1. PICK t \in txns[u] :
             replies' = IF u = letter[t.id].from
                          THEN [replies EXCEPT ![t.id].sender = @ + 1]
                          ELSE [replies EXCEPT ![t.id].others = @ + 1]
          BY <1>3 DEF ReplyCommitted
    <2>2. t.id # id
          BY <1>1, <1>2 DEF TxnsInv, TxnInv
    <2>3. UNCHANGED <<opened, claimed>>
          BY <1>3 DEF ReplyCommitted
    <2> QED
        BY <1>1, <2>1, <2>2, <2>3 DEF ServerType
<1>4. ASSUME NEW u \in Users, NEW i \in Ids, DetailsOpened(u, i) \/ RowExpanded(u, i)
      PROVE  UNCHANGED <<replies[id], opened[id], claimed>>
    <2>1. UNCHANGED <<replies, claimed>> /\ \E path, g : Opened(u, i, path, g)
          BY <1>4 DEF DetailsOpened, RowExpanded
    <2>2. i # id
          BY <1>1, <1>2, <1>4 DEF DetailsOpened, RowExpanded, ListInv
    <2>3. opened'[id] = opened[id]
          BY <1>1, <2>1, <2>2 DEF Opened, HistoryType
    <2> QED
        BY <2>1, <2>3
<1>a. ASSUME NEW u \in Users, ClaimCommitted(u)
      PROVE  UNCHANGED <<replies, opened, claimed[id]>>
    <2>1. PICK t \in txns[u] : claimed' = [claimed EXCEPT ![t.id] = @ + t.amount]
          BY <1>a DEF ClaimCommitted
    <2>2. t.id # id
          BY <1>1, <1>2 DEF TxnsInv, TxnInv
    <2>3. UNCHANGED <<replies, opened>>
          BY <1>a DEF ClaimCommitted
    <2> QED
        BY <1>1, <2>1, <2>2, <2>3 DEF HistoryType
<1> DEFINE Same == UNCHANGED <<replies, opened, claimed>>
<1>5. ASSUME NEW u \in Users
      PROVE  /\ UserKnown(u) => Same
             /\ InboxSnapshot(u) => Same
             /\ OutboxSnapshot(u) => Same
             /\ RowCollapsed(u) => Same
             /\ DetailsClosed(u) => Same
             /\ SendBtnTapped(u) => Same
             /\ ClaimTapped(u) => Same
             /\ DeleteTapped(u) => Same
             /\ WriteApplied(u) => Same
             /\ TxnFailed(u) => Same
             /\ \A to \in Users : TransferChosen(u, to) => Same
             /\ \A to \in Users, b \in BOOLEAN, g \in Gifts : PostSent(u, to, b, g) => Same
             /\ \A i \in Ids : InboxRowDeleted(u, i) \/ OutboxRowDeleted(u, i) => Same
      BY DEF UserKnown, InboxSnapshot, OutboxSnapshot, RowCollapsed, DetailsClosed,
             SendBtnTapped, ClaimTapped, DeleteTapped, WriteApplied, TxnFailed,
             TransferChosen, PostSent, InboxRowDeleted, OutboxRowDeleted
<1>6. UNCHANGED vars => Same
      BY DEF vars
<1>7. UNCHANGED <<replies[id], opened[id], claimed[id]>>
      BY <1>3, <1>4, <1>5, <1>6, <1>a DEF Next
<1> QED
    BY <1>2, <1>7

LEMMA ListStep ==
    ASSUME Inv, [Next]_vars, Grows
    PROVE  ListInv'
<1>1. /\ TypeOK /\ ServerType /\ DeviceType /\ HistoryType /\ ListInv /\ DocInv
      BY DEF Inv, TypeOK
<1>2. ASSUME NEW v \in Users, NEW id \in Ids, inbox'[v][id] # None,
             inbox'[v][id] = inbox[v][id]
      PROVE  id \in Sent' /\ inbox'[v][id].numStampsGiven \in {0, letter'[id].gift}
      BY <1>1, <1>2 DEF ListInv, Grows
<1>3. ASSUME NEW v \in Users, NEW id \in Ids, NEW u \in Users, InboxSnapshot(u),
             inbox'[v][id] # None
      PROVE  id \in Sent' /\ inbox'[v][id].numStampsGiven \in {0, letter'[id].gift}
    <2>1. CASE v # u
          BY <1>1, <1>2, <1>3, <2>1 DEF InboxSnapshot, DeviceType
    <2>2. CASE v = u
        <3> DEFINE row == [didRead |-> doc[id].didRead \/ Pending(u, id, "read"),
                           numStampsGiven |-> doc[id].numStampsGiven]
        <3>1. Exists(u, id) /\ inbox'[v][id] = row
              BY <1>1, <1>3, <2>2 DEF InboxSnapshot, DeviceType
        <3>2. row.numStampsGiven = doc[id].numStampsGiven
              OBVIOUS
        <3>3. id \in Sent /\ doc[id].numStampsGiven \in {0, letter[id].gift}
              BY <1>1, <3>1 DEF Exists, DocInv
        <3> HIDE DEF row
        <3>4. id \in Sent' /\ letter'[id] = letter[id]
              BY <3>3 DEF Grows
        <3> QED
            BY <3>1, <3>2, <3>3, <3>4
    <2> QED
        BY <2>1, <2>2
<1>4. ASSUME NEW v \in Users, NEW id \in Ids, NEW u \in Users, NEW i \in Ids,
             InboxRowDeleted(u, i), inbox'[v][id] # None
      PROVE  id \in Sent' /\ inbox'[v][id].numStampsGiven \in {0, letter'[id].gift}
    <2>1. inbox'[v][id] = inbox[v][id]
          BY <1>1, <1>4 DEF InboxRowDeleted, DeviceType
    <2> QED
        BY <1>2, <1>4, <2>1
<1>5. ASSUME NEW v \in Users, NEW id \in outbox'[v], NEW u \in Users, OutboxSnapshot(u)
      PROVE  id \in Sent'
    <2>1. id \in outbox[v] \/ id \in Sent
          BY <1>1, <1>5 DEF OutboxSnapshot, DeviceType, Sent
    <2> QED
        BY <1>1, <2>1 DEF ListInv, Grows
<1>6. ASSUME NEW v \in Users, NEW id \in outbox'[v], NEW u \in Users, NEW i \in Ids,
             OutboxRowDeleted(u, i)
      PROVE  id \in Sent'
    <2>1. id \in outbox[v]
          BY <1>1, <1>6 DEF OutboxRowDeleted, DeviceType
    <2> QED
        BY <1>1, <2>1 DEF ListInv, Grows
<1> DEFINE SameIn == inbox' = inbox  SameOut == outbox' = outbox
<1>7. ASSUME NEW u \in Users
      PROVE  /\ UserKnown(u) => SameIn /\ SameOut
             /\ InboxSnapshot(u) => SameOut
             /\ OutboxSnapshot(u) => SameIn
             /\ RowCollapsed(u) => SameIn /\ SameOut
             /\ DetailsClosed(u) => SameIn /\ SameOut
             /\ SendBtnTapped(u) => SameIn /\ SameOut
             /\ ClaimTapped(u) => SameIn /\ SameOut
             /\ DeleteTapped(u) => SameIn /\ SameOut
             /\ WriteApplied(u) => SameIn /\ SameOut
             /\ ReplyCommitted(u) => SameIn /\ SameOut
             /\ ClaimCommitted(u) => SameIn /\ SameOut
             /\ TxnFailed(u) => SameIn /\ SameOut
             /\ \A to \in Users : TransferChosen(u, to) => SameIn /\ SameOut
             /\ \A to \in Users, b \in BOOLEAN, g \in Gifts :
                   PostSent(u, to, b, g) => SameIn /\ SameOut
             /\ \A i \in Ids : DetailsOpened(u, i) \/ RowExpanded(u, i) => SameIn /\ SameOut
             /\ \A i \in Ids : InboxRowDeleted(u, i) => SameOut
             /\ \A i \in Ids : OutboxRowDeleted(u, i) => SameIn
      BY DEF UserKnown, InboxSnapshot, OutboxSnapshot, RowCollapsed, DetailsClosed,
             SendBtnTapped, ClaimTapped, DeleteTapped, WriteApplied, ReplyCommitted,
             ClaimCommitted, TxnFailed, TransferChosen, PostSent, deviceVars, DetailsOpened,
             RowExpanded, InboxRowDeleted, OutboxRowDeleted
<1>8. UNCHANGED vars => SameIn /\ SameOut
      BY DEF vars, deviceVars
<1>9. ASSUME NEW v \in Users, NEW id \in Ids, SameIn, inbox'[v][id] # None
      PROVE  id \in Sent' /\ inbox'[v][id].numStampsGiven \in {0, letter'[id].gift}
      BY <1>2, <1>9
<1>10. ASSUME NEW v \in Users, NEW id \in outbox'[v], SameOut
       PROVE  id \in Sent'
       BY <1>1, <1>10 DEF ListInv, Grows
<1> HIDE DEF SameIn, SameOut
<1>11. \/ SameIn
       \/ \E u \in Users : InboxSnapshot(u)
       \/ \E u \in Users, i \in Ids : InboxRowDeleted(u, i)
       BY <1>7, <1>8 DEF Next
<1>12. \/ SameOut
       \/ \E u \in Users : OutboxSnapshot(u)
       \/ \E u \in Users, i \in Ids : OutboxRowDeleted(u, i)
       BY <1>7, <1>8 DEF Next
<1>13. \A v \in Users, id \in Ids : inbox'[v][id] # None =>
          id \in Sent' /\ inbox'[v][id].numStampsGiven \in {0, letter'[id].gift}
       BY <1>3, <1>4, <1>9, <1>11
<1>14. \A v \in Users : \A id \in outbox'[v] : id \in Sent'
       BY <1>5, <1>6, <1>10, <1>12
<1> QED
    BY <1>13, <1>14 DEF ListInv, Ids

LEMMA InvStep == Inv /\ [Next]_vars => Inv' /\ Grows
<1> SUFFICES ASSUME Inv, [Next]_vars PROVE Inv' /\ Grows
    OBVIOUS
<1>1. TypeOK
      BY DEF Inv
<1>2. TypeOK' /\ Grows
      BY <1>1, TypeStep, StepGrows
<1>3. FreshInv' /\ ListInv' /\ QueueInv' /\ TxnsInv'
      BY <1>2, FreshStep, ListStep, QueueStep, TxnsStep
<1>4. DocInv' /\ ScreensInv'
      BY <1>2, DocStep, ScreensStep
<1> QED
    BY <1>2, <1>3, <1>4 DEF Inv

LEMMA Invariance == Spec => []Inv
BY InvInit, InvStep, PTL DEF Spec

-----------------------------------------------------------------------------
(***************************************************************************)
(* The properties, each inductive together with Inv.                       *)
(***************************************************************************)

\* A document that is there before a step is a document of a post sent.
LEMMA OldDoc ==
    ASSUME Inv, Grows, NEW id \in Ids, doc[id] # None
    PROVE  /\ doc[id] \in PostDoc /\ id \in Sent /\ id \in Sent' /\ letter'[id] = letter[id]
           /\ doc[id].numRecipientUnreadReplies \in Nat
           /\ doc[id].numSenderUnreadReplies \in Nat
           /\ replies[id].sender \in Nat /\ replies[id].others \in Nat
<1>1. doc[id] \in PostDoc /\ id \in Sent /\ id \in Sent' /\ letter'[id] = letter[id]
      BY DEF Inv, TypeOK, ServerType, DocInv, Grows
<1> QED
    BY <1>1 DEF Inv, TypeOK, ServerType, PostDoc

LEMMA UnreadStep ==
    ASSUME Inv, Inv', Grows, [Next]_vars, UnreadUntilOpened
    PROVE  UnreadUntilOpened'
<1> SUFFICES ASSUME NEW id \in Ids, id \in Sent', id \notin anonymous', doc'[id] # None
             PROVE  /\ (\A o \in opened'[id] : o.user = letter'[id].from) =>
                          doc'[id].numRecipientUnreadReplies = replies'[id].sender
                    /\ (\A o \in opened'[id] : o.user # letter'[id].from) =>
                          doc'[id].numSenderUnreadReplies = replies'[id].others
    BY SentIdsNext DEF Inv, TypeOK, UnreadUntilOpened, CountsEveryUnread
<1>1. id \notin anonymous /\ \A o \in opened[id] : o \in opened'[id]
      BY DEF Grows
<1>2. doc[id] # None =>
         /\ doc[id] \in PostDoc /\ id \in Sent /\ letter'[id] = letter[id]
         /\ (\A o \in opened[id] : o.user = letter[id].from) =>
               doc[id].numRecipientUnreadReplies = replies[id].sender
         /\ (\A o \in opened[id] : o.user # letter[id].from) =>
               doc[id].numSenderUnreadReplies = replies[id].others
      BY <1>1, OldDoc DEF UnreadUntilOpened, CountsEveryUnread
<1>3. CASE Untouched(id)
      BY <1>1, <1>2, <1>3 DEF Untouched
<1>4. CASE Created(id)
    <2>1. /\ doc'[id].numRecipientUnreadReplies = 0
          /\ doc'[id].numSenderUnreadReplies = 0
          BY <1>4 DEF Created, NewDoc
    <2>2. replies'[id].sender = 0 /\ replies'[id].others = 0
          BY <1>4 DEF Created, Inv, FreshInv
    <2> QED
        BY <2>1, <2>2
<1>5. ASSUME NEW u \in Users, NEW w \in Write, Wrote(u, w, id)
      PROVE  /\ (\A o \in opened'[id] : o.user = letter'[id].from) =>
                   doc'[id].numRecipientUnreadReplies = replies'[id].sender
             /\ (\A o \in opened'[id] : o.user # letter'[id].from) =>
                   doc'[id].numSenderUnreadReplies = replies'[id].others
    <2>1. /\ doc[id] # None /\ doc'[id] = Updated(doc[id], w) /\ w.id = id
          /\ In(w, queue[u]) /\ replies' = replies /\ opened' = opened
          BY <1>5 DEF Wrote
    <2>2. /\ doc'[id].numRecipientUnreadReplies =
                IF w.op = "resetRecipient" THEN 0 ELSE doc[id].numRecipientUnreadReplies
          /\ doc'[id].numSenderUnreadReplies =
                IF w.op = "resetSender" THEN 0 ELSE doc[id].numSenderUnreadReplies
          BY <1>2, <2>1, UpdatedFields
    <2>3. WriteInv(u, w)
          BY <2>1 DEF Inv, QueueInv
    <2>4. w.op = "resetRecipient" => \E o \in opened[id] : o.user # letter[id].from
          BY <1>1, <2>1, <2>3 DEF WriteInv, Resets
    <2>5. w.op = "resetSender" => \E o \in opened[id] : o.user = letter[id].from
          BY <1>1, <2>1, <2>3 DEF WriteInv, Resets
    <2> QED
        BY <1>2, <2>1, <2>2, <2>4, <2>5
<1>6. ASSUME NEW u \in Users, NEW c \in Sides, Replied(u, c, id)
      PROVE  /\ (\A o \in opened'[id] : o.user = letter'[id].from) =>
                   doc'[id].numRecipientUnreadReplies = replies'[id].sender
             /\ (\A o \in opened'[id] : o.user # letter'[id].from) =>
                   doc'[id].numSenderUnreadReplies = replies'[id].others
    <2>1. /\ doc[id] # None /\ doc'[id] = Incremented(doc[id], c) /\ opened' = opened
          /\ replies'[id].sender = IF u = letter[id].from THEN replies[id].sender + 1
                                                          ELSE replies[id].sender
          /\ replies'[id].others = IF u = letter[id].from THEN replies[id].others
                                                          ELSE replies[id].others + 1
          BY <1>6 DEF Replied
    <2>2. c \in {"recipient", "sender"}
          BY DEF Sides
    <2>3. /\ doc'[id].numRecipientUnreadReplies =
                IF c = "recipient" THEN doc[id].numRecipientUnreadReplies + 1
                                   ELSE doc[id].numRecipientUnreadReplies
          /\ doc'[id].numSenderUnreadReplies =
                IF c = "recipient" THEN doc[id].numSenderUnreadReplies
                                   ELSE doc[id].numSenderUnreadReplies + 1
          BY <1>2, <2>1, <2>2, IncrementedFields
    <2>4. c = "recipient" <=> u = letter[id].from
          BY <1>1, <1>6 DEF Replied
    <2> QED
        BY <1>2, <2>1, <2>3, <2>4
<1>7. ASSUME NEW u \in Users, NEW t \in Txn, Claimed(u, t, id)
      PROVE  /\ (\A o \in opened'[id] : o.user = letter'[id].from) =>
                   doc'[id].numRecipientUnreadReplies = replies'[id].sender
             /\ (\A o \in opened'[id] : o.user # letter'[id].from) =>
                   doc'[id].numSenderUnreadReplies = replies'[id].others
    <2>1. /\ doc[id] # None /\ doc'[id] = [doc[id] EXCEPT !.numStampsGiven = 0]
          /\ replies' = replies /\ opened' = opened
          BY <1>7 DEF Claimed
    <2>2. /\ doc'[id].numRecipientUnreadReplies = doc[id].numRecipientUnreadReplies
          /\ doc'[id].numSenderUnreadReplies = doc[id].numSenderUnreadReplies
          BY <1>2, <2>1 DEF PostDoc
    <2> QED
        BY <1>2, <2>1, <2>2
<1> QED
    BY <1>3, <1>4, <1>5, <1>6, <1>7, DocCases

(***************************************************************************)
(* A side's unread counter is exact until that side opens the post,        *)
(* whatever the other side's resets do: OngoingPostView's reversal.        *)
(***************************************************************************)
THEOREM UnreadIsExact == Spec => []UnreadUntilOpened
<1>1. Init => UnreadUntilOpened
      BY DEF Init, UnreadUntilOpened, Sent
<1>2. Inv /\ Inv' /\ Grows /\ [Next]_vars /\ UnreadUntilOpened => UnreadUntilOpened'
      BY UnreadStep
<1> QED
    BY <1>1, <1>2, InvInit, InvStep, PTL DEF Spec

LEMMA ReadStep ==
    ASSUME Inv, Inv', Grows, [Next]_vars, ReadWasOpened
    PROVE  ReadWasOpened'
<1> SUFFICES ASSUME NEW id \in Ids, id \in Sent', doc'[id] # None, doc'[id].didRead
             PROVE  \E o \in opened'[id] : o.via = "inbox"
    BY SentIdsNext DEF Inv, TypeOK, ReadWasOpened
<1>1. \A o \in opened[id] : o \in opened'[id]
      BY DEF Grows
<1>2. doc[id] # None => doc[id] \in PostDoc /\ id \in Sent
      BY OldDoc
<1>3. SUFFICES (doc[id] # None /\ doc[id].didRead) \/ \E o \in opened[id] : o.via = "inbox"
      BY <1>1, <1>2 DEF ReadWasOpened
<1>4. CASE Untouched(id)
      BY <1>4 DEF Untouched
<1>5. ~Created(id)
    <2>1. \A to \in Users : \A g : ~NewDoc(to, g).didRead
          BY DEF NewDoc
    <2> QED
        BY <2>1 DEF Created
<1>6. ASSUME NEW u \in Users, NEW w \in Write, Wrote(u, w, id)
      PROVE  (doc[id] # None /\ doc[id].didRead) \/ \E o \in opened[id] : o.via = "inbox"
    <2>1. doc[id] # None /\ doc'[id] = Updated(doc[id], w) /\ w.id = id /\ In(w, queue[u])
          BY <1>6 DEF Wrote
    <2>2. doc[id].didRead \/ w.op = "read"
          BY <1>2, <2>1, UpdatedRead
    <2>3. WriteInv(u, w)
          BY <2>1 DEF Inv, QueueInv
    <2> QED
        BY <2>1, <2>2, <2>3 DEF WriteInv
<1>7. ASSUME NEW u \in Users, NEW c \in Sides, Replied(u, c, id)
      PROVE  doc[id] # None /\ doc[id].didRead
    <2>1. doc[id] # None /\ doc'[id] = Incremented(doc[id], c)
          BY <1>7 DEF Replied
    <2>2. c \in {"recipient", "sender"}
          BY DEF Sides
    <2>3. Incremented(doc[id], c).didRead = doc[id].didRead
          BY <1>2, <2>1, <2>2, IncrementedFields
    <2> QED
        BY <2>1, <2>3
<1>8. ASSUME NEW u \in Users, NEW t \in Txn, Claimed(u, t, id)
      PROVE  doc[id] # None /\ doc[id].didRead
    <2>1. doc[id] # None /\ doc'[id] = [doc[id] EXCEPT !.numStampsGiven = 0]
          BY <1>8 DEF Claimed
    <2>2. [doc[id] EXCEPT !.numStampsGiven = 0].didRead = doc[id].didRead
          BY <1>2, <2>1 DEF PostDoc
    <2> QED
        BY <2>1, <2>2
<1> QED
    BY <1>4, <1>5, <1>6, <1>7, <1>8, DocCases

(***************************************************************************)
(* A post reported as read to its sender was opened from an inbox          *)
(* (DetailsVC.viewWillAppear is the only place that marks it).             *)
(***************************************************************************)
THEOREM ReadIsHonest == Spec => []ReadWasOpened
<1>1. Init => ReadWasOpened
      BY DEF Init, ReadWasOpened, Sent
<1>2. Inv /\ Inv' /\ Grows /\ [Next]_vars /\ ReadWasOpened => ReadWasOpened'
      BY ReadStep
<1> QED
    BY <1>1, <1>2, InvInit, InvStep, PTL DEF Spec

LEMMA StampsStep ==
    ASSUME Inv, Inv', Grows, [Next]_vars, StampsNotLost
    PROVE  StampsNotLost'
<1> DEFINE Kept(n, gift, c) == IF n = gift THEN c = 0 ELSE c >= gift
<1> SUFFICES ASSUME NEW id \in Ids, id \in Sent', doc'[id] # None
             PROVE  Kept(doc'[id].numStampsGiven, letter'[id].gift, claimed'[id])
    BY SentIdsNext DEF Inv, TypeOK, StampsNotLost
<1>1. doc[id] # None =>
         /\ doc[id] \in PostDoc /\ id \in Sent /\ letter'[id] = letter[id]
         /\ Kept(doc[id].numStampsGiven, letter[id].gift, claimed[id])
      BY OldDoc DEF StampsNotLost
<1>2. claimed[id] \in Nat /\ (id \in Sent => letter[id].gift \in Nat)
    <2>1. id \in Sent => letter[id] \in Letter
          BY ElementOfSeq DEF Inv, TypeOK, HistoryType, Sent
    <2> QED
        BY <2>1, ConstantFacts DEF Inv, TypeOK, HistoryType, Letter
<1>3. CASE Created(id)
    <2>1. \A to \in Users : \A g : NewDoc(to, g).numStampsGiven = g
          BY DEF NewDoc
    <2>2. claimed'[id] = 0 /\ doc'[id].numStampsGiven = letter'[id].gift
          BY <1>3, <2>1 DEF Created, Inv, FreshInv
    <2> QED
        BY <2>2
<1>4. CASE Untouched(id)
      BY <1>1, <1>4 DEF Untouched
<1>5. ASSUME NEW u \in Users, NEW w \in Write, Wrote(u, w, id)
      PROVE  Kept(doc'[id].numStampsGiven, letter'[id].gift, claimed'[id])
    <2>1. doc[id] # None /\ doc'[id] = Updated(doc[id], w) /\ claimed' = claimed
          BY <1>5 DEF Wrote
    <2>2. doc'[id].numStampsGiven = doc[id].numStampsGiven
          BY <1>1, <2>1, UpdatedFields
    <2> QED
        BY <1>1, <2>1, <2>2
<1>6. ASSUME NEW u \in Users, NEW c \in Sides, Replied(u, c, id)
      PROVE  Kept(doc'[id].numStampsGiven, letter'[id].gift, claimed'[id])
    <2>1. doc[id] # None /\ doc'[id] = Incremented(doc[id], c) /\ claimed' = claimed
          BY <1>6 DEF Replied
    <2>2. c \in {"recipient", "sender"}
          BY DEF Sides
    <2>3. doc'[id].numStampsGiven = doc[id].numStampsGiven
          BY <1>1, <2>1, <2>2, IncrementedFields
    <2> QED
        BY <1>1, <2>1, <2>3
<1>7. ASSUME NEW u \in Users, NEW t \in Txn, Claimed(u, t, id)
      PROVE  Kept(doc'[id].numStampsGiven, letter'[id].gift, claimed'[id])
    <2>1. /\ doc[id] # None /\ t \in txns[u] /\ t.type = "claim" /\ t.id = id
          /\ claimed'[id] = claimed[id] + t.amount
          /\ doc'[id] = [doc[id] EXCEPT !.numStampsGiven = 0]
          BY <1>7 DEF Claimed
    <2>2. t.amount = letter[id].gift /\ t.amount # 0
          BY <2>1 DEF Inv, TxnsInv, TxnInv
    <2>3. doc'[id].numStampsGiven = 0
          BY <1>1, <2>1 DEF PostDoc
    <2> QED
        BY <1>1, <1>2, <2>1, <2>2, <2>3
<1> QED
    BY <1>3, <1>4, <1>5, <1>6, <1>7, DocCases

(***************************************************************************)
(* Stamps that are no longer attached to a post were credited in full, and *)
(* nothing was credited for those that still are                           *)
(* (DetailsVC.claimStampsGivenBtnTapped).                                  *)
(***************************************************************************)
THEOREM StampsAreKept == Spec => []StampsNotLost
<1>1. Init => StampsNotLost
      BY DEF Init, StampsNotLost, Sent
<1>2. Inv /\ Inv' /\ Grows /\ [Next]_vars /\ StampsNotLost => StampsNotLost'
      BY StampsStep
<1> QED
    BY <1>1, <1>2, InvInit, InvStep, PTL DEF Spec

-----------------------------------------------------------------------------
(***************************************************************************)
(* Opening clears the badge.  A screen is new, and its reset is then on    *)
(* its way, or it shows what it showed before; and a write leaves the      *)
(* queue by being applied, never otherwise.                                *)
(***************************************************************************)
LEMMA PendingIs ==
    ASSUME NEW u \in Users, NEW id, NEW op
    PROVE  /\ Pending(u, id, op) <=> \E w : In(w, queue[u]) /\ w.op = op /\ w.id = id
           /\ Pending(u, id, op)' <=> \E w : In(w, queue'[u]) /\ w.op = op /\ w.id = id
BY DEF Pending, In

LEMMA QueueKept ==
    ASSUME Inv, [Next]_vars, NEW u \in Users, ~WriteApplied(u), NEW w, In(w, queue[u])
    PROVE  In(w, queue'[u])
<1>1. /\ TypeOK /\ DeviceType /\ queue \in [Users -> Seq(Write)]
      BY DEF Inv, TypeOK, DeviceType
<1>2. SUFFICES ASSUME queue'[u] # queue[u] PROVE In(w, queue'[u])
      OBVIOUS
<1>3. ASSUME NEW v \in Users, NEW id \in Ids, DetailsOpened(v, id)
      PROVE  In(w, queue'[u])
    <2>1. u = v /\ queue'[u] = (queue[u] \o MarkRead(u, id)) \o Moved(u, id)
          BY <1>1, <1>2, <1>3 DEF DetailsOpened
    <2>2. queue[u] \in Seq(Write) /\ MarkRead(u, id) \in Seq(Write)
          /\ Moved(u, id) \in Seq(Write)
          BY <1>1, MarkReadWrites, MovedWrites
    <2>3. /\ queue[u] \o MarkRead(u, id) \in Seq(Write)
          /\ In(w, queue[u] \o MarkRead(u, id))
                <=> In(w, queue[u]) \/ In(w, MarkRead(u, id))
          BY ONLY <2>2, InConcat
    <2>4. In(w, (queue[u] \o MarkRead(u, id)) \o Moved(u, id))
             <=> In(w, queue[u] \o MarkRead(u, id)) \/ In(w, Moved(u, id))
          BY ONLY <2>2, <2>3, InConcat
    <2> QED
        BY <2>1, <2>3, <2>4
<1>4. ASSUME NEW v \in Users, NEW id \in Ids, RowExpanded(v, id)
      PROVE  In(w, queue'[u])
    <2> DEFINE rest == IF screen[u] = None THEN << >> ELSE Moved(u, screen[u].id)
    <2>1. u = v /\ queue'[u] = (queue[u] \o Moved(u, id)) \o rest
          BY <1>1, <1>2, <1>4 DEF RowExpanded
    <2>2. queue[u] \in Seq(Write) /\ rest \in Seq(Write) /\ Moved(u, id) \in Seq(Write)
          BY <1>1, MovedWrites, OpenScreen
    <2> HIDE DEF rest
    <2>3. /\ queue[u] \o Moved(u, id) \in Seq(Write)
          /\ In(w, queue[u] \o Moved(u, id)) <=> In(w, queue[u]) \/ In(w, Moved(u, id))
          BY ONLY <2>2, InConcat
    <2>4. In(w, (queue[u] \o Moved(u, id)) \o rest)
             <=> In(w, queue[u] \o Moved(u, id)) \/ In(w, rest)
          BY ONLY <2>2, <2>3, InConcat
    <2> QED
        BY <2>1, <2>3, <2>4
<1>5. ASSUME NEW v \in Users, RowCollapsed(v)
      PROVE  In(w, queue'[u])
    <2>1. u = v /\ screen[u] # None /\ queue'[u] = queue[u] \o Moved(u, screen[u].id)
          BY <1>1, <1>2, <1>5 DEF RowCollapsed
    <2>2. queue[u] \in Seq(Write) /\ Moved(u, screen[u].id) \in Seq(Write)
          BY <1>1, <2>1, MovedWrites, OpenScreen
    <2> QED
        BY <2>1, <2>2, InConcat
<1>6. ASSUME NEW v \in Users, NEW x \in Write, queue' = [queue EXCEPT ![v] = Append(@, x)]
      PROVE  In(w, queue'[u])
      BY <1>1, <1>2, <1>6, InAppend
<1>7. ASSUME NEW v \in Users, NEW to \in Users, TransferChosen(v, to)
      PROVE  In(w, queue'[u])
    <2> DEFINE x == [op |-> "transfer", id |-> screen[v].id, to |-> to, no |-> 0]
    <2>1. screen[v].id \in Ids /\ 0 \in 0 .. MaxOpens
          BY <1>1, <1>7, OpenScreen, ConstantFacts DEF TransferChosen
    <2>2. x \in Write
          BY <2>1, WriteRecord, ZenonT(40)
    <2>3. queue' = [queue EXCEPT ![v] = Append(@, x)]
          BY <1>7 DEF TransferChosen
    <2> QED
        BY <1>6, <2>2, <2>3
<1>8. ASSUME NEW v \in Users, DeleteTapped(v)
      PROVE  In(w, queue'[u])
    <2> DEFINE x == [op |-> "delete", id |-> screen[v].id, to |-> v, no |-> screen[v].no]
    <2>1. screen[v].id \in Ids /\ screen[v].no \in 0 .. MaxOpens
          BY <1>1, <1>8, OpenScreen DEF DeleteTapped
    <2>2. x \in Write
          BY <2>1, WriteRecord, ZenonT(40)
    <2>3. queue' = [queue EXCEPT ![v] = Append(@, x)]
          BY <1>8 DEF DeleteTapped
    <2> QED
        BY <1>6, <2>2, <2>3
<1>9. ASSUME NEW v \in Users, NEW id \in Ids,
             InboxRowDeleted(v, id) \/ OutboxRowDeleted(v, id)
      PROVE  In(w, queue'[u])
    <2>1. /\ W(v, "delete", id) \in Write
          /\ queue' = [queue EXCEPT ![v] = Append(@, W(v, "delete", id))]
          BY <1>9, PlainWrite DEF InboxRowDeleted, OutboxRowDeleted
    <2> QED
        BY <1>6, <2>1
<1>10. \A v \in Users :
          /\ ~UserKnown(v) /\ ~InboxSnapshot(v) /\ ~OutboxSnapshot(v) /\ ~DetailsClosed(v)
          /\ ~SendBtnTapped(v) /\ ~ClaimTapped(v) /\ ~ReplyCommitted(v)
          /\ ~ClaimCommitted(v) /\ ~TxnFailed(v)
          /\ \A to \in Users, b \in BOOLEAN, g \in Gifts : ~PostSent(v, to, b, g)
      BY <1>2 DEF UserKnown, InboxSnapshot, OutboxSnapshot, DetailsClosed, SendBtnTapped,
         ClaimTapped, ReplyCommitted, ClaimCommitted, TxnFailed, PostSent, deviceVars
<1>11. \A v \in Users : ~WriteApplied(v)
      BY <1>1, <1>2 DEF WriteApplied
<1>12. ~UNCHANGED vars
      BY <1>2 DEF vars, deviceVars
<1> QED
    BY <1>3, <1>4, <1>5, <1>7, <1>8, <1>9, <1>10, <1>11, <1>12 DEF Next

\* A pending write to a document that outlives the step stays, or is applied.
LEMMA LeavesByBeingApplied ==
    ASSUME Inv, [Next]_vars, NEW u \in Users, NEW id \in Ids, NEW op,
           Pending(u, id, op), ~Pending(u, id, op)', doc'[id] # None
    PROVE  \E w \in Write : Wrote(u, w, id) /\ w.op = op
<1>1. /\ TypeOK /\ DeviceType /\ ServerType /\ queue[u] \in Seq(Write)
      BY DEF Inv, TypeOK, DeviceType
<1>2. PICK w : In(w, queue[u]) /\ w.op = op /\ w.id = id
      BY PendingIs
<1>3. ~In(w, queue'[u])
      BY <1>2, PendingIs
<1>4. WriteApplied(u)
      BY <1>2, <1>3, QueueKept
<1>5. /\ queue[u] # << >> /\ queue' = [queue EXCEPT ![u] = Tail(@)]
      /\ UNCHANGED <<replies, letter, opened, anonymous, claimed>>
      BY <1>4 DEF WriteApplied
<1>6. queue'[u] = Tail(queue[u]) /\ \A v \in Users \ {u} : queue'[v] = queue[v]
      BY <1>1, <1>5 DEF DeviceType
<1>7. w = Head(queue[u]) /\ w \in Write
      BY <1>1, <1>2, <1>3, <1>5, <1>6, InTail
<1>8. doc' = [doc EXCEPT ![w.id] = IF @ = None THEN None ELSE Updated(@, w)]
      BY <1>4, <1>7 DEF WriteApplied
<1>9. doc[id] # None /\ doc'[id] = Updated(doc[id], w)
      BY <1>1, <1>2, <1>8 DEF ServerType
<1> QED
    BY <1>2, <1>5, <1>6, <1>7, <1>9 DEF Wrote

\* An opening has queued a reset.
LEMMA OpeningQueuesReset ==
    ASSUME Inv, NEW u \in Users, NEW id \in Ids, letter[id].ongoing,
           DetailsOpened(u, id) \/ RowExpanded(u, id)
    PROVE  Pending(u, id, "resetRecipient")' \/ Pending(u, id, "resetSender")'
<1> DEFINE r == W(u, ResetOp(u, id), id)
<1>1. /\ TypeOK /\ DeviceType /\ queue[u] \in Seq(Write)
      BY DEF Inv, TypeOK, DeviceType
<1>2. /\ In(r, Moved(u, id)) /\ Moved(u, id) \in Seq(Write) /\ r.id = id
      /\ r.op \in {"resetRecipient", "resetSender"}
      BY MovedWrites
<1> HIDE DEF r
<1>3. In(r, queue'[u]) => Pending(u, id, "resetRecipient")' \/ Pending(u, id, "resetSender")'
      BY <1>2 DEF Pending, In
<1>4. CASE DetailsOpened(u, id)
    <2>1. queue'[u] = (queue[u] \o MarkRead(u, id)) \o Moved(u, id)
          BY <1>1, <1>4 DEF DetailsOpened, DeviceType
    <2>2. MarkRead(u, id) \in Seq(Write)
          BY MarkReadWrites
    <2>3. queue[u] \o MarkRead(u, id) \in Seq(Write)
          BY ONLY <1>1, <2>2, InConcat
    <2>4. In(r, (queue[u] \o MarkRead(u, id)) \o Moved(u, id))
             <=> In(r, queue[u] \o MarkRead(u, id)) \/ In(r, Moved(u, id))
          BY ONLY <1>2, <2>3, InConcat
    <2> QED
        BY <1>2, <1>3, <2>1, <2>4
<1>5. CASE RowExpanded(u, id)
    <2> DEFINE rest == IF screen[u] = None THEN << >> ELSE Moved(u, screen[u].id)
    <2>1. queue'[u] = (queue[u] \o Moved(u, id)) \o rest
          BY <1>1, <1>5 DEF RowExpanded, DeviceType
    <2>2. rest \in Seq(Write)
          BY <1>1, MovedWrites, OpenScreen
    <2> HIDE DEF rest
    <2>3. /\ queue[u] \o Moved(u, id) \in Seq(Write)
          /\ In(r, queue[u] \o Moved(u, id)) <=> In(r, queue[u]) \/ In(r, Moved(u, id))
          BY ONLY <1>1, <1>2, InConcat
    <2>4. In(r, (queue[u] \o Moved(u, id)) \o rest)
             <=> In(r, queue[u] \o Moved(u, id)) \/ In(r, rest)
          BY ONLY <2>2, <2>3, InConcat
    <2> QED
        BY <1>2, <1>3, <2>1, <2>3, <2>4
<1> QED
    BY <1>4, <1>5

SameScreen(u) ==
    /\ screen[u] # None
    /\ screen'[u].id = screen[u].id /\ screen'[u].via = screen[u].via
    /\ screen'[u].atOpen = screen[u].atOpen

FreshScreen(u) ==
    /\ letter' = letter
    /\ \E id \in Ids :
          /\ screen'[u].id = id
          /\ letter[id].ongoing => \/ Pending(u, id, "resetRecipient")'
                                   \/ Pending(u, id, "resetSender")'

LEMMA ScreenCases ==
    ASSUME Inv, [Next]_vars, NEW u \in Users, screen'[u] # None
    PROVE  \/ SameScreen(u)
           \/ FreshScreen(u)
<1>1. /\ TypeOK /\ DeviceType /\ screen \in [Users -> Screen \cup {None}]
      BY DEF Inv, TypeOK, DeviceType
<1>2. CASE screen'[u] = screen[u]
      BY <1>2 DEF SameScreen
<1>3. ASSUME NEW v \in Users, NEW id \in Ids, DetailsOpened(v, id) \/ RowExpanded(v, id)
      PROVE  SameScreen(u) \/ FreshScreen(u)
    <2>1. letter' = letter /\ \E path, g : Opened(v, id, path, g)
          BY <1>3 DEF DetailsOpened, RowExpanded
    <2>2. CASE v # u
        <3>1. screen'[u] = screen[u]
              BY <1>1, <2>1, <2>2 DEF Opened
        <3> QED
            BY <1>2, <3>1
    <2>3. CASE v = u
        <3>1. screen'[u].id = id
              BY <1>1, <2>1, <2>3 DEF Opened
        <3> QED
            BY <1>3, <2>1, <2>3, <3>1, OpeningQueuesReset DEF FreshScreen
    <2> QED
        BY <2>2, <2>3
<1>4. ASSUME NEW v \in Users, RowCollapsed(v) \/ DetailsClosed(v) \/ WriteApplied(v)
                               \/ \E to \in Users : TransferChosen(v, to)
                               \/ \E id \in Ids : OutboxRowDeleted(v, id)
      PROVE  screen'[u] = screen[u]
    <2>1. screen' = [screen EXCEPT ![v] = None] \/ screen' = screen
          BY <1>4 DEF RowCollapsed, DetailsClosed, WriteApplied, TransferChosen,
                      OutboxRowDeleted
    <2> QED
        BY <1>1, <2>1
<1>5. ASSUME NEW v \in Users, ClaimCommitted(v)
      PROVE  SameScreen(u)
    <2>1. \/ screen' = screen
          \/ screen[v] # None /\ screen' = [screen EXCEPT ![v].claimEnabled = FALSE]
          BY <1>5 DEF ClaimCommitted
    <2>2. CASE screen[u] # None /\ screen'[u] = [screen[u] EXCEPT !.claimEnabled = FALSE]
        <3>1. screen[u] \in Screen
              BY <1>1, <2>2
        <3> QED
            BY <2>2, <3>1 DEF SameScreen, Screen
    <2> QED
        BY <1>1, <1>2, <2>1, <2>2 DEF SameScreen
<1>6. ASSUME NEW v \in Users
      PROVE  /\ UserKnown(v) => screen' = screen
             /\ InboxSnapshot(v) => screen' = screen
             /\ OutboxSnapshot(v) => screen' = screen
             /\ SendBtnTapped(v) => screen' = screen
             /\ ClaimTapped(v) => screen' = screen
             /\ DeleteTapped(v) => screen' = screen
             /\ ReplyCommitted(v) => screen' = screen
             /\ TxnFailed(v) => screen' = screen
             /\ \A id \in Ids : InboxRowDeleted(v, id) => screen' = screen
             /\ \A to \in Users, b \in BOOLEAN, g \in Gifts :
                   PostSent(v, to, b, g) => screen' = screen
      BY DEF UserKnown, InboxSnapshot, OutboxSnapshot, SendBtnTapped, ClaimTapped,
             DeleteTapped, ReplyCommitted, TxnFailed, InboxRowDeleted, PostSent, deviceVars
<1>7. UNCHANGED vars => screen' = screen
      BY DEF vars, deviceVars
<1> QED
    BY <1>2, <1>3, <1>4, <1>5, <1>6, <1>7 DEF Next

LEMMA BadgeStep ==
    ASSUME Inv, Inv', Grows, [Next]_vars, OpeningClearsBadge
    PROVE  OpeningClearsBadge'
<1> DEFINE NoReset(u, id) ==
        ~Pending(u, id, "resetRecipient") /\ ~Pending(u, id, "resetSender")
<1>1. SUFFICES
        ASSUME NEW u \in Users, screen'[u] # None,
               NEW id \in Ids, NEW path \in {"inbox", "outbox"}, NEW a \in Nat,
               screen'[u].id = id, screen'[u].via = path, screen'[u].atOpen = a,
               id \notin anonymous', path = "outbox" <=> letter'[id].from = u,
               letter'[id].ongoing, doc'[id] # None,
               ~Pending(u, id, "resetRecipient")', ~Pending(u, id, "resetSender")'
        PROVE  Badge(path, id)' <= RepliesTo(path, id)' - a
    <2>1. SUFFICES ASSUME NEW u \in Users, screen'[u] # None, screen'[u].id \notin anonymous',
                          OwnSide(u)'
                   PROVE  ClearedByOpening(u)'
          BY DEF OpeningClearsBadge
    <2>2. /\ screen'[u].id \in Ids /\ screen'[u].via \in {"inbox", "outbox"}
          /\ screen'[u].atOpen \in Nat
          BY <2>1, ScreenFields DEF Inv, TypeOK, DeviceType
    <2> QED
        BY <1>1, <2>1, <2>2 DEF OwnSide, ClearedByOpening, Pending, Badge, RepliesTo
<1> USE <1>1
<1>2. ScreenInv(u, screen[u])'
      BY DEF Inv, ScreensInv
<1>3. a <= RepliesTo(path, id)' /\ RepliesTo(path, id)' \in Nat
      BY <1>2 DEF ScreenInv, RepliesTo, Inv, TypeOK, ServerType
<1>4. SameScreen(u)
      BY ScreenCases DEF FreshScreen
<1>5. /\ screen[u] # None /\ screen[u].id = id /\ screen[u].via = path
      /\ screen[u].atOpen = a
      BY <1>4 DEF SameScreen
<1>6. id \in Sent /\ letter'[id] = letter[id] /\ id \notin anonymous
      BY <1>5 DEF Inv, ScreensInv, ScreenInv, Grows
<1>7. doc[id] # None
      BY <1>6, DocCases DEF Untouched, Created, Wrote, Replied, Claimed
<1>8. /\ doc[id] \in PostDoc
      /\ doc[id].numRecipientUnreadReplies \in Nat /\ doc[id].numSenderUnreadReplies \in Nat
      /\ replies[id].sender \in Nat /\ replies[id].others \in Nat
      BY <1>7, OldDoc
<1>9. CASE ~NoReset(u, id)
    <2>1. PICK w \in Write : Wrote(u, w, id) /\ w.op \in Resets
          BY <1>9, LeavesByBeingApplied DEF Resets
    <2>2. In(w, queue[u]) /\ w.id = id /\ doc'[id] = Updated(doc[id], w)
          BY <2>1 DEF Wrote
    <2>3. WriteInv(u, w)
          BY <2>2 DEF Inv, QueueInv
    <2>4. w.op = "resetSender" <=> path = "outbox"
          BY <1>6, <2>1, <2>2, <2>3 DEF WriteInv
    <2>5. /\ w.op = "resetRecipient" => doc'[id].numRecipientUnreadReplies = 0
          /\ w.op = "resetSender" => doc'[id].numSenderUnreadReplies = 0
          BY <1>8, <2>2, UpdatedFields
    <2>6. Badge(path, id)' = 0
          BY <2>1, <2>4, <2>5 DEF Badge, Resets
    <2> QED
        BY <1>3, <2>6
<1>10. CASE NoReset(u, id)
    <2>1. Badge(path, id) <= RepliesTo(path, id) - a
          BY <1>5, <1>6, <1>7, <1>10 DEF OpeningClearsBadge, OwnSide, ClearedByOpening
    <2>2. Badge(path, id) \in Nat /\ RepliesTo(path, id) \in Nat
          BY <1>8 DEF Badge, RepliesTo
    <2>3. RepliesTo(path, id) <= RepliesTo(path, id)'
          BY DEF Grows, RepliesTo
    <2>4. CASE Badge(path, id)' = Badge(path, id) \/ Badge(path, id)' = 0
          BY <1>3, <2>1, <2>2, <2>3, <2>4
    <2>5. CASE Untouched(id)
          BY <2>4, <2>5 DEF Untouched, Badge
    <2>6. ~Created(id)
          BY <1>6 DEF Created
    <2>7. ASSUME NEW v \in Users, NEW w \in Write, Wrote(v, w, id)
          PROVE  Badge(path, id)' = Badge(path, id) \/ Badge(path, id)' = 0
        <3>1. doc'[id] = Updated(doc[id], w)
              BY <2>7 DEF Wrote
        <3> QED
            BY <1>8, <3>1, UpdatedFields DEF Badge
    <2>8. ASSUME NEW v \in Users, NEW c \in Sides, Replied(v, c, id)
          PROVE  \/ Badge(path, id)' = Badge(path, id)
                 \/ /\ Badge(path, id)' = Badge(path, id) + 1
                    /\ RepliesTo(path, id)' = RepliesTo(path, id) + 1
        <3>1. /\ doc'[id] = Incremented(doc[id], c)
              /\ replies'[id].sender = IF v = letter[id].from THEN replies[id].sender + 1
                                                              ELSE replies[id].sender
              /\ replies'[id].others = IF v = letter[id].from THEN replies[id].others
                                                              ELSE replies[id].others + 1
              BY <2>8 DEF Replied
        <3>2. c \in {"recipient", "sender"}
              BY DEF Sides
        <3>3. /\ doc'[id].numRecipientUnreadReplies =
                    IF c = "recipient" THEN doc[id].numRecipientUnreadReplies + 1
                                       ELSE doc[id].numRecipientUnreadReplies
              /\ doc'[id].numSenderUnreadReplies =
                    IF c = "recipient" THEN doc[id].numSenderUnreadReplies
                                       ELSE doc[id].numSenderUnreadReplies + 1
              BY <1>8, <3>1, <3>2, IncrementedFields
        <3>4. c = "recipient" <=> v = letter[id].from
              BY <1>6, <2>8 DEF Replied
        <3> QED
            BY <3>1, <3>3, <3>4 DEF Badge, RepliesTo
    <2>9. ASSUME NEW v \in Users, NEW t \in Txn, Claimed(v, t, id)
          PROVE  Badge(path, id)' = Badge(path, id)
        <3>1. doc'[id] = [doc[id] EXCEPT !.numStampsGiven = 0]
              BY <2>9 DEF Claimed
        <3> QED
            BY <1>8, <3>1 DEF Badge, PostDoc
    <2>10. CASE /\ Badge(path, id)' = Badge(path, id) + 1
                /\ RepliesTo(path, id)' = RepliesTo(path, id) + 1
           BY <2>1, <2>2, <2>10
    <2> QED
        BY <2>4, <2>5, <2>6, <2>7, <2>8, <2>9, <2>10, DocCases
<1> QED
    BY <1>9, <1>10

(***************************************************************************)
(* Once its reset has reached the server, an open conversation's badge     *)
(* counts no reply that was there when it was opened.                      *)
(***************************************************************************)
THEOREM BadgeIsCleared == Spec => []OpeningClearsBadge
<1>1. Init => OpeningClearsBadge
      BY DEF Init, OpeningClearsBadge
<1>2. Inv /\ Inv' /\ Grows /\ [Next]_vars /\ OpeningClearsBadge => OpeningClearsBadge'
      BY BadgeStep
<1> QED
    BY <1>1, <1>2, InvInit, InvStep, PTL DEF Spec
=============================================================================
