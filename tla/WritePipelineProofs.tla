------------------------- MODULE WritePipelineProofs -------------------------
(***************************************************************************)
(* Proofs about WritePipeline, for any users, any limit of the pipeline and *)
(* any number of writes, faults, user changes and ends of the process: the  *)
(* write path keeps every write and its order, and implements WriteQueue.   *)
(***************************************************************************)
EXTENDS WritePipeline, SetInduction, SequenceTheorems, FiniteSetTheorems, TLAPS

-----------------------------------------------------------------------------
(* Sequences.                                                               *)

\* The first element of s comes after all of r in r \o s.
LEMMA ConcatParts ==
    ASSUME NEW S, NEW r \in Seq(S), NEW s \in Seq(S), s # << >>
    PROVE  /\ Len(r) \in Nat /\ Len(r) + 1 \in 1 .. Len(r \o s)
           /\ Len(r \o s) \in Nat /\ (r \o s)[Len(r) + 1] = Head(s)
           /\ \A j \in 1 .. Len(r) : j \in 1 .. Len(r \o s) /\ (r \o s)[j] = r[j]
<1>1. /\ Len(r) \in Nat /\ Len(s) \in Nat /\ Len(s) >= 1 /\ Head(s) = s[1]
    OBVIOUS
<1>2. /\ Len(r \o s) = Len(r) + Len(s)
      /\ \A i \in 1 .. Len(r) + Len(s) :
            (r \o s)[i] = IF i <= Len(r) THEN r[i] ELSE s[i - Len(r)]
    BY ConcatProperties
<1>3. Len(r) + 1 \in 1 .. Len(r) + Len(s) /\ ~(Len(r) + 1 <= Len(r)) /\ (Len(r) + 1) - Len(r) = 1
    BY <1>1
<1>4. (r \o s)[Len(r) + 1] = s[1]
    BY <1>2, <1>3
<1>5. \A j \in 1 .. Len(r) : j \in 1 .. Len(r) + Len(s) /\ j <= Len(r)
    BY <1>1
<1> QED BY <1>1, <1>2, <1>3, <1>4, <1>5

\* Its first element may be moved to the end of r.
LEMMA MoveHead ==
    ASSUME NEW S, NEW r \in Seq(S), NEW s \in Seq(S), s # << >>
    PROVE  Append(r, Head(s)) \o Tail(s) = r \o s
<1>1. Head(s) \in S /\ Tail(s) \in Seq(S) /\ << Head(s) >> \o Tail(s) = s
    OBVIOUS
<1>2. Append(r, Head(s)) = r \o << Head(s) >>
    BY <1>1, AppendIsConcat
<1>3. << Head(s) >> \in Seq(S)
    BY <1>1
<1>4. (r \o << Head(s) >>) \o Tail(s) = r \o (<< Head(s) >> \o Tail(s))
    BY <1>1, <1>3, ConcatAssociative
<1> QED BY <1>1, <1>2, <1>4

-----------------------------------------------------------------------------
(* Filling the pipeline.                                                    *)

\* Positive batch ids in ascending order.
RowsAscend(q) ==
    \A k \in 1 .. Len(q) :
        q[k].id > 0 /\ \A j \in 1 .. (k - 1) : q[j].id < q[k].id

\* The batches p are the first ones of the queue q.
StartsWith(q, p) ==
    Len(p) <= Len(q) /\ \A k \in 1 .. Len(p) : p[k] = q[k]

\* As many of them as the pipeline may hold.
FullPipeline(q, p) ==
    /\ StartsWith(q, p)
    /\ Len(p) = (IF Len(q) < kMaxPendingWrites THEN Len(q) ELSE kMaxPendingWrites)

LEMMA BatchRows ==
    ASSUME NEW q \in Seq(Batch)
    PROVE  /\ Len(q) \in Nat /\ DOMAIN q = 1 .. Len(q)
           /\ \A k \in 1 .. Len(q) :
                q[k] \in Batch /\ q[k].id \in Nat /\ q[k].user \in Users /\ q[k].write \in Nat
<1>1. \A b \in Batch : b.id \in Nat /\ b.user \in Users /\ b.write \in Nat
    BY DEF Batch
<1>2. \A k \in 1 .. Len(q) : q[k] \in Batch
    BY ElementOfSeq
<1> QED BY <1>1, <1>2, LenProperties

LEMMA OutcomeRows ==
    ASSUME NEW s \in Seq(Outcome)
    PROVE  /\ Len(s) \in Nat /\ DOMAIN s = 1 .. Len(s)
           /\ \A k \in 1 .. Len(s) :
                s[k] \in Outcome /\ s[k].user \in Users /\ s[k].write \in Nat
                /\ s[k].ok \in BOOLEAN
<1>1. \A o \in Outcome : o.user \in Users /\ o.write \in Nat /\ o.ok \in BOOLEAN
    BY DEF Outcome
<1>2. \A k \in 1 .. Len(s) : s[k] \in Outcome
    BY ElementOfSeq
<1> QED BY <1>1, <1>2, LenProperties

\* The rows up to the pipeline's last one, found by their ids.
LEMMA RowsUpTo ==
    ASSUME NEW q \in Seq(Batch), RowsAscend(q), NEW l \in 1 .. Len(q)
    PROVE  Cardinality({k \in DOMAIN q : q[k].id <= q[l].id}) = l
<1>1. Len(q) \in Nat /\ DOMAIN q = 1 .. Len(q) /\ \A k \in 1 .. Len(q) : q[k].id \in Nat
    BY BatchRows
<1>2. ASSUME NEW k \in 1 .. Len(q)
      PROVE  q[k].id <= q[l].id <=> k <= l
    <2>1. CASE k < l
        <3>1. k \in 1 .. (l - 1)
            BY <1>1, <2>1
        <3> QED BY <1>1, <2>1, <3>1 DEF RowsAscend
    <2>2. CASE k = l
        BY <1>1, <2>2
    <2>3. CASE l < k
        <3>1. l \in 1 .. (k - 1)
            BY <1>1, <2>3
        <3>2. q[l].id < q[k].id
            BY <3>1 DEF RowsAscend
        <3> QED BY <1>1, <2>3, <3>2
    <2> QED BY <1>1, <2>1, <2>2, <2>3
<1>3. {k \in DOMAIN q : q[k].id <= q[l].id} = 1 .. l
    <2>1. \A k : k \in 1 .. l <=> k \in 1 .. Len(q) /\ k <= l
        BY <1>1
    <2> QED BY <1>1, <1>2, <2>1
<1>4. Cardinality(1 .. l) = l
    <2>1. 1 \in Int /\ l \in Int /\ ~(1 > l) /\ l - 1 + 1 = l
        BY <1>1
    <2>2. Cardinality(1 .. l) = IF 1 > l THEN 0 ELSE l - 1 + 1
        BY <2>1, FS_Interval
    <2> QED BY <2>1, <2>2
<1> QED BY <1>3, <1>4

LEMMA BatchesRegroup ==
    ASSUME NEW s \in Seq(Batch), NEW x \in Seq(Batch), NEW y \in Seq(Batch)
    PROVE  (s \o x) \o y = s \o (x \o y)
BY ConcatAssociative

LEMMA NoRowsUpToZero ==
    ASSUME NEW q \in Seq(Batch), RowsAscend(q)
    PROVE  Cardinality({k \in DOMAIN q : q[k].id <= 0}) = 0
<1>1. DOMAIN q = 1 .. Len(q) /\ \A k \in 1 .. Len(q) : q[k].id \in Nat
    BY BatchRows
<1>2. {k \in DOMAIN q : q[k].id <= 0} = {}
    BY <1>1 DEF RowsAscend
<1> QED BY <1>2, FS_EmptySet

LEMMA NextBatchesFill ==
    ASSUME NEW n \in NetState, NEW q \in Seq(Batch), RowsAscend(q),
           StartsWith(q, n.pipeline), Len(n.pipeline) <= kMaxPendingWrites
    PROVE  /\ NextBatches(n, q) \in Seq(Batch)
           /\ n.pipeline \o NextBatches(n, q) \in Seq(Batch)
           /\ FullPipeline(q, n.pipeline \o NextBatches(n, q))
           /\ n.pipeline = << >> /\ q # << >> => NextBatches(n, q) # << >>
<1> DEFINE p == n.pipeline
           L == Len(p)
           last == IF p = << >> THEN 0 ELSE p[L].id
           from == Cardinality({k \in DOMAIN q : q[k].id <= last})
           top == IF from + (kMaxPendingWrites - L) < Len(q)
                  THEN from + (kMaxPendingWrites - L) ELSE Len(q)
           new == NextBatches(n, q)
<1>1. /\ p \in Seq(Batch) /\ L \in Nat /\ Len(q) \in Nat /\ L <= Len(q)
      /\ L <= kMaxPendingWrites
      /\ kMaxPendingWrites \in Nat /\ kMaxPendingWrites >= 1
      /\ \A k \in 1 .. L : p[k] = q[k]
      /\ \A k \in 1 .. Len(q) : q[k] \in Batch
      /\ p = << >> <=> L = 0
    BY PipelineAssumption DEF NetState, StartsWith
<1>2. from = L
    <2>1. CASE p = << >>
        <3>1. last = 0 /\ L = 0
            BY <1>1, <2>1
        <3> HIDE DEF last, p, L
        <3> QED BY <3>1, NoRowsUpToZero
    <2>2. CASE p # << >>
        <3>1. L \in 1 .. Len(q) /\ last = q[L].id
            BY <1>1, <2>2
        <3> HIDE DEF last, p, L
        <3> QED BY <3>1, RowsUpTo
    <2> QED BY <2>1, <2>2
<1>3. new = IF L < kMaxPendingWrites THEN SubSeq(q, from + 1, top) ELSE << >>
    BY DEF NextBatches
<1> HIDE DEF from, last, new, p
<1>4. CASE L < kMaxPendingWrites
    <2>1. /\ top \in Nat /\ L <= top /\ top <= Len(q)
          /\ top = IF Len(q) < kMaxPendingWrites THEN Len(q) ELSE kMaxPendingWrites
        BY <1>1, <1>2
    <2> HIDE DEF top
    <2>2. new = SubSeq(q, L + 1, top)
        BY <1>2, <1>3, <1>4
    <2>3. /\ new \in Seq(Batch) /\ Len(new) = top - L
          /\ \A k \in 1 .. (top - L) : new[k] = q[L + k]
        <3>1. \A k \in (L + 1) .. top : q[k] \in Batch
            BY <1>1, <2>1
        <3>2. /\ SubSeq(q, L + 1, top) \in Seq(Batch)
              /\ Len(SubSeq(q, L + 1, top)) =
                    IF L + 1 <= top THEN top - (L + 1) + 1 ELSE 0
              /\ \A k \in 1 .. (top - (L + 1) + 1) :
                    SubSeq(q, L + 1, top)[k] = q[(L + 1) + k - 1]
            BY <1>1, <2>1, <3>1, SubSeqProperties
        <3>3. top - (L + 1) + 1 = top - L /\ \A k \in Nat : (L + 1) + k - 1 = L + k
            BY <1>1, <2>1
        <3>4. Len(new) = top - L
            BY <1>1, <2>1, <2>2, <3>2
        <3>5. ASSUME NEW k \in 1 .. (top - L)
              PROVE  new[k] = q[L + k]
            BY <2>2, <3>2, <3>3
        <3> QED BY <2>2, <3>2, <3>4, <3>5
    <2>4. /\ p \o new \in Seq(Batch) /\ Len(p \o new) = top
          /\ \A k \in 1 .. top : (p \o new)[k] = IF k <= L THEN p[k] ELSE new[k - L]
        BY <1>1, <2>1, <2>3, ConcatProperties
    <2>5. ASSUME NEW k \in 1 .. top
          PROVE  (p \o new)[k] = q[k]
        <3>1. CASE k <= L
            BY <1>1, <2>4, <3>1
        <3>2. CASE k > L
            <4>1. k - L \in 1 .. (top - L) /\ L + (k - L) = k
                BY <1>1, <2>1, <3>2
            <4>2. new[k - L] = q[k]
                BY <2>3, <4>1
            <4> QED BY <1>1, <2>4, <3>2, <4>2
        <3>3. k <= L \/ k > L
            BY <1>1, <2>1
        <3> QED BY <3>1, <3>2, <3>3
    <2>6. p = << >> /\ q # << >> => new # << >>
        <3> HAVE p = << >> /\ q # << >>
        <3>1. L = 0 /\ Len(q) >= 1
            BY <1>1
        <3>2. Len(new) >= 1
            BY <1>1, <2>1, <2>3, <3>1
        <3> QED BY <3>2
    <2> QED BY <2>1, <2>3, <2>4, <2>5, <2>6 DEF FullPipeline, StartsWith, new, p
<1>5. CASE ~(L < kMaxPendingWrites)
    <2>1. new = << >> /\ L = kMaxPendingWrites
        BY <1>1, <1>3, <1>5
    <2>2. p \o new = p /\ << >> \in Seq(Batch)
        BY <1>1, <2>1, ConcatEmptySeq
    <2>3. p # << >>
        BY <1>1, <2>1
    <2> QED BY <1>1, <2>1, <2>2, <2>3 DEF FullPipeline, StartsWith, new, p
<1> QED BY <1>4, <1>5

\* The requests on the stream n are for its pipeline.
OnStream(n) == IsOpen(n) /\ handshake_complete(n)

SentIsPipeline(n) ==
    IF OnStream(n) THEN n.received \o n.sent = n.pipeline
    ELSE n.received = << >> /\ n.sent = << >>

IdleIsDone(n) == n.idle => OnStream(n) /\ n.pipeline = << >>

LEMMA AddToWritePipelineFields ==
    ASSUME NEW n \in NetState, NEW new \in Seq(Batch)
    PROVE  LET r == AddToWritePipeline(n, new)
           IN  /\ r \in NetState
               /\ r.pipeline = n.pipeline \o new
               /\ r.sent = IF OnStream(n) THEN n.sent \o new ELSE n.sent
               /\ r.idle = (n.idle /\ (OnStream(n) => new = << >>))
               /\ r.state = n.state /\ r.greeting = n.greeting
               /\ r.received = n.received
<1> DEFINE p == n.pipeline \o new
           s == n.sent \o new
           b == n.idle /\ new = << >>
<1>1. p \in Seq(Batch) /\ s \in Seq(Batch) /\ b \in BOOLEAN
    BY ConcatProperties DEF NetState
<1>2. AddToWritePipeline(n, new) =
        IF OnStream(n) THEN [n EXCEPT !.pipeline = p, !.sent = s, !.idle = b]
        ELSE [n EXCEPT !.pipeline = p]
    <2> DEFINE added == [n EXCEPT !.pipeline = p]
    <2>1. added.sent = n.sent /\ added.idle = n.idle
        BY DEF NetState
    <2>2. [added EXCEPT !.sent = added.sent \o new, !.idle = added.idle /\ new = << >>]
            = [n EXCEPT !.pipeline = p, !.sent = s, !.idle = b]
        BY <2>1
    <2> QED BY <2>2 DEF AddToWritePipeline, WriteMutations, OnStream
<1> HIDE DEF p, s
<1>3. CASE OnStream(n)
    <2>1. AddToWritePipeline(n, new) = [n EXCEPT !.pipeline = p, !.sent = s, !.idle = b]
        BY <1>2, <1>3
    <2> QED BY <1>1, <1>3, <2>1 DEF NetState, p, s
<1>4. CASE ~OnStream(n)
    <2>1. AddToWritePipeline(n, new) = [n EXCEPT !.pipeline = p]
        BY <1>2, <1>4
    <2> QED BY <1>1, <1>4, <2>1 DEF NetState, p, s
<1> QED BY <1>3, <1>4

\* What FillWritePipeline leaves: a full pipeline, on its way where the stream
\* is open, and otherwise a stream that is being started.
LEMMA FillEstablishes ==
    ASSUME NEW n \in NetState, NEW q \in Seq(Batch), RowsAscend(q),
           StartsWith(q, n.pipeline), Len(n.pipeline) <= kMaxPendingWrites,
           SentIsPipeline(n), IdleIsDone(n),
           q # << >> \/ (IsOpen(n) => handshake_complete(n))
    PROVE  LET r == FillWritePipeline(n, q)
           IN  /\ r \in NetState
               /\ FullPipeline(q, r.pipeline)
               /\ SentIsPipeline(r) /\ IdleIsDone(r)
               /\ r.pipeline # << >> => IsStarted(r)
               /\ IsOpen(r) <=> IsOpen(n)
               /\ r.greeting = n.greeting /\ r.received = n.received
<1> DEFINE new == NextBatches(n, q)
           a == AddToWritePipeline(n, new)
           m == IF a.pipeline = << >> THEN MarkIdle(a) ELSE a
           r == FillWritePipeline(n, q)
           Goal == /\ r \in NetState
                   /\ FullPipeline(q, r.pipeline)
                   /\ SentIsPipeline(r) /\ IdleIsDone(r)
                   /\ r.pipeline # << >> => IsStarted(r)
                   /\ IsOpen(r) <=> IsOpen(n)
                   /\ r.greeting = n.greeting /\ r.received = n.received
<1>1. /\ new \in Seq(Batch) /\ n.pipeline \o new \in Seq(Batch)
      /\ FullPipeline(q, n.pipeline \o new)
      /\ n.pipeline = << >> /\ q # << >> => new # << >>
    BY NextBatchesFill
<1>2. r = IF ShouldStartWriteStream(m) THEN Start(m) ELSE m
    BY DEF FillWritePipeline
<1> HIDE DEF new, r
<1>3. /\ a \in NetState
      /\ a.pipeline = n.pipeline \o new
      /\ a.sent = IF OnStream(n) THEN n.sent \o new ELSE n.sent
      /\ a.idle = (n.idle /\ (OnStream(n) => new = << >>))
      /\ a.state = n.state /\ a.greeting = n.greeting
      /\ a.received = n.received
    BY <1>1, AddToWritePipelineFields
<1> HIDE DEF a
<1>4. /\ OnStream(a) <=> OnStream(n)
      /\ IsOpen(a) <=> IsOpen(n)
    BY <1>3 DEF OnStream, IsOpen, handshake_complete
<1>5. SentIsPipeline(a)
    <2>1. CASE OnStream(n)
        <3>1. n.received \o n.sent = n.pipeline
            BY <2>1 DEF SentIsPipeline
        <3>2. n.received \o (n.sent \o new) = (n.received \o n.sent) \o new
            <4>1. n.received \in Seq(Batch) /\ n.sent \in Seq(Batch) /\ new \in Seq(Batch)
                BY <1>1 DEF NetState
            <4> QED BY ONLY <4>1, BatchesRegroup, Zenon
        <3> QED BY <1>3, <1>4, <2>1, <3>1, <3>2 DEF SentIsPipeline
    <2>2. CASE ~OnStream(n)
        BY <1>3, <1>4, <2>2 DEF SentIsPipeline
    <2> QED BY <2>1, <2>2
<1>6. a.idle => OnStream(a) /\ a.pipeline = << >>
    <2> HAVE a.idle
    <2>1. n.idle /\ OnStream(n) /\ n.pipeline = << >> /\ new = << >>
        BY <1>3 DEF IdleIsDone
    <2>2. << >> \o << >> = << >>
        BY EmptySeq, ConcatEmptySeq
    <2> QED BY <1>3, <1>4, <2>1, <2>2
<1>7. a.pipeline = << >> /\ IsOpen(a) => handshake_complete(a)
    <2> HAVE a.pipeline = << >> /\ IsOpen(a)
    <2>1. n.pipeline = << >> /\ new = << >>
        BY <1>1, <1>3, ConcatEqualIffEmpty DEF NetState
    <2> QED BY <1>1, <1>3, <1>4, <2>1 DEF handshake_complete
<1>8. /\ m \in NetState
      /\ m.pipeline = a.pipeline /\ m.sent = a.sent /\ m.received = a.received
      /\ m.state = a.state /\ m.greeting = a.greeting
      /\ m.idle => a.idle \/ (a.pipeline = << >> /\ IsOpen(a))
    <2>1. CASE a.pipeline = << >>
        <3>1. m = [a EXCEPT !.idle = a.idle \/ IsOpen(a)]
            BY <2>1 DEF MarkIdle
        <3>2. (a.idle \/ IsOpen(a)) \in BOOLEAN
            OBVIOUS
        <3> HIDE DEF m
        <3> QED BY <1>3, <2>1, <3>1, <3>2 DEF NetState
    <2>2. CASE a.pipeline # << >>
        BY <1>3, <2>2
    <2> QED BY <2>1, <2>2
<1> HIDE DEF m
<1>9. /\ OnStream(m) <=> OnStream(a)
      /\ IsOpen(m) <=> IsOpen(a)
      /\ SentIsPipeline(m) /\ IdleIsDone(m)
    BY <1>5, <1>6, <1>7, <1>8
       DEF OnStream, IsOpen, handshake_complete, SentIsPipeline, IdleIsDone
<1>10. ASSUME ShouldStartWriteStream(m)
       PROVE  Goal
    <2>1. PICK s \in {"Backoff", "Starting"} : r = [m EXCEPT !.state = s]
        BY <1>2, <1>10 DEF Start
    <2>2. ~IsOpen(m) /\ ~OnStream(m)
        BY <1>10 DEF ShouldStartWriteStream, IsStarted, IsOpen, OnStream
    <2>3. /\ r \in NetState /\ r.pipeline = m.pipeline /\ r.sent = m.sent
          /\ r.received = m.received /\ r.greeting = m.greeting /\ r.idle = m.idle
          /\ r.state = s
        BY <1>8, <2>1 DEF NetState, StreamState
    <2>4. ~IsOpen(r) /\ ~OnStream(r) /\ IsStarted(r)
        BY <2>3 DEF IsOpen, IsStarted, OnStream
    <2> QED BY <1>1, <1>3, <1>4, <1>8, <1>9, <2>2, <2>3, <2>4
            DEF SentIsPipeline, IdleIsDone
<1>11. ASSUME ~ShouldStartWriteStream(m)
       PROVE  Goal
    <2>1. r = m
        BY <1>2, <1>11
    <2>2. m.pipeline # << >> => IsStarted(m)
        BY <1>11 DEF ShouldStartWriteStream
    <2> QED BY <1>1, <1>3, <1>4, <1>8, <1>9, <2>1, <2>2
<1> QED BY <1>10, <1>11 DEF r

-----------------------------------------------------------------------------
(* The inductive invariant.                                                 *)

\* The rows of a queue ascend, by batch id and by the time of the write; ids
\* are below the next one, whichever user is signed in. The k-th row is not
\* older than the k-th write.
QueuesOrdered ==
    \A u \in Users : \A k \in DOMAIN queue[u] :
        /\ queue[u][k].user = u
        /\ 0 < queue[u][k].id /\ queue[u][k].id < next_batch_id
        /\ k <= queue[u][k].write /\ queue[u][k].write <= spent.writes
        /\ \A j \in 1 .. (k - 1) :
              queue[u][j].id < queue[u][k].id /\ queue[u][j].write < queue[u][k].write

\* No write is in two queues.
QueuesDisjoint ==
    \A u, v \in Users : u # v =>
        \A j \in DOMAIN queue[u] : \A k \in DOMAIN queue[v] :
            queue[u][j].write # queue[v][k].write

\* A decision is made once, about a write that is in no queue, and in the order
\* of the writes of its user.
DecidedOnce ==
    \A d \in DOMAIN decisions :
        /\ 1 <= decisions[d].write /\ decisions[d].write <= spent.writes
        /\ \A e \in DOMAIN decisions : e # d => decisions[e].write # decisions[d].write
        /\ \A u \in Users : \A k \in DOMAIN queue[u] :
              /\ queue[u][k].write # decisions[d].write
              /\ u = decisions[d].user => decisions[d].write < queue[u][k].write

\* A write that was made is queued or decided.
Accounted ==
    \A w \in 1 .. spent.writes :
        \/ \E d \in DOMAIN decisions : decisions[d].write = w
        \/ \E u \in Users : \E k \in DOMAIN queue[u] : queue[u][k].write = w

\* The server decided only about writes that were made, and an answer on its way
\* is about a write that it applied.
ServerKnows ==
    /\ applied \cup refused \subseteq 1 .. spent.writes
    /\ \A k \in DOMAIN net.received : net.received[k].write \in applied

\* What has been told was told about older writes of the user than those that
\* still have a block. A write whose removal was cut off stays in its queue, so
\* the decisions do not say this: its block is gone with the process.
ToldAreOlder ==
    \A k \in DOMAIN told :
        /\ told[k].write <= spent.writes
        /\ \A c \in mutation_callbacks[told[k].user] : told[k].write < c.write

QueueInv == QueuesOrdered /\ QueuesDisjoint
HistoryInv == DecidedOnce /\ Accounted /\ ToldInOrder /\ ToldAreOlder

\* The state n of the network serves the queue q: see the properties
\* PipelineIsPrefix, AnswersMatchPipeline and StreamServesPipeline. The
\* handshake belongs to the open stream.
Serves(n, q) ==
    /\ FullPipeline(q, n.pipeline)
    /\ SentIsPipeline(n) /\ IdleIsDone(n)
    /\ n.pipeline # << >> => IsStarted(n)
    /\ n.greeting # "none" <=> IsOpen(n)

IInv == TypeOK /\ QueueInv /\ HistoryInv /\ ServerKnows /\ Serves(net, queue[current_user])

LEMMA QueueRows ==
    ASSUME TypeOK, QueuesOrdered, NEW u \in Users
    PROVE  queue[u] \in Seq(Batch) /\ RowsAscend(queue[u]) /\ DOMAIN queue[u] = 1 .. Len(queue[u])
<1>1. queue[u] \in Seq(Batch) /\ DOMAIN queue[u] = 1 .. Len(queue[u])
    BY BatchRows DEF TypeOK
<1> QED BY <1>1 DEF QueuesOrdered, RowsAscend

-----------------------------------------------------------------------------
(* The stream.                                                              *)

\* A stream that was closed is started again when something is pending.
LEMMA RestartedServes ==
    ASSUME NEW n \in NetState, NEW q, FullPipeline(q, n.pipeline),
           ~IsOpen(n), ~n.idle, n.sent = << >>, n.received = << >>
    PROVE  /\ Restarted(n) \in NetState /\ Serves(Restarted(n), q)
           /\ Restarted(n).pipeline = n.pipeline /\ Restarted(n).received = << >>
<1> DEFINE s == IF ShouldStartWriteStream(n) THEN Start(n).state ELSE n.state
           r == Restarted(n)
<1>1. r = [n EXCEPT !.state = s, !.greeting = "none"]
    BY DEF Restarted, Start, NetState
<1>2. s \in StreamState \ {"Open"}
    BY DEF Start, NetState, StreamState, IsOpen
<1>3. n.pipeline # << >> => s \in {"Starting", "Backoff"}
    BY DEF Start, NetState, StreamState, IsOpen, ShouldStartWriteStream, IsStarted
<1> HIDE DEF s, r
<1>4. /\ r \in NetState /\ r.state = s /\ r.greeting = "none" /\ r.pipeline = n.pipeline
      /\ r.sent = << >> /\ r.received = << >> /\ ~r.idle
    BY <1>1, <1>2 DEF NetState, Greeting
<1>5. ~IsOpen(r) /\ ~OnStream(r)
    BY <1>2, <1>4 DEF IsOpen, OnStream
<1>6. Serves(r, q)
    BY <1>3, <1>4, <1>5 DEF Serves, SentIsPipeline, IdleIsDone, IsStarted
<1> QED BY <1>4, <1>6 DEF r

LEMMA DroppedFields ==
    ASSUME NEW n \in NetState, NEW s \in StreamState
    PROVE  LET r == Dropped(n, s)
           IN  /\ r \in NetState /\ r.state = s /\ ~r.idle
               /\ r.sent = << >> /\ r.received = << >>
               /\ r.pipeline = n.pipeline /\ r.greeting = n.greeting
<1>1. << >> \in Seq(Batch)
    BY EmptySeq
<1> QED BY <1>1 DEF Dropped, NetState, Status, Failure

LEMMA StoppedFields ==
    ASSUME NEW n \in NetState, SentIsPipeline(n), IdleIsDone(n)
    PROVE  LET r == Stopped(n)
           IN  /\ r \in NetState /\ ~IsOpen(r) /\ ~r.idle
               /\ r.sent = << >> /\ r.received = << >>
               /\ r.pipeline = n.pipeline
<1>1. CASE IsStarted(n)
    <2>1. Stopped(n) = Dropped(n, "Initial") /\ "Initial" \in StreamState
        BY <1>1 DEF Stopped, StreamState
    <2> HIDE DEF SentIsPipeline
    <2> QED BY <2>1, DroppedFields DEF IsOpen
<1>2. CASE ~IsStarted(n)
    BY <1>2 DEF Stopped, IsStarted, IsOpen, OnStream, SentIsPipeline, IdleIsDone
<1> QED BY <1>1, <1>2

\* Queues, callbacks and history stay as they are.
LEMMA HistoryKept ==
    ASSUME IInv,
           UNCHANGED <<queue, next_batch_id, mutation_callbacks, decisions, told, torn>>,
           applied \subseteq applied', spent'.writes = spent.writes
    PROVE  QueueInv' /\ HistoryInv'
<1> USE DEF IInv
<1>1. QueueInv'
    BY DEF QueueInv, QueuesOrdered, QueuesDisjoint
<1>2. DecidedOnce' /\ Accounted'
    BY DEF HistoryInv, DecidedOnce, Accounted
<1>3. ToldInOrder'
    BY DEF HistoryInv, ToldInOrder
<1>4. ToldAreOlder'
    BY DEF HistoryInv, ToldAreOlder
<1> QED BY <1>1, <1>2, <1>3, <1>4 DEF HistoryInv

\* Handlers of the stream and of the network, which decide nothing.
LEMMA StreamStep ==
    ASSUME IInv, UNCHANGED <<client, history>>,
           net' \in NetState, Serves(net', queue[current_user]),
           spent' \in Counters, spent'.writes = spent.writes,
           applied \subseteq applied',
           applied' \subseteq 1 .. spent.writes, refused' \subseteq 1 .. spent.writes,
           \A k \in DOMAIN net'.received : net'.received[k].write \in applied'
    PROVE  IInv'
<1> USE DEF IInv, client, history
<1>1. QueueInv' /\ HistoryInv'
    BY HistoryKept
<1>2. 1 .. spent.writes \subseteq Writes
    BY BoundsAssumption DEF TypeOK, Counters, Writes
<1>3. TypeOK'
    BY <1>2 DEF TypeOK
<1>4. ServerKnows'
    BY DEF ServerKnows
<1> QED BY <1>1, <1>3, <1>4

LEMMA FaultType ==
    ASSUME spent \in Counters, spent.faults < MaxFaults,
           spent' = [spent EXCEPT !.faults = @ + 1]
    PROVE  spent' \in Counters /\ spent'.writes = spent.writes
BY BoundsAssumption DEF Counters

LEMMA ChangeType ==
    ASSUME spent \in Counters, spent.changes < MaxChanges,
           spent' = [spent EXCEPT !.changes = @ + 1]
    PROVE  spent' \in Counters /\ spent'.writes = spent.writes
BY BoundsAssumption DEF Counters

LEMMA KillType ==
    ASSUME spent \in Counters, spent.kills < MaxKills,
           spent' = [spent EXCEPT !.kills = @ + 1]
    PROVE  spent' \in Counters /\ spent'.writes = spent.writes
BY BoundsAssumption DEF Counters

LEMMA WriteType ==
    ASSUME spent \in Counters, spent.writes < MaxWrites,
           spent' = [spent EXCEPT !.writes = spent.writes + 1]
    PROVE  /\ spent' \in Counters /\ spent'.writes = spent.writes + 1
           /\ spent.writes \in Nat
BY BoundsAssumption DEF Counters

LEMMA TokenReadyInv ==
    ASSUME IInv, TokenReady
    PROVE  IInv'
<1> USE DEF IInv
<1>1. /\ net \in NetState /\ net' = [net EXCEPT !.state = "Open", !.greeting = "sent"]
      /\ net.state = "Starting"
      /\ UNCHANGED <<client, server, history, spent>>
    BY DEF TokenReady, TypeOK
<1>2. /\ net' \in NetState /\ net'.state = "Open" /\ net'.greeting = "sent"
      /\ net'.pipeline = net.pipeline /\ net'.sent = net.sent
      /\ net'.received = net.received /\ net'.idle = net.idle
    BY <1>1 DEF NetState, StreamState, Greeting
<1>3. Serves(net', queue[current_user])
    BY <1>1, <1>2 DEF Serves, SentIsPipeline, IdleIsDone, OnStream, IsOpen,
        handshake_complete, IsStarted
<1> QED BY <1>1, <1>2, <1>3, StreamStep DEF TypeOK, ServerKnows, server

LEMMA OnWriteStreamHandshakeCompleteInv ==
    ASSUME IInv, OnWriteStreamHandshakeComplete
    PROVE  IInv'
<1> USE DEF IInv
<1>1. /\ net \in NetState /\ IsOpen(net) /\ net.greeting = "answered"
      /\ net' = WriteMutations([net EXCEPT !.greeting = "complete"], net.pipeline)
      /\ UNCHANGED <<client, server, history, spent>>
    BY DEF OnWriteStreamHandshakeComplete, TypeOK
<1>2. ~OnStream(net) /\ net.sent = << >> /\ net.received = << >> /\ ~net.idle
    BY <1>1 DEF Serves, SentIsPipeline, IdleIsDone, OnStream, handshake_complete
<1>3. net.pipeline \in Seq(Batch) /\ << >> \o net.pipeline = net.pipeline
    BY <1>1, ConcatEmptySeq DEF NetState
<1> DEFINE b == net.idle /\ net.pipeline = << >>
<1>4. net' = [net EXCEPT !.greeting = "complete", !.sent = net.pipeline, !.idle = b]
    BY <1>1, <1>2, <1>3 DEF WriteMutations, NetState
<1>5. /\ net' \in NetState /\ net'.state = net.state /\ net'.greeting = "complete"
      /\ net'.pipeline = net.pipeline /\ net'.sent = net.pipeline
      /\ net'.received = << >> /\ ~net'.idle
    BY <1>1, <1>2, <1>3, <1>4 DEF NetState, Greeting
<1>6. Serves(net', queue[current_user])
    BY <1>1, <1>3, <1>5 DEF Serves, SentIsPipeline, IdleIsDone, OnStream, IsOpen,
        handshake_complete, IsStarted
<1> QED BY <1>1, <1>2, <1>5, <1>6, StreamStep DEF TypeOK, ServerKnows, server

LEMMA PendingWriteFailsInv ==
    ASSUME IInv, PendingWriteFails
    PROVE  IInv'
<1> USE DEF IInv
<1>1. /\ net \in NetState /\ net' = [net EXCEPT !.failed = "behind"]
      /\ UNCHANGED <<client, server, history, spent>>
    BY DEF PendingWriteFails, TypeOK
<1>2. /\ net' \in NetState /\ net'.state = net.state /\ net'.greeting = net.greeting
      /\ net'.pipeline = net.pipeline /\ net'.sent = net.sent
      /\ net'.received = net.received /\ net'.idle = net.idle
    BY <1>1 DEF NetState, Failure
<1>3. Serves(net', queue[current_user])
    BY <1>2 DEF Serves, SentIsPipeline, IdleIsDone, OnStream, IsOpen,
        handshake_complete, IsStarted
<1> QED BY <1>1, <1>2, <1>3, StreamStep DEF TypeOK, ServerKnows, server

\* An error that rejects nothing: the pipeline is kept.
LEMMA RetryAfterErrorInv ==
    ASSUME IInv, RetryAfterError, UNCHANGED server,
           spent' \in Counters, spent'.writes = spent.writes
    PROVE  IInv'
<1> USE DEF IInv
<1> DEFINE d == Dropped(net, "Error")
<1>1. /\ net \in NetState /\ "Error" \in StreamState
      /\ net' = Restarted(d) /\ UNCHANGED <<client, history>>
    BY DEF RetryAfterError, TypeOK, StreamState
<1>2. /\ d \in NetState /\ ~IsOpen(d) /\ ~d.idle /\ d.sent = << >> /\ d.received = << >>
      /\ d.pipeline = net.pipeline
    BY <1>1, DroppedFields DEF IsOpen
<1> HIDE DEF d
<1>3. net' \in NetState /\ Serves(net', queue[current_user]) /\ net'.received = << >>
    BY <1>1, <1>2, RestartedServes DEF Serves
<1> QED BY <1>1, <1>3, StreamStep DEF TypeOK, ServerKnows, server

LEMMA TokenFailedInv ==
    ASSUME IInv, TokenFailed
    PROVE  IInv'
<1>1. RetryAfterError /\ UNCHANGED server
    BY DEF TokenFailed, OnWriteStreamClose, Rejects
<1>2. spent' \in Counters /\ spent'.writes = spent.writes
    BY FaultType DEF TokenFailed, IInv, TypeOK
<1> QED BY <1>1, <1>2, RetryAfterErrorInv

LEMMA ConnectivityChangedInv ==
    ASSUME IInv, ConnectivityChanged
    PROVE  IInv'
<1>1. RetryAfterError /\ UNCHANGED server
    BY DEF ConnectivityChanged, OnWriteStreamClose, Rejects
<1>2. spent' \in Counters /\ spent'.writes = spent.writes
    BY FaultType DEF ConnectivityChanged, IInv, TypeOK
<1> QED BY <1>1, <1>2, RetryAfterErrorInv

LEMMA BackoffElapsedInv ==
    ASSUME IInv, BackoffElapsed
    PROVE  IInv'
<1> USE DEF IInv
<1>1. /\ net \in NetState /\ net.state = "Backoff"
      /\ UNCHANGED <<client, server, history, spent>>
    BY DEF BackoffElapsed, TypeOK
<1>2. net' = [net EXCEPT !.state = "Starting"]
    BY <1>1 DEF BackoffElapsed, Start, NetState
<1>3. /\ net' \in NetState /\ net'.state = "Starting" /\ net'.greeting = net.greeting
      /\ net'.pipeline = net.pipeline /\ net'.sent = net.sent
      /\ net'.received = net.received /\ net'.idle = net.idle
    BY <1>1, <1>2 DEF NetState, StreamState
<1>4. Serves(net', queue[current_user])
    BY <1>1, <1>3 DEF Serves, SentIsPipeline, IdleIsDone, OnStream, IsOpen,
        handshake_complete, IsStarted
<1> QED BY <1>1, <1>3, <1>4, StreamStep DEF TypeOK, ServerKnows, server

LEMMA IdleTimeoutInv ==
    ASSUME IInv, IdleTimeout
    PROVE  IInv'
<1> USE DEF IInv
<1> DEFINE d == Stopped(net)
<1>1. /\ net \in NetState /\ net' = Restarted(d)
      /\ UNCHANGED <<client, server, history, spent>>
    BY DEF IdleTimeout, TypeOK
<1>2. /\ d \in NetState /\ ~IsOpen(d) /\ ~d.idle /\ d.sent = << >> /\ d.received = << >>
      /\ d.pipeline = net.pipeline
    BY <1>1, StoppedFields DEF Serves
<1> HIDE DEF d
<1>3. net' \in NetState /\ Serves(net', queue[current_user]) /\ net'.received = << >>
    BY <1>1, <1>2, RestartedServes DEF Serves
<1> QED BY <1>1, <1>3, StreamStep DEF TypeOK, ServerKnows, server

LEMMA ServerGreetsInv ==
    ASSUME IInv, ServerGreets
    PROVE  IInv'
<1> USE DEF IInv
<1>1. /\ net \in NetState /\ net' = [net EXCEPT !.greeting = "answered"]
      /\ net.greeting = "sent" /\ UNCHANGED <<client, server, history, spent>>
    BY DEF ServerGreets, TypeOK
<1>2. /\ net' \in NetState /\ net'.state = net.state /\ net'.greeting = "answered"
      /\ net'.pipeline = net.pipeline /\ net'.sent = net.sent
      /\ net'.received = net.received /\ net'.idle = net.idle
    BY <1>1 DEF NetState, Greeting
<1>3. Serves(net', queue[current_user])
    BY <1>1, <1>2 DEF Serves, SentIsPipeline, IdleIsDone, OnStream, IsOpen,
        handshake_complete, IsStarted
<1> QED BY <1>1, <1>2, <1>3, StreamStep DEF TypeOK, ServerKnows, server

\* The call has ended.
LEMMA ClosedInv ==
    ASSUME IInv, UNCHANGED <<client, history, applied>>,
           NEW s \in Status, net' = [net EXCEPT !.closed = s],
           spent' \in Counters, spent'.writes = spent.writes,
           refused' \subseteq 1 .. spent.writes
    PROVE  IInv'
<1> USE DEF IInv
<1>1. /\ net' \in NetState /\ net'.state = net.state /\ net'.greeting = net.greeting
      /\ net'.pipeline = net.pipeline /\ net'.sent = net.sent
      /\ net'.received = net.received /\ net'.idle = net.idle
    BY DEF NetState, TypeOK
<1>2. Serves(net', queue[current_user])
    BY <1>1 DEF Serves, SentIsPipeline, IdleIsDone, OnStream, IsOpen,
        handshake_complete, IsStarted
<1> QED BY <1>1, <1>2, StreamStep DEF ServerKnows

LEMMA CallBreaksInv ==
    ASSUME IInv, CallBreaks
    PROVE  IInv'
<1>1. PICK s \in {"transient", "permanent"} : net' = [net EXCEPT !.closed = s]
    BY DEF CallBreaks
<1>2. s \in Status
    BY DEF Status
<1>3. spent' \in Counters /\ spent'.writes = spent.writes
    BY FaultType DEF CallBreaks, IInv, TypeOK
<1> QED BY <1>1, <1>2, <1>3, ClosedInv DEF CallBreaks, server, IInv, ServerKnows

\* What is next on the stream is the first batch of the queue that has no
\* answer.
LEMMA NextRequest ==
    ASSUME IInv, net.sent # << >>
    PROVE  LET q == queue[current_user]
               k == Len(net.received) + 1
           IN  /\ k \in 1 .. Len(q) /\ Head(net.sent) = q[k]
               /\ \A j \in 1 .. (k - 1) : net.received[j] = q[j]
               /\ Head(net.sent) \in Batch /\ Head(net.sent).write \in 1 .. spent.writes
               /\ net.received \o net.sent = net.pipeline
<1> USE DEF IInv
<1> DEFINE q == queue[current_user]
           r == net.received
           s == net.sent
<1>1. /\ r \in Seq(Batch) /\ s \in Seq(Batch) /\ net.pipeline \in Seq(Batch)
    BY DEF TypeOK, NetState
<1>2. r \o s = net.pipeline
    BY DEF Serves, SentIsPipeline
<1>3. /\ Len(r) \in Nat /\ Len(r) + 1 \in 1 .. Len(net.pipeline)
      /\ Len(net.pipeline) \in Nat /\ net.pipeline[Len(r) + 1] = Head(s)
      /\ \A j \in 1 .. Len(r) : j \in 1 .. Len(net.pipeline) /\ net.pipeline[j] = r[j]
    <2>1. s # << >>
        OBVIOUS
    <2>2. /\ Len(r) \in Nat /\ Len(r) + 1 \in 1 .. Len(r \o s)
          /\ Len(r \o s) \in Nat /\ (r \o s)[Len(r) + 1] = Head(s)
          /\ \A j \in 1 .. Len(r) : j \in 1 .. Len(r \o s) /\ (r \o s)[j] = r[j]
        <3> HIDE DEF r, s
        <3> QED BY <1>1, <2>1, ConcatParts
    <2> QED BY <1>2, <2>2, Zenon
<1>4. /\ q \in Seq(Batch) /\ Len(q) \in Nat /\ DOMAIN q = 1 .. Len(q)
      /\ \A k \in 1 .. Len(q) : q[k] \in Batch /\ q[k].write \in Nat
    BY BatchRows DEF TypeOK
<1>5. /\ Len(net.pipeline) <= Len(q)
      /\ \A k \in 1 .. Len(net.pipeline) : net.pipeline[k] = q[k]
    BY DEF Serves, FullPipeline, StartsWith
<1> DEFINE k == Len(r) + 1
<1> HIDE DEF r, s
<1>6. k \in 1 .. Len(q) /\ Head(s) = q[k]
    BY <1>3, <1>4, <1>5
<1>7. ASSUME NEW j \in 1 .. (k - 1)
      PROVE  r[j] = q[j]
    <2>1. j \in 1 .. Len(r)
        BY <1>3
    <2> QED BY <1>3, <1>5, <2>1
<1>8. q[k].write \in 1 .. spent.writes
    <2>1. 1 <= k /\ k <= q[k].write /\ q[k].write <= spent.writes
        BY <1>4, <1>6 DEF QueueInv, QueuesOrdered, TypeOK
    <2>2. spent.writes \in Nat
        BY BoundsAssumption DEF TypeOK, Counters
    <2> QED BY <1>3, <1>4, <1>6, <2>1, <2>2
<1> QED BY <1>2, <1>4, <1>6, <1>7, <1>8 DEF r, s

LEMMA ServerAppliesInv ==
    ASSUME IInv, ServerApplies
    PROVE  IInv'
<1> USE DEF IInv
<1> DEFINE b == Head(net.sent)
           s == Tail(net.sent)
           r == Append(net.received, b)
<1>1. /\ net \in NetState /\ net.sent # << >>
      /\ net' = [net EXCEPT !.sent = s, !.received = r]
      /\ applied' = applied \cup {b.write}
      /\ UNCHANGED <<client, refused, history, spent>>
    BY DEF ServerApplies, TypeOK
<1>2. /\ b \in Batch /\ b.write \in 1 .. spent.writes
      /\ net.received \o net.sent = net.pipeline
    BY <1>1, NextRequest
<1>3. /\ net.sent \in Seq(Batch) /\ net.received \in Seq(Batch)
      /\ s \in Seq(Batch) /\ r \in Seq(Batch)
      /\ Len(net.received) \in Nat
      /\ Len(r) = Len(net.received) + 1 /\ r[Len(net.received) + 1] = b
      /\ \A i \in 1 .. Len(net.received) : r[i] = net.received[i]
    BY <1>1, <1>2 DEF NetState
<1>4. r \o s = net.received \o net.sent
    BY <1>1, <1>3, MoveHead
<1>5. /\ net' \in NetState /\ net'.state = net.state /\ net'.greeting = net.greeting
      /\ net'.pipeline = net.pipeline /\ net'.sent = s
      /\ net'.received = r /\ net'.idle = net.idle
    <2> HIDE DEF r, s
    <2> QED BY <1>1, <1>3 DEF NetState
<1> HIDE DEF r, s, b
<1>6. OnStream(net) /\ (OnStream(net') <=> OnStream(net))
    BY <1>1, <1>5 DEF Serves, SentIsPipeline, OnStream, IsOpen, handshake_complete
<1>7. Serves(net', queue[current_user])
    BY <1>2, <1>4, <1>5, <1>6 DEF Serves, SentIsPipeline, IdleIsDone, IsOpen, IsStarted
<1>8. \A k \in DOMAIN net'.received : net'.received[k].write \in applied'
    <2>1. DOMAIN r = 1 .. Len(r) /\ DOMAIN net.received = 1 .. Len(net.received)
        BY <1>3
    <2>2. ASSUME NEW k \in DOMAIN r
          PROVE  r[k].write \in applied'
        <3>1. CASE k \in 1 .. Len(net.received)
            BY <1>1, <1>3, <2>1, <3>1 DEF ServerKnows
        <3>2. CASE k = Len(net.received) + 1
            BY <1>1, <1>3, <3>2
        <3> QED BY <1>3, <2>1, <3>1, <3>2
    <2> QED BY <1>5, <2>2
<1> QED BY <1>1, <1>2, <1>5, <1>7, <1>8, StreamStep DEF TypeOK, ServerKnows

LEMMA ServerRefusesInv ==
    ASSUME IInv, ServerRefuses
    PROVE  IInv'
<1>1. Head(net.sent).write \in 1 .. spent.writes
    BY NextRequest DEF ServerRefuses
<1>2. spent' \in Counters /\ spent'.writes = spent.writes
    BY FaultType DEF ServerRefuses, IInv, TypeOK
<1>3. "permanent" \in Status
    BY DEF Status
<1>4. refused' \subseteq 1 .. spent.writes
    BY <1>1 DEF ServerRefuses, IInv, ServerKnows
<1> QED BY <1>2, <1>3, <1>4, ClosedInv DEF ServerRefuses

-----------------------------------------------------------------------------
(* The queues.                                                              *)

\* LoadNextBatchIdFromDb returns an id that is larger than all that are queued.
LEMMA LoadedIdIsNew ==
    ASSUME NEW q \in [Users -> Seq(Batch)], NEW n \in Nat,
           \A u \in Users : \A k \in DOMAIN q[u] : q[u][k].id < n
    PROVE  /\ LoadNextBatchIdFromDb(q) \in Nat \ {0}
           /\ \A u \in Users : \A k \in DOMAIN q[u] : q[u][k].id < LoadNextBatchIdFromDb(q)
<1> DEFINE ids == {0} \cup UNION {{q[u][k].id : k \in DOMAIN q[u]} : u \in Users}
           max == CHOOSE i \in ids : \A j \in ids : j <= i
<1>1. \A u \in Users : \A k \in DOMAIN q[u] : q[u][k].id \in Nat /\ q[u][k].id < n
    BY BatchRows
<1>2. ids \subseteq Nat /\ 0 \in ids /\ ids # {}
    BY <1>1
<1>3. \A i \in ids : i <= n
    BY <1>1
<1>4. \A u \in Users : \A k \in DOMAIN q[u] : q[u][k].id \in ids
    OBVIOUS
<1>5. LoadNextBatchIdFromDb(q) = 1 + max
    BY DEF LoadNextBatchIdFromDb
<1> HIDE DEF ids
<1>6. max \in ids /\ \A j \in ids : j <= max
    <2>1. \E i \in ids : \A j \in ids : j <= i
        BY <1>2, <1>3, GreatestElement
    <2> QED BY <2>1
<1> HIDE DEF max
<1> QED BY <1>1, <1>2, <1>4, <1>5, <1>6

\* The queues stay, the next batch id is loaded again, and blocks may be gone.
LEMMA QueuesReloaded ==
    ASSUME IInv, UNCHANGED <<queue, decisions>>, spent'.writes = spent.writes,
           \/ next_batch_id' = next_batch_id
           \/ next_batch_id' = LoadNextBatchIdFromDb(queue),
           \/ mutation_callbacks' = mutation_callbacks
           \/ mutation_callbacks' = [u \in Users |-> {}]
    PROVE  /\ next_batch_id' \in Nat \ {0}
           /\ mutation_callbacks' \in [Users -> SUBSET [id : Nat, write : Nat]]
           /\ QueueInv' /\ DecidedOnce' /\ Accounted'
           /\ UNCHANGED <<told, torn>> /\ applied \subseteq applied' => HistoryInv'
<1> USE DEF IInv
<1>1. /\ next_batch_id \in Nat \ {0} /\ queue \in [Users -> Seq(Batch)]
      /\ \A u \in Users : \A k \in DOMAIN queue[u] : queue[u][k].id < next_batch_id
    BY DEF TypeOK, QueueInv, QueuesOrdered
<1>2. /\ next_batch_id' \in Nat \ {0}
      /\ \A u \in Users : \A k \in DOMAIN queue[u] : queue[u][k].id < next_batch_id'
    <2>1. CASE next_batch_id' = next_batch_id
        BY ONLY <1>1, <2>1
    <2>2. CASE next_batch_id' = LoadNextBatchIdFromDb(queue)
        BY ONLY <1>1, <2>2, LoadedIdIsNew
    <2> QED BY <2>1, <2>2
<1>3. mutation_callbacks' \in [Users -> SUBSET [id : Nat, write : Nat]]
    BY DEF TypeOK
<1>4. QueueInv'
    BY <1>2 DEF QueueInv, QueuesOrdered, QueuesDisjoint
<1>5. DecidedOnce' /\ Accounted'
    BY DEF HistoryInv, DecidedOnce, Accounted
<1>6. ASSUME UNCHANGED <<told, torn>>, applied \subseteq applied'
      PROVE  HistoryInv'
    <2>1. \A u \in Users : \A c \in mutation_callbacks'[u] : c \in mutation_callbacks[u]
        OBVIOUS
    <2>2. \A u \in Users : \A c \in mutation_callbacks'[u] :
            \E k \in DOMAIN queue[u] : queue[u][k].id = c.id /\ queue[u][k].write = c.write
        BY <2>1 DEF HistoryInv, ToldInOrder
    <2>3. ToldInOrder'
        BY <1>6, <2>2 DEF HistoryInv, ToldInOrder
    <2>4. \A k \in DOMAIN told : told[k].user \in Users
        BY OutcomeRows DEF TypeOK
    <2>5. ToldAreOlder'
        BY <1>6, <2>1, <2>4 DEF HistoryInv, ToldAreOlder
    <2> QED BY <1>5, <2>3, <2>5 DEF HistoryInv
<1> QED BY <1>2, <1>3, <1>4, <1>5, <1>6

\* A stream that is not open, with nothing in its pipeline, is filled.
LEMMA FilledFromEmpty ==
    ASSUME NEW n \in NetState, ~IsOpen(n), ~n.idle, n.greeting = "none",
           n.sent = << >>, n.received = << >>, n.pipeline = << >>,
           NEW q \in Seq(Batch), RowsAscend(q)
    PROVE  LET r == FillWritePipeline(n, q)
           IN  r \in NetState /\ Serves(r, q) /\ r.received = << >>
<1>1. SentIsPipeline(n) /\ IdleIsDone(n)
    BY DEF SentIsPipeline, IdleIsDone, OnStream
<1>2. /\ StartsWith(q, n.pipeline) /\ Len(n.pipeline) <= kMaxPendingWrites
    BY PipelineAssumption DEF StartsWith
<1> QED BY <1>1, <1>2, FillEstablishes DEF Serves

LEMMA HandleCredentialChangeInv ==
    ASSUME IInv, NEW user \in Users, HandleCredentialChange(user)
    PROVE  IInv'
<1> USE DEF IInv
<1> DEFINE n == [Stopped(net) EXCEPT !.greeting = "none", !.pipeline = << >>]
<1>1. /\ net \in NetState /\ current_user' = user
      /\ net' = FillWritePipeline(n, queue[user])
      /\ UNCHANGED <<queue, mutation_callbacks, server, history>>
      /\ \/ next_batch_id' = next_batch_id
         \/ next_batch_id' = LoadNextBatchIdFromDb(queue)
    BY DEF HandleCredentialChange, Reconnected, TypeOK
<1>2. spent' \in Counters /\ spent'.writes = spent.writes
    BY ChangeType DEF HandleCredentialChange, TypeOK
<1>3. /\ n \in NetState /\ ~IsOpen(n) /\ ~n.idle /\ n.greeting = "none"
      /\ n.sent = << >> /\ n.received = << >> /\ n.pipeline = << >>
    <2> DEFINE d == Stopped(net)
    <2>1. /\ d \in NetState /\ ~IsOpen(d) /\ ~d.idle
          /\ d.sent = << >> /\ d.received = << >>
        BY <1>1, StoppedFields DEF Serves
    <2> HIDE DEF d
    <2>2. << >> \in Seq(Batch)
        BY EmptySeq
    <2>3. [d EXCEPT !.greeting = "none", !.pipeline = << >>] \in NetState
        BY <2>1, <2>2 DEF NetState, Greeting
    <2>4. n = [d EXCEPT !.greeting = "none", !.pipeline = << >>]
        BY DEF d
    <2> HIDE DEF n
    <2> QED BY <2>1, <2>3, <2>4 DEF NetState, IsOpen
<1> HIDE DEF n
<1>4. net' \in NetState /\ Serves(net', queue[user]) /\ net'.received = << >>
    BY <1>1, <1>3, FilledFromEmpty, QueueRows DEF QueueInv
<1>5. /\ next_batch_id' \in Nat \ {0}
      /\ mutation_callbacks' \in [Users -> SUBSET [id : Nat, write : Nat]]
      /\ QueueInv' /\ HistoryInv'
    BY <1>1, <1>2, QueuesReloaded DEF history, server
<1>6. TypeOK'
    BY <1>1, <1>2, <1>4, <1>5 DEF TypeOK, server, history
<1>7. ServerKnows'
    BY <1>1, <1>2, <1>4 DEF ServerKnows, server
<1> QED BY <1>1, <1>4, <1>5, <1>6, <1>7

LEMMA NewNetFields ==
    /\ NewNet \in NetState /\ ~IsOpen(NewNet) /\ ~NewNet.idle /\ NewNet.greeting = "none"
    /\ NewNet.sent = << >> /\ NewNet.received = << >> /\ NewNet.pipeline = << >>
<1>1. << >> \in Seq(Batch)
    BY EmptySeq
<1> QED BY <1>1 DEF NewNet, NetState, StreamState, Greeting, Status, Failure, IsOpen

\* A new process fills its pipeline from the queues q on disk.
LEMMA RebornServes ==
    ASSUME IInv, NEW q \in [Users -> Seq(Batch)], RowsAscend(q[current_user]), Reborn(q)
    PROVE  /\ spent' \in Counters /\ spent'.writes = spent.writes
           /\ next_batch_id' = LoadNextBatchIdFromDb(q)
           /\ mutation_callbacks' = [u \in Users |-> {}]
           /\ mutation_callbacks' \in [Users -> SUBSET [id : Nat, write : Nat]]
           /\ net' \in NetState /\ Serves(net', q[current_user]) /\ net'.received = << >>
           /\ UNCHANGED <<current_user, server>>
<1>1. spent' \in Counters /\ spent'.writes = spent.writes
    BY KillType DEF Reborn, IInv, TypeOK
<1>2. current_user \in Users /\ net' = FillWritePipeline(NewNet, q[current_user])
    BY DEF Reborn, IInv, TypeOK
<1>3. net' \in NetState /\ Serves(net', q[current_user]) /\ net'.received = << >>
    BY <1>2, NewNetFields, FilledFromEmpty
<1> QED BY <1>1, <1>3 DEF Reborn

LEMMA RestartInv ==
    ASSUME IInv, Restart
    PROVE  IInv'
<1> USE DEF IInv
<1>1. Reborn(queue) /\ UNCHANGED <<queue, history>> /\ current_user \in Users
    BY DEF Restart, TypeOK
<1>2. queue \in [Users -> Seq(Batch)] /\ RowsAscend(queue[current_user])
    BY <1>1, QueueRows DEF QueueInv, TypeOK
<1>3. /\ spent' \in Counters /\ spent'.writes = spent.writes
      /\ next_batch_id' = LoadNextBatchIdFromDb(queue)
      /\ mutation_callbacks' = [u \in Users |-> {}]
      /\ net' \in NetState /\ Serves(net', queue[current_user]) /\ net'.received = << >>
      /\ UNCHANGED <<current_user, server>>
    BY <1>1, <1>2, RebornServes
<1>4. /\ next_batch_id' \in Nat \ {0}
      /\ mutation_callbacks' \in [Users -> SUBSET [id : Nat, write : Nat]]
      /\ QueueInv' /\ HistoryInv'
    BY <1>1, <1>3, QueuesReloaded DEF history, server
<1>5. TypeOK'
    BY <1>1, <1>3, <1>4 DEF TypeOK, server, history
<1>6. ServerKnows'
    BY <1>1, <1>3 DEF ServerKnows, server
<1> QED BY <1>1, <1>3, <1>4, <1>5, <1>6

\* A new row, with the next batch id and the next write, at the end of the
\* queue of the user u.
LEMMA RowAdded ==
    ASSUME IInv, NEW u \in Users, NEW w, w = spent.writes + 1, spent'.writes = w,
           spent.writes \in Nat,
           queue' = [queue EXCEPT ![u] =
                        Append(@, [id |-> next_batch_id, user |-> u, write |-> w])],
           next_batch_id' = next_batch_id + 1
    PROVE  /\ queue' \in [Users -> Seq(Batch)]
           /\ QueueInv'
           /\ LET l == Len(queue[u])
              IN  /\ Len(queue'[u]) = l + 1 /\ l \in Nat
                  /\ DOMAIN queue[u] = 1 .. l /\ DOMAIN queue'[u] = 1 .. (l + 1)
                  /\ queue'[u][l + 1] = [id |-> next_batch_id, user |-> u, write |-> w]
                  /\ \A k \in 1 .. l : queue'[u][k] = queue[u][k]
           /\ \A v \in Users : v # u => queue'[v] = queue[v]
<1> USE DEF IInv
<1> DEFINE b == [id |-> next_batch_id, user |-> u, write |-> w]
           l == Len(queue[u])
<1>1. /\ b \in Batch /\ b.id = next_batch_id /\ b.user = u /\ b.write = w
      /\ w \in Nat /\ next_batch_id \in Nat /\ next_batch_id > 0
    BY DEF Batch, TypeOK
<1> HIDE DEF b
<1>2. /\ queue[u] \in Seq(Batch) /\ l \in Nat /\ DOMAIN queue[u] = 1 .. l
      /\ queue'[u] = Append(queue[u], b)
      /\ \A v \in Users : v # u => queue'[v] = queue[v]
    BY BatchRows DEF TypeOK, b
<1>3. /\ queue'[u] \in Seq(Batch) /\ Len(queue'[u]) = l + 1
      /\ DOMAIN queue'[u] = 1 .. (l + 1)
      /\ queue'[u][l + 1] = b
      /\ \A k \in 1 .. l : queue'[u][k] = queue[u][k]
    BY <1>1, <1>2
<1>4. queue' \in [Users -> Seq(Batch)]
    BY <1>2, <1>3 DEF TypeOK
<1>5. \A v \in Users : \A k \in DOMAIN queue[v] :
        /\ queue[v][k].id \in Nat /\ queue[v][k].write \in Nat
        /\ DOMAIN queue[v] = 1 .. Len(queue[v]) /\ Len(queue[v]) \in Nat
    BY BatchRows DEF TypeOK
<1>6. \A v \in Users : \A k \in DOMAIN queue[v] :
        /\ queue[v][k].user = v /\ 0 < queue[v][k].id /\ queue[v][k].id < next_batch_id
        /\ k <= queue[v][k].write /\ queue[v][k].write <= spent.writes
        /\ \A j \in 1 .. (k - 1) :
              queue[v][j].id < queue[v][k].id /\ queue[v][j].write < queue[v][k].write
    BY DEF QueueInv, QueuesOrdered
<1>7. l <= spent.writes
    <2>1. CASE l = 0
        BY <2>1
    <2>2. CASE l # 0
        <3>1. l \in DOMAIN queue[u]
            BY <1>2, <2>2
        <3> QED BY <1>2, <1>5, <1>6, <3>1
    <2> QED BY <2>1, <2>2
<1>8. QueuesOrdered'
    <2> SUFFICES ASSUME NEW v \in Users, NEW k \in DOMAIN queue'[v]
                 PROVE  /\ queue'[v][k].user = v
                        /\ 0 < queue'[v][k].id /\ queue'[v][k].id < next_batch_id + 1
                        /\ k <= queue'[v][k].write /\ queue'[v][k].write <= w
                        /\ \A j \in 1 .. (k - 1) :
                              /\ queue'[v][j].id < queue'[v][k].id
                              /\ queue'[v][j].write < queue'[v][k].write
        BY DEF QueuesOrdered
    <2> DEFINE RowIsOrdered ==
                  /\ queue'[v][k].user = v
                  /\ 0 < queue'[v][k].id /\ queue'[v][k].id < next_batch_id + 1
                  /\ k <= queue'[v][k].write /\ queue'[v][k].write <= w
                  /\ \A j \in 1 .. (k - 1) :
                        queue'[v][j].id < queue'[v][k].id /\ queue'[v][j].write < queue'[v][k].write
    <2>1. ASSUME k \in DOMAIN queue[v], queue'[v][k] = queue[v][k],
                 \A j \in 1 .. (k - 1) : queue'[v][j] = queue[v][j]
          PROVE  RowIsOrdered
        <3>1. /\ queue[v][k].id \in Nat /\ queue[v][k].write \in Nat
              /\ queue[v][k].user = v /\ 0 < queue[v][k].id /\ queue[v][k].id < next_batch_id
              /\ k <= queue[v][k].write /\ queue[v][k].write <= spent.writes
            BY <1>5, <1>6, <2>1
        <3>2. queue[v][k].id < next_batch_id + 1 /\ queue[v][k].write <= w
            BY <1>1, <3>1
        <3>3. \A j \in 1 .. (k - 1) :
                queue[v][j].id < queue[v][k].id /\ queue[v][j].write < queue[v][k].write
            BY <1>6, <2>1
        <3>4. \A j \in 1 .. (k - 1) :
                queue'[v][j].id < queue'[v][k].id /\ queue'[v][j].write < queue'[v][k].write
            BY <2>1, <3>3
        <3> QED BY <2>1, <3>1, <3>2, <3>4
    <2>2. CASE v # u
        BY <1>2, <2>1, <2>2
    <2>3. CASE v = u /\ k \in 1 .. l
        <3>1. \A j \in 1 .. (k - 1) : j \in 1 .. l
            BY <1>2, <2>3
        <3> QED BY <1>2, <1>3, <2>1, <2>3, <3>1
    <2>4. CASE v = u /\ k = l + 1
        <3>1. queue'[v][k] = b
            BY <1>3, <2>4
        <3>2. ASSUME NEW j \in 1 .. (k - 1)
              PROVE  queue'[v][j].id < b.id /\ queue'[v][j].write < b.write
            <4>1. j \in DOMAIN queue[u] /\ queue'[v][j] = queue[u][j]
                BY <1>2, <1>3, <2>4
            <4>2. queue[u][j].id \in Nat /\ queue[u][j].write \in Nat
                BY <1>5, <4>1
            <4>3. queue[u][j].id < next_batch_id /\ queue[u][j].write <= spent.writes
                BY <1>6, <4>1
            <4>4. /\ spent.writes \in Nat /\ w \in Nat /\ spent.writes < w
                  /\ b.id = next_batch_id /\ b.write = w /\ next_batch_id \in Nat
                BY <1>1
            <4>5. queue[u][j].id < b.id /\ queue[u][j].write < b.write
                BY ONLY <4>2, <4>3, <4>4
            <4> QED BY ONLY <4>1, <4>5
        <3>3. /\ b.user = v /\ 0 < b.id /\ b.id < next_batch_id + 1
              /\ k <= b.write /\ b.write <= w
            BY <1>1, <1>2, <1>7, <2>4
        <3> QED BY <3>1, <3>2, <3>3
    <2> QED BY <1>2, <1>3, <2>2, <2>3, <2>4
<1>9. QueuesDisjoint'
    <2> SUFFICES ASSUME NEW v \in Users, NEW x \in Users, v # x,
                        NEW j \in DOMAIN queue'[v], NEW k \in DOMAIN queue'[x]
                 PROVE  queue'[v][j].write # queue'[x][k].write
        BY DEF QueuesDisjoint
    <2>1. ASSUME NEW y \in Users, NEW i \in DOMAIN queue'[y]
          PROVE  \/ i \in DOMAIN queue[y] /\ queue'[y][i] = queue[y][i]
                 \/ y = u /\ queue'[y][i].write = w
        BY <1>1, <1>2, <1>3
    <2>2. \A y \in Users : \A i \in DOMAIN queue[y] : queue[y][i].write # w
        BY <1>5, <1>6
    <2> QED BY <2>1, <2>2 DEF QueueInv, QueuesDisjoint
<1> QED BY <1>2, <1>3, <1>4, <1>8, <1>9 DEF QueueInv, b

LEMMA WriteInv ==
    ASSUME IInv, Write
    PROVE  IInv'
<1> USE DEF IInv
<1> DEFINE w == spent.writes + 1
           u == current_user
           l == Len(queue[u])
<1>1. /\ spent' \in Counters /\ spent'.writes = w /\ spent.writes \in Nat
      /\ u \in Users /\ next_batch_id \in Nat /\ w \in Nat
    <2>1. spent' = [spent EXCEPT !.writes = spent.writes + 1]
        BY DEF Write
    <2> QED BY <2>1, WriteType DEF Write, TypeOK
<1>2. /\ queue' = [queue EXCEPT ![u] =
                      Append(@, [id |-> next_batch_id, user |-> u, write |-> w])]
      /\ next_batch_id' = next_batch_id + 1
      /\ mutation_callbacks' = RegisterCallback(next_batch_id, w)
      /\ net' = FillWritePipeline(net, queue'[u])
      /\ UNCHANGED <<current_user, server, history>>
    BY DEF Write, AddMutationBatch
<1> HIDE DEF w
<1>3. /\ queue' \in [Users -> Seq(Batch)]
      /\ QueueInv'
      /\ Len(queue'[u]) = l + 1 /\ l \in Nat
      /\ DOMAIN queue[u] = 1 .. l /\ DOMAIN queue'[u] = 1 .. (l + 1)
      /\ queue'[u][l + 1] = [id |-> next_batch_id, user |-> u, write |-> w]
      /\ \A k \in 1 .. l : queue'[u][k] = queue[u][k]
      /\ \A v \in Users : v # u => queue'[v] = queue[v]
    BY <1>1, <1>2, RowAdded DEF w
<1>4. \A v \in Users : \A k \in DOMAIN queue[v] :
        k \in DOMAIN queue'[v] /\ queue'[v][k] = queue[v][k]
    <2>1. 1 .. l \subseteq 1 .. (l + 1)
        BY <1>3
    <2> QED BY <1>3, <2>1
<1>5. \A v \in Users : \A k \in DOMAIN queue'[v] :
        \/ k \in DOMAIN queue[v] /\ queue'[v][k] = queue[v][k]
        \/ v = u /\ queue'[v][k].write = w
    BY <1>3
<1>6. DecidedOnce'
    <2> SUFFICES ASSUME NEW d \in DOMAIN decisions
                 PROVE  /\ 1 <= decisions[d].write /\ decisions[d].write <= w
                        /\ \A e \in DOMAIN decisions :
                              e # d => decisions[e].write # decisions[d].write
                        /\ \A v \in Users : \A k \in DOMAIN queue'[v] :
                              /\ queue'[v][k].write # decisions[d].write
                              /\ v = decisions[d].user =>
                                    decisions[d].write < queue'[v][k].write
        BY <1>1, <1>2 DEF DecidedOnce, history
    <2>1. decisions[d].write \in Nat
        BY OutcomeRows DEF TypeOK
    <2>2. /\ 1 <= decisions[d].write /\ decisions[d].write <= spent.writes
          /\ \A e \in DOMAIN decisions : e # d => decisions[e].write # decisions[d].write
          /\ \A v \in Users : \A k \in DOMAIN queue[v] :
                /\ queue[v][k].write # decisions[d].write
                /\ v = decisions[d].user => decisions[d].write < queue[v][k].write
        BY DEF HistoryInv, DecidedOnce
    <2>3. decisions[d].write < w
        BY <1>1, <2>1, <2>2 DEF w
    <2> QED BY <1>1, <1>5, <2>1, <2>2, <2>3
<1>7. Accounted'
    <2> SUFFICES ASSUME NEW x \in 1 .. w
                 PROVE  \/ \E d \in DOMAIN decisions : decisions[d].write = x
                        \/ \E v \in Users : \E k \in DOMAIN queue'[v] : queue'[v][k].write = x
        BY <1>1, <1>2 DEF Accounted, history
    <2>1. CASE x = w
        <3>1. l + 1 \in DOMAIN queue'[u] /\ queue'[u][l + 1].write = w
            BY <1>3
        <3> QED BY <1>1, <2>1, <3>1
    <2>2. CASE x \in 1 .. spent.writes
        BY <1>4, <2>2 DEF HistoryInv, Accounted
    <2> QED BY <1>1, <2>1, <2>2 DEF w
<1>8. \A v \in Users : \A c \in mutation_callbacks'[v] :
        \/ c \in mutation_callbacks[v]
        \/ v = u /\ c = [id |-> next_batch_id, write |-> w]
    BY <1>2 DEF RegisterCallback, TypeOK
<1>9. mutation_callbacks' \in [Users -> SUBSET [id : Nat, write : Nat]]
    <2>1. [id |-> next_batch_id, write |-> w] \in [id : Nat, write : Nat]
        BY <1>1
    <2> DEFINE new == IF \E c \in mutation_callbacks[u] : c.id = next_batch_id
                      THEN mutation_callbacks[u]
                      ELSE mutation_callbacks[u] \cup {[id |-> next_batch_id, write |-> w]}
    <2>2. new \in SUBSET [id : Nat, write : Nat]
        BY <1>1, <2>1 DEF TypeOK
    <2>3. mutation_callbacks' = [mutation_callbacks EXCEPT ![u] = new]
        BY <1>2 DEF RegisterCallback
    <2> HIDE DEF new
    <2> QED BY <2>2, <2>3 DEF TypeOK
<1>10. ToldInOrder'
    <2>1. ASSUME NEW v \in Users, NEW c \in mutation_callbacks'[v]
          PROVE  \E k \in DOMAIN queue'[v] :
                    queue'[v][k].id = c.id /\ queue'[v][k].write = c.write
        <3>1. CASE c \in mutation_callbacks[v]
            <4>1. PICK k \in DOMAIN queue[v] :
                    queue[v][k].id = c.id /\ queue[v][k].write = c.write
                BY <3>1 DEF HistoryInv, ToldInOrder
            <4> QED BY <1>4, <4>1
        <3>2. CASE v = u /\ c = [id |-> next_batch_id, write |-> w]
            <4>1. /\ l + 1 \in DOMAIN queue'[u] /\ queue'[u][l + 1].write = w
                  /\ queue'[u][l + 1].id = next_batch_id
                BY <1>3
            <4> QED BY <3>2, <4>1
        <3> QED BY <1>8, <3>1, <3>2
    <2> QED BY <1>2, <2>1 DEF HistoryInv, ToldInOrder, history, server
<1>16. ToldAreOlder'
    <2> SUFFICES ASSUME NEW k \in DOMAIN told
                 PROVE  /\ told[k].write <= w
                        /\ \A c \in mutation_callbacks'[told[k].user] : told[k].write < c.write
        BY <1>1, <1>2 DEF ToldAreOlder, history
    <2>1. told[k].user \in Users /\ told[k].write \in Nat
        BY OutcomeRows DEF TypeOK
    <2>2. /\ told[k].write <= spent.writes
          /\ \A c \in mutation_callbacks[told[k].user] : told[k].write < c.write
        BY DEF HistoryInv, ToldAreOlder
    <2>3. told[k].write < w
        BY <1>1, <2>1, <2>2 DEF w
    <2> QED BY <1>1, <1>8, <2>1, <2>2, <2>3
<1>11. /\ net \in NetState /\ queue'[u] \in Seq(Batch) /\ RowsAscend(queue'[u])
       /\ queue'[u] # << >>
    <2>1. queue'[u] \in Seq(Batch) /\ queue'[u] # << >>
        BY <1>1, <1>3
    <2>2. RowsAscend(queue'[u])
        BY <1>1, <1>3 DEF RowsAscend, QueueInv, QueuesOrdered
    <2> QED BY <2>1, <2>2 DEF TypeOK
<1>12. StartsWith(queue'[u], net.pipeline) /\ Len(net.pipeline) <= kMaxPendingWrites
    <2>1. /\ Len(net.pipeline) \in Nat /\ Len(net.pipeline) <= l
          /\ Len(net.pipeline) <= kMaxPendingWrites
          /\ \A k \in 1 .. Len(net.pipeline) : net.pipeline[k] = queue[u][k]
        BY <1>3, PipelineAssumption DEF TypeOK, NetState, Serves, FullPipeline, StartsWith
    <2> QED BY <1>3, <2>1 DEF StartsWith
<1>13. /\ net' \in NetState /\ Serves(net', queue'[u]) /\ net'.received = net.received
    BY <1>2, <1>11, <1>12, FillEstablishes DEF Serves
<1>14. TypeOK'
    BY <1>1, <1>2, <1>3, <1>9, <1>13 DEF TypeOK, server, history
<1>15. ServerKnows'
    <2>1. 1 .. spent.writes \subseteq 1 .. w
        BY <1>1 DEF w
    <2> QED BY <1>1, <1>2, <1>13, <2>1 DEF ServerKnows, server
<1> QED BY <1>2, <1>3, <1>6, <1>7, <1>10, <1>16, <1>13, <1>14, <1>15 DEF HistoryInv

-----------------------------------------------------------------------------
(* Decisions.                                                               *)

\* Ids are different, so the row that is removed is the first one.
LEMMA FirstRowRemoved ==
    ASSUME TypeOK, QueuesOrdered, queue[current_user] # << >>
    PROVE  RemoveMutationBatch(queue, queue[current_user][1])
                = [queue EXCEPT ![current_user] = Tail(@)]
<1> DEFINE s == queue[current_user]
           at == CHOOSE k \in DOMAIN s : s[k].id = s[1].id
<1>1. /\ s \in Seq(Batch) /\ Len(s) \in Nat /\ DOMAIN s = 1 .. Len(s)
      /\ \A k \in 1 .. Len(s) : s[k].id \in Nat
    BY BatchRows DEF TypeOK
<1>2. 1 \in DOMAIN s
    BY <1>1
<1>3. ASSUME NEW k \in DOMAIN s, s[k].id = s[1].id
      PROVE  k = 1
    <2>1. CASE k # 1
        <3>1. 1 \in 1 .. (k - 1)
            BY <1>1, <2>1
        <3>2. s[1].id < s[k].id
            BY <3>1 DEF QueuesOrdered, TypeOK
        <3> QED BY <1>1, <1>2, <1>3, <3>2
    <2> QED BY <2>1
<1>4. at = 1
    <2> HIDE DEF s
    <2> QED BY <1>2, <1>3
<1>5. RemoveMutationBatch(queue, s[1])
        = [queue EXCEPT ![current_user] = SubSeq(s, 1, at - 1) \o SubSeq(s, at + 1, Len(s))]
    BY DEF RemoveMutationBatch
<1> HIDE DEF at, s
<1>6. SubSeq(s, 1, 1 - 1) = << >>
    <2>1. 1 - 1 = 0
        OBVIOUS
    <2> QED BY <1>1, <2>1, SubSeqEmpty
<1>7. SubSeq(s, 1 + 1, Len(s)) = Tail(s) /\ Tail(s) \in Seq(Batch)
    <2>1. s # << >>
        BY DEF s
    <2>2. Tail(s) = SubSeq(s, 2, Len(s)) /\ 1 + 1 = 2
        BY <1>1, <2>1, TailIsSubSeq
    <2> QED BY <1>1, <2>1, <2>2
<1>8. << >> \o Tail(s) = Tail(s)
    BY <1>7, ConcatEmptySeq
<1>9. SubSeq(s, 1, at - 1) \o SubSeq(s, at + 1, Len(s)) = Tail(s)
    BY <1>4, <1>6, <1>7, <1>8
<1> QED BY <1>5, <1>9 DEF s

LEMMA TailRows ==
    ASSUME NEW S, NEW s \in Seq(S), s # << >>
    PROVE  /\ Tail(s) \in Seq(S) /\ Len(s) \in Nat \ {0} /\ Len(Tail(s)) = Len(s) - 1
           /\ DOMAIN s = 1 .. Len(s) /\ DOMAIN Tail(s) = 1 .. (Len(s) - 1)
           /\ \A k \in 1 .. (Len(s) - 1) : Tail(s)[k] = s[k + 1]
           /\ Head(s) = s[1]
OBVIOUS
\* The oldest write leaves the queue of the user u, and no other row does.
LEMMA OldestLeaves ==
    ASSUME IInv, NEW u \in Users, queue[u] # << >>,
           queue' = [queue EXCEPT ![u] = Tail(@)],
           \/ next_batch_id' = next_batch_id
           \/ next_batch_id' = LoadNextBatchIdFromDb(queue'),
           spent'.writes = spent.writes
    PROVE  /\ queue' \in [Users -> Seq(Batch)] /\ QueueInv'
           /\ next_batch_id' \in Nat \ {0}
           /\ 1 \in DOMAIN queue[u] /\ queue'[u] = Tail(queue[u])
           /\ \A v \in Users : \A k \in DOMAIN queue'[v] :
                \E m \in DOMAIN queue[v] :
                    /\ queue'[v][k] = queue[v][m]
                    /\ v = u => 1 \in 1 .. (m - 1)
           /\ \A v \in Users : \A m \in DOMAIN queue[v] :
                \/ v = u /\ m = 1
                \/ \E k \in DOMAIN queue'[v] : queue'[v][k] = queue[v][m]
<1> USE DEF IInv
<1> DEFINE l == Len(queue[u])
<1>1. /\ queue[u] \in Seq(Batch) /\ l \in Nat \ {0} /\ DOMAIN queue[u] = 1 .. l
      /\ queue'[u] = Tail(queue[u]) /\ queue'[u] \in Seq(Batch)
      /\ DOMAIN queue'[u] = 1 .. (l - 1)
      /\ \A k \in 1 .. (l - 1) : queue'[u][k] = queue[u][k + 1]
      /\ \A v \in Users : v # u => queue'[v] = queue[v]
    <2>1. queue[u] \in Seq(Batch) /\ queue'[u] = Tail(queue[u])
        BY DEF TypeOK
    <2> QED BY <2>1, TailRows DEF TypeOK
<1>2. queue' \in [Users -> Seq(Batch)]
    BY <1>1 DEF TypeOK
<1>3. ASSUME NEW k \in DOMAIN queue'[u]
      PROVE  /\ k + 1 \in DOMAIN queue[u] /\ queue'[u][k] = queue[u][k + 1]
             /\ k \in Nat /\ k >= 1 /\ 1 \in 1 .. ((k + 1) - 1) /\ (k + 1) - 1 = k
    BY <1>1
<1>4. \A v \in Users : \A k \in DOMAIN queue'[v] :
        \E m \in DOMAIN queue[v] :
            /\ queue'[v][k] = queue[v][m]
            /\ v = u => 1 \in 1 .. (m - 1)
    BY <1>1, <1>3
<1>5. ASSUME NEW v \in Users, NEW m \in DOMAIN queue[v]
      PROVE  \/ v = u /\ m = 1
             \/ \E k \in DOMAIN queue'[v] : queue'[v][k] = queue[v][m]
    <2>1. CASE v = u /\ m # 1
        <3>1. m - 1 \in 1 .. (l - 1) /\ (m - 1) + 1 = m
            BY <1>1, <2>1
        <3> QED BY <1>1, <2>1, <3>1
    <2> QED BY <1>1, <2>1
<1>9. /\ next_batch_id' \in Nat \ {0}
      /\ \A v \in Users : \A k \in DOMAIN queue'[v] : queue'[v][k].id < next_batch_id'
    <2>1. next_batch_id \in Nat \ {0}
        BY DEF TypeOK
    <2>2. \A v \in Users : \A m \in DOMAIN queue[v] : queue[v][m].id < next_batch_id
        BY DEF QueueInv, QueuesOrdered
    <2>3. \A v \in Users : \A k \in DOMAIN queue'[v] : queue'[v][k].id < next_batch_id
        BY <1>4, <2>2
    <2>4. /\ LoadNextBatchIdFromDb(queue') \in Nat \ {0}
          /\ \A v \in Users : \A k \in DOMAIN queue'[v] :
                queue'[v][k].id < LoadNextBatchIdFromDb(queue')
        BY <1>2, <2>1, <2>3, LoadedIdIsNew
    <2> QED BY <2>1, <2>3, <2>4
<1>6. QueuesOrdered'
    <2> SUFFICES ASSUME NEW v \in Users, NEW k \in DOMAIN queue'[v]
                 PROVE  /\ queue'[v][k].user = v
                        /\ 0 < queue'[v][k].id
                        /\ k <= queue'[v][k].write /\ queue'[v][k].write <= spent.writes
                        /\ \A j \in 1 .. (k - 1) :
                              /\ queue'[v][j].id < queue'[v][k].id
                              /\ queue'[v][j].write < queue'[v][k].write
        BY <1>9 DEF QueuesOrdered
    <2>1. CASE v # u
        BY <1>1, <2>1 DEF QueueInv, QueuesOrdered
    <2>2. CASE v = u
        <3>1. /\ k + 1 \in DOMAIN queue[u] /\ queue'[u][k] = queue[u][k + 1]
              /\ k \in Nat /\ (k + 1) - 1 = k
            BY <1>3, <2>2
        <3>2. /\ queue[u][k + 1].user = v /\ queue[u][k + 1].write \in Nat
              /\ 0 < queue[u][k + 1].id
              /\ k + 1 <= queue[u][k + 1].write /\ queue[u][k + 1].write <= spent.writes
            BY <1>1, <2>2, <3>1, BatchRows DEF QueueInv, QueuesOrdered
        <3>3. k <= queue[u][k + 1].write
            BY <3>1, <3>2
        <3>4. ASSUME NEW j \in 1 .. (k - 1)
              PROVE  /\ queue'[v][j].id < queue'[v][k].id
                     /\ queue'[v][j].write < queue'[v][k].write
            <4>1. j \in DOMAIN queue'[u] /\ j + 1 \in 1 .. ((k + 1) - 1)
                BY <1>1, <2>2, <3>1
            <4>2. queue'[u][j] = queue[u][j + 1]
                BY <1>3, <4>1
            <4>3. /\ queue[u][j + 1].id < queue[u][k + 1].id
                  /\ queue[u][j + 1].write < queue[u][k + 1].write
                BY <3>1, <4>1 DEF QueueInv, QueuesOrdered
            <4> QED BY <2>2, <3>1, <4>2, <4>3
        <3> QED BY <2>2, <3>1, <3>2, <3>3, <3>4
    <2> QED BY <2>1, <2>2
<1>7. QueuesDisjoint'
    BY <1>4 DEF QueueInv, QueuesDisjoint
<1>8. 1 \in DOMAIN queue[u]
    BY <1>1
<1> QED BY <1>1, <1>2, <1>4, <1>5, <1>6, <1>7, <1>8, <1>9 DEF QueueInv
\* The oldest write of the current user is decided.
LEMMA RemovedInv ==
    ASSUME IInv, NEW ok \in BOOLEAN, queue[current_user] # << >>,
           Removed(queue[current_user][1], ok),
           \/ next_batch_id' = next_batch_id
           \/ next_batch_id' = LoadNextBatchIdFromDb(queue'),
           spent'.writes = spent.writes
    PROVE  LET u == current_user
               b == queue[u][1]
           IN  /\ queue' = [queue EXCEPT ![u] = Tail(@)]
               /\ queue' \in [Users -> Seq(Batch)]
               /\ next_batch_id' \in Nat \ {0}
               /\ decisions' \in Seq(Outcome)
               /\ QueueInv' /\ DecidedOnce' /\ Accounted'
               /\ \E d \in DOMAIN decisions' :
                    decisions'[d] = [user |-> u, write |-> b.write, ok |-> ok]
               /\ \A d \in DOMAIN decisions :
                    d \in DOMAIN decisions' /\ decisions'[d] = decisions[d]
               /\ b.user = u /\ b.id \in Nat
               /\ b.write \in 1 .. spent.writes
               /\ \A v \in Users : \A k \in DOMAIN queue'[v] :
                    v = u => b.write < queue'[v][k].write
               /\ \A v \in Users : \A m \in DOMAIN queue[v] :
                    \/ v = u /\ m = 1
                    \/ \E k \in DOMAIN queue'[v] : queue'[v][k] = queue[v][m]
<1> USE DEF IInv
<1> DEFINE u == current_user
           b == queue[u][1]
           o == [user |-> b.user, write |-> b.write, ok |-> ok]
           L == Len(decisions)
<1>1. /\ u \in Users /\ queue[u] \in Seq(Batch) /\ DOMAIN queue[u] = 1 .. Len(queue[u])
      /\ decisions \in Seq(Outcome) /\ spent.writes \in Nat
    BY BatchRows, BoundsAssumption DEF TypeOK, Counters
<1>2. queue' = [queue EXCEPT ![u] = Tail(@)]
    BY FirstRowRemoved DEF Removed, QueueInv
<1>3. /\ queue' \in [Users -> Seq(Batch)] /\ QueueInv' /\ next_batch_id' \in Nat \ {0}
      /\ 1 \in DOMAIN queue[u]
      /\ \A v \in Users : \A k \in DOMAIN queue'[v] :
            \E m \in DOMAIN queue[v] :
                /\ queue'[v][k] = queue[v][m]
                /\ v = u => 1 \in 1 .. (m - 1)
      /\ \A v \in Users : \A m \in DOMAIN queue[v] :
            \/ v = u /\ m = 1
            \/ \E k \in DOMAIN queue'[v] : queue'[v][k] = queue[v][m]
    BY <1>1, <1>2, OldestLeaves
<1>4. /\ b \in Batch /\ b.write \in Nat /\ b.user = u /\ b.id \in Nat
      /\ 1 <= b.write /\ b.write <= spent.writes
    BY <1>1, <1>3, BatchRows DEF QueueInv, QueuesOrdered
<1>5. /\ o \in Outcome /\ o.user = u /\ o.write = b.write /\ o.ok = ok
      /\ decisions' = Append(decisions, o)
    BY <1>1, <1>4 DEF Removed, Outcome
<1> HIDE DEF o, b
<1>7. /\ decisions' \in Seq(Outcome) /\ L \in Nat
      /\ DOMAIN decisions = 1 .. L /\ DOMAIN decisions' = 1 .. (L + 1)
      /\ decisions'[L + 1] = o /\ L + 1 \notin DOMAIN decisions
      /\ \A d \in DOMAIN decisions : d \in DOMAIN decisions' /\ decisions'[d] = decisions[d]
    <2>1. L \in Nat /\ DOMAIN decisions = 1 .. L
        BY <1>1
    <2>2. /\ decisions' \in Seq(Outcome) /\ Len(decisions') = L + 1
          /\ decisions'[L + 1] = o
          /\ \A d \in 1 .. L : decisions'[d] = decisions[d]
        BY <1>1, <1>5, AppendProperties
    <2>3. DOMAIN decisions' = 1 .. (L + 1)
        BY <2>2
    <2> HIDE DEF L
    <2> QED BY <2>1, <2>2, <2>3
<1>8. ASSUME NEW v \in Users, NEW k \in DOMAIN queue'[v]
      PROVE  /\ queue'[v][k].write # b.write
             /\ v = u => b.write < queue'[v][k].write
    <2>1. PICK m \in DOMAIN queue[v] :
            /\ queue'[v][k] = queue[v][m]
            /\ v = u => 1 \in 1 .. (m - 1)
        BY <1>3
    <2>2. queue[v][m].write \in Nat
        BY <1>1, BatchRows DEF TypeOK
    <2>3. CASE v = u
        <3>1. queue[u][1].write < queue[v][m].write
            BY <2>1, <2>3 DEF QueueInv, QueuesOrdered
        <3> QED BY <1>4, <2>1, <2>2, <2>3, <3>1 DEF b
    <2>4. CASE v # u
        BY <1>1, <1>3, <2>1, <2>4 DEF QueueInv, QueuesDisjoint, b
    <2> QED BY <2>3, <2>4
<1>9. \A d \in DOMAIN decisions :
        decisions[d].write # b.write /\ (decisions[d].user = u => decisions[d].write < b.write)
    BY <1>1, <1>3 DEF HistoryInv, DecidedOnce, b
<1>10. DecidedOnce'
    <2> SUFFICES ASSUME NEW d \in DOMAIN decisions'
                 PROVE  /\ 1 <= decisions'[d].write /\ decisions'[d].write <= spent.writes
                        /\ \A e \in DOMAIN decisions' :
                              e # d => decisions'[e].write # decisions'[d].write
                        /\ \A v \in Users : \A k \in DOMAIN queue'[v] :
                              /\ queue'[v][k].write # decisions'[d].write
                              /\ v = decisions'[d].user =>
                                    decisions'[d].write < queue'[v][k].write
        BY DEF DecidedOnce
    <2>1. \A e \in DOMAIN decisions' :
            \/ e \in DOMAIN decisions /\ decisions'[e] = decisions[e]
            \/ e = L + 1 /\ decisions'[e] = o
        BY <1>7
    <2>2. CASE d = L + 1
        <3>1. decisions'[d] = o
            BY <1>7, <2>2
        <3>2. \A e \in DOMAIN decisions' : e # d => decisions'[e].write # b.write
            BY <1>9, <2>1, <2>2
        <3> QED BY <1>4, <1>5, <1>8, <3>1, <3>2
    <2>3. CASE d \in DOMAIN decisions
        <3>1. decisions'[d] = decisions[d]
            BY <1>7, <2>3
        <3>2. \A e \in DOMAIN decisions' : e # d => decisions'[e].write # decisions[d].write
            BY <1>5, <1>9, <2>1, <2>3 DEF HistoryInv, DecidedOnce
        <3>3. ASSUME NEW v \in Users, NEW k \in DOMAIN queue'[v]
              PROVE  /\ queue'[v][k].write # decisions[d].write
                     /\ v = decisions[d].user => decisions[d].write < queue'[v][k].write
            BY <1>3, <2>3 DEF HistoryInv, DecidedOnce
        <3> QED BY <2>3, <3>1, <3>2, <3>3 DEF HistoryInv, DecidedOnce
    <2> QED BY <2>1, <2>2, <2>3
<1>11. Accounted'
    <2> SUFFICES ASSUME NEW x \in 1 .. spent.writes
                 PROVE  \/ \E d \in DOMAIN decisions' : decisions'[d].write = x
                        \/ \E v \in Users : \E k \in DOMAIN queue'[v] : queue'[v][k].write = x
        BY DEF Accounted
    <2>1. CASE \E d \in DOMAIN decisions : decisions[d].write = x
        BY <1>7, <2>1
    <2>2. CASE \E v \in Users : \E k \in DOMAIN queue[v] : queue[v][k].write = x
        <3>0. PICK v \in Users : \E k \in DOMAIN queue[v] : queue[v][k].write = x
            BY <2>2
        <3>1. PICK m \in DOMAIN queue[v] : queue[v][m].write = x
            BY <3>0
        <3>2. CASE v = u /\ m = 1
            <4>1. L + 1 \in DOMAIN decisions' /\ decisions'[L + 1].write = x
                BY <1>5, <1>7, <3>1, <3>2 DEF b
            <4> QED BY <4>1
        <3>3. CASE \E k \in DOMAIN queue'[v] : queue'[v][k] = queue[v][m]
            BY <3>1, <3>3
        <3> QED BY <1>3, <3>2, <3>3
    <2> QED BY <2>1, <2>2 DEF HistoryInv, Accounted
<1>12. \E d \in DOMAIN decisions' :
        decisions'[d] = [user |-> u, write |-> b.write, ok |-> ok]
    <2>1. L + 1 \in DOMAIN decisions' /\ decisions'[L + 1] = o
        BY <1>7
    <2>2. o = [user |-> u, write |-> b.write, ok |-> ok]
        BY <1>4 DEF o
    <2> QED BY <2>1, <2>2
<1>13. b.write \in 1 .. spent.writes
    BY <1>1, <1>4
<1> QED BY <1>2, <1>3, <1>4, <1>7, <1>8, <1>10, <1>11, <1>12, <1>13 DEF b

\* A block is told about the write it was registered for, and everything the
\* user was told before was about older writes.
LEMMA BlockTold ==
    ASSUME IInv, NEW ok \in BOOLEAN, queue[current_user] # << >>
    PROVE  LET u == current_user
               b == queue[u][1]
           IN  \/ Told(b, ok) = told
               \/ /\ Told(b, ok) = Append(told, [user |-> u, write |-> b.write, ok |-> ok])
                  /\ \A k \in DOMAIN told : told[k].user = u => told[k].write < b.write
<1> USE DEF IInv
<1> DEFINE u == current_user
           b == queue[u][1]
           found == Blocks(b)
           c == CHOOSE e \in found : TRUE
<1>1. /\ u \in Users /\ queue[u] \in Seq(Batch) /\ DOMAIN queue[u] = 1 .. Len(queue[u])
      /\ Len(queue[u]) \in Nat
    BY BatchRows DEF TypeOK
<1>2. CASE found # {}
    <2>1. c \in mutation_callbacks[u] /\ c.id = b.id
        BY <1>2 DEF Blocks
    <2>2. Told(b, ok) = Append(told, [user |-> u, ok |-> ok, write |-> c.write])
        BY <1>2 DEF Told
    <2> HIDE DEF c
    <2>3. PICK k \in DOMAIN queue[u] : queue[u][k].id = c.id /\ queue[u][k].write = c.write
        BY <1>1, <2>1 DEF HistoryInv, ToldInOrder
    <2>4. k = 1
        <3>1. k \in Nat /\ k >= 1 /\ queue[u][1].id \in Nat
            BY <1>1, BatchRows
        <3>2. CASE k # 1
            <4>1. 1 \in 1 .. (k - 1)
                BY <3>1, <3>2
            <4>2. queue[u][1].id < queue[u][k].id
                BY <1>1, <4>1 DEF QueueInv, QueuesOrdered
            <4> QED BY <2>1, <2>3, <3>1, <4>2 DEF b
        <3> QED BY <3>2
    <2>5. c.write = b.write
        BY <2>3, <2>4 DEF b
    <2>6. [user |-> u, ok |-> ok, write |-> c.write] = [user |-> u, write |-> b.write, ok |-> ok]
        BY <2>5
    <2>7. \A j \in DOMAIN told : told[j].user = u => told[j].write < b.write
        BY <2>1, <2>5 DEF HistoryInv, ToldAreOlder
    <2> QED BY <2>2, <2>6, <2>7
<1>3. CASE found = {}
    BY <1>3 DEF Told
<1> QED BY <1>2, <1>3

\* What has been told grows by an outcome that is the latest of its user.
LEMMA ToldGrows ==
    ASSUME IInv, NEW o \in Outcome, NEW t,
           \/ t = told
           \/ /\ t = Append(told, o)
              /\ \A k \in DOMAIN told : told[k].user = o.user => told[k].write < o.write
    PROVE  /\ t \in Seq(Outcome)
           /\ \A k \in DOMAIN t :
                \/ k \in DOMAIN told /\ t[k] = told[k]
                \/ k = Len(told) + 1 /\ t[k] = o
           /\ \A k, l \in DOMAIN t :
                k < l /\ t[k].user = t[l].user => t[k].write < t[l].write
<1> USE DEF IInv
<1>1. told \in Seq(Outcome) /\ Len(told) \in Nat /\ DOMAIN told = 1 .. Len(told)
    BY OutcomeRows DEF TypeOK
<1>2. \A k, l \in DOMAIN told :
        k < l /\ told[k].user = told[l].user => told[k].write < told[l].write
    BY DEF HistoryInv, ToldInOrder
<1>3. CASE t = told
    BY <1>1, <1>2, <1>3
<1>4. CASE t = Append(told, o) /\ t # told
    <2>1. /\ t \in Seq(Outcome) /\ Len(t) = Len(told) + 1 /\ t[Len(told) + 1] = o
          /\ \A k \in 1 .. Len(told) : t[k] = told[k]
        <3>1. o \in Outcome /\ t = Append(told, o)
            BY <1>4
        <3>2. /\ Append(told, o) \in Seq(Outcome)
              /\ Len(Append(told, o)) = Len(told) + 1 /\ Append(told, o)[Len(told) + 1] = o
              /\ \A k \in 1 .. Len(told) : Append(told, o)[k] = told[k]
            BY ONLY <1>1, <3>1, AppendProperties
        <3> QED BY ONLY <3>1, <3>2
    <2>2. DOMAIN t = 1 .. (Len(told) + 1)
        BY <2>1
    <2>3. \A k \in DOMAIN t :
            \/ k \in DOMAIN told /\ t[k] = told[k]
            \/ k = Len(told) + 1 /\ t[k] = o
        BY <1>1, <2>1, <2>2
    <2>4. ASSUME NEW k \in DOMAIN t, NEW l \in DOMAIN t, k < l, t[k].user = t[l].user
          PROVE  t[k].write < t[l].write
        <3>1. k \in DOMAIN told /\ t[k] = told[k]
            BY <1>1, <2>2, <2>3, <2>4
        <3>2. CASE l \in DOMAIN told /\ t[l] = told[l]
            BY <1>2, <2>4, <3>1, <3>2
        <3>3. CASE t[l] = o
            BY <1>4, <2>4, <3>1, <3>3
        <3> QED BY <2>3, <3>2, <3>3
    <2> QED BY <2>1, <2>3, <2>4
<1> QED BY <1>3, <1>4

\* A decision about the oldest write of the current user, with its block.
LEMMA DecidedInv ==
    ASSUME IInv, NEW ok \in BOOLEAN, queue[current_user] # << >>,
           Decided(queue[current_user][1], ok),
           ok => queue[current_user][1].write \in applied, UNCHANGED applied,
           next_batch_id' = next_batch_id, spent'.writes = spent.writes
    PROVE  /\ queue' = [queue EXCEPT ![current_user] = Tail(@)]
           /\ queue' \in [Users -> Seq(Batch)]
           /\ mutation_callbacks' \in [Users -> SUBSET [id : Nat, write : Nat]]
           /\ decisions' \in Seq(Outcome) /\ told' \in Seq(Outcome)
           /\ QueueInv' /\ HistoryInv' /\ UNCHANGED torn
<1> USE DEF IInv
<1> DEFINE u == current_user
           b == queue[u][1]
           o == [user |-> u, write |-> b.write, ok |-> ok]
<1>1. /\ u \in Users /\ told \in Seq(Outcome)
      /\ mutation_callbacks \in [Users -> SUBSET [id : Nat, write : Nat]]
      /\ Removed(b, ok) /\ UNCHANGED torn /\ told' = Told(b, ok)
      /\ mutation_callbacks' = [mutation_callbacks EXCEPT ![u] = @ \ Blocks(b)]
    BY DEF TypeOK, Decided, NotifyUser
<1>2. /\ queue' = [queue EXCEPT ![u] = Tail(@)]
      /\ queue' \in [Users -> Seq(Batch)]
      /\ decisions' \in Seq(Outcome)
      /\ QueueInv' /\ DecidedOnce' /\ Accounted'
      /\ \E d \in DOMAIN decisions' : decisions'[d] = o
      /\ \A d \in DOMAIN decisions : d \in DOMAIN decisions' /\ decisions'[d] = decisions[d]
      /\ b.write \in 1 .. spent.writes
      /\ \A v \in Users : \A k \in DOMAIN queue'[v] : v = u => b.write < queue'[v][k].write
      /\ \A v \in Users : \A m \in DOMAIN queue[v] :
            \/ v = u /\ m = 1
            \/ \E k \in DOMAIN queue'[v] : queue'[v][k] = queue[v][m]
    BY <1>1, RemovedInv
<1>3. \/ told' = told
      \/ /\ told' = Append(told, o)
         /\ \A k \in DOMAIN told : told[k].user = u => told[k].write < b.write
    BY <1>1, BlockTold
<1>4. o \in Outcome /\ o.user = u /\ o.write = b.write /\ o.ok = ok
    <2>1. b.write \in Writes
        BY <1>2, BoundsAssumption DEF Writes, TypeOK, Counters
    <2> QED BY <1>1, <2>1 DEF Outcome, Writes
<1> HIDE DEF o, b
<1>5. /\ told' \in Seq(Outcome)
      /\ \A k \in DOMAIN told' :
            \/ k \in DOMAIN told /\ told'[k] = told[k]
            \/ k = Len(told) + 1 /\ told'[k] = o
      /\ \A k, l \in DOMAIN told' :
            k < l /\ told'[k].user = told'[l].user => told'[k].write < told'[l].write
    BY <1>3, <1>4, ToldGrows
<1>6. mutation_callbacks' \in [Users -> SUBSET [id : Nat, write : Nat]]
    BY <1>1
<1>7. ASSUME NEW v \in Users, NEW c \in mutation_callbacks'[v]
      PROVE  /\ c \in mutation_callbacks[v]
             /\ \E k \in DOMAIN queue'[v] :
                    queue'[v][k].id = c.id /\ queue'[v][k].write = c.write
    <2>1. c \in mutation_callbacks[v] /\ (v = u => c.id # b.id)
        BY <1>1 DEF Blocks
    <2>2. PICK m \in DOMAIN queue[v] :
            queue[v][m].id = c.id /\ queue[v][m].write = c.write
        BY <2>1 DEF HistoryInv, ToldInOrder
    <2>3. ~(v = u /\ m = 1)
        BY <2>1, <2>2 DEF b
    <2>4. PICK k \in DOMAIN queue'[v] : queue'[v][k] = queue[v][m]
        BY <1>2, <2>3
    <2> QED BY <2>1, <2>2, <2>4
<1>8. \A k \in DOMAIN told' :
        /\ told'[k].ok => told'[k].write \in applied
        /\ \/ \E d \in DOMAIN decisions' : told'[k] = decisions'[d]
           \/ told'[k].ok /\ told'[k].write \in torn
    <2> TAKE k \in DOMAIN told'
    <2>1. CASE k \in DOMAIN told /\ told'[k] = told[k]
        <3>1. /\ told[k].ok => told[k].write \in applied
              /\ \/ \E d \in DOMAIN decisions : told[k] = decisions[d]
                 \/ told[k].ok /\ told[k].write \in torn
            BY <2>1 DEF HistoryInv, ToldInOrder
        <3> QED BY <1>2, <2>1, <3>1
    <2>2. CASE told'[k] = o
        BY <1>2, <1>4, <2>2 DEF b
    <2> QED BY <1>5, <2>1, <2>2
<1>9. ToldInOrder'
    BY <1>1, <1>5, <1>7, <1>8 DEF ToldInOrder
<1>10. ToldAreOlder'
    <2> SUFFICES ASSUME NEW k \in DOMAIN told'
                 PROVE  /\ told'[k].write <= spent.writes
                        /\ \A c \in mutation_callbacks'[told'[k].user] :
                                told'[k].write < c.write
        BY DEF ToldAreOlder
    <2>1. CASE k \in DOMAIN told /\ told'[k] = told[k]
        <3>1. told[k].user \in Users
            BY <1>1, <2>1, OutcomeRows
        <3> QED BY <1>7, <2>1, <3>1 DEF HistoryInv, ToldAreOlder
    <2>2. CASE told'[k] = o
        <3>1. o.write <= spent.writes
            BY <1>2, <1>4
        <3>2. ASSUME NEW c \in mutation_callbacks'[u]
              PROVE  o.write < c.write
            <4>1. PICK j \in DOMAIN queue'[u] :
                    queue'[u][j].id = c.id /\ queue'[u][j].write = c.write
                BY <1>1, <1>7
            <4>2. b.write < queue'[u][j].write
                BY <1>1, <1>2, <4>1
            <4> QED BY <1>4, <4>1, <4>2
        <3> QED BY <1>4, <2>2, <3>1, <3>2
    <2> QED BY <1>5, <2>1, <2>2
<1> QED BY <1>1, <1>2, <1>5, <1>6, <1>9, <1>10 DEF HistoryInv

\* The pipeline and the queue without their first batch.
LEMMA PipelineFront ==
    ASSUME NEW q \in Seq(Batch), NEW p \in Seq(Batch), FullPipeline(q, p), p # << >>
    PROVE  /\ q # << >> /\ Head(p) = q[1] /\ Tail(p) \in Seq(Batch) /\ Tail(q) \in Seq(Batch)
           /\ StartsWith(Tail(q), Tail(p)) /\ Len(Tail(p)) <= kMaxPendingWrites
<1>1. /\ Len(p) <= Len(q) /\ \A k \in 1 .. Len(p) : p[k] = q[k]
      /\ kMaxPendingWrites \in Nat /\ Len(p) <= kMaxPendingWrites
    BY PipelineAssumption DEF FullPipeline, StartsWith
<1>2. /\ Tail(p) \in Seq(Batch) /\ Len(p) \in Nat \ {0} /\ Len(Tail(p)) = Len(p) - 1
      /\ \A k \in 1 .. (Len(p) - 1) : Tail(p)[k] = p[k + 1]
      /\ Head(p) = p[1]
    BY TailRows
<1>3. q # << >>
    BY <1>1, <1>2
<1>4. /\ Tail(q) \in Seq(Batch) /\ Len(q) \in Nat \ {0} /\ Len(Tail(q)) = Len(q) - 1
      /\ \A k \in 1 .. (Len(q) - 1) : Tail(q)[k] = q[k + 1]
    BY <1>3, TailRows
<1>5. ASSUME NEW k \in 1 .. Len(Tail(p))
      PROVE  Tail(p)[k] = Tail(q)[k]
    <2>1. k \in 1 .. (Len(p) - 1) /\ k \in 1 .. (Len(q) - 1) /\ k + 1 \in 1 .. Len(p)
        BY <1>1, <1>2, <1>4
    <2> QED BY <1>1, <1>2, <1>4, <2>1
<1>6. Head(p) = q[1] /\ Len(Tail(p)) <= Len(Tail(q)) /\ Len(Tail(p)) <= kMaxPendingWrites
    BY <1>1, <1>2, <1>4
<1> QED BY <1>2, <1>3, <1>4, <1>5, <1>6 DEF StartsWith

LEMMA TailConcat ==
    ASSUME NEW S, NEW r \in Seq(S), NEW s \in Seq(S), r # << >>
    PROVE  Tail(r) \o s = Tail(r \o s) /\ r \o s # << >>
<1>1. /\ Tail(r) \in Seq(S) /\ Len(r) \in Nat \ {0} /\ Len(Tail(r)) = Len(r) - 1
      /\ \A k \in 1 .. (Len(r) - 1) : Tail(r)[k] = r[k + 1]
    BY TailRows
<1>2. /\ r \o s \in Seq(S) /\ Len(r \o s) = Len(r) + Len(s) /\ Len(s) \in Nat
      /\ \A i \in 1 .. Len(r) + Len(s) :
            (r \o s)[i] = IF i <= Len(r) THEN r[i] ELSE s[i - Len(r)]
    BY ConcatProperties, LenProperties
<1>3. r \o s # << >>
    BY <1>1, <1>2
<1>4. /\ Tail(r \o s) \in Seq(S) /\ Len(Tail(r \o s)) = Len(r \o s) - 1
      /\ \A k \in 1 .. (Len(r \o s) - 1) : Tail(r \o s)[k] = (r \o s)[k + 1]
    BY <1>2, <1>3, TailRows
<1>5. /\ Tail(r) \o s \in Seq(S) /\ Len(Tail(r) \o s) = Len(Tail(r)) + Len(s)
      /\ \A i \in 1 .. Len(Tail(r)) + Len(s) :
            (Tail(r) \o s)[i] = IF i <= Len(Tail(r)) THEN Tail(r)[i]
                                ELSE s[i - Len(Tail(r))]
    BY <1>1, ConcatProperties
<1>6. Len(Tail(r) \o s) = Len(Tail(r \o s)) /\ Len(Tail(r \o s)) = (Len(r) - 1) + Len(s)
    BY <1>1, <1>2, <1>4, <1>5
<1>7. ASSUME NEW i \in 1 .. Len(Tail(r \o s))
      PROVE  (Tail(r) \o s)[i] = Tail(r \o s)[i]
    <2>1. /\ i \in 1 .. (Len(r \o s) - 1) /\ i \in 1 .. Len(Tail(r)) + Len(s)
          /\ i + 1 \in 1 .. Len(r) + Len(s) /\ i \in Nat /\ i >= 1
        BY <1>1, <1>2, <1>6
    <2>2. Tail(r \o s)[i] = IF i + 1 <= Len(r) THEN r[i + 1] ELSE s[(i + 1) - Len(r)]
        BY <1>2, <1>4, <2>1
    <2>3. CASE i + 1 <= Len(r)
        <3>1. i \in 1 .. (Len(r) - 1) /\ i <= Len(Tail(r))
            BY <1>1, <2>1, <2>3
        <3> QED BY <1>1, <1>5, <2>1, <2>2, <2>3, <3>1
    <2>4. CASE ~(i + 1 <= Len(r))
        <3>1. ~(i <= Len(Tail(r))) /\ i - Len(Tail(r)) = (i + 1) - Len(r)
            BY <1>1, <2>1, <2>4
        <3> QED BY <1>5, <2>1, <2>2, <2>4, <3>1
    <2> QED BY <2>3, <2>4
<1> QED BY <1>3, <1>4, <1>5, <1>6, <1>7, SeqEqual

\* The answer that is next is about the oldest write of the user who is signed
\* in, which the server has applied.
LEMMA FrontAnswered ==
    ASSUME IInv, AnswerIsNext
    PROVE  /\ queue[current_user] # << >> /\ Head(net.pipeline) = queue[current_user][1]
           /\ queue[current_user][1].write \in applied
<1> DEFINE u == current_user
<1>1. /\ net.received # << >> /\ IsOpen(net) /\ queue[u] \in Seq(Batch)
      /\ net.pipeline \in Seq(Batch) /\ net.received \in Seq(Batch) /\ net.sent \in Seq(Batch)
      /\ FullPipeline(queue[u], net.pipeline)
    BY DEF IInv, TypeOK, NetState, Serves, AnswerIsNext
<1>2. net.received \o net.sent = net.pipeline
    BY <1>1 DEF IInv, Serves, SentIsPipeline
<1>3. net.pipeline # << >>
    BY <1>1, <1>2, TailConcat
<1>4. queue[u] # << >> /\ Head(net.pipeline) = queue[u][1]
    BY <1>1, <1>3, PipelineFront
<1>5. net.received[1] = queue[u][1] /\ 1 \in DOMAIN net.received
    <2>1. Len(net.received) \in Nat \ {0} /\ DOMAIN net.received = 1 .. Len(net.received)
        BY <1>1, TailRows
    <2>2. Len(net.sent) \in Nat /\ 1 \in 1 .. Len(net.received) + Len(net.sent)
          /\ 1 <= Len(net.received)
        <3>1. Len(net.sent) \in Nat
            BY <1>1, LenProperties
        <3>2. \A a \in Nat \ {0} : \A b \in Nat : 1 \in 1 .. a + b /\ 1 <= a
            OBVIOUS
        <3> QED BY <2>1, <3>1, <3>2, Zenon
    <2>3. net.pipeline[1] = net.received[1]
        BY <1>1, <1>2, <2>1, <2>2, ConcatProperties
    <2>4. Head(net.pipeline) = net.pipeline[1]
        BY <1>1, <1>3, TailRows
    <2> QED BY <1>4, <2>1, <2>2, <2>3, <2>4
<1>6. queue[u][1].write \in applied
    BY <1>5 DEF IInv, ServerKnows
<1> QED BY <1>4, <1>6

LEMMA OnWriteStreamMutationResultInv ==
    ASSUME IInv, OnWriteStreamMutationResult
    PROVE  IInv'
<1> USE DEF IInv
<1> DEFINE u == current_user
           n == [PopFront(net) EXCEPT !.received = Tail(@),
                     !.failed = IF @ = "behind" THEN "next" ELSE @]
<1>1. /\ net \in NetState /\ IsOpen(net) /\ net.received # << >>
      /\ u \in Users /\ queue[u] \in Seq(Batch)
      /\ net.pipeline \in Seq(Batch) /\ net.received \in Seq(Batch) /\ net.sent \in Seq(Batch)
    BY DEF OnWriteStreamMutationResult, AnswerIsNext, TypeOK, NetState
<1>2. /\ Decided(Head(net.pipeline), TRUE)
      /\ net' = FillWritePipeline(n, queue'[u])
      /\ UNCHANGED <<current_user, next_batch_id, server, spent>>
    BY DEF OnWriteStreamMutationResult
<1>3. OnStream(net) /\ net.received \o net.sent = net.pipeline
    BY <1>1 DEF Serves, SentIsPipeline
<1>4. Tail(net.received) \o net.sent = Tail(net.pipeline) /\ net.pipeline # << >>
    BY <1>1, <1>3, TailConcat
<1>5. /\ queue[u] # << >> /\ Head(net.pipeline) = queue[u][1]
      /\ Tail(net.pipeline) \in Seq(Batch) /\ Tail(queue[u]) \in Seq(Batch)
      /\ StartsWith(Tail(queue[u]), Tail(net.pipeline))
      /\ Len(Tail(net.pipeline)) <= kMaxPendingWrites
    BY <1>1, <1>4, PipelineFront DEF Serves
<1>6. /\ queue' = [queue EXCEPT ![u] = Tail(@)]
      /\ queue' \in [Users -> Seq(Batch)]
      /\ mutation_callbacks' \in [Users -> SUBSET [id : Nat, write : Nat]]
      /\ decisions' \in Seq(Outcome) /\ told' \in Seq(Outcome)
      /\ QueueInv' /\ HistoryInv' /\ UNCHANGED torn
    BY <1>2, <1>5, FrontAnswered, DecidedInv DEF OnWriteStreamMutationResult, server
<1>7. queue'[u] = Tail(queue[u]) /\ RowsAscend(queue'[u])
    <2>1. queue'[u] = Tail(queue[u])
        BY <1>1, <1>6 DEF TypeOK
    <2>2. DOMAIN queue'[u] = 1 .. Len(queue'[u])
        BY <1>5, <2>1, BatchRows
    <2> QED BY <1>1, <1>6, <2>1, <2>2 DEF QueueInv, QueuesOrdered, RowsAscend
<1>8. /\ Tail(net.received) \in Seq(Batch)
      /\ \A k \in DOMAIN Tail(net.received) :
            k + 1 \in DOMAIN net.received /\ Tail(net.received)[k] = net.received[k + 1]
    <2>1. /\ Tail(net.received) \in Seq(Batch) /\ Len(net.received) \in Nat
          /\ DOMAIN net.received = 1 .. Len(net.received)
          /\ DOMAIN Tail(net.received) = 1 .. (Len(net.received) - 1)
          /\ \A k \in 1 .. (Len(net.received) - 1) : Tail(net.received)[k] = net.received[k + 1]
        BY <1>1, TailRows
    <2>2. \A k \in 1 .. (Len(net.received) - 1) : k + 1 \in 1 .. Len(net.received)
        BY <2>1
    <2> QED BY <2>1, <2>2
<1>9. /\ n \in NetState /\ n.state = net.state /\ n.greeting = net.greeting
      /\ n.pipeline = Tail(net.pipeline) /\ n.sent = net.sent
      /\ n.received = Tail(net.received) /\ n.idle = net.idle
    BY <1>1, <1>5, <1>8 DEF PopFront, NetState, Failure
<1> HIDE DEF n
<1>10. OnStream(n) /\ handshake_complete(n)
    BY <1>3, <1>9 DEF OnStream, IsOpen, handshake_complete
<1>11. SentIsPipeline(n) /\ IdleIsDone(n)
    BY <1>4, <1>9, <1>10 DEF SentIsPipeline, IdleIsDone, Serves
<1>12. /\ net' \in NetState /\ Serves(net', queue'[u])
       /\ net'.received = Tail(net.received)
    <2>1. /\ StartsWith(queue'[u], n.pipeline) /\ Len(n.pipeline) <= kMaxPendingWrites
          /\ queue'[u] \in Seq(Batch)
        BY <1>5, <1>7, <1>9
    <2>2. /\ net' \in NetState /\ FullPipeline(queue'[u], net'.pipeline)
          /\ SentIsPipeline(net') /\ IdleIsDone(net')
          /\ net'.pipeline # << >> => IsStarted(net')
          /\ IsOpen(net') <=> IsOpen(n)
          /\ net'.greeting = n.greeting /\ net'.received = n.received
        BY <1>2, <1>7, <1>9, <1>10, <1>11, <2>1, FillEstablishes
    <2>3. net'.greeting # "none" <=> IsOpen(net')
        BY <1>9, <2>2 DEF IsOpen, Serves
    <2> QED BY <1>9, <2>2, <2>3 DEF Serves
<1>13. TypeOK'
    BY <1>2, <1>6, <1>12 DEF TypeOK, server
<1>14. ServerKnows'
    BY <1>2, <1>8, <1>12 DEF ServerKnows, server
<1> QED BY <1>2, <1>6, <1>12, <1>13, <1>14

\* A permanent error rejects the front of the pipeline.
LEMMA HandleWriteErrorInv ==
    ASSUME IInv, HandleWriteError, net.pipeline # << >>, UNCHANGED <<server, spent>>
    PROVE  IInv'
<1> USE DEF IInv
<1> DEFINE u == current_user
           d == Dropped(net, "Error")
           n == InhibitBackoff(PopFront(d))
           r == FillWritePipeline(n, queue'[u])
<1>1. /\ net \in NetState /\ u \in Users /\ queue[u] \in Seq(Batch)
      /\ net.pipeline \in Seq(Batch) /\ "Error" \in StreamState
    BY DEF TypeOK, NetState, StreamState
<1>2. /\ Decided(Head(net.pipeline), FALSE)
      /\ net' = Restarted(r)
      /\ UNCHANGED <<current_user, next_batch_id>>
    BY DEF HandleWriteError
<1>3. /\ queue[u] # << >> /\ Head(net.pipeline) = queue[u][1]
      /\ Tail(net.pipeline) \in Seq(Batch) /\ Tail(queue[u]) \in Seq(Batch)
      /\ StartsWith(Tail(queue[u]), Tail(net.pipeline))
      /\ Len(Tail(net.pipeline)) <= kMaxPendingWrites
    BY <1>1, PipelineFront DEF Serves
<1>4. /\ queue' = [queue EXCEPT ![u] = Tail(@)]
      /\ queue' \in [Users -> Seq(Batch)]
      /\ mutation_callbacks' \in [Users -> SUBSET [id : Nat, write : Nat]]
      /\ decisions' \in Seq(Outcome) /\ told' \in Seq(Outcome)
      /\ QueueInv' /\ HistoryInv' /\ UNCHANGED torn
    BY <1>2, <1>3, DecidedInv DEF server
<1>5. queue'[u] = Tail(queue[u]) /\ RowsAscend(queue'[u])
    <2>1. queue'[u] = Tail(queue[u])
        BY <1>1, <1>4 DEF TypeOK
    <2>2. DOMAIN queue'[u] = 1 .. Len(queue'[u])
        BY <1>3, <2>1, BatchRows
    <2> QED BY <1>1, <1>4, <2>1, <2>2 DEF QueueInv, QueuesOrdered, RowsAscend
<1>6. /\ d \in NetState /\ ~d.idle /\ d.sent = << >> /\ d.received = << >>
      /\ d.pipeline = net.pipeline
    BY <1>1, DroppedFields
<1> HIDE DEF d
<1>7. /\ n \in NetState /\ n.state = "Initial" /\ n.pipeline = Tail(net.pipeline)
      /\ ~n.idle /\ n.sent = << >> /\ n.received = << >>
    BY <1>3, <1>6 DEF InhibitBackoff, PopFront, NetState, StreamState
<1> HIDE DEF n
<1>8. /\ ~IsOpen(n) /\ SentIsPipeline(n) /\ IdleIsDone(n)
      /\ StartsWith(queue'[u], n.pipeline) /\ Len(n.pipeline) <= kMaxPendingWrites
      /\ queue'[u] \in Seq(Batch)
    BY <1>3, <1>5, <1>7 DEF IsOpen, OnStream, SentIsPipeline, IdleIsDone
<1>9. /\ r \in NetState /\ FullPipeline(queue'[u], r.pipeline)
      /\ SentIsPipeline(r) /\ IdleIsDone(r) /\ ~IsOpen(r)
    BY <1>5, <1>7, <1>8, FillEstablishes
<1>10. r.sent = << >> /\ r.received = << >> /\ ~r.idle
    BY <1>9 DEF OnStream, SentIsPipeline, IdleIsDone
<1> HIDE DEF r
<1>11. net' \in NetState /\ Serves(net', queue'[u]) /\ net'.received = << >>
    BY <1>2, <1>9, <1>10, RestartedServes
<1>12. TypeOK'
    BY <1>2, <1>4, <1>11 DEF TypeOK, server
<1>13. ServerKnows'
    BY <1>2, <1>11 DEF ServerKnows, server
<1> QED BY <1>2, <1>4, <1>11, <1>12, <1>13

LEMMA OnStreamFinishInv ==
    ASSUME IInv, OnStreamFinish
    PROVE  IInv'
<1>1. UNCHANGED <<server, spent>>
    BY DEF OnStreamFinish
<1>2. \/ HandleWriteError /\ net.pipeline # << >>
      \/ RetryAfterError
    BY DEF OnStreamFinish, OnWriteStreamClose, Rejects
<1>3. spent' \in Counters /\ spent'.writes = spent.writes
    BY <1>1 DEF IInv, TypeOK
<1> QED BY <1>1, <1>2, <1>3, HandleWriteErrorInv, RetryAfterErrorInv

\* The block has run and the write is still queued.
LEMMA EndsAcknowledgingInv ==
    ASSUME IInv, EndsAcknowledging
    PROVE  IInv'
<1> USE DEF IInv
<1> DEFINE u == current_user
           b == queue[u][1]
           o == [user |-> u, write |-> b.write, ok |-> TRUE]
<1>1. /\ Reborn(queue) /\ UNCHANGED <<queue, decisions>> /\ u \in Users
      /\ told' = Told(Head(net.pipeline), TRUE)
      /\ torn' = torn \cup {Head(net.pipeline).write}
    BY DEF EndsAcknowledging, TypeOK
<1>2. queue[u] # << >> /\ Head(net.pipeline) = b /\ b.write \in applied
    BY FrontAnswered DEF EndsAcknowledging
<1>3. queue \in [Users -> Seq(Batch)] /\ RowsAscend(queue[u])
    BY <1>1, QueueRows DEF QueueInv, TypeOK
<1>4. /\ spent' \in Counters /\ spent'.writes = spent.writes
      /\ next_batch_id' = LoadNextBatchIdFromDb(queue)
      /\ mutation_callbacks' = [v \in Users |-> {}]
      /\ net' \in NetState /\ Serves(net', queue[u]) /\ net'.received = << >>
      /\ UNCHANGED <<current_user, server>>
    BY <1>1, <1>3, RebornServes
<1>5. /\ next_batch_id' \in Nat \ {0}
      /\ mutation_callbacks' \in [Users -> SUBSET [id : Nat, write : Nat]]
      /\ QueueInv' /\ DecidedOnce' /\ Accounted'
    BY <1>1, <1>4, QueuesReloaded
<1>6. /\ b.write \in 1 .. spent.writes /\ spent.writes \in Nat /\ b.write \in Writes
      /\ o \in Outcome /\ o.user = u /\ o.write = b.write /\ o.ok
    <2>1. b.write \in 1 .. spent.writes /\ spent.writes \in Nat
        BY <1>2, BoundsAssumption DEF ServerKnows, TypeOK, Counters
    <2>2. b.write \in Writes
        BY <1>2 DEF TypeOK
    <2> QED BY <1>1, <2>1, <2>2 DEF Outcome
<1>7. \/ told' = told
      \/ /\ told' = Append(told, o)
         /\ \A k \in DOMAIN told : told[k].user = u => told[k].write < b.write
    BY <1>1, <1>2, BlockTold
<1> HIDE DEF o, b
<1>8. /\ told' \in Seq(Outcome)
      /\ \A k \in DOMAIN told' :
            \/ k \in DOMAIN told /\ told'[k] = told[k]
            \/ k = Len(told) + 1 /\ told'[k] = o
      /\ \A k, l \in DOMAIN told' :
            k < l /\ told'[k].user = told'[l].user => told'[k].write < told'[l].write
    BY <1>6, <1>7, ToldGrows
<1>9. \A k \in DOMAIN told' :
        /\ told'[k].ok => told'[k].write \in applied
        /\ \/ \E d \in DOMAIN decisions : told'[k] = decisions[d]
           \/ told'[k].ok /\ told'[k].write \in torn'
    <2> TAKE k \in DOMAIN told'
    <2>1. CASE k \in DOMAIN told /\ told'[k] = told[k]
        BY <1>1, <2>1 DEF HistoryInv, ToldInOrder
    <2>2. CASE told'[k] = o
        BY <1>1, <1>2, <1>6, <2>2
    <2> QED BY <1>8, <2>1, <2>2
<1>10. ToldInOrder'
    BY <1>1, <1>4, <1>8, <1>9 DEF ToldInOrder, server
<1>11. ToldAreOlder'
    <2>1. \A k \in DOMAIN told' : told'[k].user \in Users
        BY <1>8, OutcomeRows
    <2>2. \A k \in DOMAIN told' : told'[k].write <= spent.writes
        BY <1>6, <1>8 DEF HistoryInv, ToldAreOlder
    <2> QED BY <1>4, <2>1, <2>2 DEF ToldAreOlder
<1>12. TypeOK'
    BY <1>1, <1>2, <1>4, <1>5, <1>6, <1>8 DEF TypeOK, server
<1>13. ServerKnows'
    BY <1>4 DEF ServerKnows, server
<1> QED BY <1>1, <1>4, <1>5, <1>10, <1>11, <1>12, <1>13 DEF HistoryInv

\* A refused write is off its queue, and its block is gone with the process.
LEMMA EndsRejectingInv ==
    ASSUME IInv, EndsRejecting
    PROVE  IInv'
<1> USE DEF IInv
<1> DEFINE u == current_user
<1>1. /\ Removed(Head(net.pipeline), FALSE) /\ Reborn(queue') /\ UNCHANGED <<told, torn>>
      /\ net.pipeline # << >> /\ net.pipeline \in Seq(Batch)
      /\ u \in Users /\ queue[u] \in Seq(Batch)
    BY DEF EndsRejecting, Rejects, TypeOK, NetState
<1>2. queue[u] # << >> /\ Head(net.pipeline) = queue[u][1]
    BY <1>1, PipelineFront DEF Serves
<1>3. /\ spent' \in Counters /\ spent'.writes = spent.writes
      /\ next_batch_id' = LoadNextBatchIdFromDb(queue')
    BY <1>1, KillType DEF Reborn, TypeOK
<1>4. /\ queue' \in [Users -> Seq(Batch)] /\ next_batch_id' \in Nat \ {0}
      /\ decisions' \in Seq(Outcome)
      /\ QueueInv' /\ DecidedOnce' /\ Accounted'
      /\ \A d \in DOMAIN decisions : d \in DOMAIN decisions' /\ decisions'[d] = decisions[d]
    BY <1>1, <1>2, <1>3, RemovedInv
<1>5. RowsAscend(queue'[u])
    <2>1. DOMAIN queue'[u] = 1 .. Len(queue'[u])
        BY <1>1, <1>4, BatchRows
    <2> QED BY <1>1, <1>4, <2>1 DEF QueueInv, QueuesOrdered, RowsAscend
<1>6. /\ mutation_callbacks' = [v \in Users |-> {}]
      /\ mutation_callbacks' \in [Users -> SUBSET [id : Nat, write : Nat]]
      /\ net' \in NetState /\ Serves(net', queue'[u]) /\ net'.received = << >>
      /\ UNCHANGED <<current_user, server>>
    BY <1>1, <1>4, <1>5, RebornServes
<1>7. ToldInOrder'
    <2>1. \A k \in DOMAIN told :
            /\ told[k].ok => told[k].write \in applied
            /\ \/ \E d \in DOMAIN decisions' : told[k] = decisions'[d]
               \/ told[k].ok /\ told[k].write \in torn
        BY <1>4 DEF HistoryInv, ToldInOrder
    <2> QED BY <1>1, <1>6, <2>1 DEF HistoryInv, ToldInOrder, server
<1>8. ToldAreOlder'
    <2>1. \A k \in DOMAIN told : told[k].user \in Users
        BY OutcomeRows DEF TypeOK
    <2> QED BY <1>1, <1>3, <1>6, <2>1 DEF HistoryInv, ToldAreOlder
<1>9. TypeOK'
    BY <1>1, <1>3, <1>4, <1>6 DEF TypeOK, server
<1>10. ServerKnows'
    BY <1>3, <1>6 DEF ServerKnows, server
<1> QED BY <1>4, <1>6, <1>7, <1>8, <1>9, <1>10 DEF HistoryInv

-----------------------------------------------------------------------------
(* The invariant.                                                           *)

LEMMA InitInv ==
    ASSUME Init
    PROVE  IInv
<1> USE DEF Init
<1>1. << >> \in Seq(Batch) /\ << >> \in Seq(Outcome) /\ Len(<< >>) = 0 /\ DOMAIN << >> = {}
    BY EmptySeq
<1>2. /\ NewNet \in NetState /\ ~IsOpen(NewNet) /\ ~NewNet.idle /\ NewNet.greeting = "none"
      /\ NewNet.sent = << >> /\ NewNet.received = << >> /\ NewNet.pipeline = << >>
    BY NewNetFields
<1>3. spent \in Counters /\ spent.writes = 0
    BY BoundsAssumption DEF Counters
<1>4. TypeOK
    <2>1. mutation_callbacks \in [Users -> SUBSET [id : Nat, write : Nat]]
        OBVIOUS
    <2> QED BY <1>1, <1>2, <1>3, <2>1 DEF TypeOK
<1>5. \A u \in Users : queue[u] = << >> /\ mutation_callbacks[u] = {}
    OBVIOUS
<1>6. QueueInv
    BY <1>1, <1>5 DEF QueueInv, QueuesOrdered, QueuesDisjoint
<1>7. HistoryInv
    BY <1>1, <1>3, <1>5 DEF HistoryInv, DecidedOnce, Accounted, ToldInOrder, ToldAreOlder
<1>8. ServerKnows
    BY <1>1, <1>2 DEF ServerKnows
<1>9. Serves(net, queue[current_user])
    <2>1. FullPipeline(<< >>, << >>)
        BY <1>1, PipelineAssumption DEF FullPipeline, StartsWith
    <2> QED BY <1>2, <1>5, <2>1
            DEF Serves, SentIsPipeline, IdleIsDone, OnStream
<1> QED BY <1>4, <1>6, <1>7, <1>8, <1>9 DEF IInv

LEMMA StutterInv ==
    ASSUME IInv, UNCHANGED vars
    PROVE  IInv'
<1> USE DEF IInv, vars
<1>1. QueueInv' /\ HistoryInv'
    BY HistoryKept
<1>2. TypeOK'
    BY DEF TypeOK
<1>3. ServerKnows'
    BY DEF ServerKnows
<1> QED BY <1>1, <1>2, <1>3

LEMMA NextInv ==
    ASSUME IInv, [Next]_vars
    PROVE  IInv'
<1>1. CASE Next
    BY <1>1, WriteInv, TokenReadyInv, TokenFailedInv, OnWriteStreamHandshakeCompleteInv,
       OnWriteStreamMutationResultInv, PendingWriteFailsInv, OnStreamFinishInv,
       ConnectivityChangedInv, BackoffElapsedInv, IdleTimeoutInv, HandleCredentialChangeInv,
       RestartInv, EndsAcknowledgingInv, EndsRejectingInv, ServerGreetsInv, ServerAppliesInv, ServerRefusesInv, CallBreaksInv
       DEF Next
<1>2. CASE UNCHANGED vars
    BY <1>2, StutterInv
<1> QED BY <1>1, <1>2

LEMMA Invariance == Spec => []IInv
<1>1. Init => IInv
    BY InitInv
<1>2. IInv /\ [Next]_vars => IInv'
    BY NextInv
<1> QED BY <1>1, <1>2, PTL DEF Spec
\* Every variable keeps the type of the member it stands for.
THEOREM TypeCorrect == Spec => []TypeOK
<1>1. IInv => TypeOK
    BY DEF IInv
<1> QED BY <1>1, Invariance, PTL

\* Whatever handlers run, the pipeline is the front of the queue of the user who
\* is signed in, and as long as it may be: FillWritePipeline is called wherever
\* it has to be.
THEOREM PipelineCorrect == Spec => []PipelineIsPrefix
<1>1. IInv => PipelineIsPrefix
    <2> SUFFICES ASSUME IInv
                 PROVE  PipelineIsPrefix
        OBVIOUS
    <2>1. net.pipeline \in Seq(Batch)
        BY DEF IInv, TypeOK, NetState
    <2>2. DOMAIN net.pipeline = 1 .. Len(net.pipeline)
        BY <2>1, BatchRows
    <2> QED BY <2>2 DEF IInv, Serves, FullPipeline, StartsWith, PipelineIsPrefix
<1> QED BY <1>1, Invariance, PTL

\* Every answer OnWriteStreamMutationResult reads is for the batch at the front
\* of the pipeline, on every connection.
THEOREM AnswersCredited == Spec => []AnswersMatchPipeline
<1>1. IInv => AnswersMatchPipeline
    <2> SUFFICES ASSUME IInv
                 PROVE  AnswersMatchPipeline
        OBVIOUS
    <2>1. SentIsPipeline(net) /\ (net.greeting # "none" <=> IsOpen(net))
        BY DEF IInv, Serves
    <2>2. handshake_complete(net) <=> OnStream(net)
        BY <2>1 DEF OnStream, handshake_complete
    <2> QED BY <2>1, <2>2 DEF SentIsPipeline, AnswersMatchPipeline
<1> QED BY <1>1, Invariance, PTL

\* A write that is pending has a stream that is open or will be, and the idle
\* timer never stops a stream that is needed.
THEOREM PendingIsServed == Spec => []StreamServesPipeline
<1>1. IInv => StreamServesPipeline
    BY DEF IInv, Serves, IdleIsDone, OnStream, StreamServesPipeline
<1> QED BY <1>1, Invariance, PTL

\* A completion block runs at most once, an account's blocks in the order of its
\* writes; "done" is told only of a write the server has applied, and the outcome
\* told is the one the write leaves the queue with, unless the process ended
\* before the removal. Batch ids that are used again after a user change or a
\* restart find no block of an earlier write.
THEOREM BlocksInOrder == Spec => []ToldInOrder
<1>1. IInv => ToldInOrder
    BY DEF IInv, HistoryInv
<1> QED BY <1>1, Invariance, PTL

\* A row of a queue is known by its write.
LEMMA OneRow ==
    ASSUME IInv, NEW u \in Users, NEW v \in Users,
           NEW j \in DOMAIN queue[u], NEW k \in DOMAIN queue[v],
           queue[u][j].write = queue[v][k].write
    PROVE  u = v /\ j = k
<1>1. u = v
    BY DEF IInv, QueueInv, QueuesDisjoint
<1>2. /\ DOMAIN queue[u] = 1 .. Len(queue[u]) /\ Len(queue[u]) \in Nat
      /\ \A i \in DOMAIN queue[u] : queue[u][i].write \in Nat
    BY BatchRows DEF IInv, TypeOK
<1>3. \A i \in DOMAIN queue[u] : \A m \in 1 .. (i - 1) : queue[u][m].write < queue[u][i].write
    BY DEF IInv, QueueInv, QueuesOrdered
<1>4. CASE j < k
    <2>1. j \in 1 .. (k - 1)
        BY <1>1, <1>2, <1>4
    <2>2. queue[u][j].write < queue[u][k].write
        BY <1>1, <1>3, <2>1
    <2> QED BY <1>1, <1>2, <2>2
<1>5. CASE k < j
    <2>1. k \in 1 .. (j - 1)
        BY <1>1, <1>2, <1>5
    <2>2. queue[u][k].write < queue[u][j].write
        BY <1>3, <2>1
    <2> QED BY <1>1, <1>2, <2>2
<1> QED BY <1>1, <1>2, <1>4, <1>5

\* Neither a lost connection nor a sign-out nor the end of the process loses a
\* write or has it decided twice.
THEOREM WritesAreKept == Spec => []NoWriteLost
<1>1. IInv => NoWriteLost
    <2> SUFFICES ASSUME IInv, NEW w \in 1 .. spent.writes
                 PROVE  Cardinality({d \in DOMAIN decisions : decisions[d].write = w})
                        + Cardinality({row \in Users \X (1..MaxWrites) :
                               /\ row[2] <= Len(queue[row[1]])
                               /\ queue[row[1]][row[2]].write = w}) = 1
        BY DEF NoWriteLost
    <2> DEFINE D == {d \in DOMAIN decisions : decisions[d].write = w}
               R == {row \in Users \X (1..MaxWrites) :
                        /\ row[2] <= Len(queue[row[1]])
                        /\ queue[row[1]][row[2]].write = w}
    <2>1. /\ \A u \in Users : DOMAIN queue[u] = 1 .. Len(queue[u]) /\ Len(queue[u]) \in Nat
          /\ \A u \in Users : \A k \in DOMAIN queue[u] : queue[u][k].write \in Nat
        BY BatchRows DEF IInv, TypeOK
    <2>2. spent.writes \in Nat /\ spent.writes <= MaxWrites /\ MaxWrites \in Nat
        BY BoundsAssumption DEF IInv, TypeOK, Counters
    <2>3. \A u \in Users : \A k \in DOMAIN queue[u] : k \in 1 .. MaxWrites
        <3> TAKE u \in Users
        <3> TAKE k \in DOMAIN queue[u]
        <3>1. k <= queue[u][k].write /\ queue[u][k].write <= spent.writes
            BY DEF IInv, QueueInv, QueuesOrdered
        <3> QED BY <2>1, <2>2, <3>1
    <2>4. \A row \in R : row[1] \in Users /\ row[2] \in DOMAIN queue[row[1]]
                         /\ row = << row[1], row[2] >> /\ queue[row[1]][row[2]].write = w
        BY <2>1
    <2>5. Cardinality({}) = 0 /\ \A x : Cardinality({x}) = 1
        BY FS_EmptySet, FS_Singleton
    <2>6. CASE \E d \in DOMAIN decisions : decisions[d].write = w
        <3>1. PICK d \in DOMAIN decisions : decisions[d].write = w
            BY <2>6
        <3>2. D = {d}
            BY <3>1 DEF IInv, HistoryInv, DecidedOnce
        <3>3. R = {}
            <4>1. \A u \in Users : \A k \in DOMAIN queue[u] : queue[u][k].write # w
                BY <3>1 DEF IInv, HistoryInv, DecidedOnce
            <4> HIDE DEF R
            <4> QED BY <2>4, <4>1
        <3> HIDE DEF D, R
        <3>4. Cardinality(D) = 1 /\ Cardinality(R) = 0
            BY <2>5, <3>2, <3>3
        <3>5. Cardinality(D) + Cardinality(R) = 1
            BY <3>4
        <3> QED BY <3>5 DEF D, R
    <2>7. CASE \E u \in Users : \E k \in DOMAIN queue[u] : queue[u][k].write = w
        <3>1. PICK u \in Users : \E k \in DOMAIN queue[u] : queue[u][k].write = w
            BY <2>7
        <3>2. PICK k \in DOMAIN queue[u] : queue[u][k].write = w
            BY <3>1
        <3>3. D = {}
            BY <3>2 DEF IInv, HistoryInv, DecidedOnce
        <3>4. R = {<< u, k >>}
            <4>1. << u, k >> \in R
                BY <2>1, <2>3, <3>2
            <4>2. ASSUME NEW row \in R
                  PROVE  row = << u, k >>
                <5>1. row[1] = u /\ row[2] = k
                    BY <2>4, <3>2, OneRow
                <5> QED BY <2>4, <5>1
            <4> HIDE DEF R
            <4> QED BY <4>1, <4>2
        <3> HIDE DEF D, R
        <3>5. Cardinality(D) = 0 /\ Cardinality(R) = 1
            BY <2>5, <3>3, <3>4
        <3>6. Cardinality(D) + Cardinality(R) = 1
            BY <3>5
        <3> QED BY <3>6 DEF D, R
    <2> QED BY <2>6, <2>7 DEF IInv, HistoryInv, Accounted
<1> QED BY <1>1, Invariance, PTL
-----------------------------------------------------------------------------
(* The abstract queue.                                                      *)

\* The writes of a queue's rows.
WritesOf(s) == [k \in DOMAIN s |-> s[k].write]

LEMMA WritesOfRows ==
    ASSUME NEW s \in Seq(Batch)
    PROVE  /\ WritesOf(s) \in Seq(Nat) /\ Len(WritesOf(s)) = Len(s) /\ Len(s) \in Nat
           /\ DOMAIN WritesOf(s) = 1 .. Len(s) /\ DOMAIN s = 1 .. Len(s)
           /\ \A k \in 1 .. Len(s) : WritesOf(s)[k] = s[k].write
<1>1. /\ Len(s) \in Nat /\ DOMAIN s = 1 .. Len(s)
      /\ \A k \in 1 .. Len(s) : s[k].write \in Nat
    BY BatchRows
<1>2. WritesOf(s) = [k \in 1 .. Len(s) |-> s[k].write]
    BY <1>1 DEF WritesOf
<1> QED BY <1>1, <1>2

LEMMA WritesOfAppended ==
    ASSUME NEW s \in Seq(Batch), NEW b \in Batch
    PROVE  WritesOf(Append(s, b)) = Append(WritesOf(s), b.write)
<1>1. /\ Append(s, b) \in Seq(Batch) /\ Len(Append(s, b)) = Len(s) + 1
      /\ \A k \in 1 .. Len(s) : Append(s, b)[k] = s[k]
      /\ Append(s, b)[Len(s) + 1] = b /\ Len(s) \in Nat
      /\ b.write \in Nat
    BY DEF Batch
<1>2. /\ WritesOf(s) \in Seq(Nat) /\ Len(WritesOf(s)) = Len(s)
      /\ \A k \in 1 .. Len(s) : WritesOf(s)[k] = s[k].write
    BY WritesOfRows
<1>3. /\ WritesOf(Append(s, b)) \in Seq(Nat) /\ Len(WritesOf(Append(s, b))) = Len(s) + 1
      /\ \A k \in 1 .. (Len(s) + 1) : WritesOf(Append(s, b))[k] = Append(s, b)[k].write
    BY <1>1, WritesOfRows
<1>4. /\ Append(WritesOf(s), b.write) \in Seq(Nat)
      /\ Len(Append(WritesOf(s), b.write)) = Len(s) + 1
      /\ \A k \in 1 .. Len(s) : Append(WritesOf(s), b.write)[k] = WritesOf(s)[k]
      /\ Append(WritesOf(s), b.write)[Len(s) + 1] = b.write
    BY <1>1, <1>2
<1>5. ASSUME NEW k \in 1 .. (Len(s) + 1)
      PROVE  WritesOf(Append(s, b))[k] = Append(WritesOf(s), b.write)[k]
    <2>1. k \in 1 .. Len(s) \/ k = Len(s) + 1
        BY <1>1
    <2> QED BY <1>1, <1>2, <1>3, <1>4, <2>1
<1> QED BY <1>3, <1>4, <1>5, SeqEqual

LEMMA WritesOfTail ==
    ASSUME NEW s \in Seq(Batch), s # << >>
    PROVE  /\ WritesOf(Tail(s)) = Tail(WritesOf(s)) /\ WritesOf(s) # << >>
           /\ Head(WritesOf(s)) = s[1].write
<1>1. /\ Tail(s) \in Seq(Batch) /\ Len(s) \in Nat \ {0} /\ Len(Tail(s)) = Len(s) - 1
      /\ \A k \in 1 .. (Len(s) - 1) : Tail(s)[k] = s[k + 1]
    BY TailRows
<1>2. /\ WritesOf(s) \in Seq(Nat) /\ Len(WritesOf(s)) = Len(s)
      /\ \A k \in 1 .. Len(s) : WritesOf(s)[k] = s[k].write
    BY WritesOfRows
<1>3. WritesOf(s) # << >>
    BY <1>1, <1>2
<1>4. /\ Tail(WritesOf(s)) \in Seq(Nat) /\ Len(Tail(WritesOf(s))) = Len(s) - 1
      /\ \A k \in 1 .. (Len(s) - 1) : Tail(WritesOf(s))[k] = WritesOf(s)[k + 1]
      /\ Head(WritesOf(s)) = WritesOf(s)[1]
    <2> DEFINE t == WritesOf(s)
    <2>1. t \in Seq(Nat) /\ t # << >> /\ Len(t) = Len(s)
        BY <1>2, <1>3
    <2> HIDE DEF t
    <2>2. /\ Tail(t) \in Seq(Nat) /\ Len(Tail(t)) = Len(t) - 1
          /\ \A k \in 1 .. (Len(t) - 1) : Tail(t)[k] = t[k + 1]
          /\ Head(t) = t[1]
        BY <2>1
    <2> QED BY <2>1, <2>2 DEF t
<1>5. /\ WritesOf(Tail(s)) \in Seq(Nat) /\ Len(WritesOf(Tail(s))) = Len(s) - 1
      /\ \A k \in 1 .. (Len(s) - 1) : WritesOf(Tail(s))[k] = Tail(s)[k].write
    BY <1>1, WritesOfRows
<1>6. ASSUME NEW k \in 1 .. (Len(s) - 1)
      PROVE  WritesOf(Tail(s))[k] = Tail(WritesOf(s))[k]
    <2>1. k + 1 \in 1 .. Len(s)
        BY <1>1
    <2> QED BY <1>1, <1>2, <1>4, <1>5, <2>1
<1>7. WritesOf(Tail(s)) = Tail(WritesOf(s))
    BY <1>4, <1>5, <1>6, SeqEqual
<1>8. 1 \in 1 .. Len(s)
    BY <1>1
<1> QED BY <1>2, <1>3, <1>4, <1>7, <1>8

LEMMA PendingRows ==
    /\ Pending = [u \in Users |-> WritesOf(queue[u])]
    /\ Pending' = [u \in Users |-> WritesOf(queue'[u])]
    /\ \A u \in Users : Pending[u] = WritesOf(queue[u])
BY DEF Pending, WritesOf

\* Steps that leave queues, decisions and the server's writes alone.
LEMMA QueueStutter ==
    ASSUME UNCHANGED <<queue, decisions, applied>>
    PROVE  UNCHANGED Promise!vars
BY DEF Promise!vars, Pending, Acknowledged

LEMMA WriteEnqueues ==
    ASSUME IInv, Write
    PROVE  Promise!Enqueue(current_user, spent.writes + 1) /\ spent.writes + 1 \in Writes
<1> DEFINE w == spent.writes + 1
           u == current_user
           b == [id |-> next_batch_id, user |-> u, write |-> w]
<1>1. /\ spent.writes \in Nat /\ w \in Nat /\ w \in Writes /\ spent.writes < w
      /\ u \in Users /\ b \in Batch /\ b.write = w
      /\ queue \in [Users -> Seq(Batch)] /\ queue[u] \in Seq(Batch)
    <2>1. /\ spent \in Counters /\ spent.writes < MaxWrites /\ u \in Users
          /\ queue \in [Users -> Seq(Batch)] /\ next_batch_id \in Nat
        BY DEF IInv, TypeOK, Write
    <2>2. /\ spent.writes \in Nat /\ w \in Nat /\ w \in Writes /\ spent.writes < w
        BY <2>1, BoundsAssumption DEF Counters, Writes
    <2>3. b \in Batch /\ b.write = w
        BY <2>1, <2>2 DEF Batch
    <2> QED BY <2>1, <2>2, <2>3
<1>2. /\ queue' = [queue EXCEPT ![u] = Append(@, b)]
      /\ UNCHANGED <<applied, decisions>>
    BY DEF Write, AddMutationBatch, server, history
<1> HIDE DEF b, w
<1>3. Pending' = [Pending EXCEPT ![u] = Append(@, w)]
    <2>1. \A v \in Users :
            WritesOf(queue'[v]) = IF v = u THEN Append(WritesOf(queue[u]), w)
                                  ELSE WritesOf(queue[v])
        BY <1>1, <1>2, WritesOfAppended
    <2> QED BY <1>1, <2>1, PendingRows
<1>4. Acknowledged' = Acknowledged
    BY <1>2 DEF Acknowledged
<1>5. \A v \in Users : \A k \in DOMAIN Pending[v] : Pending[v][k] # w
    <2> TAKE v \in Users
    <2> TAKE k \in DOMAIN Pending[v]
    <2>1. /\ queue[v] \in Seq(Batch) /\ Pending[v] = WritesOf(queue[v])
        BY <1>1, PendingRows
    <2>2. k \in DOMAIN queue[v] /\ Pending[v][k] = queue[v][k].write
        BY <2>1, WritesOfRows
    <2>3. queue[v][k].write <= spent.writes /\ queue[v][k].write \in Nat
        BY <2>1, <2>2, BatchRows DEF IInv, QueueInv, QueuesOrdered
    <2> QED BY <1>1, <2>2, <2>3
<1>6. w \notin applied \cup Acknowledged
    <2>1. w \notin applied
        BY <1>1 DEF IInv, ServerKnows
    <2>2. \A d \in DOMAIN decisions : decisions[d].write <= spent.writes
        BY DEF IInv, HistoryInv, DecidedOnce
    <2>3. \A d \in DOMAIN decisions : decisions[d].write # w
        BY <1>1, <2>2
    <2> QED BY <2>1, <2>3 DEF Acknowledged
<1> QED BY <1>1, <1>2, <1>3, <1>4, <1>5, <1>6 DEF Promise!Enqueue, w

LEMMA ServerAppliesNext ==
    ASSUME IInv, ServerApplies
    PROVE  \E k \in DOMAIN Pending[current_user] : Promise!Apply(current_user, k)
<1> DEFINE u == current_user
           q == queue[u]
           k == Len(net.received) + 1
<1>1. /\ k \in 1 .. Len(q) /\ Head(net.sent) = q[k]
      /\ \A j \in 1 .. (k - 1) : net.received[j] = q[j]
    BY NextRequest DEF ServerApplies
<1>2. /\ u \in Users /\ q \in Seq(Batch) /\ net.received \in Seq(Batch)
    BY DEF IInv, TypeOK, NetState
<1>3. /\ Len(net.received) \in Nat /\ DOMAIN net.received = 1 .. (k - 1) /\ (k - 1) <= Len(q)
    BY <1>1, <1>2, BatchRows
<1> HIDE DEF k
<1>4. /\ Pending[u] = WritesOf(q) /\ DOMAIN WritesOf(q) = 1 .. Len(q) /\ Len(q) \in Nat
      /\ \A j \in 1 .. Len(q) : WritesOf(q)[j] = q[j].write
    BY <1>2, PendingRows, WritesOfRows
<1>5. k \in DOMAIN Pending[u] /\ Pending[u][k] = Head(net.sent).write
    BY <1>1, <1>4
<1>6. \A j \in 1 .. (k - 1) : Pending[u][j] \in applied
    <2> TAKE j \in 1 .. (k - 1)
    <2>1. j \in 1 .. Len(q)
        BY <1>1, <1>4
    <2>2. net.received[j].write \in applied
        BY <1>3 DEF IInv, ServerKnows
    <2> QED BY <1>1, <1>4, <2>1, <2>2
<1>7. applied' = applied \cup {Pending[u][k]}
    BY <1>5 DEF ServerApplies
<1>8. Pending' = Pending /\ Acknowledged' = Acknowledged
    BY DEF ServerApplies, client, history, Pending, Acknowledged
<1> QED BY <1>5, <1>6, <1>7, <1>8 DEF Promise!Apply

\* A decision takes the oldest write off the abstract queue, and counts it as
\* acknowledged if it is.
LEMMA DecisionTakesOldest ==
    ASSUME IInv, NEW ok \in BOOLEAN, queue[current_user] # << >>,
           Removed(queue[current_user][1], ok),
           queue' = [queue EXCEPT ![current_user] = Tail(@)]
    PROVE  /\ Pending[current_user] # << >>
           /\ Head(Pending[current_user]) = queue[current_user][1].write
           /\ Pending' = [Pending EXCEPT ![current_user] = Tail(@)]
           /\ Acknowledged' = IF ok THEN Acknowledged \cup {Head(Pending[current_user])}
                              ELSE Acknowledged
<1> DEFINE u == current_user
           b == queue[u][1]
           o == [user |-> b.user, write |-> b.write, ok |-> ok]
<1>1. /\ u \in Users /\ queue \in [Users -> Seq(Batch)] /\ queue[u] \in Seq(Batch)
      /\ decisions \in Seq(Outcome)
    BY DEF IInv, TypeOK
<1>2. /\ Pending[u] = WritesOf(queue[u])
      /\ WritesOf(Tail(queue[u])) = Tail(WritesOf(queue[u]))
      /\ Pending[u] # << >> /\ Head(Pending[u]) = b.write
    BY <1>1, WritesOfTail, PendingRows
<1>3. Pending' = [Pending EXCEPT ![u] = Tail(@)]
    <2>1. \A v \in Users :
            WritesOf(queue'[v]) = IF v = u THEN Tail(WritesOf(queue[u]))
                                  ELSE WritesOf(queue[v])
        BY <1>1, <1>2
    <2> QED BY <1>1, <2>1, PendingRows
<1>4. decisions' = Append(decisions, o) /\ o.ok = ok /\ o.write = b.write
    BY DEF Removed
<1> HIDE DEF o
<1>5. /\ Len(decisions) \in Nat /\ DOMAIN decisions = 1 .. Len(decisions)
      /\ DOMAIN decisions' = 1 .. (Len(decisions) + 1)
      /\ decisions'[Len(decisions) + 1] = o
      /\ \A d \in DOMAIN decisions : d \in DOMAIN decisions' /\ decisions'[d] = decisions[d]
      /\ \A d \in DOMAIN decisions' : d \in DOMAIN decisions \/ d = Len(decisions) + 1
    BY <1>1, <1>4
<1>6. Len(decisions) + 1 \in DOMAIN decisions'
    BY <1>5
<1>7. \A x : x \in Acknowledged' <=>
                \/ \E d \in DOMAIN decisions : decisions[d].ok /\ decisions[d].write = x
                \/ o.ok /\ o.write = x
    <2>1. \A x : x \in Acknowledged' <=>
                    \E d \in DOMAIN decisions' : decisions'[d].ok /\ decisions'[d].write = x
        BY DEF Acknowledged
    <2> QED BY <1>5, <1>6, <2>1
<1>8. \A x : x \in Acknowledged <=>
                \E d \in DOMAIN decisions : decisions[d].ok /\ decisions[d].write = x
    BY DEF Acknowledged
<1>9. \A x : x \in Acknowledged' <=> x \in Acknowledged \/ (ok /\ x = b.write)
    BY <1>4, <1>7, <1>8
<1>10. CASE ok
    <2>1. Acknowledged' = Acknowledged \cup {b.write}
        BY <1>9, <1>10
    <2> QED BY <1>2, <1>3, <1>10, <2>1
<1>11. CASE ~ok
    <2>1. Acknowledged' = Acknowledged
        BY <1>9, <1>11
    <2> QED BY <1>2, <1>3, <1>11, <2>1
<1> QED BY <1>10, <1>11

LEMMA ResultAcknowledges ==
    ASSUME IInv, OnWriteStreamMutationResult
    PROVE  Promise!Acknowledge(current_user)
<1> DEFINE u == current_user
<1>1. /\ queue[u] # << >> /\ Head(net.pipeline) = queue[u][1]
      /\ queue[u][1].write \in applied
    BY FrontAnswered DEF OnWriteStreamMutationResult
<1>2. Removed(queue[u][1], TRUE) /\ UNCHANGED applied
    BY <1>1 DEF OnWriteStreamMutationResult, Decided, server
<1>3. queue' = [queue EXCEPT ![u] = Tail(@)]
    BY <1>1, <1>2, FirstRowRemoved DEF IInv, QueueInv, Removed
<1>4. /\ Pending[u] # << >> /\ Head(Pending[u]) = queue[u][1].write
      /\ Pending' = [Pending EXCEPT ![u] = Tail(@)]
      /\ Acknowledged' = Acknowledged \cup {Head(Pending[u])}
    BY <1>1, <1>2, <1>3, DecisionTakesOldest
<1> QED BY <1>1, <1>2, <1>4 DEF Promise!Acknowledge

\* Also when the process ends before the block has run.
LEMMA RemovalRefuses ==
    ASSUME IInv, Removed(Head(net.pipeline), FALSE), net.pipeline # << >>, UNCHANGED applied
    PROVE  Promise!Refuse(current_user)
<1> DEFINE u == current_user
<1>1. /\ queue[u] \in Seq(Batch) /\ net.pipeline \in Seq(Batch)
      /\ FullPipeline(queue[u], net.pipeline)
    BY DEF IInv, TypeOK, NetState, Serves
<1>2. queue[u] # << >> /\ Head(net.pipeline) = queue[u][1]
    BY <1>1, PipelineFront
<1>3. queue' = [queue EXCEPT ![u] = Tail(@)]
    BY <1>2, FirstRowRemoved DEF IInv, QueueInv, Removed
<1>4. /\ Pending[u] # << >>
      /\ Pending' = [Pending EXCEPT ![u] = Tail(@)]
      /\ Acknowledged' = Acknowledged
    BY <1>2, <1>3, DecisionTakesOldest
<1> QED BY <1>4 DEF Promise!Refuse

LEMMA QueueInit ==
    ASSUME Init
    PROVE  Promise!Init
<1>1. WritesOf(<< >>) = << >>
    BY DEF WritesOf
<1>2. Pending = [u \in Users |-> << >>]
    BY <1>1, PendingRows DEF Init
<1>3. Acknowledged = {}
    BY DEF Init, Acknowledged
<1> QED BY <1>2, <1>3 DEF Init, Promise!Init

LEMMA QueueStep ==
    ASSUME IInv, [Next]_vars
    PROVE  [Promise!Next]_(Promise!vars)
<1> DEFINE Goal == Promise!Next \/ UNCHANGED Promise!vars
<1>1. current_user \in Users
    BY DEF IInv, TypeOK
<1>2. ASSUME Write
      PROVE  Goal
    BY <1>1, <1>2, WriteEnqueues DEF Promise!Next
<1>3. ASSUME OnWriteStreamMutationResult
      PROVE  Goal
    BY <1>1, <1>3, ResultAcknowledges DEF Promise!Next
<1>4. ASSUME OnStreamFinish
      PROVE  Goal
    <2>1. CASE HandleWriteError /\ net.pipeline # << >>
        <3>1. Promise!Refuse(current_user)
            BY <1>4, <2>1, RemovalRefuses
               DEF OnStreamFinish, HandleWriteError, Decided, server
        <3> QED BY <1>1, <3>1 DEF Promise!Next
    <2>2. CASE RetryAfterError
        BY <1>4, <2>2, QueueStutter DEF OnStreamFinish, RetryAfterError, client, history, server
    <2> QED BY <1>4, <2>1, <2>2 DEF OnStreamFinish, OnWriteStreamClose, Rejects
<1>5. ASSUME ServerApplies
      PROVE  Goal
    BY <1>1, <1>5, ServerAppliesNext DEF Promise!Next
<1>7. ASSUME EndsRejecting
      PROVE  Goal
    <2>1. Promise!Refuse(current_user)
        BY <1>7, RemovalRefuses DEF EndsRejecting, Rejects, Reborn, server
    <2> QED BY <1>1, <2>1 DEF Promise!Next
<1>6. ASSUME \/ TokenReady \/ TokenFailed \/ OnWriteStreamHandshakeComplete
             \/ PendingWriteFails \/ ConnectivityChanged \/ BackoffElapsed \/ IdleTimeout
             \/ \E u \in Users : HandleCredentialChange(u)
             \/ Restart \/ EndsAcknowledging \/ ServerGreets \/ ServerRefuses \/ CallBreaks
             \/ UNCHANGED vars
      PROVE  Goal
    <2>1. UNCHANGED <<queue, decisions, applied>>
        BY <1>6 DEF TokenReady, TokenFailed, OnWriteStreamHandshakeComplete,
            PendingWriteFails, ConnectivityChanged, BackoffElapsed, IdleTimeout,
            HandleCredentialChange, Restart, EndsAcknowledging, Reborn, ServerGreets,
            ServerRefuses, CallBreaks, OnWriteStreamClose, RetryAfterError, Rejects, client, server, history, vars
    <2> QED BY <2>1, QueueStutter
<1> QED BY <1>2, <1>3, <1>4, <1>5, <1>6, <1>7 DEF Next

\* The write path implements WriteQueue, on which the models of the app's own
\* transactions rely: one queue per account, taken from the front, applied in its
\* order, acknowledged after it took effect.
THEOREM ImplementsWriteQueue == Spec => QueueSpec
<1>1. Init => Promise!Init
    BY QueueInit
<1>2. IInv /\ [Next]_vars => [Promise!Next]_(Promise!vars)
    BY QueueStep
<1> QED BY <1>1, <1>2, Invariance, PTL DEF Spec, QueueSpec, Promise!Spec
=============================================================================
