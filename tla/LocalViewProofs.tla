--------------------------- MODULE LocalViewProofs ---------------------------
(***************************************************************************)
(* Proofs about LocalView, for any users, values and mutations and for any  *)
(* number of writes, changes, listeners and faults.                         *)
(***************************************************************************)
EXTENDS LocalView, SetInduction, TLAPS

-----------------------------------------------------------------------------
(* Documents and mutations.                                                 *)

\* A document has contents exactly when it is known to exist; nothing is known
\* of a document that is not cached.
WellFormed ==
    {m \in MaybeDocument :
        /\ m.type = "Document" <=> m.data # Absent
        /\ m.type = "nullopt" => m = Nullopt}

LEMMA NulloptWellFormed == Nullopt \in WellFormed
BY DEF WellFormed, MaybeDocument, Nullopt, Contents, DocumentState

LEMMA NewDataType ==
    ASSUME NEW w \in Mutations, NEW d \in Contents
    PROVE  NewData(w, d) \in Data
<1>1. w \in Mutation
    BY ViewAssumption
<1> DEFINE base == IF d = Absent THEN [val |-> w.val, members |-> {}] ELSE d
<1>2. base \in Data
    BY <1>1 DEF Contents, Data, Mutation
<1>3. [val |-> w.val, members |-> w.members] \in Data
    BY <1>1 DEF Data, Mutation
<1>4. [base EXCEPT !.members = @ \cup w.members] \in Data
    BY <1>1, <1>2 DEF Data, Mutation
<1>5. [base EXCEPT !.members = @ \ w.members] \in Data
    BY <1>1, <1>2 DEF Data, Mutation
<1>6. [base EXCEPT !.val = w.val] \in Data
    BY <1>1, <1>2 DEF Data, Mutation
<1> HIDE DEF base
<1>7. NewData(w, d) \in {[val |-> w.val, members |-> w.members],
                         [base EXCEPT !.members = @ \cup w.members],
                         [base EXCEPT !.members = @ \ w.members],
                         [base EXCEPT !.val = w.val]}
    BY DEF NewData, base
<1> QED BY <1>3, <1>4, <1>5, <1>6, <1>7

LEMMA DocumentWellFormed ==
    ASSUME NEW d \in Data, NEW v \in Nat, NEW s \in DocumentState
    PROVE  Document(d, v, s) \in WellFormed
BY ViewAssumption DEF Document, WellFormed, MaybeDocument, Contents, DocumentState

LEMMA NoDocumentWellFormed ==
    ASSUME NEW v \in Nat, NEW s \in DocumentState
    PROVE  /\ NoDocument(v, s) \in WellFormed
           /\ UnknownDocument(v) \in WellFormed
BY DEF NoDocument, UnknownDocument, WellFormed, MaybeDocument, Contents, DocumentState

LEMMA LocalWellFormed ==
    ASSUME NEW w \in Mutations, NEW m \in WellFormed
    PROVE  ApplyToLocalDocument(w, m) \in WellFormed
<1>1. m.data \in Contents /\ m.version \in Nat
    BY DEF WellFormed, MaybeDocument
<1>2. NewData(w, m.data) \in Data
    BY <1>1, NewDataType
<1>3. GetPostMutationVersion(m) \in Nat
    BY <1>1 DEF GetPostMutationVersion
<1>4. Document(NewData(w, m.data), GetPostMutationVersion(m), "kLocalMutations")
        \in WellFormed
    BY <1>2, <1>3, DocumentWellFormed DEF DocumentState
<1>5. NoDocument(0, "kSynced") \in WellFormed
    BY NoDocumentWellFormed DEF DocumentState
<1> QED BY <1>4, <1>5 DEF ApplyToLocalDocument

LEMMA RemoteWellFormed ==
    ASSUME NEW w \in Mutations, NEW m \in WellFormed, NEW v \in Nat
    PROVE  /\ ApplyToRemoteDocument(w, m, v) \in WellFormed
           /\ ApplyToRemoteDocument(w, m, v).version = v
           /\ ApplyToRemoteDocument(w, m, v).state = "kCommittedMutations"
           /\ ApplyToRemoteDocument(w, m, v).type # "nullopt"
<1>1. m.data \in Contents
    BY DEF WellFormed, MaybeDocument
<1>2. NewData(w, m.data) \in Data
    BY <1>1, NewDataType
<1> DEFINE s == "kCommittedMutations"
<1>3. /\ Document(NewData(w, m.data), v, s) \in WellFormed
      /\ NoDocument(v, s) \in WellFormed
      /\ UnknownDocument(v) \in WellFormed
    BY <1>2, DocumentWellFormed, NoDocumentWellFormed DEF DocumentState
<1> QED BY <1>3 DEF ApplyToRemoteDocument, Document, NoDocument, UnknownDocument

-----------------------------------------------------------------------------
(* Writes laid over a copy.                                                 *)

\* The documents after each of the writes (GetDocument's recursive function).
Overlaid(m, q) ==
    CHOOSE after :
        after = [i \in 0 .. Len(q) |->
                    IF i = 0 THEN m ELSE ApplyToLocalDocument(q[i], after[i - 1])]

LEMMA GetDocumentIsLast ==
    ASSUME NEW m, NEW q
    PROVE  GetDocument(m, q) = Overlaid(m, q)[Len(q)]
BY Zenon DEF GetDocument, Overlaid

\* The recursive definition defines a function.
LEMMA OverlaidStep ==
    ASSUME NEW m, NEW q \in Seq(Mutations)
    PROVE  /\ Overlaid(m, q)[0] = m
           /\ \A i \in 1 .. Len(q) :
                Overlaid(m, q)[i] = ApplyToLocalDocument(q[i], Overlaid(m, q)[i - 1])
<1> DEFINE D(f, n) == [i \in 0 .. n |->
                        IF i = 0 THEN m ELSE ApplyToLocalDocument(q[i], f[i - 1])]
           S == {n \in Nat : \E f : f = D(f, n)}
<1>1. 0 \in S
    <2> DEFINE g == [i \in 0 .. 0 |-> m]
    <2>1. g = D(g, 0)
        OBVIOUS
    <2> QED BY <2>1
<1>2. \A n \in Nat : n \in S => n + 1 \in S
    <2> SUFFICES ASSUME NEW n \in Nat, NEW f, f = D(f, n)
                 PROVE  n + 1 \in S
        OBVIOUS
    <2> DEFINE g == [i \in 0 .. (n + 1) |->
                        IF i = n + 1 THEN ApplyToLocalDocument(q[i], f[n]) ELSE f[i]]
    <2>1. \A i \in 0 .. n : g[i] = f[i]
        OBVIOUS
    <2>2. \A i \in 0 .. (n + 1) :
            g[i] = IF i = 0 THEN m ELSE ApplyToLocalDocument(q[i], g[i - 1])
        <3> SUFFICES ASSUME NEW i \in 0 .. (n + 1)
                     PROVE  g[i] = IF i = 0 THEN m
                                   ELSE ApplyToLocalDocument(q[i], g[i - 1])
            OBVIOUS
        <3>1. CASE i = n + 1
            <4>1. g[i - 1] = f[n]
                BY <2>1, <3>1
            <4>2. g[i] = ApplyToLocalDocument(q[i], f[n])
                BY <3>1
            <4> HIDE DEF g
            <4> QED BY <3>1, <4>1, <4>2
        <3>2. CASE i \in 0 .. n
            <4>1. g[i] = f[i]
                BY <2>1, <3>2
            <4>2. f[i] = IF i = 0 THEN m ELSE ApplyToLocalDocument(q[i], f[i - 1])
                BY <3>2
            <4>3. i # 0 => g[i - 1] = f[i - 1]
                BY <2>1, <3>2
            <4> HIDE DEF g
            <4> QED BY <4>1, <4>2, <4>3
        <3> QED BY <3>1, <3>2
    <2>3. g = D(g, n + 1)
        <3>1. g = [i \in 0 .. (n + 1) |-> g[i]]
            OBVIOUS
        <3> HIDE DEF g
        <3> QED BY <2>2, <3>1
    <2> HIDE DEF g
    <2> QED BY <2>3
<1>3. Len(q) \in S
    <2> HIDE DEF S
    <2> QED BY <1>1, <1>2, NatSetInduction
<1>4. \E f : f = D(f, Len(q))
    BY <1>3
<1>5. Overlaid(m, q) = D(Overlaid(m, q), Len(q))
    BY <1>4 DEF Overlaid
<1>6. \A i \in 0 .. Len(q) : Overlaid(m, q)[i] = D(Overlaid(m, q), Len(q))[i]
    BY <1>5
<1> QED BY <1>6

\* With nothing queued, the copy itself.
LEMMA GetDocumentEmpty ==
    ASSUME NEW m
    PROVE  GetDocument(m, << >>) = m
<1>1. << >> \in Seq(Mutations) /\ Len(<< >>) = 0
    OBVIOUS
<1> QED BY <1>1, GetDocumentIsLast, OverlaidStep

LEMMA OverlaidWellFormed ==
    ASSUME NEW m \in WellFormed, NEW q \in Seq(Mutations)
    PROVE  \A i \in 0 .. Len(q) : Overlaid(m, q)[i] \in WellFormed
<1> DEFINE S == {i \in Nat : i <= Len(q) => Overlaid(m, q)[i] \in WellFormed}
<1>1. 0 \in S
    BY OverlaidStep
<1>2. \A i \in Nat : i \in S => i + 1 \in S
    <2> SUFFICES ASSUME NEW i \in Nat, i \in S, i + 1 <= Len(q)
                 PROVE  Overlaid(m, q)[i + 1] \in WellFormed
        OBVIOUS
    <2>1. Overlaid(m, q)[i] \in WellFormed
        OBVIOUS
    <2>2. i + 1 \in 1 .. Len(q) /\ q[i + 1] \in Mutations /\ (i + 1) - 1 = i
        OBVIOUS
    <2>3. Overlaid(m, q)[i + 1] = ApplyToLocalDocument(q[i + 1], Overlaid(m, q)[i])
        BY <2>2, OverlaidStep
    <2> QED BY <2>1, <2>2, <2>3, LocalWellFormed
<1>3. Nat \subseteq S
    <2> HIDE DEF S
    <2> QED BY <1>1, <1>2, NatSetInduction
<1> QED BY <1>3

LEMMA GetDocumentWellFormed ==
    ASSUME NEW m \in WellFormed, NEW q \in Seq(Mutations)
    PROVE  GetDocument(m, q) \in WellFormed
<1>1. Len(q) \in 0 .. Len(q)
    OBVIOUS
<1> QED BY <1>1, GetDocumentIsLast, OverlaidWellFormed

\* While writes are queued, a document that exists is marked as having them.
LEMMA QueuedIsLocal ==
    ASSUME NEW m \in WellFormed, NEW q \in Seq(Mutations), q # << >>,
           GetDocument(m, q).type = "Document"
    PROVE  GetDocument(m, q).state = "kLocalMutations"
<1>1. Len(q) \in 1 .. Len(q) /\ Len(q) - 1 \in 0 .. Len(q)
    OBVIOUS
<1> DEFINE before == Overlaid(m, q)[Len(q) - 1]
<1>2. GetDocument(m, q) = ApplyToLocalDocument(q[Len(q)], before)
    BY <1>1, GetDocumentIsLast, OverlaidStep
<1> HIDE DEF before
<1> QED BY <1>2 DEF ApplyToLocalDocument, IsValidFor, NoDocument, Document

\* Two documents that agree on whether they exist and on their contents.
Alike(m, n) == m.data = n.data /\ (m.type = "Document" <=> n.type = "Document")

LEMMA AlikeStep ==
    ASSUME NEW w, NEW m, NEW n, Alike(m, n)
    PROVE  Alike(ApplyToLocalDocument(w, m), ApplyToLocalDocument(w, n))
BY DEF Alike, ApplyToLocalDocument, IsValidFor, NoDocument, Document

\* A queued write and the same write once the server took it have the same
\* effect on the contents.
LEMMA AnswerAlike ==
    ASSUME NEW w \in Mutations, NEW m \in WellFormed, NEW v
    PROVE  Alike(ApplyToLocalDocument(w, m), ApplyToRemoteDocument(w, m, v))
BY DEF Alike, WellFormed, ApplyToLocalDocument, ApplyToRemoteDocument, IsValidFor,
    NoDocument, Document, UnknownDocument

LEMMA AnswerChangesNothing ==
    ASSUME NEW m \in WellFormed, NEW q \in Seq(Mutations), q # << >>, NEW v \in Nat
    PROVE  Alike(GetDocument(m, q),
                 GetDocument(ApplyToRemoteDocument(q[1], m, v), Tail(q)))
<1> DEFINE n == ApplyToRemoteDocument(q[1], m, v)
           r == Tail(q)
           S == {i \in Nat : i <= Len(r) => Alike(Overlaid(m, q)[i + 1], Overlaid(n, r)[i])}
<1>1. /\ r \in Seq(Mutations) /\ Len(r) = Len(q) - 1 /\ Len(q) \in Nat /\ Len(q) >= 1
      /\ q[1] \in Mutations
      /\ \A i \in 1 .. Len(r) : r[i] = q[i + 1]
    OBVIOUS
<1> HIDE DEF r
<1>2. 0 \in S
    <2>1. Overlaid(n, r)[0] = n /\ Overlaid(m, q)[0] = m
        BY <1>1, OverlaidStep
    <2>2. 1 \in 1 .. Len(q) /\ 1 - 1 = 0 /\ 0 + 1 = 1
        BY <1>1
    <2>3. Overlaid(m, q)[1] = ApplyToLocalDocument(q[1], m)
        BY <2>1, <2>2, OverlaidStep
    <2> QED BY <1>1, <2>1, <2>2, <2>3, AnswerAlike
<1>3. \A i \in Nat : i \in S => i + 1 \in S
    <2> SUFFICES ASSUME NEW i \in Nat, i \in S, i + 1 <= Len(r)
                 PROVE  Alike(Overlaid(m, q)[(i + 1) + 1], Overlaid(n, r)[i + 1])
        OBVIOUS
    <2>1. Alike(Overlaid(m, q)[i + 1], Overlaid(n, r)[i])
        OBVIOUS
    <2>2. /\ i + 1 \in 1 .. Len(r) /\ (i + 1) - 1 = i
          /\ (i + 1) + 1 \in 1 .. Len(q) /\ ((i + 1) + 1) - 1 = i + 1
        BY <1>1
    <2>3. Overlaid(n, r)[i + 1] = ApplyToLocalDocument(r[i + 1], Overlaid(n, r)[i])
        BY <1>1, <2>2, OverlaidStep
    <2>4. Overlaid(m, q)[(i + 1) + 1]
            = ApplyToLocalDocument(q[(i + 1) + 1], Overlaid(m, q)[i + 1])
        BY <1>1, <2>2, OverlaidStep
    <2>5. r[i + 1] = q[(i + 1) + 1]
        BY <1>1, <2>2
    <2> QED BY <2>1, <2>3, <2>4, <2>5, AlikeStep
<1>4. Nat \subseteq S
    <2> HIDE DEF S
    <2> QED BY <1>2, <1>3, NatSetInduction
<1>5. Alike(Overlaid(m, q)[Len(q)], Overlaid(n, r)[Len(r)])
    <2>1. Len(r) \in Nat /\ Len(r) + 1 = Len(q)
        BY <1>1
    <2> QED BY <1>4, <2>1
<1> QED BY <1>5, GetDocumentIsLast DEF r

-----------------------------------------------------------------------------
(* The inductive invariant.                                                 *)

\* What the listener has is the copy with the queued writes, or it waits for
\* the watch stream to confirm an answered write; then nothing is queued.
HasOverlayOrWaits ==
    \/ view.doc.data = GetDocument(cache, queue[user]).data
    \/ /\ queue[user] = << >>
       /\ view.doc.state = "kLocalMutations"
       /\ cache.state = "kCommittedMutations"
       /\ token < cache.version

\* The document of a View exists, or the View has none.
InView(doc) == doc \in WellFormed /\ doc.type \in {"Document", "nullopt"}

\* The app was shown what the View has; while it was shown nothing, there is
\* nothing to show and the client may still hear from the server.
ShownIsCurrent(w, on) ==
    IF w.raised THEN w.shown = w.doc.data ELSE w.doc.type = "nullopt" /\ on

\* An answer that was not read is about a version that the server has.
AnswersAreHistory == \A i \in 1 .. Len(answers) : answers[i] <= Len(server)

IInv ==
    /\ TypeOK
    /\ cache \in WellFormed
    /\ AnswersAreHistory
    /\ CopyIsHistoryOrGuess
    /\ InView(view.doc)
    /\ view.listening => HasOverlayOrWaits /\ ShownIsCurrent(view, online)

-----------------------------------------------------------------------------
(* The view and its listener.                                               *)

LEMMA ChangesType ==
    ASSUME NEW w \in ViewState, InView(w.doc), NEW m \in WellFormed
    PROVE  LET n == ComputeDocumentChanges(w, m)
           IN  /\ n \in ViewState /\ InView(n.doc)
               /\ n.listening = w.listening /\ n.raised = w.raised
<1> DEFINE new == IF m.type = "Document" THEN m ELSE Nullopt
<1>1. new \in WellFormed /\ InView(new)
    BY NulloptWellFormed DEF InView, Nullopt
<1>2. new \in MaybeDocument /\ new.data \in Contents
    BY <1>1 DEF WellFormed, MaybeDocument
<1> HIDE DEF new
<1>3. PICK b \in BOOLEAN, s \in Contents :
        ComputeDocumentChanges(w, m) \in {w, [w EXCEPT !.doc = new, !.mutated = b, !.shown = s]}
    <2> DEFINE content == /\ new.data # w.doc.data
                          /\ ~(/\ w.doc.type = "Document" /\ new.type = "Document"
                               /\ ShouldWaitForSyncedDocument(new, w.doc))
               b == new.state = "kLocalMutations"
               s == IF content /\ w.raised THEN new.data ELSE w.shown
    <2>1. b \in BOOLEAN /\ s \in Contents
        BY <1>2 DEF ViewState
    <2>2. ComputeDocumentChanges(w, m) \in
            {w, [w EXCEPT !.doc = new, !.mutated = b, !.shown = s]}
        BY DEF ComputeDocumentChanges, new
    <2> HIDE DEF b, s
    <2> QED BY <2>1, <2>2
<1> QED BY <1>1, <1>2, <1>3 DEF ViewState

\* The View takes the new document, or keeps its own to wait for the watch
\* stream; the app is shown what the View takes.
LEMMA ChangesTakenOrKept ==
    ASSUME NEW w \in ViewState, InView(w.doc), NEW m \in WellFormed
    PROVE  LET n == ComputeDocumentChanges(w, m)
           IN  /\ \/ n.doc.data = m.data
                  \/ /\ n = w /\ w.doc.state = "kLocalMutations"
                     /\ m.type = "Document" /\ m.state = "kCommittedMutations"
               /\ w.raised /\ w.shown = w.doc.data => n.shown = n.doc.data
<1> DEFINE new == IF m.type = "Document" THEN m ELSE Nullopt
           content == /\ new.data # w.doc.data
                      /\ ~(/\ w.doc.type = "Document" /\ new.type = "Document"
                           /\ ShouldWaitForSyncedDocument(new, w.doc))
<1>1. new.data = m.data
    BY DEF WellFormed, Nullopt
<1>2. ComputeDocumentChanges(w, m) =
        IF content \/ (/\ w.doc.type = "Document" /\ new.type = "Document"
                       /\ new.data = w.doc.data
                       /\ w.mutated # (new.state = "kLocalMutations"
                            \/ (w.mutated /\ new.state = "kCommittedMutations")))
        THEN [w EXCEPT !.doc = new, !.mutated = (new.state = "kLocalMutations"),
                       !.shown = IF content /\ w.raised THEN new.data ELSE @]
        ELSE w
    BY DEF ComputeDocumentChanges
<1>3. CASE content
    <2>1. ComputeDocumentChanges(w, m) =
            [w EXCEPT !.doc = new, !.mutated = (new.state = "kLocalMutations"),
                      !.shown = IF w.raised THEN new.data ELSE @]
        BY <1>2, <1>3
    <2> HIDE DEF new, content
    <2> QED BY <1>1, <2>1 DEF ViewState
<1>4. CASE ~content /\ new.data = w.doc.data
    <2>1. ComputeDocumentChanges(w, m) \in
            {w, [w EXCEPT !.doc = new, !.mutated = (new.state = "kLocalMutations"),
                          !.shown = w.shown]}
        BY <1>2, <1>4
    <2> HIDE DEF new, content
    <2> QED BY <1>1, <1>4, <2>1 DEF ViewState
<1>5. CASE ~content /\ new.data # w.doc.data
    <2>1. ComputeDocumentChanges(w, m) = w
        BY <1>2, <1>5
    <2>2. new.type = "Document" /\ ShouldWaitForSyncedDocument(new, w.doc)
        BY <1>5
    <2>3. m.type = "Document" /\ new = m
        BY <2>2 DEF Nullopt
    <2> QED BY <2>1, <2>2, <2>3 DEF ShouldWaitForSyncedDocument
<1> QED BY <1>3, <1>4, <1>5

\* Contents that the View has already are no event for the app.
LEMMA SameContentsNotShown ==
    ASSUME NEW w \in ViewState, InView(w.doc), NEW m \in WellFormed,
           m.data = w.doc.data
    PROVE  LET n == ComputeDocumentChanges(w, m)
           IN  n.shown = w.shown /\ (n.doc.type = "Document" => w.doc.type = "Document")
<1> DEFINE new == IF m.type = "Document" THEN m ELSE Nullopt
<1>1. new.data = w.doc.data
    BY DEF WellFormed, Nullopt
<1>2. \/ ComputeDocumentChanges(w, m) = w
      \/ /\ w.doc.type = "Document"
         /\ ComputeDocumentChanges(w, m) =
              [w EXCEPT !.doc = new, !.mutated = (new.state = "kLocalMutations"),
                        !.shown = w.shown]
    BY <1>1 DEF ComputeDocumentChanges
<1> HIDE DEF new
<1> QED BY <1>2 DEF ViewState

LEMMA RaiseType ==
    ASSUME NEW w \in ViewState, NEW synced \in BOOLEAN, NEW on \in BOOLEAN
    PROVE  LET n == RaiseInitialEvent(w, synced, on)
           IN  n \in ViewState /\ n.doc = w.doc /\ n.listening = w.listening
<1>1. w.doc.data \in Contents
    BY DEF ViewState, MaybeDocument
<1> QED BY <1>1 DEF RaiseInitialEvent, ViewState

LEMMA RaiseShows ==
    ASSUME NEW w \in ViewState, NEW synced \in BOOLEAN, NEW on \in BOOLEAN,
           w.doc.type \in {"Document", "nullopt"}, w.listening,
           w.raised => w.shown = w.doc.data
    PROVE  ShownIsCurrent(RaiseInitialEvent(w, synced, on), on)
BY DEF RaiseInitialEvent, ShouldRaiseInitialEvent, ShownIsCurrent, ViewState

LEMMA RaiseSynced ==
    ASSUME NEW w \in ViewState, NEW on \in BOOLEAN, w.listening
    PROVE  RaiseInitialEvent(w, TRUE, on).raised
BY DEF RaiseInitialEvent, ShouldRaiseInitialEvent, ViewState

\* The View after a change of the document, and the event for its listener.
LEMMA UpdateView ==
    ASSUME NEW w \in ViewState, InView(w.doc), w.listening,
           w.raised => w.shown = w.doc.data,
           NEW m \in WellFormed, NEW synced \in BOOLEAN, NEW on \in BOOLEAN
    PROVE  LET n == RaiseInitialEvent(ComputeDocumentChanges(w, m), synced, on)
           IN  /\ n \in ViewState /\ InView(n.doc) /\ n.listening
               /\ ShownIsCurrent(n, on)
               /\ \/ n.doc.data = m.data
                  \/ /\ n.doc.state = "kLocalMutations"
                     /\ m.type = "Document" /\ m.state = "kCommittedMutations"
<1> DEFINE c == ComputeDocumentChanges(w, m)
<1>1. c \in ViewState /\ InView(c.doc) /\ c.listening /\ c.raised = w.raised
    BY ChangesType
<1>2. /\ \/ c.doc.data = m.data
         \/ /\ c = w /\ w.doc.state = "kLocalMutations"
            /\ m.type = "Document" /\ m.state = "kCommittedMutations"
      /\ c.raised => c.shown = c.doc.data
    BY <1>1, ChangesTakenOrKept
<1> HIDE DEF c
<1>3. /\ RaiseInitialEvent(c, synced, on) \in ViewState
      /\ RaiseInitialEvent(c, synced, on).doc = c.doc
      /\ RaiseInitialEvent(c, synced, on).listening
    BY <1>1, RaiseType
<1>4. ShownIsCurrent(RaiseInitialEvent(c, synced, on), on)
    BY <1>1, <1>2, RaiseShows DEF InView
<1> QED BY <1>1, <1>2, <1>3, <1>4 DEF c

\* Only an answered write is waited for, and only when nothing is queued.
LEMMA OverlayOrWaits ==
    ASSUME NEW c \in WellFormed, NEW q \in Seq(Mutations), NEW doc, NEW tok,
           HasPendingWrites(c) => tok < c.version,
           \/ doc.data = GetDocument(c, q).data
           \/ /\ doc.state = "kLocalMutations"
              /\ GetDocument(c, q).type = "Document"
              /\ GetDocument(c, q).state = "kCommittedMutations"
    PROVE  \/ doc.data = GetDocument(c, q).data
           \/ /\ q = << >>
              /\ doc.state = "kLocalMutations"
              /\ c.state = "kCommittedMutations"
              /\ tok < c.version
<1>1. CASE doc.data = GetDocument(c, q).data
    BY <1>1
<1>2. CASE /\ doc.state = "kLocalMutations"
           /\ GetDocument(c, q).type = "Document"
           /\ GetDocument(c, q).state = "kCommittedMutations"
    <2>1. q = << >>
        BY <1>2, QueuedIsLocal
    <2>2. c.state = "kCommittedMutations"
        BY <1>2, <2>1, GetDocumentEmpty
    <2> QED BY <1>2, <2>1, <2>2 DEF HasPendingWrites
<1> QED BY <1>1, <1>2

\* What EmitNewSnapshotsAndNotifyLocalStore does for a listener.
LEMMA EmitView ==
    ASSUME IInv, NEW m \in WellFormed, EmitNewSnapshots(m)
    PROVE  /\ view' \in ViewState /\ InView(view'.doc)
           /\ view'.listening = view.listening
           /\ view.listening =>
                /\ ShownIsCurrent(view', online)
                /\ \/ view'.doc.data = m.data
                   \/ /\ view'.doc.state = "kLocalMutations"
                      /\ m.type = "Document" /\ m.state = "kCommittedMutations"
<1>1. view \in ViewState /\ InView(view.doc) /\ online \in BOOLEAN
    BY DEF IInv, TypeOK
<1>2. CASE ~view.listening
    BY <1>1, <1>2 DEF EmitNewSnapshots
<1>3. CASE view.listening
    <2>1. view' = RaiseInitialEvent(ComputeDocumentChanges(view, m), FALSE, online)
        BY <1>3 DEF EmitNewSnapshots
    <2>2. view.raised => view.shown = view.doc.data
        BY <1>3 DEF IInv, ShownIsCurrent
    <2> DEFINE n(synced) == RaiseInitialEvent(ComputeDocumentChanges(view, m), synced, online)
    <2>3. \A synced \in BOOLEAN :
            /\ n(synced) \in ViewState /\ InView(n(synced).doc) /\ n(synced).listening
            /\ ShownIsCurrent(n(synced), online)
            /\ \/ n(synced).doc.data = m.data
               \/ /\ n(synced).doc.state = "kLocalMutations"
                  /\ m.type = "Document" /\ m.state = "kCommittedMutations"
        BY <1>1, <1>3, <2>2, UpdateView
    <2>4. view' = n(FALSE)
        BY <2>1
    <2> HIDE DEF n
    <2>5. /\ view' \in ViewState /\ InView(view'.doc) /\ view'.listening
          /\ ShownIsCurrent(view', online)
          /\ \/ view'.doc.data = m.data
             \/ /\ view'.doc.state = "kLocalMutations"
                /\ m.type = "Document" /\ m.state = "kCommittedMutations"
        BY <2>3, <2>4, Zenon
    <2> QED BY <1>1, <1>3, <2>5 DEF ViewState
<1> QED BY <1>2, <1>3 DEF ViewState, IInv, TypeOK

-----------------------------------------------------------------------------
(* The actions keep the invariant.                                          *)

Spent == [writes : 0 .. MaxWrites, others : 0 .. MaxOthers,
          listens : 0 .. MaxListens, faults : 0 .. MaxFaults]

LEMMA SpendType ==
    ASSUME spent \in Spent
    PROVE  /\ Spend("writes", MaxWrites) => spent' \in Spent
           /\ Spend("others", MaxOthers) => spent' \in Spent
           /\ Spend("listens", MaxListens) => spent' \in Spent
           /\ Spend("faults", MaxFaults) => spent' \in Spent
<1>1. /\ MaxWrites \in Nat /\ MaxOthers \in Nat
      /\ MaxListens \in Nat /\ MaxFaults \in Nat
    BY ViewAssumption
<1>2. Spend("writes", MaxWrites) => spent' \in Spent
    BY <1>1 DEF Spend, Spent
<1>3. Spend("others", MaxOthers) => spent' \in Spent
    BY <1>1 DEF Spend, Spent
<1>4. Spend("listens", MaxListens) => spent' \in Spent
    BY <1>1 DEF Spend, Spent
<1>5. Spend("faults", MaxFaults) => spent' \in Spent
    BY <1>1 DEF Spend, Spent
<1> QED BY <1>2, <1>3, <1>4, <1>5

LEMMA InitInv == Init => IInv
<1> SUFFICES ASSUME Init
             PROVE  IInv
    OBVIOUS
<1>1. PICK d \in Foreign : server = <<d>>
    BY DEF Init
<1>2. /\ server \in Seq(Contents) /\ server # << >> /\ Len(server) = 1
    BY <1>1, ViewAssumption
<1>3. Nullopt \in MaybeDocument
    BY NulloptWellFormed DEF WellFormed
<1>4. view \in ViewState
    BY <1>3 DEF Init, NoView, ViewState, Contents
<1>5. spent \in Spent
    BY ViewAssumption DEF Init, Spent
<1>6. TypeOK
    BY <1>2, <1>3, <1>4, <1>5, ViewAssumption DEF Init, TypeOK, Spent
<1>7. InView(view.doc)
    BY NulloptWellFormed DEF Init, NoView, InView, Nullopt
<1>8. CopyIsHistoryOrGuess
    BY DEF Init, CopyIsHistoryOrGuess, Nullopt, HasPendingWrites
<1> QED BY <1>6, <1>7, <1>8, NulloptWellFormed
        DEF IInv, Init, NoView, AnswersAreHistory

\* A handler that emits snapshots of the document leaves the listener with the
\* new copy and the new queue.
LEMMA EmitInv ==
    ASSUME IInv, cache' \in WellFormed, queue'[user'] \in Seq(Mutations),
           CopyIsHistoryOrGuess',
           EmitNewSnapshots(GetDocument(cache', queue'[user']))
    PROVE  /\ view' \in ViewState /\ InView(view'.doc)
           /\ view'.listening => HasOverlayOrWaits' /\ ShownIsCurrent(view', online)
<1> DEFINE m == GetDocument(cache', queue'[user'])
<1>1. m \in WellFormed
    BY GetDocumentWellFormed
<1> HIDE DEF m
<1>2. /\ view' \in ViewState /\ InView(view'.doc)
      /\ view'.listening = view.listening
      /\ view.listening =>
            /\ ShownIsCurrent(view', online)
            /\ \/ view'.doc.data = m.data
               \/ /\ view'.doc.state = "kLocalMutations"
                  /\ m.type = "Document" /\ m.state = "kCommittedMutations"
    BY <1>1, EmitView DEF m
<1>3. view.listening => HasOverlayOrWaits'
    <2> HAVE view.listening
    <2>1. HasPendingWrites(cache') => token' < cache'.version
        BY DEF CopyIsHistoryOrGuess
    <2>2. \/ view'.doc.data = GetDocument(cache', queue'[user']).data
          \/ /\ queue'[user'] = << >>
             /\ view'.doc.state = "kLocalMutations"
             /\ cache'.state = "kCommittedMutations"
             /\ token' < cache'.version
        BY <1>2, <2>1, OverlayOrWaits DEF m
    <2> QED BY <2>2 DEF HasOverlayOrWaits
<1> QED BY <1>2, <1>3

LEMMA WriteMutationsInv ==
    ASSUME IInv, NEW w \in Mutations, WriteMutations(w)
    PROVE  IInv'
<1> USE DEF IInv
<1>1. /\ queue' \in [Users -> Seq(Mutations)] /\ queue'[user] \in Seq(Mutations)
      /\ Len(queue'[user]) = Len(queue[user]) + 1 /\ Len(queue[user]) \in Nat
    BY DEF WriteMutations, TypeOK
<1>2. CopyIsHistoryOrGuess'
    BY DEF WriteMutations, CopyIsHistoryOrGuess
<1>3. /\ view' \in ViewState /\ InView(view'.doc)
      /\ view'.listening => HasOverlayOrWaits' /\ ShownIsCurrent(view', online)
    BY <1>1, <1>2, EmitInv DEF WriteMutations
<1>4. spent' \in Spent
    BY SpendType DEF WriteMutations, TypeOK, Spent
<1>5. TypeOK'
    BY <1>1, <1>3, <1>4 DEF WriteMutations, TypeOK, Spent
<1>6. AnswersAreHistory'
    BY DEF WriteMutations, AnswersAreHistory
<1> QED BY <1>2, <1>3, <1>5, <1>6 DEF WriteMutations

LEMMA AppendProperties ==
    ASSUME NEW S, NEW s \in Seq(S), NEW e \in S
    PROVE  /\ Append(s, e) \in Seq(S) /\ Append(s, e) # << >>
           /\ Len(s) \in Nat /\ Len(Append(s, e)) = Len(s) + 1
           /\ \A i \in 1 .. Len(s) : Append(s, e)[i] = s[i]
           /\ Append(s, e)[Len(s) + 1] = e
OBVIOUS

\* A longer history of the server leaves the copy and the listener as they are.
LEMMA ServerGrows ==
    ASSUME IInv, TypeOK', AnswersAreHistory',
           UNCHANGED <<user, queue, cache, token, view, online>>,
           NEW d \in Contents, server' = Append(server, d) \/ server' = server
    PROVE  IInv'
<1> USE DEF IInv
<1>1. /\ server \in Seq(Contents) /\ Len(server') >= Len(server)
      /\ Len(server) \in Nat /\ Len(server') \in Nat
      /\ \A i \in 1 .. Len(server) : server'[i] = server[i]
    <2>1. server \in Seq(Contents)
        BY DEF TypeOK
    <2>2. CASE server' = server
        BY <2>1, <2>2
    <2>3. CASE server' = Append(server, d)
        BY <2>1, <2>3, AppendProperties
    <2> QED BY <2>2, <2>3
<1>2. cache.version \in Nat
    BY DEF TypeOK, MaybeDocument
<1>3. CopyIsHistoryOrGuess'
    BY <1>1, <1>2 DEF CopyIsHistoryOrGuess
<1>4. HasOverlayOrWaits' <=> HasOverlayOrWaits
    BY DEF HasOverlayOrWaits
<1> QED BY <1>3, <1>4

LEMMA ServerCommitsInv ==
    ASSUME IInv, ServerCommits
    PROVE  IInv'
<1> USE DEF IInv
<1> DEFINE w == queue[user][Len(answers) + 1]
           d == server[Len(server)]
           new == IF w.type = "delete" THEN Absent ELSE NewData(w, d)
<1>1. /\ w \in Mutations /\ d \in Contents /\ Len(server) \in Nat
      /\ Len(answers) \in Nat /\ answers \in Seq(Nat)
    BY DEF ServerCommits, TypeOK
<1>2. new \in Contents
    BY <1>1, NewDataType DEF Contents
<1>3. \/ server' = Append(server, new) /\ answers' = Append(answers, Len(server) + 1)
      \/ server' = server /\ answers' = Append(answers, Len(server))
    BY DEF ServerCommits
<1> HIDE DEF w, d, new
<1>4. /\ server' \in Seq(Contents) /\ server' # << >>
      /\ Len(server') >= Len(server) /\ Len(server') \in Nat
    <2>1. server \in Seq(Contents) /\ server # << >>
        BY DEF TypeOK
    <2>2. CASE server' = server
        BY <2>1, <2>2
    <2>3. CASE server' = Append(server, new)
        BY <1>2, <2>1, <2>3, AppendProperties
    <2> QED BY <1>3, <2>2, <2>3
<1>5. PICK v \in Nat : answers' = Append(answers, v) /\ v <= Len(server')
    <2>1. CASE server' = server /\ answers' = Append(answers, Len(server))
        BY <1>1, <2>1
    <2>2. CASE server' = Append(server, new) /\ answers' = Append(answers, Len(server) + 1)
        <3>1. Len(server') = Len(server) + 1
            BY <1>2, <2>2, AppendProperties DEF TypeOK
        <3>2. Len(server) + 1 \in Nat /\ Len(server) + 1 <= Len(server')
            BY <1>1, <3>1
        <3> QED BY <2>2, <3>2
    <2> QED BY <1>3, <2>1, <2>2
<1>6. TypeOK'
    <2>1. answers' \in Seq(Nat) /\ Len(answers') = Len(answers) + 1
        BY <1>1, <1>5, AppendProperties
    <2>2. Len(queue[user]) \in Nat /\ Len(answers) < Len(queue[user])
        BY DEF ServerCommits, TypeOK
    <2>3. token' \in 0 .. Len(server')
        BY <1>1, <1>4 DEF ServerCommits, TypeOK
    <2> QED BY <1>1, <1>4, <2>1, <2>2, <2>3 DEF ServerCommits, TypeOK
<1>7. AnswersAreHistory'
    <2> SUFFICES ASSUME NEW i \in 1 .. Len(answers')
                 PROVE  answers'[i] <= Len(server')
        BY DEF AnswersAreHistory
    <2>1. /\ Len(answers') = Len(answers) + 1
          /\ \A j \in 1 .. Len(answers) : answers'[j] = answers[j]
          /\ answers'[Len(answers) + 1] = v
        BY <1>1, <1>5, AppendProperties
    <2>2. CASE i \in 1 .. Len(answers)
        <3>1. answers[i] <= Len(server) /\ answers[i] \in Nat
            BY <1>1, <2>2 DEF AnswersAreHistory
        <3>2. answers'[i] = answers[i]
            BY <2>1, <2>2
        <3> QED BY <1>1, <1>4, <3>1, <3>2
    <2>3. CASE i = Len(answers) + 1
        BY <1>5, <2>1, <2>3
    <2> QED BY <1>1, <2>1, <2>2, <2>3
<1>8. UNCHANGED <<user, queue, cache, token, view, online>>
    BY DEF ServerCommits
<1>9. server' = Append(server, new) \/ server' = server
    BY <1>3
<1> QED BY <1>2, <1>6, <1>7, <1>8, <1>9, ServerGrows

LEMMA ServerRefusesInv ==
    ASSUME IInv, ServerRefuses
    PROVE  IInv'
<1> USE DEF IInv
<1>1. spent' \in Spent
    BY SpendType DEF ServerRefuses, TypeOK, Spent
<1>2. /\ answers' = Append(answers, 0) /\ answers \in Seq(Nat)
      /\ Len(answers) \in Nat /\ Len(answers) < Len(queue[user])
      /\ Len(queue[user]) \in Nat /\ Len(server) \in Nat
    BY DEF ServerRefuses, TypeOK, Refused
<1>3. answers' \in Seq(Nat) /\ Len(answers') <= Len(queue[user])
    BY <1>2
<1>4. UNCHANGED <<server, user, queue, cache, token, view, online>>
    BY DEF ServerRefuses
<1>5. TypeOK'
    BY <1>1, <1>3, <1>4 DEF TypeOK, Spent
<1>6. AnswersAreHistory'
    BY <1>2, <1>4 DEF AnswersAreHistory
<1>7. Absent \in Contents
    BY DEF Contents
<1> QED BY <1>4, <1>5, <1>6, <1>7, ServerGrows

LEMMA OthersWriteInv ==
    ASSUME IInv, NEW d \in Foreign, OthersWrite(d)
    PROVE  IInv'
<1> USE DEF IInv
<1>1. spent' \in Spent
    BY SpendType DEF OthersWrite, TypeOK, Spent
<1>2. /\ server' = Append(server, d) /\ server \in Seq(Contents) /\ d \in Contents
      /\ UNCHANGED <<user, queue, answers, cache, token, view, online>>
    BY ViewAssumption DEF OthersWrite, TypeOK
<1>3. /\ server' \in Seq(Contents) /\ server' # << >> /\ Len(server') = Len(server) + 1
      /\ Len(server) \in Nat
    BY <1>2
<1>4. TypeOK'
    BY <1>1, <1>2, <1>3 DEF TypeOK, Spent
<1>5. AnswersAreHistory'
    BY <1>2, <1>3 DEF AnswersAreHistory, TypeOK
<1> QED BY <1>2, <1>4, <1>5, ServerGrows

LEMMA WriteStreamBreaksInv ==
    ASSUME IInv, WriteStreamBreaks
    PROVE  IInv'
<1> USE DEF IInv
<1>1. spent' \in Spent
    BY SpendType DEF WriteStreamBreaks, TypeOK, Spent
<1>2. answers' = << >> /\ UNCHANGED <<server, user, queue, cache, token, view, online>>
    BY DEF WriteStreamBreaks
<1>3. TypeOK'
    BY <1>1, <1>2 DEF TypeOK, Spent
<1>4. AnswersAreHistory'
    BY <1>2 DEF AnswersAreHistory
<1>5. Absent \in Contents
    BY DEF Contents
<1> QED BY <1>2, <1>3, <1>4, <1>5, ServerGrows

LEMMA TailProperties ==
    ASSUME NEW S, NEW s \in Seq(S), s # << >>
    PROVE  /\ Tail(s) \in Seq(S) /\ s[1] \in S
           /\ Len(s) \in Nat /\ Len(s) >= 1 /\ Len(Tail(s)) = Len(s) - 1
           /\ \A i \in 1 .. Len(Tail(s)) : Tail(s)[i] = s[i + 1]
OBVIOUS

\* The copy that an answer makes: the newest version that the client knows of.
LEMMA ApplyBatchResultCopy ==
    ASSUME IInv, NEW w \in Mutations, NEW v \in 1 .. Len(server)
    PROVE  LET c == ApplyBatchResult(cache, w, v)
           IN  /\ c \in WellFormed
               /\ c.version >= cache.version
               /\ token <= c.version
               /\ HasPendingWrites(c) => token < c.version /\ c.version <= Len(server)
               /\ c.type # "nullopt" /\ ~HasPendingWrites(c) =>
                        /\ c.version \in 1 .. Len(server)
                        /\ c.data = server[c.version]
<1> USE DEF IInv
<1>1. /\ cache \in WellFormed /\ cache.version \in Nat /\ token \in Nat
      /\ Len(server) \in Nat /\ v \in Nat
    BY DEF TypeOK, MaybeDocument
<1> DEFINE r == ApplyToRemoteDocument(w, cache, v)
<1>2. /\ r \in WellFormed /\ r.version = v /\ r.state = "kCommittedMutations"
    BY <1>1, RemoteWellFormed
<1>3. cache.type = "nullopt" => cache.version = 0
    BY DEF WellFormed, Nullopt
<1>4. CASE cache.type = "nullopt" \/ cache.version < v
    <2>1. ApplyBatchResult(cache, w, v) = r
        BY <1>4 DEF ApplyBatchResult
    <2>2. v > cache.version /\ token <= cache.version
        BY <1>1, <1>3, <1>4 DEF CopyIsHistoryOrGuess
    <2> HIDE DEF r
    <2> QED BY <1>1, <1>2, <2>1, <2>2 DEF HasPendingWrites
<1>5. CASE ~(cache.type = "nullopt" \/ cache.version < v)
    <2>1. ApplyBatchResult(cache, w, v) = cache
        BY <1>5 DEF ApplyBatchResult
    <2> QED BY <1>1, <2>1 DEF CopyIsHistoryOrGuess
<1> QED BY <1>4, <1>5

LEMMA HandleSuccessfulWriteInv ==
    ASSUME IInv, HandleSuccessfulWrite
    PROVE  IInv'
<1> USE DEF IInv
<1> DEFINE w == queue[user][1]
           v == answers[1]
<1>1. /\ queue[user] \in Seq(Mutations) /\ queue[user] # << >>
      /\ answers \in Seq(Nat) /\ answers # << >> /\ v # 0
      /\ Len(answers) <= Len(queue[user])
    BY DEF HandleSuccessfulWrite, TypeOK, Refused
<1>2. /\ Tail(answers) \in Seq(Nat) /\ Len(Tail(answers)) = Len(answers) - 1
      /\ Len(answers) \in Nat /\ Len(answers) >= 1 /\ v \in Nat
      /\ \A i \in 1 .. Len(Tail(answers)) : Tail(answers)[i] = answers[i + 1]
    BY <1>1, TailProperties
<1>3. /\ Tail(queue[user]) \in Seq(Mutations) /\ w \in Mutations
      /\ Len(queue[user]) \in Nat /\ Len(Tail(queue[user])) = Len(queue[user]) - 1
    BY <1>1, TailProperties
<1>4. /\ queue' \in [Users -> Seq(Mutations)] /\ queue'[user] = Tail(queue[user])
      /\ user' = user
    BY <1>3 DEF HandleSuccessfulWrite, TypeOK
<1>5. v \in 1 .. Len(server)
    BY <1>1, <1>2 DEF AnswersAreHistory, TypeOK
<1>6. cache' = ApplyBatchResult(cache, w, v) /\ UNCHANGED <<server, token>>
    BY DEF HandleSuccessfulWrite
<1>7. cache' \in WellFormed /\ CopyIsHistoryOrGuess'
    BY <1>3, <1>5, <1>6, ApplyBatchResultCopy DEF CopyIsHistoryOrGuess
<1> HIDE DEF w, v
<1>8. /\ view' \in ViewState /\ InView(view'.doc)
      /\ view'.listening => HasOverlayOrWaits' /\ ShownIsCurrent(view', online)
    BY <1>3, <1>4, <1>7, EmitInv DEF HandleSuccessfulWrite
<1>9. AnswersAreHistory'
    BY <1>2 DEF HandleSuccessfulWrite, AnswersAreHistory
<1>10. TypeOK'
    BY <1>1, <1>2, <1>3, <1>4, <1>7, <1>8 DEF HandleSuccessfulWrite, TypeOK, WellFormed
<1> QED BY <1>7, <1>8, <1>9, <1>10 DEF HandleSuccessfulWrite

LEMMA HandleRejectedWriteInv ==
    ASSUME IInv, HandleRejectedWrite
    PROVE  IInv'
<1> USE DEF IInv
<1>1. /\ queue[user] \in Seq(Mutations) /\ queue[user] # << >>
    BY DEF HandleRejectedWrite, TypeOK
<1>2. /\ Tail(queue[user]) \in Seq(Mutations) /\ Len(Tail(queue[user])) \in Nat
    BY <1>1, TailProperties
<1>3. /\ queue' \in [Users -> Seq(Mutations)] /\ queue'[user] = Tail(queue[user])
      /\ UNCHANGED <<server, user, cache, token, online, spent>> /\ answers' = << >>
    BY <1>2 DEF HandleRejectedWrite, TypeOK
<1>4. CopyIsHistoryOrGuess'
    BY <1>3 DEF CopyIsHistoryOrGuess
<1>5. /\ view' \in ViewState /\ InView(view'.doc)
      /\ view'.listening => HasOverlayOrWaits' /\ ShownIsCurrent(view', online)
    BY <1>2, <1>3, <1>4, EmitInv DEF HandleRejectedWrite
<1>6. AnswersAreHistory'
    BY <1>3 DEF AnswersAreHistory
<1>7. TypeOK'
    BY <1>2, <1>3, <1>5 DEF TypeOK
<1> QED BY <1>3, <1>4, <1>5, <1>6, <1>7

LEMMA RemoteDocumentType ==
    ASSUME TypeOK, NEW v \in 1 .. Len(server)
    PROVE  /\ RemoteDocument(v) \in WellFormed
           /\ RemoteDocument(v).version = v /\ RemoteDocument(v).state = "kSynced"
           /\ RemoteDocument(v).data = server[v] /\ RemoteDocument(v).type # "nullopt"
<1>1. server[v] \in Contents /\ v \in Nat
    BY DEF TypeOK
<1>2. CASE server[v] = Absent
    <2>1. RemoteDocument(v) = NoDocument(v, "kSynced")
        BY <1>2 DEF RemoteDocument
    <2>2. NoDocument(v, "kSynced") \in WellFormed
        BY <1>1, NoDocumentWellFormed DEF DocumentState
    <2> QED BY <1>2, <2>1, <2>2 DEF NoDocument
<1>3. CASE server[v] # Absent
    <2>1. RemoteDocument(v) = Document(server[v], v, "kSynced") /\ server[v] \in Data
        BY <1>1, <1>3 DEF RemoteDocument, Contents
    <2>2. Document(server[v], v, "kSynced") \in WellFormed
        BY <1>1, <2>1, DocumentWellFormed DEF DocumentState
    <2> QED BY <2>1, <2>2 DEF Document
<1> QED BY <1>2, <1>3

LEMMA ApplyRemoteEventInv ==
    ASSUME IInv, NEW v \in 1 .. Len(server), ApplyRemoteEvent(v)
    PROVE  IInv'
<1> USE DEF IInv
<1> DEFINE doc == RemoteDocument(v)
           changed == (v > token \/ server[v] = Absent) /\ ReplacesCached(doc, cache)
           m == GetDocument(doc, queue[user])
<1>1. /\ doc \in WellFormed /\ doc.version = v /\ doc.state = "kSynced"
      /\ doc.data = server[v] /\ doc.type # "nullopt"
    BY RemoteDocumentType
<1>2. /\ cache' = (IF changed THEN doc ELSE cache)
      /\ view' = RaiseInitialEvent(
                    IF changed THEN ComputeDocumentChanges(view, m) ELSE view,
                    TRUE, TRUE)
      /\ token' = v /\ online' = TRUE /\ v >= token
      /\ UNCHANGED <<server, user, queue, answers, spent>>
    BY DEF ApplyRemoteEvent
<1>3. /\ view \in ViewState /\ view.listening /\ InView(view.doc)
      /\ view.raised => view.shown = view.doc.data
    BY DEF ApplyRemoteEvent, TypeOK, ShownIsCurrent
<1>4. queue[user] \in Seq(Mutations) /\ m \in WellFormed
    BY <1>1, GetDocumentWellFormed DEF TypeOK
<1>5. /\ cache.version \in Nat /\ token \in Nat /\ Len(server) \in Nat /\ v \in Nat
      /\ doc.version \in Nat /\ v \in 0 .. Len(server)
    BY <1>1 DEF TypeOK, MaybeDocument
<1>6. CASE changed
    <2>1. cache' = doc /\ view' = RaiseInitialEvent(ComputeDocumentChanges(view, m), TRUE, TRUE)
        BY <1>2, <1>6
    <2> HIDE DEF doc, changed
    <2>2. CopyIsHistoryOrGuess'
        BY <1>1, <1>2, <1>5, <2>1 DEF CopyIsHistoryOrGuess, HasPendingWrites
    <2>3. /\ view' \in ViewState /\ InView(view'.doc) /\ view'.listening
          /\ ShownIsCurrent(view', TRUE)
          /\ \/ view'.doc.data = m.data
             \/ /\ view'.doc.state = "kLocalMutations"
                /\ m.type = "Document" /\ m.state = "kCommittedMutations"
        <3> HIDE DEF m
        <3> DEFINE n(b) == RaiseInitialEvent(ComputeDocumentChanges(view, m), b, b)
        <3>1. \A b \in BOOLEAN :
                /\ n(b) \in ViewState /\ InView(n(b).doc) /\ n(b).listening
                /\ ShownIsCurrent(n(b), b)
                /\ \/ n(b).doc.data = m.data
                   \/ /\ n(b).doc.state = "kLocalMutations"
                      /\ m.type = "Document" /\ m.state = "kCommittedMutations"
            BY <1>3, <1>4, UpdateView
        <3>2. view' = n(TRUE)
            BY <2>1
        <3> HIDE DEF n
        <3> QED BY <3>1, <3>2, Zenon
    <2>4. HasOverlayOrWaits'
        <3> HIDE DEF m
        <3>1. HasPendingWrites(doc) => token' < doc.version
            BY <1>1 DEF HasPendingWrites
        <3>2. \/ view'.doc.data = GetDocument(doc, queue[user]).data
              \/ /\ queue[user] = << >>
                 /\ view'.doc.state = "kLocalMutations"
                 /\ doc.state = "kCommittedMutations"
                 /\ token' < doc.version
            <4> DEFINE shown == view'.doc
                       tok == token'
            <4>1. queue[user] \in Seq(Mutations) /\ doc \in WellFormed
                BY <1>1, <1>4
            <4>2. /\ HasPendingWrites(doc) => tok < doc.version
                  /\ \/ shown.data = GetDocument(doc, queue[user]).data
                     \/ /\ shown.state = "kLocalMutations"
                        /\ GetDocument(doc, queue[user]).type = "Document"
                        /\ GetDocument(doc, queue[user]).state = "kCommittedMutations"
                BY <2>3, <3>1 DEF m
            <4> HIDE DEF shown, tok
            <4>3. \/ shown.data = GetDocument(doc, queue[user]).data
                  \/ /\ queue[user] = << >>
                     /\ shown.state = "kLocalMutations"
                     /\ doc.state = "kCommittedMutations"
                     /\ tok < doc.version
                BY <4>1, <4>2, OverlayOrWaits
            <4> QED BY <4>3 DEF shown, tok
        <3> QED BY <1>2, <2>1, <3>2 DEF HasOverlayOrWaits
    <2>5. TypeOK'
        BY <1>1, <1>2, <1>5, <2>1, <2>3 DEF TypeOK, WellFormed
    <2>6. AnswersAreHistory'
        BY <1>2 DEF AnswersAreHistory
    <2> QED BY <1>1, <1>2, <2>1, <2>2, <2>3, <2>4, <2>5, <2>6
<1>7. CASE ~changed
    <2>1. cache' = cache /\ view' = RaiseInitialEvent(view, TRUE, TRUE)
        BY <1>2, <1>7
    <2>2. /\ v <= cache.version
          /\ HasPendingWrites(cache) => v < cache.version
        <3>1. CASE ~(v > token \/ server[v] = Absent)
            BY <1>2, <1>5, <3>1 DEF CopyIsHistoryOrGuess
        <3>2. CASE ~ReplacesCached(doc, cache)
            BY <1>1, <1>5, <3>2 DEF ReplacesCached
        <3> QED BY <1>7, <3>1, <3>2
    <2> HIDE DEF doc, changed, m
    <2>3. CopyIsHistoryOrGuess'
        BY <1>2, <1>5, <2>1, <2>2 DEF CopyIsHistoryOrGuess
    <2>4. /\ view' \in ViewState /\ view'.doc = view.doc /\ view'.listening
          /\ ShownIsCurrent(view', TRUE)
        BY <1>3, <2>1, RaiseType, RaiseShows DEF InView
    <2>5. HasOverlayOrWaits'
        <3>1. cache.state = "kCommittedMutations" => v < cache.version
            BY <2>2 DEF HasPendingWrites
        <3> QED BY <1>2, <1>3, <2>1, <2>4, <3>1 DEF HasOverlayOrWaits
    <2>6. TypeOK'
        BY <1>2, <1>5, <2>1, <2>4 DEF TypeOK
    <2>7. AnswersAreHistory'
        BY <1>2 DEF AnswersAreHistory
    <2> QED BY <1>2, <1>3, <2>1, <2>3, <2>4, <2>5, <2>6, <2>7
<1> QED BY <1>6, <1>7

LEMMA NoViewType == NoView \in ViewState /\ InView(NoView.doc) /\ ~NoView.listening
<1>1. Nullopt \in MaybeDocument /\ InView(Nullopt)
    BY NulloptWellFormed DEF WellFormed, InView, Nullopt
<1> QED BY <1>1 DEF NoView, ViewState, Contents

LEMMA ListenInv ==
    ASSUME IInv, Listen
    PROVE  IInv'
<1> USE DEF IInv
<1> DEFINE w == [NoView EXCEPT !.listening = TRUE]
           m == GetDocument(cache, queue[user])
           n(b) == RaiseInitialEvent(ComputeDocumentChanges(w, m), b, online)
<1>1. w \in ViewState /\ InView(w.doc) /\ w.listening /\ ~w.raised
    <2>1. /\ NoView \in ViewState /\ ~NoView.raised /\ InView(NoView.doc)
        BY NoViewType DEF NoView
    <2> QED BY <2>1 DEF ViewState
<1>2. m \in WellFormed /\ queue[user] \in Seq(Mutations) /\ online \in BOOLEAN
    BY GetDocumentWellFormed DEF TypeOK
<1>3. view' = n(FALSE) /\ UNCHANGED <<server, user, queue, answers, cache, token, online>>
    BY DEF Listen
<1> HIDE DEF w, m
<1>4. \A b \in BOOLEAN :
        /\ n(b) \in ViewState /\ InView(n(b).doc) /\ n(b).listening
        /\ ShownIsCurrent(n(b), online)
        /\ \/ n(b).doc.data = m.data
           \/ /\ n(b).doc.state = "kLocalMutations"
              /\ m.type = "Document" /\ m.state = "kCommittedMutations"
    BY <1>1, <1>2, UpdateView
<1> HIDE DEF n
<1>5. /\ view' \in ViewState /\ InView(view'.doc) /\ view'.listening
      /\ ShownIsCurrent(view', online)
      /\ \/ view'.doc.data = m.data
         \/ /\ view'.doc.state = "kLocalMutations"
            /\ m.type = "Document" /\ m.state = "kCommittedMutations"
    BY <1>3, <1>4, Zenon
<1>6. HasOverlayOrWaits'
    <2>1. HasPendingWrites(cache) => token < cache.version
        BY DEF CopyIsHistoryOrGuess
    <2>2. \/ view'.doc.data = GetDocument(cache, queue[user]).data
          \/ /\ queue[user] = << >>
             /\ view'.doc.state = "kLocalMutations"
             /\ cache.state = "kCommittedMutations"
             /\ token < cache.version
        BY <1>2, <1>5, <2>1, OverlayOrWaits DEF m
    <2> QED BY <1>3, <2>2 DEF HasOverlayOrWaits
<1>7. spent' \in Spent
    BY SpendType DEF Listen, TypeOK, Spent
<1>8. TypeOK'
    BY <1>3, <1>5, <1>7 DEF TypeOK, Spent
<1>9. CopyIsHistoryOrGuess' /\ AnswersAreHistory'
    BY <1>3 DEF CopyIsHistoryOrGuess, AnswersAreHistory
<1> QED BY <1>3, <1>5, <1>6, <1>8, <1>9

LEMMA StopListeningInv ==
    ASSUME IInv, StopListening
    PROVE  IInv'
<1> USE DEF IInv
<1>1. /\ view' = NoView
      /\ UNCHANGED <<server, user, queue, answers, cache, token, online, spent>>
    BY DEF StopListening
<1>2. TypeOK'
    BY <1>1, NoViewType DEF TypeOK
<1>3. CopyIsHistoryOrGuess' /\ AnswersAreHistory'
    BY <1>1 DEF CopyIsHistoryOrGuess, AnswersAreHistory
<1> QED BY <1>1, <1>2, <1>3, NoViewType

LEMMA HandleOnlineStateChangeInv ==
    ASSUME IInv, HandleOnlineStateChange
    PROVE  IInv'
<1> USE DEF IInv
<1> DEFINE n(b, on) == RaiseInitialEvent(view, b, on)
<1>1. /\ online' \in BOOLEAN /\ view' = n(FALSE, online')
      /\ UNCHANGED <<server, user, queue, answers, cache, token>>
    BY DEF HandleOnlineStateChange
<1>2. spent' \in Spent
    BY SpendType DEF HandleOnlineStateChange, TypeOK, Spent
<1>3. view \in ViewState
    BY DEF TypeOK
<1>4. \A b, on \in BOOLEAN :
        /\ n(b, on) \in ViewState /\ n(b, on).doc = view.doc
        /\ n(b, on).listening = view.listening
        /\ view.listening => ShownIsCurrent(n(b, on), on)
    BY <1>3, RaiseType, RaiseShows DEF InView, ShownIsCurrent
<1> HIDE DEF n
<1>5. /\ view' \in ViewState /\ view'.doc = view.doc
      /\ view'.listening = view.listening
      /\ view.listening => ShownIsCurrent(view', online')
    BY <1>1, <1>4, Zenon
<1>6. TypeOK'
    BY <1>1, <1>2, <1>5 DEF TypeOK, Spent
<1>7. CopyIsHistoryOrGuess' /\ AnswersAreHistory'
    BY <1>1 DEF CopyIsHistoryOrGuess, AnswersAreHistory
<1>8. HasOverlayOrWaits' <=> HasOverlayOrWaits
    BY <1>1, <1>5 DEF HasOverlayOrWaits
<1> QED BY <1>1, <1>5, <1>6, <1>7, <1>8

LEMMA HandleCredentialChangeInv ==
    ASSUME IInv, NEW u \in Users, HandleCredentialChange(u)
    PROVE  IInv'
<1> USE DEF IInv
<1>1. /\ user' = u /\ answers' = << >> /\ online' = TRUE
      /\ UNCHANGED <<server, queue, cache, token>>
    BY DEF HandleCredentialChange
<1>2. spent' \in Spent
    BY SpendType DEF HandleCredentialChange, TypeOK, Spent
<1>3. queue[u] \in Seq(Mutations) /\ Len(queue[u]) \in Nat
    BY DEF TypeOK
<1>4. CopyIsHistoryOrGuess' /\ AnswersAreHistory'
    BY <1>1 DEF CopyIsHistoryOrGuess, AnswersAreHistory
<1>5. /\ view' \in ViewState /\ InView(view'.doc)
      /\ view'.listening => HasOverlayOrWaits' /\ ShownIsCurrent(view', online)
    <2>1. CASE queue[user] = << >> /\ queue[u] = << >>
        <3>1. view' = view
            BY <2>1 DEF HandleCredentialChange
        <3>2. HasOverlayOrWaits => HasOverlayOrWaits'
            BY <1>1, <2>1, <3>1 DEF HasOverlayOrWaits
        <3> QED BY <3>1, <3>2 DEF TypeOK
    <2>2. CASE ~(queue[user] = << >> /\ queue[u] = << >>)
        <3>1. EmitNewSnapshots(GetDocument(cache', queue'[user']))
            BY <1>1, <2>2 DEF HandleCredentialChange
        <3> QED BY <1>1, <1>3, <1>4, <3>1, EmitInv
    <2> QED BY <2>1, <2>2
<1>6. view'.listening => ShownIsCurrent(view', online')
    BY <1>1, <1>5 DEF ShownIsCurrent
<1>7. TypeOK'
    BY <1>1, <1>2, <1>3, <1>5 DEF TypeOK, Spent
<1> QED BY <1>1, <1>4, <1>5, <1>6, <1>7

LEMMA RestartInv ==
    ASSUME IInv, Restart
    PROVE  IInv'
<1> USE DEF IInv
<1>1. /\ answers' = << >> /\ view' = NoView /\ online' = TRUE
      /\ UNCHANGED <<server, user, queue, cache, token>>
    BY DEF Restart
<1>2. spent' \in Spent
    BY SpendType DEF Restart, TypeOK, Spent
<1>3. queue[user] \in Seq(Mutations) /\ Len(queue[user]) \in Nat
    BY DEF TypeOK
<1>4. TypeOK'
    BY <1>1, <1>2, <1>3, NoViewType DEF TypeOK, Spent
<1>5. CopyIsHistoryOrGuess' /\ AnswersAreHistory'
    BY <1>1 DEF CopyIsHistoryOrGuess, AnswersAreHistory
<1> QED BY <1>1, <1>4, <1>5, NoViewType

LEMMA StutterInv ==
    ASSUME IInv, UNCHANGED vars
    PROVE  IInv'
<1> USE DEF IInv
<1>1. TypeOK'
    BY DEF vars, TypeOK
<1>2. CopyIsHistoryOrGuess' /\ AnswersAreHistory'
    BY DEF vars, CopyIsHistoryOrGuess, AnswersAreHistory
<1>3. HasOverlayOrWaits' <=> HasOverlayOrWaits
    BY DEF vars, HasOverlayOrWaits
<1> QED BY <1>1, <1>2, <1>3 DEF vars

LEMMA NextInv == IInv /\ [Next]_vars => IInv'
<1> SUFFICES ASSUME IInv, [Next]_vars
             PROVE  IInv'
    OBVIOUS
<1>1. CASE \E w \in Mutations : WriteMutations(w)
    BY <1>1, WriteMutationsInv
<1>2. CASE ServerCommits
    BY <1>2, ServerCommitsInv
<1>3. CASE ServerRefuses
    BY <1>3, ServerRefusesInv
<1>4. CASE HandleSuccessfulWrite
    BY <1>4, HandleSuccessfulWriteInv
<1>5. CASE HandleRejectedWrite
    BY <1>5, HandleRejectedWriteInv
<1>6. CASE WriteStreamBreaks
    BY <1>6, WriteStreamBreaksInv
<1>7. CASE \E d \in Foreign : OthersWrite(d)
    BY <1>7, OthersWriteInv
<1>8. CASE \E v \in 1 .. Len(server) : ApplyRemoteEvent(v)
    BY <1>8, ApplyRemoteEventInv
<1>9. CASE Listen
    BY <1>9, ListenInv
<1>10. CASE StopListening
    BY <1>10, StopListeningInv
<1>11. CASE HandleOnlineStateChange
    BY <1>11, HandleOnlineStateChangeInv
<1>12. CASE \E u \in Users : HandleCredentialChange(u)
    BY <1>12, HandleCredentialChangeInv
<1>13. CASE Restart
    BY <1>13, RestartInv
<1>14. CASE UNCHANGED vars
    BY <1>14, StutterInv
<1> QED BY <1>1, <1>2, <1>3, <1>4, <1>5, <1>6, <1>7, <1>8, <1>9, <1>10,
           <1>11, <1>12, <1>13, <1>14 DEF Next

LEMMA Invariance == Spec => []IInv
BY InitInv, NextInv, PTL DEF Spec

-----------------------------------------------------------------------------
(* Theorems.                                                                *)

\* The state of the read path has its type at every step of its handlers.
THEOREM TypeCorrect == Spec => []TypeOK
<1>1. IInv => TypeOK
    BY DEF IInv
<1> QED BY <1>1, Invariance, PTL

\* The cached copy that ApplyBatchResult and ApplyRemoteEvent make between
\* them is the server's document at its version when it is marked as synced,
\* and otherwise newer than the resume token.
THEOREM CopyCorrect == Spec => []CopyIsHistoryOrGuess
<1>1. IInv => CopyIsHistoryOrGuess
    BY DEF IInv
<1> QED BY <1>1, Invariance, PTL

\* A listener has the copy with the queued writes of the user laid over it,
\* unless ShouldWaitForSyncedDocument keeps a change back that the watch
\* stream has yet to confirm.
THEOREM ViewCorrect == Spec => []ViewIsOverlay
<1>1. IInv => ViewIsOverlay
    BY DEF IInv, HasOverlayOrWaits, ViewIsOverlay
<1> QED BY <1>1, Invariance, PTL

\* When nothing is queued and the watch stream has brought the last change,
\* the app has been shown what the server has: no handler leaves the listener
\* with a change that is kept back for good.
THEOREM SettledCorrect == Spec => []SettledIsServer
<1>1. IInv => SettledIsServer
    <2> SUFFICES ASSUME IInv, view.listening, queue[user] = << >>,
                        token = Len(server), view.raised
                 PROVE  view.shown = server[Len(server)]
        BY DEF SettledIsServer
    <2> USE DEF IInv
    <2>1. /\ Len(server) \in Nat /\ Len(server) >= 1 /\ cache.version \in Nat
          /\ token \in Nat
        BY DEF TypeOK, MaybeDocument
    <2>2. cache.type # "nullopt"
        BY <2>1 DEF WellFormed, Nullopt, CopyIsHistoryOrGuess
    <2>3. ~HasPendingWrites(cache)
        BY <2>1 DEF CopyIsHistoryOrGuess
    <2>4. cache.data = server[Len(server)]
        BY <2>1, <2>2, <2>3 DEF CopyIsHistoryOrGuess
    <2>5. view.doc.data = cache.data
        BY <2>3, GetDocumentEmpty DEF HasOverlayOrWaits, HasPendingWrites
    <2> QED BY <2>4, <2>5 DEF ShownIsCurrent
<1> QED BY <1>1, Invariance, PTL

\* The copy never goes back to an older version, whichever of an answer
\* (ApplyBatchResult) and a watch event (ApplyRemoteEvent) comes first.
THEOREM CacheMonotonic == Spec => CacheNeverGoesBack
<1>1. IInv /\ [Next]_vars => [cache'.version >= cache.version]_cache
    <2> SUFFICES ASSUME IInv, [Next]_vars, cache' # cache
                 PROVE  cache'.version >= cache.version
        OBVIOUS
    <2> USE DEF IInv
    <2>1. CASE HandleSuccessfulWrite
        <3>1. /\ queue[user] \in Seq(Mutations) /\ queue[user] # << >>
              /\ answers \in Seq(Nat) /\ answers # << >> /\ answers[1] # 0
            BY <2>1 DEF HandleSuccessfulWrite, TypeOK, Refused
        <3>2. answers[1] \in 1 .. Len(server) /\ queue[user][1] \in Mutations
            BY <3>1, TailProperties DEF AnswersAreHistory, TypeOK
        <3>3. cache' = ApplyBatchResult(cache, queue[user][1], answers[1])
            BY <2>1 DEF HandleSuccessfulWrite
        <3> QED BY <3>2, <3>3, ApplyBatchResultCopy
    <2>2. ASSUME NEW v \in 1 .. Len(server), ApplyRemoteEvent(v)
          PROVE  cache'.version >= cache.version
        <3>1. /\ RemoteDocument(v).version = v /\ v \in Nat /\ cache.version \in Nat
            BY RemoteDocumentType DEF TypeOK, MaybeDocument
        <3>2. cache' = RemoteDocument(v) /\ ReplacesCached(RemoteDocument(v), cache)
            BY <2>2 DEF ApplyRemoteEvent
        <3>3. cache.type = "nullopt" => cache.version = 0
            BY DEF WellFormed, Nullopt
        <3> QED BY <3>1, <3>2, <3>3 DEF ReplacesCached
    <2>3. HandleSuccessfulWrite \/ \E v \in 1 .. Len(server) : ApplyRemoteEvent(v)
        BY DEF Next, vars, WriteMutations, ServerCommits, ServerRefuses,
            HandleRejectedWrite, WriteStreamBreaks, OthersWrite, Listen,
            StopListening, HandleOnlineStateChange, HandleCredentialChange, Restart
    <2> QED BY <2>1, <2>2, <2>3
<1> QED BY <1>1, Invariance, PTL DEF Spec, CacheNeverGoesBack

\* When a queued write leaves and the copy takes it (HandleSuccessfulWrite with
\* an answer that is news), what the app is shown stays the same.
LEMMA AnswerNotShown ==
    ASSUME IInv, HandleSuccessfulWrite, cache.version < answers[1]
    PROVE  view'.shown = view.shown
<1> USE DEF IInv
<1> DEFINE q == queue[user]
           v == answers[1]
           m == GetDocument(cache', queue'[user'])
<1>1. /\ q \in Seq(Mutations) /\ q # << >> /\ q[1] \in Mutations
      /\ Tail(q) \in Seq(Mutations) /\ v \in Nat
    <2>1. q \in Seq(Mutations) /\ q # << >> /\ answers \in Seq(Nat) /\ answers # << >>
        BY DEF HandleSuccessfulWrite, TypeOK
    <2> QED BY <2>1, TailProperties
<1>2. /\ cache' = ApplyToRemoteDocument(q[1], cache, v)
      /\ queue'[user'] = Tail(q) /\ EmitNewSnapshots(m)
    BY DEF HandleSuccessfulWrite, ApplyBatchResult, TypeOK
<1>3. Alike(GetDocument(cache, q), m)
    BY <1>1, <1>2, AnswerChangesNothing
<1>4. m \in WellFormed
    BY <1>1, <1>2, RemoteWellFormed, GetDocumentWellFormed
<1>5. view \in ViewState /\ InView(view.doc)
    BY DEF TypeOK
<1> DEFINE c == ComputeDocumentChanges(view, m)
<1>6. CASE view.listening
    <2>1. view.doc.data = m.data
        BY <1>1, <1>3, <1>6 DEF HasOverlayOrWaits, Alike
    <2>2. /\ c.shown = view.shown
          /\ c.doc.type = "Document" => view.doc.type = "Document"
        BY <1>4, <1>5, <2>1, SameContentsNotShown
    <2>3. c.raised = view.raised
        BY <1>4, <1>5, ChangesType
    <2>4. ~view.raised => view.doc.type # "Document" /\ online
        BY <1>6 DEF ShownIsCurrent
    <2>5. view' = RaiseInitialEvent(c, FALSE, online)
        BY <1>2, <1>6 DEF EmitNewSnapshots
    <2> HIDE DEF c, m, q, v
    <2> QED BY <2>2, <2>3, <2>4, <2>5 DEF RaiseInitialEvent, ShouldRaiseInitialEvent
<1>7. CASE ~view.listening
    BY <1>2, <1>7 DEF EmitNewSnapshots
<1> QED BY <1>6, <1>7

\* An answer that is news to the copy changes nothing of what the app is shown,
\* however many writes are still queued behind the one that leaves.
THEOREM FlickerFree == Spec => NoFlicker
<1>1. IInv /\ [Next]_vars =>
        [(/\ answers # << >> /\ cache.version < answers[1]
          /\ answers' = Tail(answers) /\ queue' # queue) =>
            view'.shown = view.shown]_vars
    <2> SUFFICES ASSUME IInv, [Next]_vars, answers # << >>, cache.version < answers[1],
                        answers' = Tail(answers), queue' # queue
                 PROVE  view'.shown = view.shown
        OBVIOUS
    <2>1. /\ answers \in Seq(Nat) /\ Len(answers) \in Nat /\ cache.version \in Nat
        BY DEF IInv, TypeOK, MaybeDocument
    <2>2. Len(answers') = Len(answers) - 1 /\ Len(answers) >= 1
        BY <2>1, TailProperties
    <2>3. ASSUME NEW w \in Mutations, WriteMutations(w)
          PROVE  FALSE
        BY <2>1, <2>2, <2>3 DEF WriteMutations
    <2>4. ~HandleRejectedWrite
        <3> SUFFICES ASSUME HandleRejectedWrite
                     PROVE  FALSE
            OBVIOUS
        <3>1. Len(answers') = 0 /\ answers[Len(answers)] = 0
            BY DEF HandleRejectedWrite, Refused
        <3> QED BY <2>1, <2>2, <3>1
    <2>5. HandleSuccessfulWrite
        BY <2>3, <2>4 DEF Next, vars, ServerCommits, ServerRefuses, WriteStreamBreaks,
            OthersWrite, ApplyRemoteEvent, Listen, StopListening,
            HandleOnlineStateChange, HandleCredentialChange, Restart
    <2> QED BY <2>5, AnswerNotShown
<1> QED BY <1>1, Invariance, PTL DEF Spec, NoFlicker
=============================================================================
