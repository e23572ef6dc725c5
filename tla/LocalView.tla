------------------------------ MODULE LocalView ------------------------------
(***************************************************************************)
(* What a listener of the app is shown of one document: the read path of    *)
(* the Firestore client (Pods/FirebaseFirestore). The client keeps a cached *)
(* copy of the document (RemoteDocumentCache) and the user's queued writes, *)
(* lays the writes over the copy (LocalDocumentsView), and hands changes of *)
(* the result to the listener (View, QueryListener). The copy is brought up *)
(* to date by two streams that are not ordered with each other: answers to  *)
(* the writes and events of the watch stream. Every handler runs to its end *)
(* on the worker queue and is one action. External: the server, which gives *)
(* each change of the document the next version, and other users, with whom *)
(* the app's own transactions count (they bypass the queue).                *)
(***************************************************************************)
EXTENDS Naturals, Sequences

CONSTANTS
    Users,      \* identities: the accounts, and nobody signed in
    Values,     \* values of the field that updates write
    Elements,   \* elements of the array field
    Mutations,  \* the writes the app makes to the document
    Absent,     \* the contents of a document that does not exist
    Foreign,    \* the contents that other users give the document
    FirstUser,  \* the user the client is created with
    MaxWrites,  \* bound: plain writes made
    MaxOthers,  \* bound: changes by other users and by transactions
    MaxListens, \* bound: listeners registered
    MaxFaults   \* bound: broken streams, refusals, restarts, user changes

VARIABLES
    server,     \* server: contents after each change; the index is the version
    user,       \* SyncEngine::current_user_
    queue,      \* on disk: queue[u], u's writes to the document, oldest first
    answers,    \* on their way: what the server says to the first queued writes
    cache,      \* on disk: RemoteDocumentCache's entry for the document
    token,      \* snapshot version the target's resume token stands for, or 0
    view,       \* the View and QueryListener of the document (ViewState)
    online,     \* FALSE: OnlineState::Offline
    spent       \* the bounded counters

vars == <<server, user, queue, answers, cache, token, view, online, spent>>

-----------------------------------------------------------------------------
(* Documents and mutations.                                                 *)

Data == [val : Values, members : SUBSET Elements]
Contents == Data \cup {Absent}

\* The mutations of setData, updateData, setData with mergeFields, updateData
\* of arrayUnion and arrayRemove, and delete.
Mutation == [type : {"set", "update", "merge", "union", "remove", "delete"},
             val : Values, members : SUBSET Elements]

\* The server's answer to a write that it does not accept.
Refused == 0

ASSUME ViewAssumption ==
    /\ Mutations \subseteq Mutation
    /\ Absent \notin Data
    /\ MaxWrites \in Nat
    /\ Foreign \subseteq Contents
    /\ FirstUser \in Users
    /\ MaxOthers \in Nat
    /\ MaxListens \in Nat
    /\ MaxFaults \in Nat

DocumentState == {"kSynced", "kCommittedMutations", "kLocalMutations"}

MaybeDocument == [type : {"nullopt", "Document", "NoDocument", "UnknownDocument"},
                  data : Contents, version : Nat, state : DocumentState]

Nullopt ==
    [type |-> "nullopt", data |-> Absent, version |-> 0, state |-> "kSynced"]
Document(d, v, s) ==
    [type |-> "Document", data |-> d, version |-> v, state |-> s]
NoDocument(v, s) ==
    [type |-> "NoDocument", data |-> Absent, version |-> v, state |-> s]
UnknownDocument(v) ==
    [type |-> "UnknownDocument", data |-> Absent, version |-> v,
     state |-> "kCommittedMutations"]

HasPendingWrites(m) == m.state # "kSynced"

ViewState == [listening : BOOLEAN,   \* there is a listener, hence a View
              doc : MaybeDocument,   \* document_set_: a Document, or Nullopt
              mutated : BOOLEAN,     \* mutated_keys_ has the document
              raised : BOOLEAN,      \* raised_initial_event_
              shown : Contents]      \* what the last event handed to the app

NoView == [listening |-> FALSE, doc |-> Nullopt, mutated |-> FALSE,
           raised |-> FALSE, shown |-> Absent]

\* Precondition::IsValidFor: updates and array transforms need a document.
IsValidFor(w, m) ==
    w.type \in {"update", "union", "remove"} => m.type = "Document"

\* The contents after the mutation, which is not a delete, of contents d.
NewData(w, d) ==
    LET base == IF d = Absent THEN [val |-> w.val, members |-> {}] ELSE d
    IN CASE w.type = "set"    -> [val |-> w.val, members |-> w.members]
         [] w.type = "union"  -> [base EXCEPT !.members = @ \cup w.members]
         [] w.type = "remove" -> [base EXCEPT !.members = @ \ w.members]
         [] OTHER             -> [base EXCEPT !.val = w.val]

\* Mutation::GetPostMutationVersion.
GetPostMutationVersion(m) == IF m.type = "Document" THEN m.version ELSE 0

\* MutationBatch::ApplyToLocalDocument: a queued write laid over the copy.
ApplyToLocalDocument(w, m) ==
    IF ~IsValidFor(w, m) THEN m
    ELSE IF w.type = "delete" THEN NoDocument(0, "kSynced")
    ELSE Document(NewData(w, m.data), GetPostMutationVersion(m), "kLocalMutations")

\* Mutant: the result is taken for what the server has.
ApplyToRemoteDocument_Synced(w, m, v) ==
    IF w.type = "delete" THEN NoDocument(v, "kSynced")
    ELSE IF ~IsValidFor(w, m) THEN UnknownDocument(v)
    ELSE Document(NewData(w, m.data), v, "kSynced")

\* Mutant: no UnknownDocument, the update is applied to an empty document.
ApplyToRemoteDocument_NoUnknown(w, m, v) ==
    IF w.type = "delete" THEN NoDocument(v, "kCommittedMutations")
    ELSE Document(NewData(w, m.data), v, "kCommittedMutations")

\* MutationBatch::ApplyToRemoteDocument: a write the server took as version v.
ApplyToRemoteDocument(w, m, v) ==
    IF w.type = "delete" THEN NoDocument(v, "kCommittedMutations")
    ELSE IF ~IsValidFor(w, m) THEN UnknownDocument(v)
    ELSE Document(NewData(w, m.data), v, "kCommittedMutations")

\* LocalDocumentsView::GetDocument: all the queued writes laid over the copy.
GetDocument(m, q) ==
    LET after[i \in 0 .. Len(q)] ==
            IF i = 0 THEN m ELSE ApplyToLocalDocument(q[i], after[i - 1])
    IN after[Len(q)]

-----------------------------------------------------------------------------
(* The view and its listener.                                               *)

\* Mutant: a change is also kept back when the copy is synced.
ShouldWaitForSyncedDocument_Any(new, old) ==
    old.state = "kLocalMutations" /\ new.state # "kLocalMutations"

\* View::ShouldWaitForSyncedDocument.
ShouldWaitForSyncedDocument(new, old) ==
    old.state = "kLocalMutations" /\ new.state = "kCommittedMutations"

\* View::ComputeDocumentChanges, ApplyChanges and the listener's event, which
\* leaves out changes of the metadata alone.
ComputeDocumentChanges(w, m) ==
    LET old == w.doc
        new == IF m.type = "Document" THEN m ELSE Nullopt
        both == old.type = "Document" /\ new.type = "Document"
        pending == new.state = "kLocalMutations"
                     \/ (w.mutated /\ new.state = "kCommittedMutations")
        content == /\ new.data # old.data
                   /\ ~(both /\ ShouldWaitForSyncedDocument(new, old))
        metadata == both /\ new.data = old.data /\ w.mutated # pending
    IN IF content \/ metadata
       THEN [w EXCEPT !.doc = new,
                      !.mutated = (new.state = "kLocalMutations"),
                      !.shown = IF content /\ w.raised THEN new.data ELSE @]
       ELSE w

\* Mutant: a document that does not exist is not reported.
ShouldRaiseInitialEvent_Documents(w, synced, on) ==
    w.doc.type = "Document" \/ ~on

\* QueryListener::ShouldRaiseInitialEvent.
ShouldRaiseInitialEvent(w, synced, on) ==
    synced \/ w.doc.type = "Document" \/ ~on

RaiseInitialEvent(w, synced, on) ==
    IF w.listening /\ ~w.raised /\ ShouldRaiseInitialEvent(w, synced, on)
    THEN [w EXCEPT !.raised = TRUE, !.shown = w.doc.data]
    ELSE w

\* SyncEngine::EmitNewSnapshotsAndNotifyLocalStore for a changed document.
EmitNewSnapshots(m) ==
    view' = IF view.listening
            THEN RaiseInitialEvent(ComputeDocumentChanges(view, m), FALSE, online)
            ELSE view

-----------------------------------------------------------------------------
(* The writes of this device.                                               *)

Spend(counter, max) ==
    /\ spent[counter] < max
    /\ spent' = [spent EXCEPT ![counter] = @ + 1]

\* SyncEngine::WriteMutations.
WriteMutations(w) ==
    /\ Spend("writes", MaxWrites)
    /\ queue' = [queue EXCEPT ![user] = Append(@, w)]
    /\ EmitNewSnapshots(GetDocument(cache, queue'[user]))
    /\ UNCHANGED <<server, user, answers, cache, token, online>>

\* External: the server takes the next write that was sent. A set or an update
\* that changes nothing may keep the version.
ServerCommits ==
    /\ Len(answers) < Len(queue[user])
    /\ \A i \in 1 .. Len(answers) : answers[i] # Refused
    /\ LET w == queue[user][Len(answers) + 1]
           d == server[Len(server)]
           new == IF w.type = "delete" THEN Absent ELSE NewData(w, d)
       IN /\ w.type \in {"update", "union", "remove"} => d # Absent
          /\ \/ /\ server' = Append(server, new)
                /\ answers' = Append(answers, Len(server) + 1)
             \/ /\ new = d /\ d # Absent
                /\ answers' = Append(answers, Len(server))
                /\ UNCHANGED server
    /\ UNCHANGED <<user, queue, cache, token, view, online, spent>>

\* External: it must refuse an update of a document that does not exist, and
\* its rules may refuse any write.
ServerRefuses ==
    /\ Len(answers) < Len(queue[user])
    /\ \A i \in 1 .. Len(answers) : answers[i] # Refused
    /\ LET w == queue[user][Len(answers) + 1]
       IN \/ /\ w.type \in {"update", "union", "remove"}
             /\ server[Len(server)] = Absent
             /\ UNCHANGED spent
          \/ Spend("faults", MaxFaults)
    /\ answers' = Append(answers, Refused)
    /\ UNCHANGED <<server, user, queue, cache, token, view, online>>

\* Mutant: the answer is applied whatever the watch stream has brought.
ApplyBatchResult_Always(m, w, ack_version) == ApplyToRemoteDocument(w, m, ack_version)

\* LocalStore::ApplyBatchResult: the copy after the answer, unless the watch
\* stream has brought the same version or a later one.
ApplyBatchResult(m, w, ack_version) ==
    IF m.type = "nullopt" \/ m.version < ack_version
    THEN ApplyToRemoteDocument(w, m, ack_version)
    ELSE m

\* SyncEngine::HandleSuccessfulWrite.
HandleSuccessfulWrite ==
    /\ answers # << >> /\ answers[1] # Refused
    /\ cache' = ApplyBatchResult(cache, queue[user][1], answers[1])
    /\ queue' = [queue EXCEPT ![user] = Tail(@)]
    /\ answers' = Tail(answers)
    /\ EmitNewSnapshots(GetDocument(cache', queue'[user]))
    /\ UNCHANGED <<server, user, token, online, spent>>

\* SyncEngine::HandleRejectedWrite. RemoteStore rejects the first write for any
\* refusal on the stream; answers that were not read yet are lost with it.
HandleRejectedWrite ==
    /\ answers # << >> /\ answers[Len(answers)] = Refused
    /\ queue' = [queue EXCEPT ![user] = Tail(@)]
    /\ answers' = << >>
    /\ EmitNewSnapshots(GetDocument(cache, queue'[user]))
    /\ UNCHANGED <<server, user, cache, token, online, spent>>

\* The write stream breaks: the writes whose answers are lost are sent again.
WriteStreamBreaks ==
    /\ answers # << >>
    /\ Spend("faults", MaxFaults)
    /\ answers' = << >>
    /\ UNCHANGED <<server, user, queue, cache, token, view, online>>

-----------------------------------------------------------------------------
(* The watch stream and the life of a listener.                             *)

\* External: another user, or a transaction, changes the document.
OthersWrite(d) ==
    /\ Spend("others", MaxOthers)
    /\ d # server[Len(server)]
    /\ server' = Append(server, d)
    /\ UNCHANGED <<user, queue, answers, cache, token, view, online>>

\* WatchChangeAggregator::CreateRemoteEvent: a document that does not exist is
\* deleted as of the snapshot.
RemoteDocument(v) ==
    IF server[v] = Absent THEN NoDocument(v, "kSynced")
    ELSE Document(server[v], v, "kSynced")

\* LocalStore::ApplyRemoteEvent: whether the event's document replaces the copy.
ReplacesCached(doc, existing) ==
    \/ existing.type = "nullopt"
    \/ doc.version > existing.version
    \/ doc.version = existing.version /\ HasPendingWrites(existing)

\* RemoteStore::RaiseWatchSnapshot, SyncEngine::ApplyRemoteEvent: the state of
\* the document at snapshot v; with a resume token, only if it has changed.
ApplyRemoteEvent(v) ==
    /\ view.listening
    /\ v >= token
    /\ v > token \/ ~view.raised
    /\ token' = v
    /\ online' = TRUE
    /\ LET doc == RemoteDocument(v)
           sent == v > token \/ server[v] = Absent
           changed == sent /\ ReplacesCached(doc, cache)
       IN /\ cache' = IF changed THEN doc ELSE cache
          /\ view' = RaiseInitialEvent(
                        IF changed
                        THEN ComputeDocumentChanges(view, GetDocument(doc, queue[user]))
                        ELSE view, TRUE, TRUE)
    /\ UNCHANGED <<server, user, queue, answers, spent>>

\* SyncEngine::Listen: the view is filled from the cache and the queue.
Listen ==
    /\ ~view.listening
    /\ Spend("listens", MaxListens)
    /\ view' = RaiseInitialEvent(
                  ComputeDocumentChanges([NoView EXCEPT !.listening = TRUE],
                                         GetDocument(cache, queue[user])),
                  FALSE, online)
    /\ UNCHANGED <<server, user, queue, answers, cache, token, online>>

\* SyncEngine::StopListening; the resume token is kept with the target.
StopListening ==
    /\ view.listening
    /\ view' = NoView
    /\ UNCHANGED <<server, user, queue, answers, cache, token, online, spent>>

\* SyncEngine::HandleOnlineStateChange, EventManager::HandleOnlineStateChange.
HandleOnlineStateChange ==
    /\ online' = ~online
    /\ IF online THEN Spend("faults", MaxFaults) ELSE UNCHANGED spent
    /\ view' = RaiseInitialEvent(view, FALSE, online')
    /\ UNCHANGED <<server, user, queue, answers, cache, token>>

\* Mutant: the views are not told of the other user's queue.
HandleCredentialChange_Silent(u) ==
    /\ u # user
    /\ Spend("faults", MaxFaults)
    /\ user' = u
    /\ answers' = << >>
    /\ online' = TRUE
    /\ UNCHANGED <<server, queue, cache, token, view>>

\* Mutant: the answers of the old user's stream are read for the new one.
HandleCredentialChange_KeepsAnswers(u) ==
    /\ u # user
    /\ Spend("faults", MaxFaults)
    /\ user' = u
    /\ online' = TRUE
    /\ EmitNewSnapshots(GetDocument(cache, queue[u]))
    /\ UNCHANGED <<server, queue, answers, cache, token>>

\* SyncEngine::HandleCredentialChange and LocalStore::HandleUserChange: the
\* document is looked at again when one of the queues writes to it.
HandleCredentialChange(u) ==
    /\ u # user
    /\ Spend("faults", MaxFaults)
    /\ user' = u
    /\ answers' = << >>
    /\ online' = TRUE
    /\ IF queue[user] = << >> /\ queue[u] = << >> THEN UNCHANGED view
       ELSE EmitNewSnapshots(GetDocument(cache, queue[u]))
    /\ UNCHANGED <<server, queue, cache, token>>

\* The process ends and the app is started again: only what is on disk is left.
Restart ==
    /\ Spend("faults", MaxFaults)
    /\ answers' = << >>
    /\ view' = NoView
    /\ online' = TRUE
    /\ UNCHANGED <<server, user, queue, cache, token>>

-----------------------------------------------------------------------------
Init ==
    /\ \E d \in Foreign : server = <<d>>
    /\ user = FirstUser
    /\ queue = [u \in Users |-> << >>]
    /\ answers = << >>
    /\ cache = Nullopt
    /\ token = 0
    /\ view = NoView
    /\ online = TRUE
    /\ spent = [writes |-> 0, others |-> 0, listens |-> 0, faults |-> 0]

Next ==
    \/ \E w \in Mutations : WriteMutations(w)
    \/ ServerCommits
    \/ ServerRefuses
    \/ HandleSuccessfulWrite
    \/ HandleRejectedWrite
    \/ WriteStreamBreaks
    \/ \E d \in Foreign : OthersWrite(d)
    \/ \E v \in 1 .. Len(server) : ApplyRemoteEvent(v)
    \/ Listen
    \/ StopListening
    \/ HandleOnlineStateChange
    \/ \E u \in Users : HandleCredentialChange(u)
    \/ Restart

Spec == Init /\ [][Next]_vars

\* Queued writes are sent and answered, and the watch stream brings what has
\* changed: both streams are started again whenever they are needed.
Fairness ==
    /\ WF_vars(ServerCommits \/ ServerRefuses)
    /\ WF_vars(HandleSuccessfulWrite \/ HandleRejectedWrite)
    /\ WF_vars(\E v \in 1 .. Len(server) : ApplyRemoteEvent(v))

FairSpec == Spec /\ Fairness

-----------------------------------------------------------------------------
(* Properties.                                                              *)

TypeOK ==
    /\ server \in Seq(Contents) /\ server # << >>
    /\ user \in Users
    /\ queue \in [Users -> Seq(Mutations)]
    /\ answers \in Seq(Nat) /\ Len(answers) <= Len(queue[user])
    /\ cache \in MaybeDocument
    /\ token \in 0 .. Len(server)
    /\ view \in ViewState
    /\ online \in BOOLEAN
    /\ spent \in [writes : 0 .. MaxWrites, others : 0 .. MaxOthers,
                  listens : 0 .. MaxListens, faults : 0 .. MaxFaults]

\* A copy that is marked as synced is what the server had at that version,
\* whichever of the two streams was first, and across restarts. A copy that was
\* made from an answer, which may lack other users' changes, is newer than the
\* resume token: the watch stream will still bring the document.
CopyIsHistoryOrGuess ==
    /\ token <= cache.version
    /\ HasPendingWrites(cache) => token < cache.version /\ cache.version <= Len(server)
    /\ cache.type # "nullopt" /\ ~HasPendingWrites(cache) =>
            /\ cache.version \in 1 .. Len(server)
            /\ cache.data = server[cache.version]

\* A listener has the copy with all of the user's queued writes laid over it,
\* or what it has is about to be replaced by the watch stream.
ViewIsOverlay ==
    view.listening =>
        \/ view.doc.data = GetDocument(cache, queue[user]).data
        \/ /\ view.doc.state = "kLocalMutations"
           /\ cache.state = "kCommittedMutations"
           /\ token < cache.version

\* When nothing is queued and the watch stream has brought the last change, the
\* app has been shown what the server has, whatever happened before.
SettledIsServer ==
    (view.listening /\ queue[user] = << >> /\ token = Len(server) /\ view.raised) =>
        view.shown = server[Len(server)]

\* The copy never goes back to an older version: not by an answer that arrives
\* after the watch stream has gone further, nor the other way round.
CacheNeverGoesBack == [][cache'.version >= cache.version]_cache

\* The answer to a write, when it is news, changes nothing of what is shown:
\* the queued write leaves, and the copy has it.
NoFlicker ==
    [][(/\ answers # << >> /\ cache.version < answers[1]
        /\ answers' = Tail(answers) /\ queue' # queue) =>
          view'.shown = view.shown]_vars

\* What the server has is shown in the end to whoever goes on listening.
ListenerCatchesUp ==
    view.listening ~> (~view.listening
                         \/ (view.raised /\ view.shown = server[Len(server)]))
=============================================================================
