---------------------------- MODULE WritePipeline ----------------------------
(***************************************************************************)
(* The write path of the Firestore client the app is linked with            *)
(* (Pods/FirebaseFirestore): the mutation queue on disk, one per account    *)
(* (LevelDbMutationQueue), the write pipeline (RemoteStore), the stream it   *)
(* is sent on (Stream, WriteStream, GrpcStream) and the completion blocks   *)
(* (SyncEngine). Every handler runs to its end on the client's one worker   *)
(* queue and is one action here. The server and the network are external:   *)
(* requests are processed in the order they were sent on a connection and   *)
(* answered in that order, a connection may break at any time, and a        *)
(* refusal ends it.                                                         *)
(***************************************************************************)
EXTENDS Naturals, Sequences, FiniteSets

CONSTANTS
    Users,              \* identities: the accounts, and nobody signed in
    kMaxPendingWrites,  \* limit of the write pipeline (10 in the code)
    MaxWrites,          \* bound: plain writes made
    MaxFaults,          \* bound: refusals, broken connections, failed tokens
    MaxChanges,         \* bound: credential changes
    MaxKills            \* bound: ends of the process

ASSUME PipelineAssumption == kMaxPendingWrites \in Nat \ {0}

ASSUME BoundsAssumption ==
    /\ MaxWrites \in Nat
    /\ MaxFaults \in Nat
    /\ MaxChanges \in Nat
    /\ MaxKills \in Nat

VARIABLES
    queue,              \* on disk: queue[u], u's mutation batches by batch id
    current_user,       \* SyncEngine::current_user_
    next_batch_id,      \* LevelDbMutationQueue::next_batch_id_
    mutation_callbacks, \* SyncEngine: for each user, the batches with a block
    net,                \* RemoteStore and WriteStream (NetState)
    applied,            \* server: the writes that have taken effect
    refused,            \* server: the writes it has refused
    decisions,          \* history: writes taken off a queue, with the outcome
    told,               \* history: completion blocks that ran, with the outcome
    torn,               \* history: writes whose removal, after their block had run,
                        \* was cut off by the end of the process
    spent               \* the bounded counters

client == <<queue, current_user, next_batch_id, mutation_callbacks>>
server == <<applied, refused>>
history == <<decisions, told, torn>>
vars == <<queue, current_user, next_batch_id, mutation_callbacks, net,
          applied, refused, decisions, told, torn, spent>>

-----------------------------------------------------------------------------
(* Data. A batch is what one setData, updateData, delete or WriteBatch       *)
(* leaves in the queue; "write" identifies the call that made it, since      *)
(* batch ids are used again.                                                 *)

Writes == 1..MaxWrites
Batch == [id : Nat, user : Users, write : Nat]
Outcome == [user : Users, write : Nat, ok : BOOLEAN]

\* Stream::State.
StreamState == {"Initial", "Starting", "Open", "Error", "Backoff"}

\* The handshake on the connection: not sent, sent, answered by the server,
\* and answer read (handshake_complete_).
Greeting == {"none", "sent", "answered", "complete"}

\* How a connection has ended: it has not, with a status that is retried, or
\* with one that is not (Datastore::IsPermanentWriteError).
Status == {"none", "transient", "permanent"}

\* A failed write on the worker queue: there is none, it is queued behind the
\* one read that has completed, or it is next.
Failure == {"none", "behind", "next"}

NetState ==
    [state : StreamState,
     greeting : Greeting,
     idle : BOOLEAN,            \* idleness_timer_ is set
     pipeline : Seq(Batch),     \* write_pipeline_
     sent : Seq(Batch),         \* requests the server has not processed
     received : Seq(Batch),     \* answers the worker queue has not read
     closed : Status,
     failed : Failure]

Counters == [writes : 0..MaxWrites, faults : 0..MaxFaults,
             changes : 0..MaxChanges, kills : 0..MaxKills]

\* Mutant: the largest id itself.
LoadNextBatchIdFromDb_NotNext(q) ==
    LET ids == {0} \cup UNION {{q[u][k].id : k \in DOMAIN q[u]} : u \in Users}
    IN  CHOOSE i \in ids : \A j \in ids : j <= i

\* LoadNextBatchIdFromDb: one more than the largest batch id of any user.
LoadNextBatchIdFromDb(q) ==
    LET ids == {0} \cup UNION {{q[u][k].id : k \in DOMAIN q[u]} : u \in Users}
    IN  1 + (CHOOSE i \in ids : \A j \in ids : j <= i)

\* LevelDbMutationQueue::AddMutationBatch. Rows are ordered by batch id; the
\* new id is the largest (LoadNextBatchIdFromDb), so the row is the last.
AddMutationBatch(q, id, w) ==
    [q EXCEPT ![current_user] =
        Append(@, [id |-> id, user |-> current_user, write |-> w])]

\* LevelDbMutationQueue::RemoveMutationBatch of the current user's queue.
RemoveMutationBatch(q, b) ==
    LET s == q[current_user]
        at == CHOOSE k \in DOMAIN s : s[k].id = b.id
    IN  [q EXCEPT ![current_user] =
            SubSeq(s, 1, at - 1) \o SubSeq(s, at + 1, Len(s))]

-----------------------------------------------------------------------------
(* The stream and the pipeline, as functions of the state n (a NetState).    *)

IsOpen(n) == n.state = "Open"
IsStarted(n) == n.state \in {"Starting", "Backoff", "Open"}
handshake_complete(n) == n.greeting = "complete"

\* Stream::Start: after an error the stream first backs off.
Start(n) ==
    [n EXCEPT !.state = IF n.state = "Error" THEN "Backoff" ELSE "Starting"]

\* Stream::MarkIdle: a timer already set stays.
MarkIdle(n) == [n EXCEPT !.idle = @ \/ IsOpen(n)]

\* Mutant: the idle timer is not cancelled.
WriteMutations_StaysIdle(n, batches) == [n EXCEPT !.sent = @ \o batches]

\* Stream::Write, for each of the batches: the idle timer is cancelled.
WriteMutations(n, batches) ==
    [n EXCEPT !.sent = @ \o batches, !.idle = @ /\ batches = <<>>]

ShouldStartWriteStream(n) == ~IsStarted(n) /\ n.pipeline # <<>>

\* The batches of q that follow the pipeline's last one, as many as fit
\* (the loop of FillWritePipeline over GetNextMutationBatch). Batch ids are
\* positive, so 0 stands for kBatchIdUnknown (-1).
NextBatches(n, q) ==
    LET last == IF n.pipeline = <<>> THEN 0
                ELSE n.pipeline[Len(n.pipeline)].id
        from == Cardinality({k \in DOMAIN q : q[k].id <= last})
        room == kMaxPendingWrites - Len(n.pipeline)
    IN  IF Len(n.pipeline) < kMaxPendingWrites
        THEN SubSeq(q, from + 1,
                    IF from + room < Len(q) THEN from + room ELSE Len(q))
        ELSE <<>>

\* Mutant: sent without waiting for the handshake.
AddToWritePipeline_Early(n, batches) ==
    LET added == [n EXCEPT !.pipeline = @ \o batches]
    IN  IF IsOpen(n) THEN WriteMutations(added, batches) ELSE added

\* RemoteStore::AddToWritePipeline, for each of the batches.
AddToWritePipeline(n, batches) ==
    LET added == [n EXCEPT !.pipeline = @ \o batches]
    IN  IF IsOpen(n) /\ handshake_complete(n)
        THEN WriteMutations(added, batches)
        ELSE added

\* RemoteStore::FillWritePipeline from the queue q of the current user.
FillWritePipeline(n, q) ==
    LET filled == AddToWritePipeline(n, NextBatches(n, q))
        marked == IF filled.pipeline = <<>> THEN MarkIdle(filled) ELSE filled
    IN  IF ShouldStartWriteStream(marked) THEN Start(marked) ELSE marked

\* Stream::Close up to the notification: timers cancelled, the connection
\* and everything on its way in either direction gone.
Dropped(n, state) ==
    [n EXCEPT !.state = state, !.idle = FALSE, !.sent = <<>>,
              !.received = <<>>, !.closed = "none", !.failed = "none"]

\* Stream::Stop: nothing, unless the stream is started; a stream that has failed
\* still has to back off.
Stopped(n) == IF IsStarted(n) THEN Dropped(n, "Initial") ELSE n

\* The end of RemoteStore::OnWriteStreamClose and of
\* WriteStream::NotifyStreamClose.
Restarted(n) ==
    [(IF ShouldStartWriteStream(n) THEN Start(n) ELSE n)
        EXCEPT !.greeting = "none"]

\* Stream::InhibitBackoff.
InhibitBackoff(n) == [n EXCEPT !.state = "Initial"]

\* The pipeline without its first batch.
PopFront(n) == [n EXCEPT !.pipeline = Tail(@)]

-----------------------------------------------------------------------------
(* Completion blocks.                                                        *)

\* SyncEngine::WriteMutations registers the block under the current user;
\* inserting into the map keeps an entry that has the id already.
RegisterCallback(id, w) ==
    [mutation_callbacks EXCEPT ![current_user] =
        IF \E c \in @ : c.id = id THEN @ ELSE @ \cup {[id |-> id, write |-> w]}]

\* The blocks of the batch b; there is one, unless b was restored from disk.
Blocks(b) == {c \in mutation_callbacks[current_user] : c.id = b.id}

\* Mutant: the block is run without the error.
Told_NoError(b, ok) ==
    IF Blocks(b) = {} THEN told
    ELSE Append(told, [user |-> current_user, ok |-> TRUE,
                       write |-> (CHOOSE c \in Blocks(b) : TRUE).write])

\* What is told when the block of b runs.
Told(b, ok) ==
    IF Blocks(b) = {} THEN told
    ELSE Append(told, [user |-> current_user, ok |-> ok,
                       write |-> (CHOOSE c \in Blocks(b) : TRUE).write])

\* SyncEngine::NotifyUser: the block of the batch, if the current user has one,
\* runs and is removed.
NotifyUser(b, ok) ==
    /\ mutation_callbacks' =
            [mutation_callbacks EXCEPT ![current_user] = @ \ Blocks(b)]
    /\ told' = Told(b, ok)

\* The batch leaves the queue of the current user (AcknowledgeBatch and
\* RejectBatch of LocalStore, each one transaction).
Removed(b, ok) ==
    /\ queue' = RemoveMutationBatch(queue, b)
    /\ decisions' = Append(decisions,
                           [user |-> b.user, write |-> b.write, ok |-> ok])

\* HandleSuccessfulWrite and HandleRejectedWrite of SyncEngine, run to the end.
Decided(b, ok) ==
    /\ NotifyUser(b, ok)
    /\ Removed(b, ok)
    /\ UNCHANGED torn

-----------------------------------------------------------------------------
\* RemoteStore and its write stream as they are constructed.
NewNet ==
    [state |-> "Initial", greeting |-> "none", idle |-> FALSE, pipeline |-> <<>>,
     sent |-> <<>>, received |-> <<>>, closed |-> "none", failed |-> "none"]

Init ==
    /\ queue = [u \in Users |-> <<>>]
    /\ current_user \in Users
    /\ next_batch_id = 1
    /\ mutation_callbacks = [u \in Users |-> {}]
    /\ net = NewNet
    /\ applied = {}
    /\ refused = {}
    /\ decisions = <<>>
    /\ told = <<>>
    /\ torn = {}
    /\ spent = [writes |-> 0, faults |-> 0, changes |-> 0, kills |-> 0]

\* SyncEngine::WriteMutations, for a plain write of the app.
Write ==
    /\ spent.writes < MaxWrites
    /\ LET w == spent.writes + 1
       IN  /\ spent' = [spent EXCEPT !.writes = w]
           /\ queue' = AddMutationBatch(queue, next_batch_id, w)
           /\ next_batch_id' = next_batch_id + 1
           /\ mutation_callbacks' = RegisterCallback(next_batch_id, w)
           /\ net' = FillWritePipeline(net, queue'[current_user])
    /\ UNCHANGED <<current_user, server, history>>

\* Stream::ResumeStartWithCredentials with a token: the call is started, the
\* stream is open (OnStreamStart) and the handshake is sent.
TokenReady ==
    /\ net.state = "Starting"
    /\ net' = [net EXCEPT !.state = "Open", !.greeting = "sent"]
    /\ UNCHANGED <<client, server, history, spent>>

\* RemoteStore::OnWriteStreamHandshakeComplete: the whole pipeline is sent.
OnWriteStreamHandshakeComplete ==
    /\ IsOpen(net)
    /\ net.greeting = "answered"
    /\ net' = WriteMutations([net EXCEPT !.greeting = "complete"], net.pipeline)
    /\ UNCHANGED <<client, server, history, spent>>

\* The worker queue reads the next answer.
AnswerIsNext ==
    /\ IsOpen(net)
    /\ net.received # <<>>
    /\ net.failed # "next"

\* RemoteStore::OnWriteStreamMutationResult: an answer is taken to be for the
\* first batch of the pipeline.
OnWriteStreamMutationResult ==
    /\ AnswerIsNext
    /\ Decided(Head(net.pipeline), TRUE)
    /\ net' = FillWritePipeline(
                 [PopFront(net) EXCEPT !.received = Tail(@),
                     !.failed = IF @ = "behind" THEN "next" ELSE @],
                 queue'[current_user])
    /\ UNCHANGED <<current_user, next_batch_id, server, spent>>

\* Mutant: the batch that was refused is acknowledged.
HandleWriteError_Acknowledges ==
    /\ Decided(Head(net.pipeline), TRUE)
    /\ net' = Restarted(FillWritePipeline(
                 InhibitBackoff(PopFront(Dropped(net, "Error"))),
                 queue'[current_user]))
    /\ UNCHANGED <<current_user, next_batch_id>>

\* RemoteStore::HandleWriteError with a permanent error, and the rest of
\* OnWriteStreamClose: the first batch of the pipeline is rejected.
HandleWriteError ==
    /\ Decided(Head(net.pipeline), FALSE)
    /\ net' = Restarted(FillWritePipeline(
                 InhibitBackoff(PopFront(Dropped(net, "Error"))),
                 queue'[current_user]))
    /\ UNCHANGED <<current_user, next_batch_id>>

\* OnWriteStreamClose with an error that rejects nothing: the pipeline is kept
\* and sent again.
RetryAfterError ==
    /\ net' = Restarted(Dropped(net, "Error"))
    /\ UNCHANGED <<client, history>>

Rejects(status) ==
    /\ status = "permanent"
    /\ net.pipeline # <<>>
    /\ handshake_complete(net)

\* Stream::Close and RemoteStore::OnWriteStreamClose with an error status.
OnWriteStreamClose(status) ==
    IF Rejects(status) THEN HandleWriteError ELSE RetryAfterError

\* The call has ended while a request is still being written, and the write
\* fails. Its completion comes after that of the read that is pending, and
\* before any later one, since GrpcStream::OnRead asks for the next message only
\* when it runs. A request that was refused has been written.
PendingWriteFails ==
    /\ net.failed = "none"
    /\ net.closed # "none"
    /\ net.received # <<>>
    /\ Len(net.sent) > (IF net.closed = "permanent" THEN 1 ELSE 0)
    /\ net' = [net EXCEPT !.failed = "behind"]
    /\ UNCHANGED <<client, server, history, spent>>

\* The pending read fails, when every answer has been read, or a write has
\* failed.
CallIsOver ==
    /\ IsOpen(net)
    /\ net.closed # "none"
    /\ \/ net.failed = "next"
       \/ net.received = <<>> /\ net.greeting # "answered"

\* GrpcStream::OnOperationFailed and FinishAndNotify: the answers not yet read
\* are dropped with the call (FastFinishCompletionsBlocking).
OnStreamFinish ==
    /\ CallIsOver
    /\ OnWriteStreamClose(net.closed)
    /\ UNCHANGED <<server, spent>>

\* Stream::ResumeStartWithCredentials without a token.
TokenFailed ==
    /\ net.state = "Starting"
    /\ spent.faults < MaxFaults
    /\ spent' = [spent EXCEPT !.faults = @ + 1]
    /\ OnWriteStreamClose("transient")
    /\ UNCHANGED server

\* GrpcConnection: the device's connectivity changed, and every call is ended
\* with Unavailable.
ConnectivityChanged ==
    /\ IsOpen(net)
    /\ spent.faults < MaxFaults
    /\ spent' = [spent EXCEPT !.faults = @ + 1]
    /\ OnWriteStreamClose("transient")
    /\ UNCHANGED server

\* Mutant: the error state is not cleared before the new start.
BackoffElapsed_StillError ==
    /\ net.state = "Backoff"
    /\ net' = Start([net EXCEPT !.state = "Error"])
    /\ UNCHANGED <<client, server, history, spent>>

\* The backoff has elapsed (Stream::BackoffAndTryRestarting).
BackoffElapsed ==
    /\ net.state = "Backoff"
    /\ net' = Start([net EXCEPT !.state = "Initial"])
    /\ UNCHANGED <<client, server, history, spent>>

\* The idle timer fires: Stream::Stop.
IdleTimeout ==
    /\ net.idle
    /\ net' = Restarted(Stopped(net))
    /\ UNCHANGED <<client, server, history, spent>>

\* Mutant: the pipeline is not emptied.
Reconnected_KeepsPipeline(q) ==
    FillWritePipeline([Stopped(net) EXCEPT !.greeting = "none"], q)

\* RemoteStore::HandleCredentialChange: the stream is stopped, the pipeline
\* emptied and filled again from the queue q.
Reconnected(q) ==
    FillWritePipeline(
        [Stopped(net) EXCEPT !.greeting = "none", !.pipeline = <<>>], q)

\* Mutant: the writes of the user who leaves are discarded.
HandleCredentialChange_Discards(user) ==
    /\ spent.changes < MaxChanges
    /\ spent' = [spent EXCEPT !.changes = @ + 1]
    /\ current_user' = user
    /\ queue' = [queue EXCEPT ![current_user] = IF user = current_user THEN @ ELSE <<>>]
    /\ next_batch_id' = IF user # current_user THEN LoadNextBatchIdFromDb(queue)
                        ELSE next_batch_id
    /\ net' = Reconnected(queue[user])
    /\ UNCHANGED <<mutation_callbacks, server, history>>

\* SyncEngine::HandleCredentialChange: another user, or a new token of the
\* same one.
HandleCredentialChange(user) ==
    /\ spent.changes < MaxChanges
    /\ spent' = [spent EXCEPT !.changes = @ + 1]
    /\ current_user' = user
    /\ next_batch_id' = IF user # current_user THEN LoadNextBatchIdFromDb(queue)
                        ELSE next_batch_id
    /\ net' = Reconnected(queue[user])
    /\ UNCHANGED <<queue, mutation_callbacks, server, history>>

\* The process has ended, and is started again (FirestoreClient::Initialize):
\* only the queues q on disk are left.
Reborn(q) ==
    /\ spent.kills < MaxKills
    /\ spent' = [spent EXCEPT !.kills = @ + 1]
    /\ next_batch_id' = LoadNextBatchIdFromDb(q)
    /\ mutation_callbacks' = [u \in Users |-> {}]
    /\ net' = FillWritePipeline(NewNet, q[current_user])
    /\ UNCHANGED <<current_user, server>>

\* It ends while no handler is running.
Restart ==
    /\ Reborn(queue)
    /\ UNCHANGED <<queue, history>>

\* It ends within HandleSuccessfulWrite, which runs the block first
\* (NotifyUser) and takes the batch off the queue after that.
EndsAcknowledging ==
    /\ AnswerIsNext
    /\ told' = Told(Head(net.pipeline), TRUE)
    /\ torn' = torn \cup {Head(net.pipeline).write}
    /\ Reborn(queue)
    /\ UNCHANGED <<queue, decisions>>

\* It ends within HandleRejectedWrite, which takes the batch off the queue
\* first and never gets to the block.
EndsRejecting ==
    /\ CallIsOver /\ Rejects(net.closed)
    /\ Removed(Head(net.pipeline), FALSE)
    /\ Reborn(queue')
    /\ UNCHANGED <<told, torn>>

-----------------------------------------------------------------------------
(* The server and the network (external).                                    *)

ServerGreets ==
    /\ net.greeting = "sent"
    /\ net.closed = "none"
    /\ net' = [net EXCEPT !.greeting = "answered"]
    /\ UNCHANGED <<client, server, history, spent>>

ServerApplies ==
    /\ net.sent # <<>>
    /\ net.closed = "none"
    /\ applied' = applied \cup {Head(net.sent).write}
    /\ net' = [net EXCEPT !.sent = Tail(@), !.received = Append(@, Head(net.sent))]
    /\ UNCHANGED <<client, refused, history, spent>>

\* The server refuses the next request and ends the call; what follows on the
\* connection is not processed.
ServerRefuses ==
    /\ net.sent # <<>>
    /\ net.closed = "none"
    /\ spent.faults < MaxFaults
    /\ spent' = [spent EXCEPT !.faults = @ + 1]
    /\ refused' = refused \cup {Head(net.sent).write}
    /\ net' = [net EXCEPT !.closed = "permanent"]
    /\ UNCHANGED <<client, applied, history>>

\* The call breaks, with any status before the handshake is answered and with
\* one that is retried after that.
CallBreaks ==
    /\ IsOpen(net)
    /\ net.closed = "none"
    /\ spent.faults < MaxFaults
    /\ spent' = [spent EXCEPT !.faults = @ + 1]
    /\ \E status \in {"transient", "permanent"} :
        /\ status = "permanent" => net.greeting = "sent"
        /\ net' = [net EXCEPT !.closed = status]
    /\ UNCHANGED <<client, server, history>>

Next ==
    \/ Write
    \/ TokenReady
    \/ TokenFailed
    \/ OnWriteStreamHandshakeComplete
    \/ OnWriteStreamMutationResult
    \/ PendingWriteFails
    \/ OnStreamFinish
    \/ ConnectivityChanged
    \/ BackoffElapsed
    \/ IdleTimeout
    \/ \E u \in Users : HandleCredentialChange(u)
    \/ Restart
    \/ EndsAcknowledging
    \/ EndsRejecting
    \/ ServerGreets
    \/ ServerApplies
    \/ ServerRefuses
    \/ CallBreaks

Spec == Init /\ [][Next]_vars

-----------------------------------------------------------------------------
(* Properties.                                                               *)

TypeOK ==
    /\ queue \in [Users -> Seq(Batch)]
    /\ current_user \in Users
    /\ next_batch_id \in Nat \ {0}
    /\ mutation_callbacks \in [Users -> SUBSET [id : Nat, write : Nat]]
    /\ net \in NetState
    /\ applied \subseteq Writes
    /\ refused \subseteq Writes
    /\ decisions \in Seq(Outcome)
    /\ told \in Seq(Outcome)
    /\ torn \subseteq Writes
    /\ spent \in Counters

\* Whenever no handler is running, the pipeline holds the oldest writes of the
\* user who is signed in, and as many as it may hold: no handler forgets to
\* refill it, none leaves a batch of another user or a decided one in it
\* (RemoteStore::FillWritePipeline and its callers).
PipelineIsPrefix ==
    LET q == queue[current_user]
    IN  /\ Len(net.pipeline) = (IF Len(q) < kMaxPendingWrites THEN Len(q)
                                ELSE kMaxPendingWrites)
        /\ \A k \in DOMAIN net.pipeline : net.pipeline[k] = q[k]

\* An answer is credited to the batch it is for: what is on its way, answers
\* first, is the pipeline in its order. OnWriteStreamMutationResult takes every
\* answer to be for the front, and asserts that there is one.
AnswersMatchPipeline ==
    IF handshake_complete(net)
    THEN net.received \o net.sent = net.pipeline
    ELSE net.received = <<>> /\ net.sent = <<>>

\* Pending writes never wait for a stream that nobody starts: a stream with a
\* pipeline is started, backing off or open, and the idle timer, which stops it
\* without an error, is set only when nothing is pending ("Write stream was
\* stopped gracefully while still needed", RemoteStore::OnWriteStreamClose).
StreamServesPipeline ==
    /\ net.pipeline # <<>> => IsStarted(net)
    /\ net.idle => IsOpen(net) /\ handshake_complete(net) /\ net.pipeline = <<>>

\* Completion blocks run at most once, and an account's blocks run in the order
\* of its writes. A block is told that its write is done only when the server
\* has applied it, and hears the outcome with which the write leaves the queue,
\* but for one case: the process ended within HandleSuccessfulWrite, between the
\* block and the removal, and the write is sent and decided once more. A block
\* is kept as long as the batch it is for, under the same id and user, through
\* user changes: an id that is used again (LoadNextBatchIdFromDb) never finds
\* the block of an earlier write, which would swallow the new one.
ToldInOrder ==
    /\ \A u \in Users : \A c \in mutation_callbacks[u] :
            \E k \in DOMAIN queue[u] :
                queue[u][k].id = c.id /\ queue[u][k].write = c.write
    /\ \A k \in DOMAIN told :
            /\ told[k].ok => told[k].write \in applied
            /\ \/ \E d \in DOMAIN decisions : told[k] = decisions[d]
               \/ told[k].ok /\ told[k].write \in torn
    /\ \A k, l \in DOMAIN told :
            k < l /\ told[k].user = told[l].user => told[k].write < told[l].write

\* No write is lost: through lost connections, sign-outs and restarts, a write
\* is in exactly one queue, or exactly one decision has been made about it.
NoWriteLost ==
    \A w \in 1..spent.writes :
        Cardinality({d \in DOMAIN decisions : decisions[d].write = w})
        + Cardinality({row \in Users \X (1..MaxWrites) :
                           /\ row[2] <= Len(queue[row[1]])
                           /\ queue[row[1]][row[2]].write = w}) = 1

\* The client implements WriteQueue: writes take effect in the order of their
\* queue, however often they are sent again, the oldest is decided first, and
\* only a write that has taken effect is acknowledged.
Acknowledged ==
    {decisions[d].write : d \in {e \in DOMAIN decisions : decisions[e].ok}}

Pending == [u \in Users |-> [k \in DOMAIN queue[u] |-> queue[u][k].write]]

Promise == INSTANCE WriteQueue
    WITH pending <- Pending, acknowledged <- Acknowledged

QueueSpec == Promise!Spec

\* A write reported as failed was refused by the server. RemoteStore's
\* HandleWriteError: "the request itself was the problem so it's not going to
\* succeed if we resend it".
RejectedWasRefused ==
    \A d \in DOMAIN decisions :
        ~decisions[d].ok => decisions[d].write \in refused

\* The worker queue runs what is on it, timers fire, Auth answers, and the
\* server answers a request on a connection that holds.
Fairness ==
    /\ WF_vars(TokenReady)
    /\ WF_vars(OnWriteStreamHandshakeComplete)
    /\ WF_vars(OnWriteStreamMutationResult)
    /\ WF_vars(OnStreamFinish)
    /\ WF_vars(BackoffElapsed)
    /\ WF_vars(ServerGreets)
    /\ WF_vars(ServerApplies \/ ServerRefuses)

FairSpec == Spec /\ Fairness

\* A write is decided if its account stays signed in: after every fault the
\* stream is started again and the whole pipeline is sent again.
Queued(u, w) == \E k \in DOMAIN queue[u] : queue[u][k].write = w

WriteDecided ==
    \A u \in Users, w \in Writes :
        Queued(u, w) ~> (~Queued(u, w) \/ current_user # u)
=============================================================================
