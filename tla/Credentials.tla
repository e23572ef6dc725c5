----------------------------- MODULE Credentials -----------------------------
(***************************************************************************)
(* How a change of the signed-in user reaches the Firestore client, and how *)
(* a stream gets the token it is opened with. Three serial queues take part: *)
(* the auth work queue (FIRAuth), the main queue (notifications and          *)
(* callbacks) and the client's worker queue (SyncEngine, Stream). Each block *)
(* that runs on one of them is one action; the order between queues is       *)
(* arbitrary, within one it is the order of dispatch.                        *)
(***************************************************************************)
EXTENDS Naturals, Sequences

CONSTANTS
    Users,        \* identities: the accounts, and nobody signed in
    nobody,
    MaxEvents     \* bound: sign-ins, sign-outs, new tokens and faults

ASSUME NobodyAssumption == nobody \in Users

ASSUME CredentialBounds == MaxEvents \in Nat \ {0}

VARIABLES
    auth,         \* FIRAuth: _currentUser, an object and its account
    requests,     \* auth work queue: tokens asked for (getTokenForcingRefresh)
    fetches,      \* FIRSecureTokenService: requests a FIRUser is serving
    main_queue,   \* main queue: blocks dispatched and not yet run
    contents,     \* FirebaseCredentialsProvider::Contents
    worker_queue, \* worker queue: operations enqueued and not yet run
    current_user, \* SyncEngine::current_user_
    stream,       \* Stream: state, close_count_ and the token it opened with
    events        \* sign-ins, sign-outs, new tokens and faults so far

credVars == <<auth, requests, fetches, main_queue, contents, worker_queue,
              current_user, stream, events>>

-----------------------------------------------------------------------------
(* Data.                                                                     *)

\* A FIRUser object: objects are told apart, also those of one account. Object
\* 0 is nil.
AuthUser == [object : Nat, user : Users]
Nil == [object |-> 0, user |-> nobody]

\* A call of GetToken by the stream, with the token counter and the close count
\* at the time.
Request == [counter : Nat, close : Nat]

Fetch == [request : Request, from : AuthUser]

\* Blocks of the main queue: a notification of the signed-in user, the answer
\* to a request (owner is the account the token is of), a block of the app.
Notification == [kind : {"notification"}, user : Users]
Answer == [kind : {"answer"}, request : Request, ok : BOOLEAN, owner : Users]
Block == [kind : {"block"}, name : {"signedIn", "failed", "answered"}]

\* Operations of the worker queue: HandleCredentialChange, and the rest of
\* RequestCredentials. A token is tagged with a user by the provider.
Change == [kind : {"change"}, user : Users]
Resume == [kind : {"resume"}, request : Request, ok : BOOLEAN,
           owner : Users, tag : Users]

StreamState == {"Initial", "Starting", "Open", "Error"}

-----------------------------------------------------------------------------
(* FIRAuth, on the auth work queue.                                          *)

Posted(user) == [kind |-> "notification", user |-> user]

\* updateCurrentUser: _currentUser is replaced and, since the token is another
\* one, the change is posted to the main queue
\* (possiblyPostAuthStateChangeNotification).
UpdateCurrentUser(new, blocks) ==
    /\ events < MaxEvents
    /\ events' = events + 1
    /\ auth' = new
    /\ main_queue' = Append(main_queue, Posted(new.user)) \o blocks

NewUser(user) == [object |-> events + 1, user |-> user]

\* A sign-in has succeeded (signInFlowAuthDataResultCallback): the user is
\* updated before the callback of the app is dispatched.
SignIn(user) ==
    /\ UpdateCurrentUser(NewUser(user),
                         <<[kind |-> "block", name |-> "signedIn"]>>)
    /\ UNCHANGED <<requests, fetches, contents, worker_queue, current_user, stream>>

\* signOut, which runs synchronously.
SignOut ==
    /\ IF auth.object = 0 THEN UNCHANGED <<auth, main_queue, events>>
       ELSE UpdateCurrentUser(Nil, <<>>)
    /\ UNCHANGED <<requests, fetches, contents, worker_queue, current_user, stream>>

\* The scheduled refresh of the token (scheduleAutoTokenRefresh), and its
\* failure because the token is not valid any more
\* (signOutIfTokenIsInvalidWithError).
AutoTokenRefresh ==
    /\ auth.object # 0
    /\ \E new \in {auth, Nil} : UpdateCurrentUser(new, <<>>)
    /\ UNCHANGED <<requests, fetches, contents, worker_queue, current_user, stream>>

Answered(r, ok, owner) ==
    [kind |-> "answer", request |-> r, ok |-> ok, owner |-> owner]

\* getTokenForcingRefresh: nil is answered when nobody is signed in, otherwise
\* the current FIRUser serves the request.
GetTokenForcingRefresh ==
    /\ requests # <<>>
    /\ requests' = Tail(requests)
    /\ LET r == Head(requests)
       IN  IF auth.object = 0
           THEN /\ main_queue' = Append(main_queue, Answered(r, TRUE, nobody))
                /\ UNCHANGED fetches
           ELSE /\ fetches' = Append(fetches, [request |-> r, from |-> auth])
                /\ UNCHANGED main_queue
    /\ UNCHANGED <<auth, contents, worker_queue, current_user, stream, events>>

\* Each FIRUser serves its requests one after the other.
FirstOfItsUser(k) ==
    /\ k \in DOMAIN fetches
    /\ \A j \in 1..(k - 1) : fetches[j].from # fetches[k].from

\* Request k has been served.
Served(k) ==
    fetches' = SubSeq(fetches, 1, k - 1) \o SubSeq(fetches, k + 1, Len(fetches))

\* internalGetTokenForcingRefresh, with a token that is still valid.
TokenCached(k) ==
    /\ FirstOfItsUser(k)
    /\ Served(k)
    /\ LET f == fetches[k]
       IN  main_queue' = Append(main_queue, Answered(f.request, TRUE, f.from.user))
    /\ UNCHANGED <<auth, requests, contents, worker_queue, current_user, stream,
                   events>>

\* internalGetTokenForcingRefresh, with a token that was refreshed. The change
\* is posted if the FIRUser is still the current one (updateKeychainWithUser),
\* and before the answer.
TokenRefreshed(k) ==
    /\ FirstOfItsUser(k)
    /\ Served(k)
    /\ LET f == fetches[k]
           answer == <<Answered(f.request, TRUE, f.from.user)>>
       IN  IF f.from = auth THEN UpdateCurrentUser(auth, answer)
           ELSE main_queue' = main_queue \o answer /\ UNCHANGED <<auth, events>>
    /\ UNCHANGED <<requests, contents, worker_queue, current_user, stream>>

\* Mutant: the callback is not called.
TokenError_Silent(k) ==
    /\ FirstOfItsUser(k)
    /\ Served(k)
    /\ events < MaxEvents
    /\ events' = events + 1
    /\ UNCHANGED <<auth, requests, main_queue, contents, worker_queue, current_user,
                   stream>>

\* internalGetTokenForcingRefresh, with an error; when it says that the token
\* is not valid, the FIRUser is signed out if it is still the current one.
TokenError(k) ==
    /\ FirstOfItsUser(k)
    /\ Served(k)
    /\ LET f == fetches[k]
           answer == <<Answered(f.request, FALSE, f.from.user)>>
       IN  \/ f.from = auth /\ UpdateCurrentUser(Nil, answer)
           \/ /\ events < MaxEvents
              /\ events' = events + 1
              /\ main_queue' = main_queue \o answer
              /\ UNCHANGED auth
    /\ UNCHANGED <<requests, contents, worker_queue, current_user, stream>>

-----------------------------------------------------------------------------
(* FirebaseCredentialsProvider, on the main queue.                           *)

\* The observer of the notification: the change is passed on to the worker
\* queue.
AuthStateDidChange ==
    /\ main_queue # <<>>
    /\ Head(main_queue).kind = "notification"
    /\ main_queue' = Tail(main_queue)
    /\ LET user == Head(main_queue).user
       IN  /\ contents' = [current_user |-> user,
                           token_counter |-> contents.token_counter + 1]
           /\ worker_queue' = Append(worker_queue,
                                     [kind |-> "change", user |-> user])
    /\ UNCHANGED <<auth, requests, fetches, current_user, stream, events>>

\* The result GetToken's callback completes with: an error when the token
\* counter has changed since the request, otherwise the token, tagged with the
\* user the provider knows.
Tagged(a) ==
    [kind |-> "resume", request |-> a.request,
     ok |-> a.ok /\ a.request.counter = contents.token_counter,
     owner |-> a.owner,
     tag |-> IF a.owner = nobody THEN nobody ELSE contents.current_user]

TokenCallback ==
    /\ main_queue # <<>>
    /\ Head(main_queue).kind = "answer"
    /\ main_queue' = Tail(main_queue)
    /\ worker_queue' = Append(worker_queue, Tagged(Head(main_queue)))
    /\ UNCHANGED <<auth, requests, fetches, contents, current_user, stream, events>>

\* A block of the app.
RunBlock ==
    /\ main_queue # <<>>
    /\ Head(main_queue).kind = "block"
    /\ main_queue' = Tail(main_queue)
    /\ UNCHANGED <<auth, requests, fetches, contents, worker_queue, current_user,
                   stream, events>>

-----------------------------------------------------------------------------
(* SyncEngine, RemoteStore and Stream, on the worker queue.                  *)

\* GetToken, called when the close count is c; the token counter is read here.
GetToken(c) ==
    requests' = Append(requests, [close |-> c,
                                  counter |-> contents.token_counter])

\* Stream::Start. A stream that has failed backs off first, with no request
\* under way; the backoff is part of this step.
Start(s) ==
    /\ stream' = [s EXCEPT !.state = "Starting", !.token = nobody]
    /\ GetToken(s.close_count)

\* Stream::Close.
Closed(state) ==
    [stream EXCEPT !.state = state, !.token = nobody, !.close_count = @ + 1]

IsStarted == stream.state \in {"Starting", "Open"}

\* Something is to be listened to or written (AddToWritePipeline,
\* RemoteStore::Listen, OnWriteStreamClose).
StartStream ==
    /\ ~IsStarted
    /\ Start(stream)
    /\ UNCHANGED <<auth, fetches, main_queue, contents, worker_queue, current_user,
                   events>>

\* The connection breaks, or the stream is stopped when idle.
StreamEnds ==
    /\ stream.state = "Open"
    /\ events < MaxEvents
    /\ events' = events + 1
    /\ \E state \in {"Initial", "Error"} : stream' = Closed(state)
    /\ UNCHANGED <<auth, requests, fetches, main_queue, contents, worker_queue,
                   current_user>>

\* Mutant: the user is not passed on.
HandleCredentialChange_SameUser ==
    /\ worker_queue # <<>>
    /\ Head(worker_queue).kind = "change"
    /\ worker_queue' = Tail(worker_queue)
    /\ LET stopped == IF IsStarted THEN Closed("Initial") ELSE stream
       IN  \/ Start(stopped)
           \/ stream' = stopped /\ UNCHANGED requests
    /\ UNCHANGED <<auth, fetches, main_queue, contents, current_user, events>>

\* Mutant: a stream that is already open stays as it is.
HandleCredentialChange_KeepsStream ==
    /\ worker_queue # <<>>
    /\ Head(worker_queue).kind = "change"
    /\ worker_queue' = Tail(worker_queue)
    /\ current_user' = Head(worker_queue).user
    /\ IF IsStarted THEN UNCHANGED <<stream, requests>> ELSE Start(stream)
    /\ UNCHANGED <<auth, fetches, main_queue, contents, events>>

\* SyncEngine::HandleCredentialChange: the stream is stopped, and started
\* again if it is needed.
HandleCredentialChange ==
    /\ worker_queue # <<>>
    /\ Head(worker_queue).kind = "change"
    /\ worker_queue' = Tail(worker_queue)
    /\ current_user' = Head(worker_queue).user
    /\ LET stopped == IF IsStarted THEN Closed("Initial") ELSE stream
       IN  \/ Start(stopped)
           \/ stream' = stopped /\ UNCHANGED requests
    /\ UNCHANGED <<auth, fetches, main_queue, contents, events>>

\* Stream::ResumeStartWithCredentials: the stream is open with the token it was
\* given, or has failed.
ResumeStartWithCredentials(r) ==
    stream' = IF r.ok THEN [stream EXCEPT !.state = "Open", !.token = r.owner]
              ELSE Closed("Error")

\* The rest of RequestCredentials: nothing, if the stream has been closed since
\* the request.
ResumeStream ==
    /\ worker_queue # <<>>
    /\ Head(worker_queue).kind = "resume"
    /\ worker_queue' = Tail(worker_queue)
    /\ LET r == Head(worker_queue)
       IN  IF r.request.close = stream.close_count
           THEN ResumeStartWithCredentials(r)
           ELSE UNCHANGED stream
    /\ UNCHANGED <<auth, requests, fetches, main_queue, contents, current_user,
                   events>>

-----------------------------------------------------------------------------
\* The start of the process: the keychain may hold a user, whose loading is
\* posted; the provider reads the user without waiting for it.
InitWith(stored) ==
    /\ auth = stored
    /\ requests = <<>>
    /\ fetches = <<>>
    /\ main_queue = IF stored = Nil THEN <<>> ELSE <<Posted(stored.user)>>
    /\ \E user \in {nobody, stored.user} :
        /\ contents = [current_user |-> user, token_counter |-> 0]
        /\ current_user = user
    /\ worker_queue = <<>>
    /\ stream = [state |-> "Initial", close_count |-> 0, token |-> nobody]
    /\ events = stored.object

Stored == {Nil} \cup {[object |-> 1, user |-> u] : u \in Users \ {nobody}}

Init == \E stored \in Stored : InitWith(stored)

\* What the client and FIRAuth do by themselves.
Background ==
    \/ AutoTokenRefresh
    \/ GetTokenForcingRefresh
    \/ \E k \in DOMAIN fetches :
            TokenCached(k) \/ TokenRefreshed(k) \/ TokenError(k)
    \/ AuthStateDidChange
    \/ TokenCallback
    \/ StartStream
    \/ StreamEnds
    \/ HandleCredentialChange
    \/ ResumeStream

Next ==
    \/ \E user \in Users \ {nobody} : SignIn(user)
    \/ SignOut
    \/ RunBlock
    \/ Background

Spec == Init /\ [][Next]_credVars

-----------------------------------------------------------------------------
(* Properties.                                                               *)

CredTypeOK ==
    /\ auth \in AuthUser
    /\ requests \in Seq(Request)
    /\ fetches \in Seq(Fetch)
    /\ main_queue \in Seq(Notification \cup Answer \cup Block)
    /\ contents \in [current_user : Users, token_counter : Nat]
    /\ worker_queue \in Seq(Change \cup Resume)
    /\ current_user \in Users
    /\ stream \in [state : StreamState, close_count : Nat, token : Users]
    /\ events \in 0..MaxEvents

\* An open stream presents a token of the user whose writes SyncEngine sends on
\* it. Otherwise one account's writes would be sent with another's credentials:
\* the change and the token take different ways to the worker queue. A token is
\* on its way with the account it is of, however many sign-ins, sign-outs and
\* refreshes happen while it is fetched: the tag is taken when the answer arrives
\* ("which user, we can't be sure").
StreamTokenCurrent ==
    /\ stream.state = "Open" => stream.token = current_user
    /\ \A k \in DOMAIN worker_queue :
            LET r == worker_queue[k]
            IN  r.kind = "resume" /\ r.ok => r.tag = r.owner

\* No change of the signed-in user is lost or overtaken on its way: whoever Auth
\* has signed in is the last user posted to the main queue, or the one the
\* provider knows, which is the last one on the worker queue, or SyncEngine's.
LastUser(queue, kind, known) ==
    LET of == {k \in DOMAIN queue : queue[k].kind = kind}
    IN  IF of = {} THEN known
        ELSE queue[CHOOSE k \in of : \A j \in of : j <= k].user

SyncFollowsAuth ==
    /\ LastUser(main_queue, "notification", contents.current_user) = auth.user
    /\ LastUser(worker_queue, "change", current_user) = contents.current_user

\* A stream never waits for a token nobody will bring: while it is starting, its
\* own request is on one of the queues, although answers are dropped whenever
\* the user or the token has changed. And only while it is: when the token
\* arrives, "State should still be 'Starting'" (Stream::ResumeStartWithCredentials).
StartHasRequest ==
    (stream.state = "Starting") <=>
        \/ \E k \in DOMAIN requests : requests[k].close = stream.close_count
        \/ \E k \in DOMAIN fetches : fetches[k].request.close = stream.close_count
        \/ \E k \in DOMAIN main_queue :
                /\ main_queue[k].kind = "answer"
                /\ main_queue[k].request.close = stream.close_count
        \/ \E k \in DOMAIN worker_queue :
                /\ worker_queue[k].kind = "resume"
                /\ worker_queue[k].request.close = stream.close_count
=============================================================================
