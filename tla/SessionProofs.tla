---------------------------- MODULE SessionProofs ----------------------------
(***************************************************************************)
(* Proofs about Session, for any accounts and any bounds: what Credentials  *)
(* promises holds under the app too, each cover on the window is accounted  *)
(* for, and unless a late answer has dismissed a screen of its own there is *)
(* one user listener, the one that signing out removes.                     *)
(***************************************************************************)
EXTENDS Session, CredentialsProofs

-----------------------------------------------------------------------------
(* The inductive invariant.                                                 *)

Last(s) == s[Len(s)]

\* What each screen is presented from.
Shape(s) ==
    /\ s # << >>
    /\ \A k \in 2 .. Len(s) :
        /\ s[k] = "join" => s[k - 1] = "login"
        /\ s[k] = "popup" => s[k - 1] \in {"tabs", "popup"}

\* With the stack s, listeners ls and ul the one kept, Auth's user a, the sign-in
\* sg, and p while the login screen is being presented: in front of the tabs there
\* is no listener, at the tabs the one of whoever is signed in, and a sign-in is
\* under way only on the screen it was started from.
Fits(s, ls, ul, a, sg, p) ==
    /\ \A l \in ls : l.id = ul
    /\ Last(s) \in {"login", "join"} /\ ~p => ls = {}
    /\ Last(s) \in {"tabs", "popup"} /\ a.object # 0 =>
            [id |-> ul, user |-> a.user] \in ls
    /\ sg \in {"consent", "google", "login"} => Last(s) = "login"
    /\ sg = "join" => Last(s) = "join"
    /\ p => Last(s) = "login"

\* The cover of what is under way is the one dismissLoadingScreen would remove.
Covered(ld, ab, p, sg) ==
    /\ ld.covers = ab + (IF p \/ sg \in Method THEN 1 ELSE 0)
    /\ p \/ sg \in Method => ld.current
    /\ p => sg = "none"

\* A sign-in is answered once, and only while it is under way.
Outcome == [kind : {"block"}, name : {"signedIn", "failed"}]

Outcomes(mq, sg) == Single(mq, Outcome) /\ (sg \notin Method => Absent(mq, Outcome))

SessionInv ==
    /\ CredInv
    /\ TypeOK
    /\ Shape(stack)
    /\ misdirected = 0 => Fits(stack, listeners, userListener, auth, signing, presenting)
    /\ Covered(loading, abandoned, presenting, signing)
    /\ Outcomes(main_queue, signing)

ScreensTyped(s, ls, ul, rg) ==
    s \in Seq(Screen) /\ ls \in SUBSET Listener /\ ul \in Nat /\ rg \in Nat

SessionParts ==
    /\ Shape(stack) /\ ScreensTyped(stack, listeners, userListener, registered)
    /\ misdirected = 0 => Fits(stack, listeners, userListener, auth, signing, presenting)
    /\ Covered(loading, abandoned, presenting, signing)
    /\ Outcomes(main_queue, signing)
    /\ loading \in [covers : Nat, current : BOOLEAN]
    /\ signing \in Method \cup {"none", "consent"} /\ presenting \in BOOLEAN
    /\ currentUser \in Users /\ invites \in [Users -> Nat] /\ sheetHides \in BOOLEAN
    /\ known \in SUBSET Users /\ sent \in 0 .. MaxInvites
    /\ abandoned \in Nat /\ misdirected \in Nat

LEMMA SessionKnown ==
    ASSUME SessionInv
    PROVE  CredInv /\ SessionParts
BY DEF SessionInv, TypeOK, ScreensTyped, SessionParts

\* The parts of the invariant in the next state.
LEMMA SessionAssembled ==
    ASSUME CredInv', Shape(stack'),
           ScreensTyped(stack', listeners', userListener', registered'),
           misdirected' = 0 =>
                Fits(stack', listeners', userListener', auth', signing', presenting'),
           Covered(loading', abandoned', presenting', signing'),
           Outcomes(main_queue', signing'),
           loading' \in [covers : Nat, current : BOOLEAN],
           signing' \in Method \cup {"none", "consent"}, presenting' \in BOOLEAN,
           currentUser' \in Users, invites' \in [Users -> Nat], sheetHides' \in BOOLEAN,
           known' \in SUBSET Users, sent' \in 0 .. MaxInvites,
           abandoned' \in Nat, misdirected' \in Nat
    PROVE  SessionInv'
<1>1. CredTypeOK'
    BY DEF CredInv
<1>2. TypeOK'
    BY <1>1 DEF TypeOK, ScreensTyped
<1>3. Shape(stack)'
    BY DEF Shape
<1>4. (misdirected = 0 => Fits(stack, listeners, userListener, auth, signing, presenting))'
    BY DEF Fits, Last
<1>5. Covered(loading, abandoned, presenting, signing)'
    BY DEF Covered
<1>6. Outcomes(main_queue, signing)'
    BY DEF Outcomes, Single, Absent
<1> QED BY <1>2, <1>3, <1>4, <1>5, <1>6 DEF SessionInv

-----------------------------------------------------------------------------
(* The stack of screens.                                                    *)

LEMMA TopOfStack ==
    ASSUME NEW s \in Seq(Screen), Shape(s)
    PROVE  /\ Len(s) \in Nat \ {0} /\ DOMAIN s = 1 .. Len(s)
           /\ Last(s) \in Screen /\ Last(s) \in {"login", "join", "tabs", "popup"}
<1>1. Len(s) \in Nat \ {0} /\ DOMAIN s = 1 .. Len(s)
    BY DEF Shape
<1>2. Len(s) \in 1 .. Len(s)
    BY <1>1
<1>3. Last(s) \in Screen
    BY <1>2, ElementOfSeq DEF Last
<1> QED BY <1>1, <1>3 DEF Screen

LEMMA Pushed ==
    ASSUME NEW s \in Seq(Screen), Shape(s), NEW x \in Screen,
           x = "join" => Last(s) = "login",
           x = "popup" => Last(s) \in {"tabs", "popup"}
    PROVE  /\ Append(s, x) \in Seq(Screen) /\ Shape(Append(s, x))
           /\ Last(Append(s, x)) = x
<1> DEFINE r == Append(s, x)
<1>1. /\ r \in Seq(Screen) /\ Len(s) \in Nat \ {0} /\ Len(r) = Len(s) + 1
      /\ \A i \in 1 .. Len(s) : r[i] = s[i]
      /\ r[Len(s) + 1] = x
    BY TopOfStack, AppendRows
<1> HIDE DEF r
<1>2. r # << >>
    BY <1>1
<1>3. ASSUME NEW k \in 2 .. Len(r)
      PROVE  /\ r[k] = "join" => r[k - 1] = "login"
             /\ r[k] = "popup" => r[k - 1] \in {"tabs", "popup"}
    <2>1. CASE k = Len(s) + 1
        <3>1. k - 1 = Len(s) /\ k - 1 \in 1 .. Len(s)
            BY <1>1, <2>1
        <3>2. r[k] = x /\ r[k - 1] = Last(s)
            BY <1>1, <2>1, <3>1 DEF Last
        <3> QED BY <3>2
    <2>2. CASE k \in 2 .. Len(s)
        <3>1. k \in 1 .. Len(s) /\ k - 1 \in 1 .. Len(s)
            BY <1>1, <2>2
        <3>2. r[k] = s[k] /\ r[k - 1] = s[k - 1]
            BY <1>1, <3>1
        <3> QED BY <2>2, <3>2 DEF Shape
    <2> QED BY <1>1, <2>1, <2>2
<1>4. Last(r) = x
    BY <1>1 DEF Last
<1> QED BY <1>1, <1>2, <1>3, <1>4 DEF Shape, r

LEMMA Popped ==
    ASSUME NEW s \in Seq(Screen), Shape(s), Len(s) # 1
    PROVE  /\ Without(s) \in Seq(Screen) /\ Shape(Without(s))
           /\ Last(s) = "join" => Last(Without(s)) = "login"
           /\ Last(s) = "popup" => Last(Without(s)) \in {"tabs", "popup"}
           /\ Last(Without(s)) = Without(s)[Len(Without(s))]
<1> DEFINE r == Without(s)
           L == Len(s)
<1>1. L \in Nat \ {0, 1} /\ DOMAIN s = 1 .. L
    BY TopOfStack
<1>2. /\ r \in Seq(Screen) /\ Len(r) = L - 1
      /\ \A i \in 1 .. (L - 1) : r[i] = s[i]
    BY <1>1 DEF Without
<1> HIDE DEF r
<1>3. r # << >>
    BY <1>1, <1>2
<1>4. ASSUME NEW k \in 2 .. Len(r)
      PROVE  /\ r[k] = "join" => r[k - 1] = "login"
             /\ r[k] = "popup" => r[k - 1] \in {"tabs", "popup"}
    <2>1. k \in 1 .. (L - 1) /\ k - 1 \in 1 .. (L - 1) /\ k \in 2 .. L
        BY <1>1, <1>2
    <2>2. r[k] = s[k] /\ r[k - 1] = s[k - 1]
        BY <1>2, <2>1
    <2> QED BY <2>1, <2>2 DEF Shape
<1>5. Last(r) = s[L - 1] /\ L \in 2 .. L
    <2>1. L - 1 \in 1 .. (L - 1) /\ L \in 2 .. L
        BY <1>1
    <2> QED BY <1>2, <2>1 DEF Last
<1>6. /\ Last(s) = "join" => Last(r) = "login"
      /\ Last(s) = "popup" => Last(r) \in {"tabs", "popup"}
    BY <1>5 DEF Shape, Last
<1>7. Last(r) = r[Len(r)]
    BY DEF Last
<1> QED BY <1>2, <1>3, <1>4, <1>6, <1>7 DEF Shape, r
-----------------------------------------------------------------------------
(* The user listener.                                                       *)

ListenersAre(s, ls, ul) ==
    /\ \A l \in ls : l.id = ul
    /\ auth.object # 0 => [id |-> ul, user |-> auth.user] \in ls

LEMMA Configured ==
    ASSUME auth \in AuthUser, listeners \in SUBSET Listener, userListener \in Nat,
           registered \in Nat, ConfigureUserListener
    PROVE  /\ listeners' \in SUBSET Listener /\ userListener' \in Nat /\ registered' \in Nat
           /\ listeners = {} => ListenersAre(stack, listeners', userListener')
<1>1. CASE auth.object = 0
    BY <1>1 DEF ConfigureUserListener, ListenersAre
<1>2. CASE auth.object # 0
    <2>1. /\ registered' = registered + 1 /\ userListener' = registered'
          /\ listeners' = listeners \cup {[id |-> registered', user |-> auth.user]}
        BY <1>2 DEF ConfigureUserListener
    <2>2. [id |-> registered', user |-> auth.user] \in Listener /\ registered' \in Nat
        BY <2>1 DEF Listener, AuthUser
    <2> QED BY <2>1, <2>2 DEF ListenersAre
<1> QED BY <1>1, <1>2

\* The tabs are shown, for the first time since there was no listener.
LEMMA TabsFit ==
    ASSUME NEW s, Last(s) = "tabs", NEW ls, NEW ul, ListenersAre(s, ls, ul)
    PROVE  Fits(s, ls, ul, auth, "none", FALSE)
BY DEF Fits, ListenersAre

LEMMA Appeared ==
    ASSUME auth \in AuthUser, ScreensTyped(stack, listeners, userListener, registered),
           NEW s \in Seq(Screen), Shape(s), ViewDidAppear(s)
    PROVE  /\ ScreensTyped(stack', listeners', userListener', registered') /\ Shape(stack')
           /\ Last(s) = "login" /\ listeners = {} =>
                Fits(stack', listeners', userListener', auth, "none", FALSE)
<1>1. CASE s[Len(s)] = "login" /\ auth.object # 0
    <2>1. stack' = Append(s, "tabs") /\ ConfigureUserListener
        BY <1>1 DEF ViewDidAppear
    <2>2. "tabs" \in Screen
        BY DEF Screen
    <2>3. stack' \in Seq(Screen) /\ Shape(stack') /\ Last(stack') = "tabs"
        BY <2>1, <2>2, Pushed
    <2>4. /\ listeners' \in SUBSET Listener /\ userListener' \in Nat /\ registered' \in Nat
          /\ listeners = {} => ListenersAre(stack, listeners', userListener')
        BY <2>1, Configured DEF ScreensTyped
    <2>5. listeners = {} => ListenersAre(stack', listeners', userListener')
        BY <2>4 DEF ListenersAre
    <2> QED BY <2>3, <2>4, <2>5, TabsFit DEF ScreensTyped
<1>2. CASE ~(s[Len(s)] = "login" /\ auth.object # 0)
    <2>1. stack' = s /\ UNCHANGED <<listeners, userListener, registered>>
        BY <1>2 DEF ViewDidAppear
    <2>2. Last(s) = "login" /\ listeners = {} =>
            Fits(s, listeners, userListener, auth, "none", FALSE)
        BY DEF Fits
    <2> QED BY <2>1, <2>2 DEF ScreensTyped
<1> QED BY <1>1, <1>2

LEMMA Dismissed ==
    ASSUME auth \in AuthUser, ScreensTyped(stack, listeners, userListener, registered),
           Shape(stack), Dismiss, NEW sg
    PROVE  /\ ScreensTyped(stack', listeners', userListener', registered') /\ Shape(stack')
           /\ Top \in {"join", "popup"}
                /\ Fits(stack, listeners, userListener, auth, sg, FALSE) =>
                Fits(stack', listeners', userListener', auth, "none", FALSE)
<1>1. Top = Last(stack) /\ stack \in Seq(Screen)
    BY DEF Top, Last, ScreensTyped
<1>2. CASE Len(stack) = 1
    <2>1. UNCHANGED <<stack, listeners, userListener, registered>>
        BY <1>2 DEF Dismiss
    <2>2. ASSUME Fits(stack, listeners, userListener, auth, sg, FALSE)
          PROVE  Fits(stack, listeners, userListener, auth, "none", FALSE)
        BY <2>2 DEF Fits
    <2> QED BY <2>1, <2>2
<1>3. CASE Len(stack) # 1
    <2>1. /\ Without(stack) \in Seq(Screen) /\ Shape(Without(stack))
          /\ Last(stack) = "join" => Last(Without(stack)) = "login"
          /\ Last(stack) = "popup" => Last(Without(stack)) \in {"tabs", "popup"}
        BY <1>1, <1>3, Popped
    <2>2. ASSUME Fits(stack, listeners, userListener, auth, sg, FALSE), Top = "join"
          PROVE  listeners = {} /\ Last(Without(stack)) = "login"
        BY <1>1, <2>1, <2>2 DEF Fits
    <2>3. ASSUME Fits(stack, listeners, userListener, auth, sg, FALSE), Top = "popup"
          PROVE  Fits(Without(stack), listeners, userListener, auth, "none", FALSE)
        BY <1>1, <2>1, <2>3 DEF Fits
    <2>4. CASE Top = "tabs" \/ (Top = "join" /\ sheetHides)
        <3>1. ViewDidAppear(Without(stack))
            BY <1>3, <2>4 DEF Dismiss
        <3>2. /\ ScreensTyped(stack', listeners', userListener', registered') /\ Shape(stack')
              /\ Last(Without(stack)) = "login" /\ listeners = {} =>
                    Fits(stack', listeners', userListener', auth, "none", FALSE)
            BY <2>1, <3>1, Appeared
        <3>3. Top # "popup"
            BY <2>4
        <3> QED BY <2>2, <3>2, <3>3
    <2>5. CASE ~(Top = "tabs" \/ (Top = "join" /\ sheetHides))
        <3>1. stack' = Without(stack) /\ UNCHANGED <<listeners, userListener, registered>>
            BY <1>3, <2>5 DEF Dismiss
        <3>2. ScreensTyped(stack', listeners', userListener', registered') /\ Shape(stack')
            BY <2>1, <3>1 DEF ScreensTyped
        <3>3. ASSUME Top \in {"join", "popup"},
                     Fits(stack, listeners, userListener, auth, sg, FALSE)
              PROVE  Fits(stack', listeners', userListener', auth, "none", FALSE)
            <4>1. CASE Top = "join"
                <5>1. listeners' = {} /\ Last(stack') \in {"login", "join"}
                    BY <2>2, <3>1, <3>3, <4>1
                <5> QED BY <5>1 DEF Fits
            <4>2. CASE Top = "popup"
                <5>1. Fits(Without(stack), listeners, userListener, auth, "none", FALSE)
                    BY <2>3, <3>3, <4>2
                <5> QED BY <3>1, <5>1
            <4> QED BY <3>3, <4>1, <4>2
        <3> QED BY <3>2, <3>3
    <2> QED BY <2>4, <2>5
<1> QED BY <1>2, <1>3

LEMMA Authenticated ==
    ASSUME auth \in AuthUser, ScreensTyped(stack, listeners, userListener, registered),
           Shape(stack), DidAuthenticate, NEW sg
    PROVE  /\ ScreensTyped(stack', listeners', userListener', registered') /\ Shape(stack')
           /\ Top = "login" /\ Fits(stack, listeners, userListener, auth, sg, FALSE) =>
                Fits(stack', listeners', userListener', auth, "none", FALSE)
<1>1. Top = Last(stack) /\ stack \in Seq(Screen) /\ "tabs" \in Screen
    BY DEF Top, Last, ScreensTyped, Screen
<1>2. /\ stack' = (IF Top = "login" THEN Append(stack, "tabs") ELSE stack)
      /\ ConfigureUserListener
    BY DEF DidAuthenticate
<1>3. /\ listeners' \in SUBSET Listener /\ userListener' \in Nat /\ registered' \in Nat
      /\ listeners = {} => ListenersAre(stack, listeners', userListener')
    BY <1>2, Configured DEF ScreensTyped
<1>4. /\ Append(stack, "tabs") \in Seq(Screen) /\ Shape(Append(stack, "tabs"))
      /\ Last(Append(stack, "tabs")) = "tabs"
    BY <1>1, Pushed
<1>5. ScreensTyped(stack', listeners', userListener', registered') /\ Shape(stack')
    BY <1>1, <1>2, <1>3, <1>4 DEF ScreensTyped
<1>6. ASSUME Top = "login", Fits(stack, listeners, userListener, auth, sg, FALSE)
      PROVE  Fits(stack', listeners', userListener', auth, "none", FALSE)
    <2>1. listeners = {}
        BY <1>1, <1>6 DEF Fits
    <2>2. Last(stack') = "tabs"
        BY <1>2, <1>4, <1>6
    <2>3. ListenersAre(stack', listeners', userListener')
        BY <1>3, <2>1 DEF ListenersAre
    <2> QED BY <2>2, <2>3, TabsFit
<1> QED BY <1>5, <1>6

-----------------------------------------------------------------------------
(* Blocks of the sign-ins on the main queue.                                *)

\* From q to r the blocks that answer a sign-in stay.
SameOutcomes(q, r) ==
    Single(q, Outcome) =>
        Single(r, Outcome) /\ (Absent(r, Outcome) <=> Absent(q, Outcome))

LEMMA OutcomeIsBlock ==
    ASSUME NEW x \in Outcome
    PROVE  x.kind = "block" /\ x.name \in {"signedIn", "failed"}
BY DEF Outcome

LEMMA OtherAdded ==
    ASSUME NEW q \in Seq(MainItem), NEW x \in MainItem, x \notin Outcome
    PROVE  SameOutcomes(q, Append(q, x))
BY AppendPresence DEF SameOutcomes

LEMMA OtherTaken ==
    ASSUME NEW q \in Seq(MainItem), q # << >>, Head(q) \notin Outcome
    PROVE  SameOutcomes(q, Tail(q))
BY TailPresence DEF SameOutcomes

LEMMA AnswerItem ==
    ASSUME CredInv, NEW k \in DOMAIN fetches, NEW ok \in BOOLEAN
    PROVE  /\ Answered(fetches[k].request, ok, fetches[k].from.user) \in MainItem
           /\ Answered(fetches[k].request, ok, fetches[k].from.user) \notin Outcome
<1>1. fetches[k] \in Fetch
    BY NothingPlaced, LenProperties, ElementOfSeq
<1>2. fetches[k].request \in Request /\ fetches[k].from.user \in Users
    BY <1>1, Items
<1>3. Answered(fetches[k].request, ok, fetches[k].from.user) \in MainItem
    BY <1>2 DEF Answered, Answer, MainItem
<1>4. Answered(fetches[k].request, ok, fetches[k].from.user) \notin Outcome
    BY OutcomeIsBlock DEF Answered
<1> QED BY <1>3, <1>4

LEMMA UserPosted ==
    ASSUME CredInv, NEW new \in AuthUser
    PROVE  /\ Append(main_queue, Posted(new.user)) \in Seq(MainItem)
           /\ SameOutcomes(main_queue, Append(main_queue, Posted(new.user)))
<1>1. Posted(new.user) \in MainItem /\ Posted(new.user).kind = "notification"
    BY Items DEF Posted, MainItem, Notification
<1>2. Posted(new.user) \notin Outcome
    BY <1>1, OutcomeIsBlock
<1> QED BY <1>1, <1>2, NothingPlaced, OtherAdded, AppendRows

LEMMA UpdateOutcomes ==
    ASSUME CredInv, NEW new \in AuthUser, NEW x \in MainItem, x \notin Outcome,
           NEW blocks \in {<< >>, <<x>>}, UpdateCurrentUser(new, blocks)
    PROVE  SameOutcomes(main_queue, main_queue') /\ auth' = new
<1> DEFINE posted == Append(main_queue, Posted(new.user))
<1>1. main_queue' = posted \o blocks /\ auth' = new
    BY DEF UpdateCurrentUser
<1>2. posted \in Seq(MainItem) /\ SameOutcomes(main_queue, posted)
    BY UserPosted
<1> HIDE DEF posted
<1>3. main_queue' = posted \/ main_queue' = Append(posted, x)
    BY <1>1, <1>2, Following
<1>4. SameOutcomes(posted, Append(posted, x))
    BY <1>2, OtherAdded
<1>5. SameOutcomes(main_queue, Append(posted, x))
    BY <1>2, <1>4 DEF SameOutcomes
<1> QED BY <1>1, <1>2, <1>3, <1>5

LEMMA BackgroundOutcomes ==
    ASSUME CredInv, Background
    PROVE  /\ SameOutcomes(main_queue, main_queue')
           /\ auth' = auth \/ auth'.object = 0
<1> DEFINE done == SameOutcomes(main_queue, main_queue') /\ (auth' = auth \/ auth'.object = 0)
<1>1. Nil \in AuthUser /\ Nil.object = 0 /\ auth \in AuthUser /\ main_queue \in Seq(MainItem)
    BY NothingPlaced, NobodyAssumption DEF Nil, AuthUser
<1>2. SameOutcomes(main_queue, main_queue)
    BY DEF SameOutcomes
<1>3. ASSUME UNCHANGED <<auth, main_queue>>
      PROVE  done
    BY <1>2, <1>3
<1>4. ASSUME AutoTokenRefresh
      PROVE  done
    <2> DEFINE x == [kind |-> "block", name |-> "answered"]
    <2>1. PICK new \in {auth, Nil} : UpdateCurrentUser(new, << >>)
        BY <1>4 DEF AutoTokenRefresh
    <2>2. x \in MainItem /\ x \notin Outcome
        BY BlockItem DEF Outcome
    <2> HIDE DEF x
    <2>3. SameOutcomes(main_queue, main_queue') /\ auth' = new
        BY <1>1, <2>1, <2>2, UpdateOutcomes
    <2> QED BY <1>1, <2>1, <2>3
<1>5. ASSUME GetTokenForcingRefresh
      PROVE  done
    <2> DEFINE x == Answered(Head(requests), TRUE, nobody)
    <2>1. /\ requests # << >> /\ auth' = auth
          /\ main_queue' = main_queue \/ main_queue' = Append(main_queue, x)
        BY <1>5 DEF GetTokenForcingRefresh
    <2>2. Head(requests) \in Request
        BY <2>1, NothingPlaced, TailRows, ElementOfSeq
    <2>3. x \in MainItem /\ x \notin Outcome
        BY <2>2, NobodyAssumption, OutcomeIsBlock DEF Answered, Answer, MainItem
    <2> HIDE DEF x
    <2> QED BY <1>1, <1>2, <2>1, <2>3, OtherAdded
<1>6. ASSUME NEW k \in DOMAIN fetches, TokenCached(k) \/ TokenRefreshed(k) \/ TokenError(k)
      PROVE  done
    <2>1. PICK ok \in BOOLEAN :
            LET x == Answered(fetches[k].request, ok, fetches[k].from.user)
            IN  \/ auth' = auth /\ main_queue' = Append(main_queue, x)
                \/ auth' = auth /\ main_queue' = main_queue \o <<x>>
                \/ \E new \in {auth, Nil} : UpdateCurrentUser(new, <<x>>)
        BY <1>6 DEF TokenCached, TokenRefreshed, TokenError
    <2> DEFINE x == Answered(fetches[k].request, ok, fetches[k].from.user)
    <2>2. x \in MainItem /\ x \notin Outcome
        BY AnswerItem
    <2> HIDE DEF x
    <2>3. \/ auth' = auth /\ main_queue' = Append(main_queue, x)
          \/ \E new \in {auth, Nil} : UpdateCurrentUser(new, <<x>>)
        <3>1. main_queue \o <<x>> = Append(main_queue, x)
            BY <1>1, <2>2, Following
        <3> QED BY <2>1, <3>1 DEF x
    <2>4. ASSUME NEW new \in {auth, Nil}, UpdateCurrentUser(new, <<x>>)
          PROVE  done
        <3>1. SameOutcomes(main_queue, main_queue') /\ auth' = new
            BY <1>1, <2>2, <2>4, UpdateOutcomes
        <3> QED BY <1>1, <2>4, <3>1
    <2> QED BY <1>1, <2>2, <2>3, <2>4, OtherAdded
<1>7. ASSUME AuthStateDidChange \/ TokenCallback
      PROVE  done
    <2>1. /\ main_queue # << >> /\ Head(main_queue).kind # "block"
          /\ main_queue' = Tail(main_queue) /\ auth' = auth
        BY <1>7 DEF AuthStateDidChange, TokenCallback
    <2> QED BY <1>1, <2>1, OutcomeIsBlock, OtherTaken
<1>8. ASSUME StartStream \/ StreamEnds \/ HandleCredentialChange \/ ResumeStream
      PROVE  done
    <2>1. UNCHANGED <<auth, main_queue>>
        BY <1>8 DEF StartStream, StreamEnds, HandleCredentialChange, ResumeStream
    <2> QED BY <1>3, <2>1
<1> QED BY <1>4, <1>5, <1>6, <1>7, <1>8 DEF Background
\* The block that runs answers the sign-in under way, or is another one.
LEMMA BlockRun ==
    ASSUME CredInv, SessionParts, RunBlock
    PROVE  /\ CredInv' /\ auth' = auth
           /\ Head(main_queue).name \in {"signedIn", "failed"} =>
                signing \in Method /\ \A sg : Outcomes(main_queue', sg)
           /\ Head(main_queue).name = "answered" => Outcomes(main_queue', signing)
<1>1. /\ main_queue # << >> /\ Head(main_queue).kind = "block"
      /\ main_queue' = Tail(main_queue) /\ auth' = auth
    BY DEF RunBlock
<1>2. /\ main_queue \in Seq(MainItem) /\ Single(main_queue, Outcome)
      /\ signing \notin Method => Absent(main_queue, Outcome)
    BY NothingPlaced DEF SessionParts, Outcomes
<1>3. /\ Head(main_queue) \in MainItem /\ 1 \in DOMAIN main_queue
      /\ Head(main_queue) = main_queue[1]
    BY <1>1, <1>2, TailRows, ElementOfSeq
<1>4. Head(main_queue) \in Block
    BY <1>1, <1>3 DEF MainItem, Notification, Answer, Block
<1>5. /\ Single(Tail(main_queue), Outcome)
      /\ Head(main_queue) \in Outcome => Absent(Tail(main_queue), Outcome)
      /\ Head(main_queue) \notin Outcome =>
            (Absent(Tail(main_queue), Outcome) <=> Absent(main_queue, Outcome))
    BY <1>1, <1>2, TailPresence
<1>6. Head(main_queue).name \in {"signedIn", "failed"} <=> Head(main_queue) \in Outcome
    BY <1>4 DEF Block, Outcome
<1>7. ASSUME Head(main_queue) \in Outcome
      PROVE  signing \in Method /\ \A sg : Outcomes(main_queue', sg)
    BY <1>1, <1>2, <1>3, <1>5, <1>7 DEF Absent, Outcomes
<1>8. ASSUME Head(main_queue).name = "answered"
      PROVE  Outcomes(main_queue', signing)
    <2>1. Head(main_queue) \notin Outcome
        BY <1>6, <1>8
    <2> QED BY <1>1, <1>2, <1>5, <2>1 DEF Outcomes
<1>9. CredInv'
    BY RunBlockKept
<1> QED BY <1>1, <1>6, <1>7, <1>8, <1>9

-----------------------------------------------------------------------------
(* Steps.                                                                   *)

\* While the app can be touched nothing is under way, and no cover is left.
LEMMA Touched ==
    ASSUME SessionParts, Touchable
    PROVE  /\ loading.covers = 0 /\ presenting = FALSE /\ signing = "none"
           /\ abandoned = 0 /\ Absent(main_queue, Outcome) /\ Single(main_queue, Outcome)
BY DEF SessionParts, Touchable, Covered, Outcomes, Method

LEMMA StacksKnown ==
    ASSUME SessionParts
    PROVE  /\ Top = Last(stack) /\ stack \in Seq(Screen) /\ Shape(stack)
           /\ Top \in {"login", "join", "tabs", "popup"}
           /\ ScreensTyped(stack, listeners, userListener, registered)
<1>1. Top = Last(stack) /\ stack \in Seq(Screen) /\ Shape(stack)
    BY DEF Top, Last, SessionParts, ScreensTyped
<1> QED BY <1>1, TopOfStack DEF SessionParts

LEMMA BackgroundSession ==
    ASSUME CredInv, SessionParts, Background, UNCHANGED app
    PROVE  SessionInv'
<1>1. CredInv'
    BY BackgroundKept
<1>2. UNCHANGED <<stack, listeners, userListener, registered, currentUser, loading, abandoned,
                  invites, sent, misdirected, signing, presenting, sheetHides, known>>
    BY DEF app, screens, covers, invitations
<1>3. SameOutcomes(main_queue, main_queue') /\ (auth' = auth \/ auth'.object = 0)
    BY BackgroundOutcomes
<1>4. misdirected' = 0 =>
        Fits(stack', listeners', userListener', auth', signing', presenting')
    BY <1>2, <1>3 DEF SessionParts, Fits
<1>5. Outcomes(main_queue', signing')
    BY <1>2, <1>3 DEF SessionParts, Outcomes, SameOutcomes
<1> QED BY <1>1, <1>2, <1>4, <1>5, SessionAssembled DEF SessionParts

LEMMA SignInTappedSession ==
    ASSUME CredInv, SessionParts, NEW method \in {"login", "join"}, SignInTapped(method)
    PROVE  SessionInv'
<1>1. /\ Touchable /\ Top = method /\ loading' = ShowLoadingScreen /\ signing' = method
      /\ UNCHANGED credVars
      /\ UNCHANGED <<stack, listeners, userListener, registered, currentUser, abandoned,
                     invites, sent, misdirected, presenting, sheetHides, known>>
    BY DEF SignInTapped, screens, invitations
<1>2. CredInv' /\ auth' = auth /\ main_queue' = main_queue
    BY <1>1, UnchangedKept DEF credVars
<1>3. signing' \in Method /\ signing' \in Method \cup {"none", "consent"}
    BY <1>1 DEF Method
<1>4. loading' = [covers |-> 1, current |-> TRUE] /\ abandoned = 0 /\ presenting = FALSE
    <2>1. loading.covers = 0 /\ abandoned = 0 /\ presenting = FALSE
        BY <1>1, Touched
    <2> QED BY <1>1, <2>1 DEF ShowLoadingScreen
<1>5. Covered(loading', abandoned', presenting', signing')
    BY <1>1, <1>3, <1>4 DEF Covered
<1>6. misdirected' = 0 =>
        Fits(stack', listeners', userListener', auth', signing', presenting')
    BY <1>1, <1>2, StacksKnown DEF SessionParts, Fits
<1>7. Outcomes(main_queue', signing')
    BY <1>1, <1>2, <1>3, Touched DEF Outcomes
<1>8. loading' \in [covers : Nat, current : BOOLEAN]
    BY <1>4
<1> QED BY <1>1, <1>2, <1>3, <1>5, <1>6, <1>7, <1>8, SessionAssembled DEF SessionParts

LEMMA GoogleTappedSession ==
    ASSUME CredInv, SessionParts, GoogleTapped
    PROVE  SessionInv'
<1>1. /\ Touchable /\ Top = "login" /\ signing' = "consent"
      /\ UNCHANGED credVars
      /\ UNCHANGED <<stack, listeners, userListener, registered, currentUser, loading, abandoned,
                     invites, sent, misdirected, presenting, sheetHides, known>>
    BY DEF GoogleTapped, screens, covers, invitations
<1>2. CredInv' /\ auth' = auth /\ main_queue' = main_queue
    BY <1>1, UnchangedKept DEF credVars
<1>3. signing' \notin Method /\ signing' \in Method \cup {"none", "consent"}
    BY <1>1 DEF Method
<1>4. Covered(loading', abandoned', presenting', signing')
    BY <1>1, <1>3, Touched DEF Covered
<1>5. misdirected' = 0 =>
        Fits(stack', listeners', userListener', auth', signing', presenting')
    BY <1>1, <1>2, StacksKnown DEF SessionParts, Fits
<1>6. Outcomes(main_queue', signing')
    BY <1>1, <1>2, Touched DEF Outcomes
<1> QED BY <1>1, <1>2, <1>3, <1>4, <1>5, <1>6, SessionAssembled DEF SessionParts

LEMMA GoogleReturnsSession ==
    ASSUME CredInv, SessionParts, NEW ok \in BOOLEAN, GoogleReturns(ok)
    PROVE  SessionInv'
<1>1. /\ signing = "consent" /\ loading' = ShowLoadingScreen
      /\ signing' = (IF ok THEN "google" ELSE "none")
      /\ abandoned' = (IF ok THEN abandoned ELSE abandoned + 1)
      /\ UNCHANGED credVars
      /\ UNCHANGED <<stack, listeners, userListener, registered, currentUser,
                     invites, sent, misdirected, presenting, sheetHides, known>>
    BY DEF GoogleReturns, screens, invitations
<1>2. CredInv' /\ auth' = auth /\ main_queue' = main_queue
    BY <1>1, UnchangedKept DEF credVars
<1>3. /\ signing' \in {"google", "none"} /\ signing' \in Method \cup {"none", "consent"}
      /\ signing' \in Method <=> ok
      /\ signing \notin Method
    BY <1>1 DEF Method
<1>4. /\ loading.covers = abandoned /\ presenting = FALSE /\ loading.covers \in Nat
      /\ loading' = [covers |-> loading.covers + 1, current |-> TRUE] /\ abandoned \in Nat
    BY <1>1, <1>3 DEF SessionParts, Covered, ShowLoadingScreen
<1>5. /\ Covered(loading', abandoned', presenting', signing') /\ abandoned' \in Nat
      /\ loading' \in [covers : Nat, current : BOOLEAN]
    BY <1>1, <1>3, <1>4 DEF Covered
<1>6. misdirected' = 0 =>
        Fits(stack', listeners', userListener', auth', signing', presenting')
    BY <1>1, <1>2, <1>3 DEF SessionParts, Fits
<1>7. Outcomes(main_queue', signing')
    BY <1>2, <1>3 DEF SessionParts, Outcomes
<1> QED BY <1>1, <1>2, <1>3, <1>5, <1>6, <1>7, SessionAssembled DEF SessionParts

\* Until Auth has answered there is no block that says so.
LEMMA NotAnswered ==
    ASSUME SessionParts, AwaitsAuth
    PROVE  /\ signing \in Method /\ Absent(main_queue, Outcome)
           /\ presenting = FALSE
<1>1. Absent(main_queue, Outcome)
    BY OutcomeIsBlock DEF AwaitsAuth, Absent
<1>2. signing \in Method /\ presenting = FALSE
    BY DEF AwaitsAuth, SessionParts, Covered, Method
<1> QED BY <1>1, <1>2

LEMMA AuthSucceedsSession ==
    ASSUME CredInv, SessionParts, NEW user \in Users \ {nobody}, AuthSucceeds(user)
    PROVE  SessionInv'
<1> DEFINE x == [kind |-> "block", name |-> "signedIn"]
           new == NewUser(user)
           posted == Append(main_queue, Posted(new.user))
<1>1. /\ AwaitsAuth /\ SignIn(user) /\ known' = known \cup {user}
      /\ UNCHANGED <<stack, listeners, userListener, registered, currentUser, loading, abandoned,
                     invites, sent, misdirected, signing, presenting, sheetHides>>
    BY DEF AuthSucceeds, screens, covers, invitations
<1>2. CredInv'
    BY <1>1, SignInKept
<1>3. auth' = new /\ main_queue' = posted \o <<x>>
    BY <1>1 DEF SignIn, UpdateCurrentUser
<1>4. new \in AuthUser
    BY NothingPlaced DEF NewUser, AuthUser
<1>5. x \in MainItem
    BY BlockItem
<1>6. posted \in Seq(MainItem) /\ SameOutcomes(main_queue, posted)
    BY <1>4, UserPosted
<1> HIDE DEF x, new, posted
<1>7. main_queue' = Append(posted, x)
    BY <1>3, <1>5, <1>6, Following
<1>8. Outcomes(main_queue', signing')
    <2>1. Single(posted, Outcome) /\ Absent(posted, Outcome)
        BY <1>1, <1>6, NotAnswered DEF SessionParts, Outcomes, SameOutcomes
    <2>2. Single(Append(posted, x), Outcome)
        BY <1>5, <1>6, <2>1, AppendPresence
    <2> QED BY <1>1, <1>7, <2>2, NotAnswered DEF Outcomes
<1>9. misdirected' = 0 =>
        Fits(stack', listeners', userListener', auth', signing', presenting')
    BY <1>1, NotAnswered DEF SessionParts, Fits, Method
<1>10. known' \in SUBSET Users
    BY <1>1 DEF SessionParts
<1> QED BY <1>1, <1>2, <1>8, <1>9, <1>10, SessionAssembled DEF SessionParts

LEMMA AuthFailsSession ==
    ASSUME CredInv, SessionParts, AuthFails
    PROVE  SessionInv'
<1> DEFINE x == [kind |-> "block", name |-> "failed"]
<1>1. /\ AwaitsAuth /\ main_queue' = Append(main_queue, x) /\ auth' = auth
      /\ UNCHANGED <<stack, listeners, userListener, registered, currentUser, loading, abandoned,
                     invites, sent, misdirected, signing, presenting, sheetHides, known>>
    BY DEF AuthFails, app, screens, covers, invitations
<1>2. BlockAdded("failed")
    BY DEF AuthFails, BlockAdded
<1>3. CredInv'
    BY <1>2, BlockAddedKept
<1>4. x \in MainItem
    BY BlockItem
<1> HIDE DEF x
<1>5. Outcomes(main_queue', signing')
    <2>1. Single(Append(main_queue, x), Outcome)
        BY <1>1, <1>4, NothingPlaced, NotAnswered, AppendPresence DEF SessionParts, Outcomes
    <2> QED BY <1>1, <2>1, NotAnswered DEF Outcomes
<1>6. misdirected' = 0 =>
        Fits(stack', listeners', userListener', auth', signing', presenting')
    BY <1>1 DEF SessionParts
<1> QED BY <1>1, <1>3, <1>5, <1>6, SessionAssembled DEF SessionParts
\* The tabs, the login screen or nothing follows, and the cover is removed.
LEMMA SignedInSession ==
    ASSUME CredInv, SessionParts, SignedIn
    PROVE  SessionInv'
<1>1. /\ RunBlock /\ Head(main_queue).name = "signedIn"
      /\ signing = "google" => Top = "login"
      /\ loading' = DismissLoadingScreen /\ signing' = "none"
      /\ UNCHANGED <<currentUser, abandoned, invites, sent, misdirected, presenting,
                     sheetHides, known>>
      /\ \/ signing # "join" /\ DidAuthenticate
         \/ signing = "join" /\ Top = "join" /\ Dismiss
         \/ /\ signing = "join" /\ Top # "join"
            /\ UNCHANGED <<stack, listeners, userListener, registered>>
    BY DEF SignedIn, invitations
<1>2. /\ CredInv' /\ auth' = auth /\ signing \in Method
      /\ Outcomes(main_queue', signing')
    BY <1>1, BlockRun
<1>3. /\ loading.covers = abandoned + 1 /\ loading.current /\ presenting = FALSE
      /\ loading.covers \in Nat /\ abandoned \in Nat
    BY <1>2 DEF SessionParts, Covered, Method
<1>4. loading' = [covers |-> abandoned, current |-> FALSE]
    <2>1. loading.covers - 1 = abandoned
        BY <1>3
    <2> QED BY <1>1, <1>3, <2>1 DEF DismissLoadingScreen
<1>5. /\ Covered(loading', abandoned', presenting', signing')
      /\ loading' \in [covers : Nat, current : BOOLEAN]
    <2>1. "none" \notin Method
        BY DEF Method
    <2> QED BY <1>1, <1>3, <1>4, <2>1 DEF Covered
<1>6. auth \in AuthUser
    BY NothingPlaced
<1>7. misdirected = 0 => Fits(stack, listeners, userListener, auth, signing, FALSE)
    BY <1>3 DEF SessionParts
<1>8. /\ ScreensTyped(stack', listeners', userListener', registered') /\ Shape(stack')
      /\ misdirected = 0 => Fits(stack', listeners', userListener', auth, "none", FALSE)
    <2>1. ASSUME signing # "join", DidAuthenticate
          PROVE  /\ ScreensTyped(stack', listeners', userListener', registered') /\ Shape(stack')
                 /\ misdirected = 0 => Fits(stack', listeners', userListener', auth, "none", FALSE)
        <3>1. misdirected = 0 => Top = "login"
            BY <1>2, <1>7, <2>1, StacksKnown DEF Fits, Method
        <3> QED BY <1>6, <1>7, <2>1, <3>1, StacksKnown, Authenticated
    <2>2. ASSUME signing = "join", Top = "join", Dismiss
          PROVE  /\ ScreensTyped(stack', listeners', userListener', registered') /\ Shape(stack')
                 /\ misdirected = 0 => Fits(stack', listeners', userListener', auth, "none", FALSE)
        BY <1>6, <1>7, <2>2, StacksKnown, Dismissed
    <2>3. ASSUME signing = "join", Top # "join",
                 UNCHANGED <<stack, listeners, userListener, registered>>
          PROVE  /\ ScreensTyped(stack', listeners', userListener', registered') /\ Shape(stack')
                 /\ misdirected = 0 => Fits(stack', listeners', userListener', auth, "none", FALSE)
        <3>1. misdirected # 0
            BY <1>7, <2>3, StacksKnown DEF Fits
        <3> QED BY <2>3, <3>1, StacksKnown
    <2> QED BY <1>1, <2>1, <2>2, <2>3
<1>9. misdirected' = 0 =>
        Fits(stack', listeners', userListener', auth', signing', presenting')
    BY <1>1, <1>2, <1>3, <1>8
<1> QED BY <1>1, <1>2, <1>5, <1>8, <1>9, SessionAssembled DEF SessionParts

LEMMA SignInFailedSession ==
    ASSUME CredInv, SessionParts, SignInFailed
    PROVE  SessionInv'
<1>1. /\ RunBlock /\ Head(main_queue).name = "failed" /\ signing' = "none"
      /\ loading' = (IF signing = "google" THEN loading ELSE DismissLoadingScreen)
      /\ abandoned' = (IF signing = "google" THEN abandoned + 1 ELSE abandoned)
      /\ UNCHANGED <<stack, listeners, userListener, registered, currentUser,
                     invites, sent, misdirected, presenting, sheetHides, known>>
    BY DEF SignInFailed, screens, invitations
<1>2. /\ CredInv' /\ auth' = auth /\ signing \in Method
      /\ Outcomes(main_queue', signing')
    BY <1>1, BlockRun
<1>3. /\ loading.covers = abandoned + 1 /\ loading.current /\ presenting = FALSE
      /\ loading.covers \in Nat /\ abandoned \in Nat
      /\ loading \in [covers : Nat, current : BOOLEAN]
    BY <1>2 DEF SessionParts, Covered, Method
<1>4. "none" \notin Method
    BY DEF Method
<1>5. /\ loading' \in [covers : Nat, current : BOOLEAN] /\ abandoned' \in Nat
      /\ loading'.covers = abandoned'
    <2>1. CASE signing = "google"
        BY <1>1, <1>3, <2>1
    <2>2. CASE signing # "google"
        <3>1. loading.covers - 1 = abandoned
            BY <1>3
        <3>2. loading' = [covers |-> abandoned, current |-> FALSE] /\ abandoned' = abandoned
            BY <1>1, <1>3, <2>2, <3>1 DEF DismissLoadingScreen
        <3> QED BY <1>3, <3>2
    <2> QED BY <2>1, <2>2
<1>6. Covered(loading', abandoned', presenting', signing')
    BY <1>1, <1>3, <1>4, <1>5 DEF Covered
<1>7. misdirected' = 0 =>
        Fits(stack', listeners', userListener', auth', signing', presenting')
    BY <1>1, <1>2 DEF SessionParts, Fits
<1> QED BY <1>1, <1>2, <1>5, <1>6, <1>7, SessionAssembled DEF SessionParts

\* A screen is put on top of the one that was touched, or taken off.
LEMMA ScreenChanged ==
    ASSUME CredInv, SessionParts, Touchable, UNCHANGED credVars,
           UNCHANGED <<currentUser, loading, abandoned, invites, sent, misdirected,
                       signing, presenting, sheetHides, known>>,
           ScreensTyped(stack', listeners', userListener', registered'), Shape(stack'),
           misdirected = 0 => Fits(stack', listeners', userListener', auth, "none", FALSE)
    PROVE  SessionInv'
<1>1. CredInv' /\ auth' = auth /\ main_queue' = main_queue
    BY UnchangedKept DEF credVars
<1>2. signing = "none" /\ presenting = FALSE
    BY Touched
<1>3. misdirected' = 0 =>
        Fits(stack', listeners', userListener', auth', signing', presenting')
    BY <1>1, <1>2
<1>4. Outcomes(main_queue', signing') /\ Covered(loading', abandoned', presenting', signing')
    BY <1>1 DEF SessionParts
<1> QED BY <1>1, <1>3, <1>4, SessionAssembled DEF SessionParts

LEMMA JoinShownSession ==
    ASSUME CredInv, SessionParts, JoinShown
    PROVE  SessionInv'
<1>1. /\ Touchable /\ Top = "login" /\ stack' = Append(stack, "join") /\ UNCHANGED credVars
      /\ UNCHANGED <<listeners, userListener, registered>>
      /\ UNCHANGED <<currentUser, loading, abandoned, invites, sent, misdirected,
                     signing, presenting, sheetHides, known>>
    BY DEF JoinShown, covers, invitations
<1>2. "join" \in Screen /\ "join" # "popup"
    BY DEF Screen
<1>3. stack' \in Seq(Screen) /\ Shape(stack') /\ Last(stack') = "join"
    BY <1>1, <1>2, StacksKnown, Pushed
<1>4. ScreensTyped(stack', listeners', userListener', registered')
    BY <1>1, <1>3, StacksKnown DEF ScreensTyped
<1>5. misdirected = 0 => Fits(stack', listeners', userListener', auth, "none", FALSE)
    BY <1>1, <1>3, StacksKnown, Touched DEF SessionParts, Fits
<1> QED BY <1>1, <1>3, <1>4, <1>5, ScreenChanged

LEMMA PopupShownSession ==
    ASSUME CredInv, SessionParts, PopupShown
    PROVE  SessionInv'
<1>1. /\ Touchable /\ Top \in {"tabs", "popup"} /\ stack' = Append(stack, "popup")
      /\ UNCHANGED credVars
      /\ UNCHANGED <<listeners, userListener, registered>>
      /\ UNCHANGED <<currentUser, loading, abandoned, invites, sent, misdirected,
                     signing, presenting, sheetHides, known>>
    BY DEF PopupShown, covers, invitations
<1>2. "popup" \in Screen /\ "popup" # "join"
    BY DEF Screen
<1>3. stack' \in Seq(Screen) /\ Shape(stack') /\ Last(stack') = "popup"
    BY <1>1, <1>2, StacksKnown, Pushed
<1>4. ScreensTyped(stack', listeners', userListener', registered')
    BY <1>1, <1>3, StacksKnown DEF ScreensTyped
<1>5. misdirected = 0 => Fits(stack', listeners', userListener', auth, "none", FALSE)
    BY <1>1, <1>3, StacksKnown, Touched DEF SessionParts, Fits
<1> QED BY <1>1, <1>3, <1>4, <1>5, ScreenChanged

LEMMA JoinClosedSession ==
    ASSUME CredInv, SessionParts, JoinClosed \/ PopupPanned
    PROVE  SessionInv'
<1>1. /\ Touchable /\ Top \in {"join", "popup"} /\ Dismiss /\ UNCHANGED credVars
      /\ UNCHANGED <<currentUser, loading, abandoned, invites, sent, misdirected,
                     signing, presenting, sheetHides, known>>
    BY DEF JoinClosed, PopupPanned, covers, invitations
<1>2. auth \in AuthUser
    BY NothingPlaced
<1>3. misdirected = 0 => Fits(stack, listeners, userListener, auth, "none", FALSE)
    BY <1>1, Touched DEF SessionParts
<1>4. /\ ScreensTyped(stack', listeners', userListener', registered') /\ Shape(stack')
      /\ misdirected = 0 => Fits(stack', listeners', userListener', auth, "none", FALSE)
    BY <1>1, <1>2, <1>3, StacksKnown, Dismissed
<1> QED BY <1>1, <1>4, ScreenChanged

LEMMA SnapshotSession ==
    ASSUME CredInv, SessionParts, Snapshot
    PROVE  SessionInv'
<1>1. /\ UNCHANGED credVars
      /\ UNCHANGED <<stack, listeners, userListener, registered, loading, abandoned,
                     invites, sent, misdirected, signing, presenting, sheetHides, known>>
    BY DEF Snapshot, covers, invitations
<1>2. CredInv' /\ auth' = auth /\ main_queue' = main_queue
    BY <1>1, UnchangedKept DEF credVars
<1>3. currentUser' \in Users
    BY DEF Snapshot, SessionParts, ScreensTyped, Listener
<1> QED BY <1>1, <1>2, <1>3, SessionAssembled DEF SessionParts

LEMMA SignOutTappedSession ==
    ASSUME CredInv, SessionParts, SignOutTapped
    PROVE  SessionInv'
<1>1. /\ Touchable /\ Top = "tabs" /\ SignOut /\ loading' = ShowLoadingScreen
      /\ presenting' = (currentUser # nobody)
      /\ stack' = (IF currentUser # nobody THEN Append(stack, "login") ELSE stack)
      /\ abandoned' = (IF currentUser # nobody THEN abandoned ELSE abandoned + 1)
      /\ UNCHANGED <<listeners, userListener, registered, currentUser, invites, sent,
                     misdirected, signing, sheetHides, known>>
    BY DEF SignOutTapped, invitations
<1>2. CredInv'
    BY <1>1, SignOutKept
<1>3. /\ auth'.object = 0
      /\ main_queue' = main_queue \/ UpdateCurrentUser(Nil, << >>)
    BY <1>1 DEF SignOut, UpdateCurrentUser, Nil
<1>4. SameOutcomes(main_queue, main_queue')
    <2> DEFINE x == [kind |-> "block", name |-> "answered"]
    <2>1. x \in MainItem /\ x \notin Outcome
        BY BlockItem DEF Outcome
    <2> HIDE DEF x
    <2>2. Nil \in AuthUser
        BY NobodyAssumption DEF Nil, AuthUser
    <2>3. UpdateCurrentUser(Nil, << >>) => SameOutcomes(main_queue, main_queue')
        BY <2>1, <2>2, UpdateOutcomes
    <2> QED BY <1>3, <2>3 DEF SameOutcomes
<1>5. Outcomes(main_queue', signing')
    BY <1>1, <1>4, Touched DEF Outcomes, SameOutcomes
<1>6. "login" \in Screen /\ "login" # "join" /\ "login" # "popup"
    BY DEF Screen
<1>7. /\ Append(stack, "login") \in Seq(Screen) /\ Shape(Append(stack, "login"))
      /\ Last(Append(stack, "login")) = "login"
    BY <1>6, StacksKnown, Pushed
<1>8. ScreensTyped(stack', listeners', userListener', registered') /\ Shape(stack')
    BY <1>1, <1>7, StacksKnown DEF ScreensTyped
<1>9. misdirected' = 0 =>
        Fits(stack', listeners', userListener', auth', signing', presenting')
    <2>1. misdirected = 0 => \A l \in listeners : l.id = userListener
        BY DEF SessionParts, Fits
    <2>2. signing' = "none"
        BY <1>1, Touched
    <2>3. CASE currentUser # nobody
        <3>1. Last(stack') = "login" /\ presenting' = TRUE
            BY <1>1, <1>7, <2>3
        <3> QED BY <1>1, <2>1, <2>2, <3>1 DEF Fits
    <2>4. CASE currentUser = nobody
        <3>1. Last(stack') = "tabs" /\ presenting' = FALSE
            BY <1>1, <2>4, StacksKnown
        <3> QED BY <1>1, <1>3, <2>1, <2>2, <3>1 DEF Fits
    <2> QED BY <2>3, <2>4
<1>10. /\ Covered(loading', abandoned', presenting', signing') /\ abandoned' \in Nat
       /\ loading' \in [covers : Nat, current : BOOLEAN] /\ presenting' \in BOOLEAN
    <2>1. loading.covers = 0 /\ abandoned = 0 /\ signing' = "none"
        BY <1>1, Touched
    <2>2. loading' = [covers |-> 1, current |-> TRUE] /\ presenting' \in BOOLEAN
        BY <1>1, <2>1 DEF ShowLoadingScreen
    <2>3. "none" \notin Method
        BY DEF Method
    <2>4. \/ presenting' = TRUE /\ abandoned' = 0
          \/ presenting' = FALSE /\ abandoned' = 1
        <3>1. CASE currentUser # nobody
            <4>1. presenting' = TRUE
                BY <1>1, <3>1
            <4> QED BY <1>1, <2>1, <3>1, <4>1
        <3>2. CASE currentUser = nobody
            <4>1. presenting' = FALSE
                BY <1>1, <3>2
            <4>2. abandoned' = 0 + 1
                BY <1>1, <2>1, <3>2
            <4> QED BY <4>1, <4>2
        <3> QED BY <3>1, <3>2
    <2> QED BY <2>1, <2>2, <2>3, <2>4 DEF Covered
<1> QED BY <1>1, <1>2, <1>5, <1>8, <1>9, <1>10, SessionAssembled DEF SessionParts

LEMMA SignOutPresentedSession ==
    ASSUME CredInv, SessionParts, SignOutPresented
    PROVE  SessionInv'
<1>1. /\ presenting /\ presenting' = FALSE /\ loading' = DismissLoadingScreen
      /\ listeners' = {l \in listeners : l.id # userListener} /\ currentUser' = nobody
      /\ UNCHANGED credVars
      /\ UNCHANGED <<stack, userListener, registered, abandoned,
                     invites, sent, misdirected, signing, sheetHides, known>>
    BY DEF SignOutPresented, invitations
<1>2. CredInv' /\ auth' = auth /\ main_queue' = main_queue
    BY <1>1, UnchangedKept DEF credVars
<1>3. /\ loading.covers = abandoned + 1 /\ loading.current /\ signing = "none"
      /\ loading.covers \in Nat /\ abandoned \in Nat
    BY <1>1 DEF SessionParts, Covered
<1>4. loading' = [covers |-> abandoned, current |-> FALSE]
    <2>1. loading.covers - 1 = abandoned
        BY <1>3
    <2> QED BY <1>1, <1>3, <2>1 DEF DismissLoadingScreen
<1>5. /\ Covered(loading', abandoned', presenting', signing')
      /\ loading' \in [covers : Nat, current : BOOLEAN]
    <2>1. "none" \notin Method
        BY DEF Method
    <2> QED BY <1>1, <1>3, <1>4, <2>1 DEF Covered
<1>6. misdirected' = 0 =>
        Fits(stack', listeners', userListener', auth', signing', presenting')
    <2>1. misdirected = 0 => Last(stack) = "login" /\ listeners' = {}
        BY <1>1 DEF SessionParts, Fits
    <2> QED BY <1>1, <1>3, <2>1 DEF Fits
<1>7. ScreensTyped(stack', listeners', userListener', registered')
    BY <1>1 DEF SessionParts, ScreensTyped
<1>8. Outcomes(main_queue', signing') /\ currentUser' \in Users
    BY <1>1, <1>2, NobodyAssumption DEF SessionParts
<1> QED BY <1>1, <1>2, <1>5, <1>6, <1>7, <1>8, SessionAssembled DEF SessionParts

LEMMA InviteSentSession ==
    ASSUME CredInv, SessionParts, InviteSent
    PROVE  SessionInv'
<1>1. /\ sent < MaxInvites /\ sent' = sent + 1
      /\ invites' = [invites EXCEPT ![contents.current_user] = @ + 1]
      /\ UNCHANGED credVars
      /\ UNCHANGED <<stack, listeners, userListener, registered, currentUser, loading,
                     abandoned, misdirected, signing, presenting, sheetHides, known>>
    BY DEF InviteSent, screens, covers
<1>2. CredInv' /\ auth' = auth /\ main_queue' = main_queue
    BY <1>1, UnchangedKept DEF credVars
<1>3. sent' \in 0 .. MaxInvites
    BY <1>1, SessionBounds DEF SessionParts
<1>4. invites' \in [Users -> Nat]
    BY <1>1, Parts DEF SessionParts
<1> QED BY <1>1, <1>2, <1>3, <1>4, SessionAssembled DEF SessionParts

LEMMA InviteAcknowledgedSession ==
    ASSUME CredInv, SessionParts, InviteAcknowledged
    PROVE  SessionInv'
<1> DEFINE x == [kind |-> "block", name |-> "answered"]
<1>1. /\ invites[current_user] > 0
      /\ invites' = [invites EXCEPT ![current_user] = @ - 1]
      /\ main_queue' = Append(main_queue, x) /\ auth' = auth
      /\ UNCHANGED <<stack, listeners, userListener, registered, currentUser, loading,
                     abandoned, sent, misdirected, signing, presenting, sheetHides, known>>
    BY DEF InviteAcknowledged, screens, covers
<1>2. BlockAdded("answered")
    BY DEF InviteAcknowledged, BlockAdded
<1>3. CredInv'
    BY <1>2, BlockAddedKept
<1>4. x \in MainItem /\ x \notin Outcome
    BY BlockItem DEF Outcome
<1> HIDE DEF x
<1>5. Outcomes(main_queue', signing')
    <2>1. SameOutcomes(main_queue, main_queue')
        BY <1>1, <1>4, NothingPlaced, OtherAdded
    <2> QED BY <1>1, <2>1 DEF SessionParts, Outcomes, SameOutcomes
<1>6. invites' \in [Users -> Nat]
    <2>1. /\ current_user \in Users /\ invites \in [Users -> Nat]
          /\ invites[current_user] \in Nat
        BY NothingPlaced DEF SessionParts
    <2>2. invites[current_user] - 1 \in Nat
        BY <1>1, <2>1
    <2> QED BY <1>1, <2>1, <2>2
<1>7. misdirected' = 0 =>
        Fits(stack', listeners', userListener', auth', signing', presenting')
    BY <1>1 DEF SessionParts
<1> QED BY <1>1, <1>3, <1>5, <1>6, <1>7, SessionAssembled DEF SessionParts

\* An answer that comes late dismisses something but a popup, and is counted.
LEMMA InviteAnsweredSession ==
    ASSUME CredInv, SessionParts, InviteAnswered
    PROVE  SessionInv'
<1>1. /\ ~presenting /\ RunBlock /\ Head(main_queue).name = "answered" /\ Dismiss
      /\ misdirected' = (IF Top = "popup" THEN misdirected ELSE misdirected + 1)
      /\ UNCHANGED <<currentUser, loading, abandoned, invites, sent, signing, presenting,
                     sheetHides, known>>
    BY DEF InviteAnswered, covers
<1>2. CredInv' /\ auth' = auth /\ Outcomes(main_queue', signing')
    BY <1>1, BlockRun
<1>3. auth \in AuthUser /\ misdirected \in Nat /\ presenting = FALSE
    BY <1>1, NothingPlaced DEF SessionParts
<1>4. /\ ScreensTyped(stack', listeners', userListener', registered') /\ Shape(stack')
      /\ Top \in {"join", "popup"}
            /\ Fits(stack, listeners, userListener, auth, signing, FALSE) =>
            Fits(stack', listeners', userListener', auth, "none", FALSE)
    BY <1>1, <1>3, StacksKnown, Dismissed
<1>5. misdirected' \in Nat /\ (misdirected' = 0 => misdirected = 0 /\ Top = "popup")
    BY <1>1, <1>3
<1>6. misdirected' = 0 =>
        Fits(stack', listeners', userListener', auth', signing', presenting')
    <2> SUFFICES ASSUME misdirected' = 0
                 PROVE  Fits(stack', listeners', userListener', auth', signing', presenting')
        OBVIOUS
    <2>1. Fits(stack, listeners, userListener, auth, signing, FALSE) /\ Last(stack) = "popup"
        BY <1>3, <1>5, StacksKnown DEF SessionParts
    <2>2. Fits(stack', listeners', userListener', auth, "none", FALSE)
        BY <1>4, <1>5, <2>1
    <2>3. signing \notin {"consent", "google", "login", "join"}
        BY <2>1 DEF Fits
    <2>4. signing' \notin {"consent", "google", "login", "join"} /\ presenting' = FALSE
        BY <1>1, <1>3, <2>3
    <2> QED BY <1>2, <2>2, <2>4 DEF Fits
<1> QED BY <1>1, <1>2, <1>4, <1>5, <1>6, SessionAssembled DEF SessionParts
-----------------------------------------------------------------------------
(* The invariant and the theorems.                                          *)

LEMMA SessionStart ==
    ASSUME SessionInit
    PROVE  SessionInv
<1>1. CredInv
    BY InitialInvariant DEF SessionInit
<1>2. /\ loading = [covers |-> 0, current |-> FALSE] /\ signing = "none"
      /\ presenting = FALSE /\ currentUser = nobody /\ invites = [u \in Users |-> 0]
      /\ sheetHides \in BOOLEAN /\ known = {auth.user} \ {nobody}
      /\ sent = 0 /\ abandoned = 0 /\ misdirected = 0
    BY DEF SessionInit
<1>3. auth \in AuthUser /\ auth.user \in Users
    BY <1>1, NothingPlaced DEF AuthUser
<1>4. \/ /\ auth.object # 0 /\ stack = <<"login", "tabs">> /\ userListener = 1
         /\ listeners = {[id |-> 1, user |-> auth.user]} /\ registered = 1
      \/ /\ auth.object = 0 /\ stack = <<"login">> /\ userListener = 0
         /\ listeners = {} /\ registered = 0
    BY DEF SessionInit
<1>5. /\ stack \in Seq(Screen) /\ Shape(stack)
      /\ Fits(stack, listeners, userListener, auth, signing, presenting)
      /\ listeners \subseteq Listener /\ userListener \in Nat /\ registered \in Nat
    <2>1. CASE auth.object # 0
        <3>1. /\ stack = <<"login", "tabs">> /\ userListener = 1 /\ registered = 1
              /\ listeners = {[id |-> 1, user |-> auth.user]}
            BY <1>4, <2>1
        <3>2. Len(stack) = 2 /\ Last(stack) = "tabs" /\ stack[2] = "tabs" /\ stack # << >>
            BY <3>1 DEF Last
        <3>3. stack \in Seq(Screen)
            BY <3>1 DEF Screen
        <3>4. Shape(stack)
            BY <3>2 DEF Shape
        <3>5. [id |-> 1, user |-> auth.user] \in Listener
            BY <1>3 DEF Listener
        <3>6. Fits(stack, listeners, userListener, auth, signing, presenting)
            BY <1>2, <3>1, <3>2 DEF Fits
        <3> QED BY <3>1, <3>3, <3>4, <3>5, <3>6
    <2>2. CASE auth.object = 0
        <3>1. /\ stack = <<"login">> /\ userListener = 0 /\ registered = 0 /\ listeners = {}
            BY <1>4, <2>2
        <3>2. Len(stack) = 1 /\ Last(stack) = "login" /\ stack # << >>
            BY <3>1 DEF Last
        <3>3. stack \in Seq(Screen)
            BY <3>1 DEF Screen
        <3>4. Shape(stack)
            BY <3>2 DEF Shape
        <3>5. Fits(stack, listeners, userListener, auth, signing, presenting)
            BY <1>2, <3>1, <3>2 DEF Fits
        <3> QED BY <3>1, <3>3, <3>4, <3>5
    <2> QED BY <2>1, <2>2
<1>6. "none" \notin Method /\ CredTypeOK
    BY <1>1 DEF Method, CredInv
<1>7. TypeOK
    <2>1. loading \in [covers : Nat, current : BOOLEAN] /\ invites \in [Users -> Nat]
        BY <1>2
    <2>2. /\ signing \in Method \cup {"none", "consent"} /\ presenting \in BOOLEAN
          /\ currentUser \in Users /\ sheetHides \in BOOLEAN /\ known \subseteq Users
        BY <1>2, <1>3, NobodyAssumption
    <2>3. sent \in 0 .. MaxInvites /\ abandoned \in Nat /\ misdirected \in Nat
        BY <1>2, SessionBounds
    <2> QED BY <1>5, <1>6, <2>1, <2>2, <2>3 DEF TypeOK
<1>8. Covered(loading, abandoned, presenting, signing)
    BY <1>2, <1>6 DEF Covered
<1>9. Outcomes(main_queue, signing)
    <2>1. PICK stored \in Stored : InitWith(stored)
        BY DEF SessionInit, Init
    <2>2. main_queue = << >> \/ main_queue = <<Posted(stored.user)>>
        BY <2>1 DEF InitWith
    <2>3. Posted(stored.user).kind = "notification"
        BY DEF Posted
    <2>4. Posted(stored.user) \notin Outcome
        BY <2>3, OutcomeIsBlock
    <2> DEFINE x == Posted(stored.user)
    <2> HIDE DEF x
    <2>5. \A k \in DOMAIN main_queue : main_queue[k] = x
        BY <2>2 DEF x
    <2>6. Absent(main_queue, Outcome)
        BY <2>4, <2>5 DEF Absent, x
    <2> QED BY <2>6 DEF Outcomes, Absent, Single
<1> QED BY <1>1, <1>5, <1>7, <1>8, <1>9 DEF SessionInv

LEMMA SessionKept ==
    ASSUME SessionInv, [SessionNext]_vars
    PROVE  SessionInv'
<1> CredInv /\ SessionParts
    BY SessionKnown
<1>1. CASE Background /\ UNCHANGED app
    BY <1>1, BackgroundSession
<1>2. ASSUME NEW method \in {"login", "join"}, SignInTapped(method)
      PROVE  SessionInv'
    BY <1>2, SignInTappedSession
<1>3. CASE GoogleTapped
    BY <1>3, GoogleTappedSession
<1>4. ASSUME NEW ok \in BOOLEAN, GoogleReturns(ok)
      PROVE  SessionInv'
    BY <1>4, GoogleReturnsSession
<1>5. ASSUME NEW user \in Users \ {nobody}, AuthSucceeds(user)
      PROVE  SessionInv'
    BY <1>5, AuthSucceedsSession
<1>6. CASE AuthFails
    BY <1>6, AuthFailsSession
<1>7. CASE SignedIn
    BY <1>7, SignedInSession
<1>8. CASE SignInFailed
    BY <1>8, SignInFailedSession
<1>9. CASE JoinShown
    BY <1>9, JoinShownSession
<1>10. CASE JoinClosed \/ PopupPanned
    BY <1>10, JoinClosedSession
<1>11. CASE Snapshot
    BY <1>11, SnapshotSession
<1>12. CASE SignOutTapped
    BY <1>12, SignOutTappedSession
<1>13. CASE SignOutPresented
    BY <1>13, SignOutPresentedSession
<1>14. CASE PopupShown
    BY <1>14, PopupShownSession
<1>15. CASE InviteSent
    BY <1>15, InviteSentSession
<1>16. CASE InviteAcknowledged
    BY <1>16, InviteAcknowledgedSession
<1>17. CASE InviteAnswered
    BY <1>17, InviteAnsweredSession
<1>18. CASE UNCHANGED vars
    <2>1. UNCHANGED credVars /\ UNCHANGED app
        BY <1>18 DEF vars
    <2>2. UNCHANGED <<stack, listeners, userListener, registered, currentUser, loading, abandoned,
                      invites, sent, misdirected, signing, presenting, sheetHides, known>>
        BY <2>1 DEF app, screens, covers, invitations
    <2>3. CredInv' /\ auth' = auth /\ main_queue' = main_queue
        BY <2>1, UnchangedKept DEF credVars
    <2> QED BY <2>2, <2>3, SessionAssembled DEF SessionParts
<1> QED BY <1>1, <1>2, <1>3, <1>4, <1>5, <1>6, <1>7, <1>8, <1>9, <1>10, <1>11, <1>12,
           <1>13, <1>14, <1>15, <1>16, <1>17, <1>18 DEF SessionNext

LEMMA SessionInvariance == SessionSpec => []SessionInv
<1>1. SessionInit => SessionInv
    BY SessionStart
<1>2. SessionInv /\ [SessionNext]_vars => SessionInv'
    BY SessionKept
<1> QED BY <1>1, <1>2, PTL DEF SessionSpec

\* Every step of the app leaves its state, and that of Auth and of the client,
\* well formed: dismissing a cover that is not there, say, never makes their number
\* negative, and an answered invitation was one that had been sent.
THEOREM TypeCorrect == SessionSpec => []TypeOK
<1>1. SessionInv => TypeOK
    BY DEF SessionInv
<1> QED BY <1>1, SessionInvariance, PTL

\* Under the app too, an open stream has a token of SyncEngine's user and each
\* token on its way the tag of the account it is of, although sign-ins and
\* sign-outs come from the screens (FirebaseCredentialsProvider::GetToken,
\* SyncEngine::HandleCredentialChange).
THEOREM TokenCurrentInApp == SessionSpec => []StreamTokenCurrent
<1>1. SessionInv => StreamTokenCurrent
    BY TokensCurrent DEF SessionInv
<1> QED BY <1>1, SessionInvariance, PTL

\* Under the app too, no change of the signed-in user is lost on its way from
\* updateCurrentUser to the provider and to SyncEngine.
THEOREM ChangesArriveInApp == SessionSpec => []SyncFollowsAuth
<1>1. SessionInv => SyncFollowsAuth
    BY UsersFollow DEF SessionInv
<1> QED BY <1>1, SessionInvariance, PTL

\* Under the app too, a stream is starting exactly as long as its own request for
\* a token is on one of the queues.
THEOREM StartIsServedInApp == SessionSpec => []StartHasRequest
<1>1. SessionInv => StartHasRequest
    BY RequestsKnown DEF SessionInv
<1> QED BY <1>1, SessionInvariance, PTL

\* Unless a late answer (didChooseUsers) has dismissed something but a popup, all
\* user listeners are the one DataService.signOut removes, and whoever is signed in
\* at the tabs has it, whichever of the three sign-ins, or a stored user, led there.
THEOREM OneListenerKept == SessionSpec => []OneListener
<1>1. SessionInv => OneListener
    <2> SUFFICES ASSUME SessionInv, misdirected = 0
                 PROVE  /\ \A l \in listeners : l.id = userListener
                        /\ Touchable /\ Top = "tabs" /\ auth.object # 0 =>
                              [id |-> userListener, user |-> auth.user] \in listeners
        BY DEF OneListener
    <2>1. Fits(stack, listeners, userListener, auth, signing, presenting)
        BY DEF SessionInv
    <2>2. Top = Last(stack)
        BY DEF Top, Last
    <2> QED BY <2>1, <2>2 DEF Fits
<1> QED BY <1>1, SessionInvariance, PTL

\* Each cover LoadingVC has put on the window is that of the sign-in or sign-out
\* under way, or one of those that a handler left up when it returned early
\* (AppDelegate.sign, DataService.signOut).
THEOREM CoversKept == SessionSpec => []CoversAccounted
<1>1. SessionInv => CoversAccounted
    BY DEF SessionInv, Covered, CoversAccounted
<1> QED BY <1>1, SessionInvariance, PTL
=============================================================================
