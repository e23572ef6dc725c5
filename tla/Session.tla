------------------------------- MODULE Session -------------------------------
(***************************************************************************)
(* Signing in, joining and signing out in the app (DataService, AppDelegate, *)
(* AuthenticationVC, JoinVC), the user listener that fills in                *)
(* DataService.currentUser, the loading screen and the stack of presented    *)
(* view controllers, on top of Credentials. Everything here runs on the main *)
(* thread: a touch or an animation's end is an event of its own, completion  *)
(* blocks of Auth and Firestore are blocks of Credentials' main queue.       *)
(***************************************************************************)
EXTENDS Credentials

CONSTANTS
    MaxPopups,    \* bound: popups shown on top of each other
    MaxInvites    \* bound: invitations to a group sent

ASSUME SessionBounds ==
    /\ MaxPopups \in Nat
    /\ MaxInvites \in Nat

VARIABLES
    stack,        \* view controllers, each presented by the one before it
    loading,      \* LoadingVC: covers on the window, and currentLoadingVC
    signing,      \* the sign-in under way
    presenting,   \* signOut is presenting the login screen
    listeners,    \* listeners of user documents that have not been removed
    userListener, \* DataService.userListener (0: nil)
    currentUser,  \* DataService.currentUser (nobody: nil)
    invites,      \* invitations whose update has not been answered, by account
    sheetHides,   \* a page sheet hides its presenter (iOS 12), or not (iOS 13)
    registered,   \* listeners registered so far, a number for each
    known,        \* accounts that exist
    sent,         \* invitations sent
    abandoned,    \* history: covers left up by handlers that have returned
    misdirected   \* history: late answers that dismissed something but a popup

screens == <<stack, listeners, userListener, registered, currentUser>>
covers == <<loading, abandoned>>
invitations == <<invites, sent, misdirected>>
app == <<screens, covers, invitations, signing, presenting, sheetHides, known>>
vars == <<credVars, app>>

-----------------------------------------------------------------------------
(* Data and helpers.                                                         *)

Screen == {"login", "join", "tabs", "popup"}
Method == {"login", "google", "join"}
Listener == [id : Nat, user : Users]

Top == stack[Len(stack)]
Without(s) == SubSeq(s, 1, Len(s) - 1)

\* Touches reach the app: no cover, no transition, no Google screen.
Touchable == loading.covers = 0 /\ ~presenting /\ signing = "none"

\* Mutant: the view is not added to the window.
ShowLoadingScreen_NoView == [loading EXCEPT !.current = TRUE]

\* LoadingVC.showLoadingScreen: one more view on the window.
ShowLoadingScreen == [covers |-> loading.covers + 1, current |-> TRUE]

\* Mutant: the cover is left.
DismissLoadingScreen_Keeps == [loading EXCEPT !.current = FALSE]

\* LoadingVC.dismissLoadingScreen: the view shown last is faded out, once.
DismissLoadingScreen ==
    IF loading.current THEN [covers |-> loading.covers - 1, current |-> FALSE]
    ELSE loading

\* DataService.configureUserListener: nothing if nobody is signed in. The
\* listener registered before is not removed.
ConfigureUserListener ==
    IF auth.object = 0 THEN UNCHANGED <<listeners, userListener, registered>>
    ELSE /\ registered' = registered + 1
         /\ userListener' = registered'
         /\ listeners' = listeners \cup {[id |-> registered', user |-> auth.user]}

\* AuthenticationVC.viewDidAppear and didAuthenticate, for the last screen of
\* s: with a signed-in user the tabs are presented.
ViewDidAppear(s) ==
    IF s[Len(s)] = "login" /\ auth.object # 0
    THEN stack' = Append(s, "tabs") /\ ConfigureUserListener
    ELSE stack' = s /\ UNCHANGED <<listeners, userListener, registered>>

\* UIViewController.dismiss of the screen on top. The presenter appears again
\* if it was hidden: under the tabs (full screen), under a page sheet in iOS 12.
\* The root is not presented and stays.
Dismiss ==
    IF Len(stack) = 1
    THEN UNCHANGED <<stack, listeners, userListener, registered>>
    ELSE IF Top = "tabs" \/ (Top = "join" /\ sheetHides)
    THEN ViewDidAppear(Without(stack))
    ELSE /\ stack' = Without(stack)
         /\ UNCHANGED <<listeners, userListener, registered>>

-----------------------------------------------------------------------------
(* Signing in.                                                               *)

\* The start of the app: with a stored user the root, AuthenticationVC, goes on
\* to the tabs at once.
SessionInit ==
    /\ Init
    /\ LET stored == auth.object # 0
       IN  /\ stack = IF stored THEN <<"login", "tabs">> ELSE <<"login">>
           /\ listeners = IF stored THEN {[id |-> 1, user |-> auth.user]} ELSE {}
           /\ userListener = IF stored THEN 1 ELSE 0
           /\ registered = IF stored THEN 1 ELSE 0
    /\ loading = [covers |-> 0, current |-> FALSE]
    /\ signing = "none"
    /\ presenting = FALSE
    /\ currentUser = nobody
    /\ invites = [u \in Users |-> 0]
    /\ sheetHides \in BOOLEAN
    /\ known = {auth.user} \ {nobody}
    /\ sent = 0
    /\ abandoned = 0
    /\ misdirected = 0

\* AuthenticationVC.loginTapped and JoinVC.joinTapped.
SignInTapped(method) ==
    /\ Touchable
    /\ method \in {"login", "join"}
    /\ Top = method
    /\ loading' = ShowLoadingScreen
    /\ signing' = method
    /\ UNCHANGED <<credVars, screens, invitations, abandoned, presenting,
                   sheetHides, known>>

\* The Google button of the login screen: Google's screen is shown.
GoogleTapped ==
    /\ Touchable
    /\ Top = "login"
    /\ signing' = "consent"
    /\ UNCHANGED <<credVars, screens, covers, invitations, presenting,
                   sheetHides, known>>

\* AppDelegate.sign(didSignInFor:withError:), for a success and for a failure,
\* a cancelled screen included: the cover is shown in either case.
GoogleReturns(ok) ==
    /\ signing = "consent"
    /\ loading' = ShowLoadingScreen
    /\ signing' = IF ok THEN "google" ELSE "none"
    /\ abandoned' = IF ok THEN abandoned ELSE abandoned + 1
    /\ UNCHANGED <<credVars, screens, invitations, presenting, sheetHides, known>>

\* Auth has not yet answered the sign-in.
AwaitsAuth ==
    /\ signing \in Method
    /\ \A k \in DOMAIN main_queue :
            main_queue[k].kind = "block" => main_queue[k].name = "answered"

\* Auth answers: the account is signed in, a new one if the user joins, or the
\* sign-in has failed.
AuthSucceeds(user) ==
    /\ AwaitsAuth
    /\ signing = "join" => user \notin known
    /\ SignIn(user)
    /\ known' = known \cup {user}
    /\ UNCHANGED <<screens, covers, invitations, signing, presenting, sheetHides>>

AuthFails ==
    /\ AwaitsAuth
    /\ main_queue' = Append(main_queue, [kind |-> "block", name |-> "failed"])
    /\ UNCHANGED <<auth, requests, fetches, contents, worker_queue, current_user,
                   stream, events, app>>

\* Mutant: the listener is not registered after a Google sign-in.
DidAuthenticate_NoListener ==
    /\ stack' = IF Top = "login" THEN Append(stack, "tabs") ELSE stack
    /\ IF signing = "google" THEN UNCHANGED <<listeners, userListener, registered>>
       ELSE ConfigureUserListener

\* AuthenticationVC.didAuthenticate, and the same in AppDelegate: the segue is
\* performed if the login screen is still shown.
DidAuthenticate ==
    /\ stack' = IF Top = "login" THEN Append(stack, "tabs") ELSE stack
    /\ ConfigureUserListener

\* The completion blocks of the three sign-ins. JoinVC dismisses its sheet. A
\* Google sign-in performs its segue from whatever is on top, and the process
\* ends if that is not the login screen.
SignedIn ==
    /\ RunBlock
    /\ Head(main_queue).name = "signedIn"
    /\ signing = "google" => Top = "login"
    /\ loading' = DismissLoadingScreen
    /\ signing' = "none"
    /\ IF signing # "join" THEN DidAuthenticate
       ELSE IF Top = "join" THEN Dismiss
       ELSE UNCHANGED <<stack, listeners, userListener, registered>>
    /\ UNCHANGED <<currentUser, abandoned, invitations, presenting, sheetHides, known>>

\* After an error only loginTapped and joinTapped remove their cover.
SignInFailed ==
    /\ RunBlock
    /\ Head(main_queue).name = "failed"
    /\ loading' = IF signing = "google" THEN loading ELSE DismissLoadingScreen
    /\ abandoned' = IF signing = "google" THEN abandoned + 1 ELSE abandoned
    /\ signing' = "none"
    /\ UNCHANGED <<screens, invitations, presenting, sheetHides, known>>

\* The join sheet is opened and closed.
JoinShown ==
    /\ Touchable
    /\ Top = "login"
    /\ stack' = Append(stack, "join")
    /\ UNCHANGED <<credVars, listeners, userListener, registered, currentUser,
                   covers, invitations, signing, presenting, sheetHides, known>>

JoinClosed ==
    /\ Touchable
    /\ Top = "join"
    /\ Dismiss
    /\ UNCHANGED <<credVars, currentUser, covers, invitations, signing, presenting,
                   sheetHides, known>>

-----------------------------------------------------------------------------
(* The user document and signing out.                                        *)

\* A snapshot of the user document reaches a listener that is not removed.
Snapshot ==
    /\ \E l \in listeners : currentUser' = l.user
    /\ UNCHANGED <<credVars, stack, listeners, userListener, registered, covers,
                   invitations, signing, presenting, sheetHides, known>>

\* DataService.signOut: the login screen is presented only if the user document
\* has been read; Auth signs out in any case.
SignOutTapped ==
    /\ Touchable
    /\ Top = "tabs"
    /\ SignOut
    /\ loading' = ShowLoadingScreen
    /\ presenting' = (currentUser # nobody)
    /\ stack' = IF currentUser # nobody THEN Append(stack, "login") ELSE stack
    /\ abandoned' = IF currentUser # nobody THEN abandoned ELSE abandoned + 1
    /\ UNCHANGED <<listeners, userListener, registered, currentUser, invitations,
                   signing, sheetHides, known>>

\* The completion of signOut's presentation.
SignOutPresented ==
    /\ presenting
    /\ presenting' = FALSE
    /\ loading' = DismissLoadingScreen
    /\ listeners' = {l \in listeners : l.id # userListener}
    /\ currentUser' = nobody
    /\ UNCHANGED <<credVars, stack, userListener, registered, abandoned,
                   invitations, signing, sheetHides, known>>

-----------------------------------------------------------------------------
(* Popups, and the invitations that are answered later.                      *)

\* PopupVC's show operations.
PopupShown ==
    /\ Touchable
    /\ Top \in {"tabs", "popup"}
    /\ \E k \in (Len(stack) - MaxPopups)..Len(stack) : k > 0 /\ stack[k] = "tabs"
    /\ stack' = Append(stack, "popup")
    /\ UNCHANGED <<credVars, listeners, userListener, registered, currentUser,
                   covers, invitations, signing, presenting, sheetHides, known>>

\* PopupVC.handlePan.
PopupPanned ==
    /\ Touchable
    /\ Top = "popup"
    /\ Dismiss
    /\ UNCHANGED <<credVars, currentUser, covers, invitations, signing, presenting,
                   sheetHides, known>>

\* didChooseUsers of the group popup (the popup with the users has dismissed
\* itself): an update, with no cover.
InviteSent ==
    /\ Touchable
    /\ Top = "popup"
    /\ sent < MaxInvites
    /\ sent' = sent + 1
    /\ invites' = [invites EXCEPT ![contents.current_user] = @ + 1]
    /\ UNCHANGED <<credVars, screens, covers, misdirected, signing, presenting,
                   sheetHides, known>>

\* The write of the account that is signed in is acknowledged, and its
\* completion block dispatched.
InviteAcknowledged ==
    /\ invites[current_user] > 0
    /\ stream.state = "Open"
    /\ invites' = [invites EXCEPT ![current_user] = @ - 1]
    /\ main_queue' = Append(main_queue, [kind |-> "block", name |-> "answered"])
    /\ UNCHANGED <<auth, requests, fetches, contents, worker_queue, current_user,
                   stream, events, screens, covers, sent, misdirected, signing,
                   presenting, sheetHides, known>>

\* The completion block of didChooseUsers dismisses whatever is on top
\* (getCurrentViewController). A dismissal during a transition is left out.
InviteAnswered ==
    /\ ~presenting
    /\ RunBlock
    /\ Head(main_queue).name = "answered"
    /\ Dismiss
    /\ misdirected' = IF Top = "popup" THEN misdirected ELSE misdirected + 1
    /\ UNCHANGED <<currentUser, covers, invites, sent, signing, presenting,
                   sheetHides, known>>

-----------------------------------------------------------------------------
SessionNext ==
    \/ Background /\ UNCHANGED app
    \/ \E method \in {"login", "join"} : SignInTapped(method)
    \/ GoogleTapped
    \/ \E ok \in BOOLEAN : GoogleReturns(ok)
    \/ \E user \in Users \ {nobody} : AuthSucceeds(user)
    \/ AuthFails
    \/ SignedIn
    \/ SignInFailed
    \/ JoinShown
    \/ JoinClosed
    \/ Snapshot
    \/ SignOutTapped
    \/ SignOutPresented
    \/ PopupShown
    \/ PopupPanned
    \/ InviteSent
    \/ InviteAcknowledged
    \/ InviteAnswered

SessionSpec == SessionInit /\ [][SessionNext]_vars

-----------------------------------------------------------------------------
(* Properties.                                                               *)

TypeOK ==
    /\ CredTypeOK
    /\ stack \in Seq(Screen)
    /\ loading \in [covers : Nat, current : BOOLEAN]
    /\ signing \in Method \cup {"none", "consent"}
    /\ presenting \in BOOLEAN
    /\ listeners \subseteq Listener
    /\ userListener \in Nat
    /\ currentUser \in Users
    /\ invites \in [Users -> Nat]
    /\ sheetHides \in BOOLEAN
    /\ registered \in Nat
    /\ known \subseteq Users
    /\ sent \in 0..MaxInvites
    /\ abandoned \in Nat
    /\ misdirected \in Nat

\* As long as late answers dismiss nothing but popups there is at most one user
\* listener, and whoever uses the tabs has it: DataService.userListener, the one
\* that signing out removes, is registered for the account Auth has signed in,
\* whichever way it came in.
OneListener ==
    misdirected = 0 =>
        /\ \A l \in listeners : l.id = userListener
        /\ Touchable /\ Top = "tabs" /\ auth.object # 0 =>
                [id |-> userListener, user |-> auth.user] \in listeners

\* Signing out leaves no listener behind (DataService.signOut:
\* "DataService.userListener.remove() //IMPORTANT"): once the login screen it
\* presents is shown, no snapshot of a user document can arrive until somebody
\* signs in.
SignOutRemovesListener ==
    Touchable /\ Top = "login" /\ Len(stack) > 1 /\ auth.object = 0 =>
        listeners = {}

\* The app is covered only while something is under way: each cover on the window
\* is that of the sign-in or sign-out being carried out, or was left by a handler
\* that returned early (a Google sign-in that failed or was cancelled, a sign-out
\* before the user document was read); such a cover is never removed.
CoversAccounted ==
    loading.covers = abandoned + (IF presenting \/ signing \in Method THEN 1 ELSE 0)
=============================================================================
