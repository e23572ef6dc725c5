--------------------------- MODULE Correspondence ---------------------------
(***************************************************************************)
(* Posts after they were sent: the recipient's inbox and details screen    *)
(* (InboxVC, DetailsVC), the sender's outbox (OutboxVC, OutboxTBViewCell)  *)
(* and the conversation of an ongoing post (OngoingPostView), which counts *)
(* the unread replies of either side in two fields of the post document.   *)
(*                                                                         *)
(* Every user has one device.  Its plain writes go to the server in order, *)
(* some time later; replies and claims are transactions, which reach the   *)
(* server directly.  A plain write here changes fields of its own, and the *)
(* last of them says what they hold: sending one again, as WritePipeline   *)
(* does, changes nothing as long as no other write is between the two, and *)
(* one write at a time is what is modelled.  A transaction does not read,  *)
(* so that it is run again only when its answer is lost.  Buying the post  *)
(* is the business of StampPurchase.                                       *)
(***************************************************************************)
EXTENDS Integers, Sequences, FiniteSets

CONSTANTS
    Users,          \* accounts; the choose-user popup lists them all
    Gifts,          \* how many stamps can be attached to a post
    None,           \* no document, no row, no screen
    MaxPosts,       \* bound: posts sent in a behaviour
    MaxOpens,       \* bound: screens and rows opened
    MaxTaps,        \* bound: taps on "send" and "claim"
    MaxTransfers,   \* bound: posts handed on
    MaxFaults       \* bound: answers to transactions that are lost

ASSUME GiftAssumption  == Gifts \subseteq Nat
ASSUME BoundAssumption == /\ MaxPosts \in Nat /\ MaxOpens \in Nat
                          /\ MaxTaps \in Nat /\ MaxTransfers \in Nat
                          /\ MaxFaults \in Nat

Ids == 1 .. MaxPosts

Letter  == [from : Users, ongoing : BOOLEAN, gift : Gifts]
PostDoc == [to : Users, didRead : BOOLEAN, numStampsGiven : Gifts \cup {0},
            numRecipientUnreadReplies : Nat, numSenderUnreadReplies : Nat]
Row     == [didRead : BOOLEAN, numStampsGiven : Gifts \cup {0}]
Screen  == [id : Ids, via : {"inbox", "outbox"}, numStampsGiven : Gifts \cup {0},
            claimEnabled : BOOLEAN, unread : {"recipient", "sender"},
            atOpen : Nat, no : 1 .. MaxOpens]
Write   == [op : {"read", "resetRecipient", "resetSender", "transfer", "delete"},
            id : Ids, to : Users, no : 0 .. MaxOpens]
Txn     == [type : {"reply", "claim"}, id : Ids, unread : {"recipient", "sender"},
            amount : Gifts \cup {0}, no : 1 .. MaxOpens, tap : 1 .. MaxTaps]

VARIABLES
    \* ---- the server
    doc,            \* posts/<id>, or None when it is not there (any more)
    replies,        \* posts/<id>/replies: how many by the sender and by others
    \* ---- each device
    queue,          \* plain writes not yet at the server, oldest first
    txns,           \* transactions in flight
    currentUser,    \* DataService.currentUser # nil
    inbox,          \* InboxVC.items: a copy of each listed post
    outbox,         \* OutboxVC.posts
    screen,         \* the details screen, or the expanded outbox row
    \* ---- history
    letter,         \* sender, kind and gift of each post sent
    claimed,        \* stamps credited by claims, per post
    opened,         \* the users who opened the post, with the screen
    anonymous,      \* posts opened on a device before currentUser was known
    opens, taps, transfers, faults

deviceVars == <<queue, txns, currentUser, inbox, outbox, screen>>
vars == <<doc, replies, deviceVars, letter, claimed, opened, anonymous,
          opens, taps, transfers, faults>>

Init ==
    /\ doc = [i \in Ids |-> None]
    /\ replies = [i \in Ids |-> [sender |-> 0, others |-> 0]]
    /\ queue = [u \in Users |-> << >>]
    /\ txns = [u \in Users |-> {}]
    /\ currentUser = [u \in Users |-> FALSE]
    /\ inbox = [u \in Users |-> [i \in Ids |-> None]]
    /\ outbox = [u \in Users |-> {}]
    /\ screen = [u \in Users |-> None]
    /\ letter = << >>
    /\ claimed = [i \in Ids |-> 0]
    /\ opened = [i \in Ids |-> {}]
    /\ anonymous = {}
    /\ opens = 0 /\ taps = 0 /\ transfers = 0 /\ faults = 0
-----------------------------------------------------------------------------
(***************************************************************************)
(* Sending and listing.                                                    *)
(***************************************************************************)

\* Post.toDictionary and OngoingPost.toDictionary, as the server stores them.
NewDoc(to, gift) ==
    [to |-> to, didRead |-> FALSE, numStampsGiven |-> gift,
     numRecipientUnreadReplies |-> 0, numSenderUnreadReplies |-> 0]

\* The post a form has paid for reaches the server.
PostSent(u, to, isOngoing, gift) ==
    LET id == Len(letter) + 1
    IN  /\ id <= MaxPosts
        /\ letter' = Append(letter, [from |-> u, ongoing |-> isOngoing, gift |-> gift])
        /\ doc' = [doc EXCEPT ![id] = NewDoc(to, gift)]
        /\ UNCHANGED <<replies, deviceVars, claimed, opened, anonymous,
                       opens, taps, transfers, faults>>

\* DataService's listener on the user document runs for the first time.
UserKnown(u) ==
    /\ ~currentUser[u]
    /\ currentUser' = [currentUser EXCEPT ![u] = TRUE]
    /\ UNCHANGED <<doc, replies, queue, txns, inbox, outbox, screen, letter, claimed,
                   opened, anonymous, opens, taps, transfers, faults>>

\* Latency compensation, the part of it that the two lists can see: a query's
\* result is the documents of the server with the queued writes on top.
Pending(u, id, op) ==
    \E i \in 1 .. Len(queue[u]) : queue[u][i].op = op /\ queue[u][i].id = id

AddressedTo(u, id) ==
    \/ doc[id].to = u /\ ~Pending(u, id, "transfer")
    \/ \E i \in 1 .. Len(queue[u]) :
          /\ queue[u][i].op = "transfer" /\ queue[u][i].id = id /\ queue[u][i].to = u
          /\ \A j \in 1 .. Len(queue[u]) :
                queue[u][j].op = "transfer" /\ queue[u][j].id = id => j <= i

Exists(u, id) == doc[id] # None /\ ~Pending(u, id, "delete")

(***************************************************************************)
(* The two list listeners, which are removed while a details screen covers *)
(* the lists.                                                              *)
(***************************************************************************)
ListsVisible(u) == screen[u] # None => screen[u].via = "outbox"

InboxSnapshot(u) ==
    /\ ListsVisible(u)
    /\ inbox' = [inbox EXCEPT ![u] =
          [id \in Ids |->
             IF Exists(u, id) /\ AddressedTo(u, id)
               THEN [didRead |-> doc[id].didRead \/ Pending(u, id, "read"),
                     numStampsGiven |-> doc[id].numStampsGiven]
               ELSE None]]
    /\ UNCHANGED <<doc, replies, queue, txns, currentUser, outbox, screen, letter,
                   claimed, opened, anonymous, opens, taps, transfers, faults>>

OutboxSnapshot(u) ==
    /\ ListsVisible(u)
    /\ outbox' = [outbox EXCEPT ![u] =
          {id \in 1 .. Len(letter) : letter[id].from = u /\ Exists(u, id)}]
    /\ UNCHANGED <<doc, replies, queue, txns, currentUser, inbox, screen, letter,
                   claimed, opened, anonymous, opens, taps, transfers, faults>>
-----------------------------------------------------------------------------
(***************************************************************************)
(* Opening.  OngoingPostView.didMoveToSuperview takes the user for the     *)
(* sender when DataService.currentUser is known and is the post's sender;  *)
(* the counter its replies increment is then the recipient's, and the one  *)
(* it resets is the other, its own.                                        *)
(***************************************************************************)
UnreadReplyConstant_NoTest(u, id) == "recipient"   \* mutant: test dropped

UnreadReplyConstant(u, id) ==
    IF currentUser[u] /\ u = letter[id].from THEN "recipient" ELSE "sender"

ResetOp_NotReversed(u, id) ==               \* mutant: the reversal forgotten
    IF UnreadReplyConstant(u, id) = "recipient" THEN "resetRecipient" ELSE "resetSender"

ResetOp(u, id) ==
    IF UnreadReplyConstant(u, id) = "recipient" THEN "resetSender" ELSE "resetRecipient"

W(u, op, id) == [op |-> op, id |-> id, to |-> u, no |-> 0]

Moved_MarksRead(u, id) ==        \* mutant: marked as read by the shared view
    <<W(u, "read", id), W(u, ResetOp(u, id), id)>>

\* didMoveToSuperview's write; a post that is not ongoing shows its text only.
Moved(u, id) == IF letter[id].ongoing THEN <<W(u, ResetOp(u, id), id)>> ELSE << >>

\* The replies that the list a post was opened from counts: the sender's in
\* the inbox, everybody else's in the outbox.
RepliesTo(path, id) == IF path = "inbox" THEN replies[id].sender ELSE replies[id].others

Opened(u, id, path, given) ==
    /\ opens < MaxOpens
    /\ opens' = opens + 1
    /\ opened' = [opened EXCEPT ![id] = @ \cup {[user |-> u, via |-> path]}]
    /\ anonymous' = IF currentUser[u] THEN anonymous ELSE anonymous \cup {id}
    /\ screen' = [screen EXCEPT ![u] =
          [id |-> id, via |-> path, numStampsGiven |-> given, claimEnabled |-> TRUE,
           unread |-> UnreadReplyConstant(u, id), atOpen |-> RepliesTo(path, id),
           no |-> opens + 1]]

\* DetailsVC.viewWillAppear: an unread copy is marked read.
MarkRead_Inverted(u, id) ==                 \* mutant: the test inverted
    IF inbox[u][id].didRead THEN <<W(u, "read", id)>> ELSE << >>

MarkRead(u, id) ==
    IF inbox[u][id].didRead THEN << >> ELSE <<W(u, "read", id)>>

\* A row of the inbox is selected: DetailsVC opens with the row's copy.
DetailsOpened(u, id) ==
    /\ screen[u] = None /\ inbox[u][id] # None
    /\ Opened(u, id, "inbox", inbox[u][id].numStampsGiven)
    /\ queue' = [queue EXCEPT ![u] = @ \o MarkRead(u, id) \o Moved(u, id)]
    /\ UNCHANGED <<doc, replies, txns, currentUser, inbox, outbox, letter, claimed,
                   taps, transfers, faults>>

(***************************************************************************)
(* A row of the outbox is selected: it is expanded, and then the row that  *)
(* was expanded before is collapsed.  Collapsing takes the conversation    *)
(* out of its superview, which runs didMoveToSuperview once more.          *)
(***************************************************************************)
RowExpanded(u, id) ==
    /\ ListsVisible(u) /\ id \in outbox[u]
    /\ screen[u] # None => screen[u].id # id
    /\ Opened(u, id, "outbox", 0)
    /\ queue' = [queue EXCEPT ![u] = @ \o Moved(u, id) \o
                   IF screen[u] = None THEN << >> ELSE Moved(u, screen[u].id)]
    /\ UNCHANGED <<doc, replies, txns, currentUser, inbox, outbox, letter, claimed,
                   taps, transfers, faults>>

RowCollapsed(u) ==
    /\ screen[u] # None /\ screen[u].via = "outbox"
    /\ screen' = [screen EXCEPT ![u] = None]
    /\ queue' = [queue EXCEPT ![u] = @ \o Moved(u, screen[u].id)]
    /\ UNCHANGED <<doc, replies, txns, currentUser, inbox, outbox, letter, claimed,
                   opened, anonymous, opens, taps, transfers, faults>>

\* screenWasSwiped, or the menu's back button.
DetailsClosed(u) ==
    /\ screen[u] # None /\ screen[u].via = "inbox"
    /\ screen' = [screen EXCEPT ![u] = None]
    /\ UNCHANGED <<doc, replies, queue, txns, currentUser, inbox, outbox, letter,
                   claimed, opened, anonymous, opens, taps, transfers, faults>>
-----------------------------------------------------------------------------
(***************************************************************************)
(* Using an open post.                                                     *)
(***************************************************************************)

\* sendBtnTapped: the reply and the other side's counter, in one transaction.
\* The button stays enabled while it is in flight.
SendBtnTapped(u) ==
    /\ screen[u] # None /\ letter[screen[u].id].ongoing
    /\ currentUser[u] /\ taps < MaxTaps
    /\ taps' = taps + 1
    /\ txns' = [txns EXCEPT ![u] = @ \cup
          {[type |-> "reply", id |-> screen[u].id, unread |-> screen[u].unread,
            amount |-> 0, no |-> screen[u].no, tap |-> taps + 1]}]
    /\ UNCHANGED <<doc, replies, queue, currentUser, inbox, outbox, screen, letter,
                   claimed, opened, anonymous, opens, transfers, faults>>

(***************************************************************************)
(* claimStampsGivenBtnTapped, visible when the screen's copy has stamps:   *)
(* one transaction empties the post and credits the user with the copy's   *)
(* number.  The button is disabled when the transaction has succeeded.     *)
(***************************************************************************)
ClaimAmount_Emptied(u) == 0      \* mutant: read after the copy was emptied

ClaimAmount(u) == screen[u].numStampsGiven

ClaimTapped(u) ==
    /\ screen[u] # None /\ screen[u].via = "inbox"
    /\ screen[u].claimEnabled /\ screen[u].numStampsGiven # 0
    /\ currentUser[u] /\ taps < MaxTaps
    /\ taps' = taps + 1
    /\ txns' = [txns EXCEPT ![u] = @ \cup
          {[type |-> "claim", id |-> screen[u].id, unread |-> screen[u].unread,
            amount |-> ClaimAmount(u), no |-> screen[u].no,
            tap |-> taps + 1]}]
    /\ UNCHANGED <<doc, replies, queue, currentUser, inbox, outbox, screen, letter,
                   claimed, opened, anonymous, opens, transfers, faults>>

\* didChooseUsers: the post is handed on, and the details screen popped.
TransferChosen(u, to) ==
    /\ screen[u] # None /\ screen[u].via = "inbox"
    /\ transfers < MaxTransfers
    /\ transfers' = transfers + 1
    /\ queue' = [queue EXCEPT ![u] =
          Append(@, [op |-> "transfer", id |-> screen[u].id, to |-> to, no |-> 0])]
    /\ screen' = [screen EXCEPT ![u] = None]
    /\ UNCHANGED <<doc, replies, txns, currentUser, inbox, outbox, letter, claimed,
                   opened, anonymous, opens, taps, faults>>

\* deleteBtnTapped of the details screen, confirmed; the screen is popped by
\* the completion block.  (Asked once per post: a second delete does nothing.)
DeleteTapped(u) ==
    /\ screen[u] # None /\ screen[u].via = "inbox"
    /\ ~Pending(u, screen[u].id, "delete")
    /\ queue' = [queue EXCEPT ![u] =
          Append(@, [op |-> "delete", id |-> screen[u].id, to |-> u,
                     no |-> screen[u].no])]
    /\ UNCHANGED <<doc, replies, txns, currentUser, inbox, outbox, screen, letter,
                   claimed, opened, anonymous, opens, taps, transfers, faults>>

\* The delete action of a row of the inbox or of the outbox, confirmed.
InboxRowDeleted(u, id) ==
    /\ ListsVisible(u) /\ inbox[u][id] # None
    /\ queue' = [queue EXCEPT ![u] = Append(@, W(u, "delete", id))]
    /\ inbox' = [inbox EXCEPT ![u][id] = None]
    /\ UNCHANGED <<doc, replies, txns, currentUser, outbox, screen, letter, claimed,
                   opened, anonymous, opens, taps, transfers, faults>>

OutboxRowDeleted(u, id) ==
    /\ ListsVisible(u) /\ id \in outbox[u]
    /\ queue' = [queue EXCEPT ![u] = Append(@, W(u, "delete", id))]
    /\ outbox' = [outbox EXCEPT ![u] = @ \ {id}]
    /\ screen' = IF screen[u] # None /\ screen[u].id = id
                   THEN [screen EXCEPT ![u] = None] ELSE screen
    /\ UNCHANGED <<doc, replies, txns, currentUser, inbox, letter, claimed, opened,
                   anonymous, opens, taps, transfers, faults>>
-----------------------------------------------------------------------------
(***************************************************************************)
(* The server.  A write or transaction that updates a document that is not *)
(* there fails as a whole; the app only logs it.                           *)
(***************************************************************************)
Updated_Decrement(p, w) ==            \* mutant: counted down, not reset
    CASE w.op = "read"           -> [p EXCEPT !.didRead = TRUE]
      [] w.op = "resetRecipient" -> [p EXCEPT !.numRecipientUnreadReplies = @ - 1]
      [] w.op = "resetSender"    -> [p EXCEPT !.numSenderUnreadReplies = @ - 1]
      [] w.op = "transfer"       -> [p EXCEPT !.to = w.to]
      [] w.op = "delete"         -> None

Updated(p, w) ==
    CASE w.op = "read"           -> [p EXCEPT !.didRead = TRUE]
      [] w.op = "resetRecipient" -> [p EXCEPT !.numRecipientUnreadReplies = 0]
      [] w.op = "resetSender"    -> [p EXCEPT !.numSenderUnreadReplies = 0]
      [] w.op = "transfer"       -> [p EXCEPT !.to = w.to]
      [] w.op = "delete"         -> None

\* The server takes the oldest plain write of u's device; the completion
\* block of a delete pops the details screen it was asked on.
WriteApplied(u) ==
    /\ queue[u] # << >>
    /\ LET w == Head(queue[u])
       IN  /\ doc' = [doc EXCEPT ![w.id] = IF @ = None THEN None ELSE Updated(@, w)]
           /\ screen' = IF screen[u] # None /\ w.op = "delete" /\ screen[u].no = w.no
                          THEN [screen EXCEPT ![u] = None] ELSE screen
    /\ queue' = [queue EXCEPT ![u] = Tail(@)]
    /\ UNCHANGED <<replies, txns, currentUser, inbox, outbox, letter, claimed, opened,
                   anonymous, opens, taps, transfers, faults>>

Incremented(p, unread) ==
    IF unread = "recipient" THEN [p EXCEPT !.numRecipientUnreadReplies = @ + 1]
                            ELSE [p EXCEPT !.numSenderUnreadReplies = @ + 1]

\* The counter that sendBtnTapped's update block increments is the view's when
\* the block runs.  Collapsing the row has set it once more by then, perhaps.
CounterRead(u, t) ==
    {t.unread} \cup (IF screen[u] = None \/ screen[u].no # t.no
                       THEN {UnreadReplyConstant(u, t.id)} ELSE {})

\* The transaction is over when its answer arrives.  When it is lost, the update
\* block runs again, and the transaction is committed once more.
Answered(u, t) ==
    \/ txns' = [txns EXCEPT ![u] = @ \ {t}] /\ faults' = faults
    \/ txns' = txns /\ faults < MaxFaults /\ faults' = faults + 1

ReplyCommitted(u) ==
    \E t \in txns[u] : \E c \in CounterRead(u, t) :
        /\ t.type = "reply" /\ doc[t.id] # None
        /\ replies' = IF u = letter[t.id].from
                        THEN [replies EXCEPT ![t.id].sender = @ + 1]
                        ELSE [replies EXCEPT ![t.id].others = @ + 1]
        /\ doc' = [doc EXCEPT ![t.id] = Incremented(@, c)]
        /\ Answered(u, t)
        /\ UNCHANGED <<queue, currentUser, inbox, outbox, screen, letter, claimed,
                       opened, anonymous, opens, taps, transfers>>

ClaimCommitted(u) ==
    \E t \in txns[u] :
        /\ t.type = "claim" /\ doc[t.id] # None
        /\ doc' = [doc EXCEPT ![t.id].numStampsGiven = 0]
        /\ claimed' = [claimed EXCEPT ![t.id] = @ + t.amount]
        /\ Answered(u, t)
        /\ screen' = IF screen[u] # None /\ screen[u].no = t.no /\ faults' = faults
                       THEN [screen EXCEPT ![u].claimEnabled = FALSE] ELSE screen
        /\ UNCHANGED <<replies, queue, currentUser, inbox, outbox, letter, opened,
                       anonymous, opens, taps, transfers>>

\* Offline, or the document is gone.
TxnFailed(u) ==
    \E t \in txns[u] :
        /\ txns' = [txns EXCEPT ![u] = @ \ {t}]
        /\ UNCHANGED <<doc, replies, queue, currentUser, inbox, outbox, screen, letter,
                       claimed, opened, anonymous, opens, taps, transfers, faults>>
-----------------------------------------------------------------------------
Next ==
    \E u \in Users :
        \/ \E to \in Users, b \in BOOLEAN, g \in Gifts : PostSent(u, to, b, g)
        \/ UserKnown(u)
        \/ InboxSnapshot(u)
        \/ OutboxSnapshot(u)
        \/ \E id \in Ids : DetailsOpened(u, id)
        \/ \E id \in Ids : RowExpanded(u, id)
        \/ RowCollapsed(u)
        \/ DetailsClosed(u)
        \/ SendBtnTapped(u)
        \/ ClaimTapped(u)
        \/ \E to \in Users : TransferChosen(u, to)
        \/ DeleteTapped(u)
        \/ \E id \in Ids : InboxRowDeleted(u, id)
        \/ \E id \in Ids : OutboxRowDeleted(u, id)
        \/ WriteApplied(u)
        \/ ReplyCommitted(u)
        \/ ClaimCommitted(u)
        \/ TxnFailed(u)

Spec == Init /\ [][Next]_vars

\* Fairness: the client sends its plain writes in the end.  Nothing is
\* assumed of the users, and nothing of the transactions.
FairSpec == Spec /\ \A u \in Users : WF_vars(WriteApplied(u))
-----------------------------------------------------------------------------
(***************************************************************************)
(* Properties.                                                             *)
(***************************************************************************)
Sent == 1 .. Len(letter)

ServerType ==
    /\ doc \in [Ids -> PostDoc \cup {None}]
    /\ replies \in [Ids -> [sender : Nat, others : Nat]]

DeviceType ==
    /\ queue \in [Users -> Seq(Write)]
    /\ txns \in [Users -> SUBSET Txn]
    /\ currentUser \in [Users -> BOOLEAN]
    /\ inbox \in [Users -> [Ids -> Row \cup {None}]]
    /\ outbox \in [Users -> SUBSET Ids]
    /\ screen \in [Users -> Screen \cup {None}]

HistoryType ==
    /\ letter \in Seq(Letter) /\ Len(letter) <= MaxPosts
    /\ claimed \in [Ids -> Nat]
    /\ opened \in [Ids -> SUBSET [user : Users, via : {"inbox", "outbox"}]]
    /\ anonymous \subseteq Ids
    /\ opens \in 0 .. MaxOpens /\ taps \in 0 .. MaxTaps
    /\ transfers \in 0 .. MaxTransfers /\ faults \in 0 .. MaxFaults

\* The type of the state; the unread counters in particular are never negative.
TypeOK == ServerType /\ DeviceType /\ HistoryType

CountsEveryUnread(id) ==
    doc[id] # None =>
        /\ (\A o \in opened[id] : o.user = letter[id].from) =>
              doc[id].numRecipientUnreadReplies = replies[id].sender
        /\ (\A o \in opened[id] : o.user # letter[id].from) =>
              doc[id].numSenderUnreadReplies = replies[id].others

(***************************************************************************)
(* Until somebody on one side of an ongoing post opens it, that side's     *)
(* counter is exactly the number of replies the other side has sent: the   *)
(* resets that the other side's openings queue never touch it, whatever    *)
(* order they reach the server in (OngoingPostView.didMoveToSuperview's    *)
(* "not the other user").  Posts that were opened while                    *)
(* DataService.currentUser was still nil are excepted.                     *)
(***************************************************************************)
UnreadUntilOpened == \A id \in Sent : id \notin anonymous => CountsEveryUnread(id)

(***************************************************************************)
(* An unread counter of a post between two users goes down only when a     *)
(* write of its own side takes effect: what the comment says of the reset  *)
(* ("the user who opens the message, not the other user"), of every        *)
(* opening.                                                                *)
(***************************************************************************)
TakesEffect(u) == queue[u] # << >> /\ queue'[u] = Tail(queue[u])

OwnCounterOnly(id) ==
    LET p == doc[id]  q == doc'[id]
    IN  p # None /\ q # None /\ p.to # letter[id].from =>
          /\ q.numRecipientUnreadReplies < p.numRecipientUnreadReplies =>
                \E u \in Users : TakesEffect(u) /\ u # letter[id].from
          /\ q.numSenderUnreadReplies < p.numSenderUnreadReplies =>
                \E u \in Users : TakesEffect(u) /\ u = letter[id].from

ResetsNotTheOther == [][\A id \in Sent : OwnCounterOnly(id)]_vars

\* The counter a list shows: the recipient's in the inbox, the sender's in
\* the outbox (OngoingPostTableViewCell, OutboxTBViewCell).
Badge(path, id) == IF path = "inbox" THEN doc[id].numRecipientUnreadReplies
                                     ELSE doc[id].numSenderUnreadReplies

ClearedByOpening(u) ==
    LET s == screen[u]
    IN  /\ letter[s.id].ongoing /\ doc[s.id] # None
        /\ ~Pending(u, s.id, "resetRecipient") /\ ~Pending(u, s.id, "resetSender")
        => Badge(s.via, s.id) <= RepliesTo(s.via, s.id) - s.atOpen

OwnSide(u) == screen[u].via = "outbox" <=> letter[screen[u].id].from = u

(***************************************************************************)
(* Once the reset of an opening has reached the server, the badge of the   *)
(* open conversation counts at most the replies that came after the        *)
(* opening: didMoveToSuperview clears what its user saw.  A post addressed *)
(* to its own sender, opened from the inbox, is excepted: its reset takes  *)
(* the sender's counter.                                                   *)
(***************************************************************************)
OpeningClearsBadge ==
    \A u \in Users :
        screen[u] # None /\ screen[u].id \notin anonymous /\ OwnSide(u)
            => ClearedByOpening(u)

(***************************************************************************)
(* The stamps attached to a post are attached, or were credited to         *)
(* somebody, and never both: no order of stale copies, repeated taps,      *)
(* claims of two users after a transfer, resets and reports that reach the *)
(* server late, lost answers and failures loses them or gives them away    *)
(* while the post still has them (DetailsVC.claimStampsGivenBtnTapped).    *)
(* Two claims may both be credited: nothing in the code prevents it.       *)
(***************************************************************************)
StampsNotLost ==
    \A id \in Sent : doc[id] # None =>
        IF doc[id].numStampsGiven = letter[id].gift THEN claimed[id] = 0
                                                    ELSE claimed[id] >= letter[id].gift

(***************************************************************************)
(* A post the sender sees as READ was opened from an inbox: expanding it   *)
(* in the outbox shows the same view and does not mark it.                 *)
(***************************************************************************)
ReadWasOpened ==
    \A id \in Sent : doc[id] # None /\ doc[id].didRead
                        => \E o \in opened[id] : o.via = "inbox"

(***************************************************************************)
(* A post that was opened from an inbox is reported as read to its sender  *)
(* in the end, unless it is deleted: a row whose copy says that it was     *)
(* read is only ever opened when somebody's report is on its way.          *)
(***************************************************************************)
ReadReported ==
    \A id \in Ids : (\E o \in opened[id] : o.via = "inbox")
                       ~> (doc[id] = None \/ doc[id].didRead)
=============================================================================
