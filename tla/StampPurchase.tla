--------------------------- MODULE StampPurchase ---------------------------
(***************************************************************************)
(* Buying with stamps.  Every purchase of the app goes through the payment *)
(* popup (PaymentPopupVC): it compares the price with the balance that the *)
(* user-document listener cached in DataService, writes the difference     *)
(* back to users/<uid>.numStamps and, without waiting for that write, lets *)
(* its delegate write the product (a post, a group, a group membership, an *)
(* entry, an investment).  Claims and investments credit the same field    *)
(* with server-side increments.                                            *)
(*                                                                         *)
(* A device runs one copy of the app: a main queue that runs the handlers  *)
(* one at a time, and a Firestore client whose plain writes go through a   *)
(* persistent FIFO queue and are visible locally at once, while its        *)
(* transactions go to the server directly.  The server applies the writes  *)
(* of a queue in order, the client hears of it later or not at all: writes *)
(* whose answers are lost are sent again, a write that was applied may be  *)
(* reported as refused, and a transaction that committed may be run again. *)
(***************************************************************************)
EXTENDS Integers, Sequences, FiniteSets

CONSTANTS
    Users,          \* accounts: the documents of the collection "users"
    Devices,        \* running copies of the app
    Owner,          \* the account signed in on each device
    InitStamps,     \* numStamps of each account (nothing in the app mints stamps)
    Offers,         \* what the forms can put in front of the payment popup
    NoOffer,        \* no payment popup on the screen
    MaxPurchases,   \* bound: payments approved in a behaviour
    MaxClaims,      \* bound: taps on "claim" in a behaviour
    MaxKills,       \* bound: times the app is killed in a behaviour
    MaxFaults       \* bound: times the network loses answers in a behaviour

PlainKinds == {"post", "group", "join"}   \* product written by setData/updateData
TxnKinds   == {"entry", "invest"}         \* product written by runTransaction
Kinds      == PlainKinds \cup TxnKinds

(***************************************************************************)
(* An offer is a filled-in form with its total price.  gift is the part of *)
(* the price that goes to the user `to': the stamps attached to a post, or *)
(* the creator's charge of an investment.  complete says whether the form  *)
(* has everything its delegate needs.                                      *)
(***************************************************************************)
Offer == [kind : Kinds, cost : Nat, gift : Nat, to : Users, complete : BOOLEAN]

ASSUME OwnerAssumption  == Owner \in [Devices -> Users]
ASSUME StampsAssumption == InitStamps \in [Users -> Nat]
ASSUME OfferAssumption  == /\ Offers \subseteq Offer
                           /\ NoOffer \notin Offers
                           /\ \A o \in Offers : o.gift <= o.cost
ASSUME BoundAssumption  == /\ MaxPurchases \in Nat
                           /\ MaxClaims \in Nat
                           /\ MaxKills \in Nat
                           /\ MaxFaults \in Nat

Ids    == 1 .. MaxPurchases
Prices == {o.cost : o \in Offers} \cup {0}   \* a plain entry is free
Gifts  == {o.gift : o \in Offers} \cup {0}

VARIABLES
    \* ---- the server
    versions,       \* users/<uid>: the versions of the document, oldest first
    numStampsGiven, \* posts/<id>.numStampsGiven, by purchase
    delivered,      \* purchases whose product documents exist
    paid,           \* purchases whose payment write was applied
    refused,        \* purchases whose payment was reported as refused
    \* ---- the Firestore client of each device
    known,          \* the version of the user's document it has a copy of
    queue,          \* plain writes not yet acknowledged, oldest first
    unsynced,       \* how many of the newest are not on disk yet
    answers,        \* answers under way to it: the version each of the first
                    \* writes of the queue left the user's document at
    txns,           \* transactions in flight
    \* ---- the app on each device
    currentUserNumStamps,   \* DataService.currentUserNumStamps
    currentUser,    \* DataService.currentUser # nil
    echoed,         \* the listener has run since the last payment write
    popup,          \* pricing items and delegate of the visible PaymentPopupVC
    loading,        \* LoadingVC.currentLoadingVC # nil
    paying,         \* the purchase whose delegate the loading screen waits for
    callbacks,      \* product completions waiting for the main queue
    \* ---- history
    bought,         \* approved purchases, in order
    spent,          \* sum of their prices, per account
    charged,        \* sum of the prices acknowledged to the client, per account
    claims,         \* taps on "claim" so far
    kills,          \* times the app was killed so far
    faults          \* times answers were lost so far

serverVars  == <<versions, numStampsGiven, delivered, paid, refused>>
storeVars   == <<known, queue, unsynced, answers, txns>>
appVars     == <<currentUserNumStamps, currentUser, echoed, popup, loading,
                 paying, callbacks>>
historyVars == <<bought, spent, charged, claims, kills, faults>>
vars        == <<serverVars, storeVars, appVars, historyVars>>

-----------------------------------------------------------------------------
(***************************************************************************)
(* Plain writes and transactions.                                          *)
(***************************************************************************)
Payment(id, val, cost) == [type |-> "payment", id |-> id, val |-> val, cost |-> cost]
Product(id)            == [type |-> "product", id |-> id, val |-> 0, cost |-> 0]

Write    == [type : {"payment", "product"}, id : Ids, val : Int, cost : Prices]
Txn      == [type : {"claim", "product"}, id : Ids, amount : Gifts, tap : 0 .. MaxClaims]
Callback == [id : Ids, ok : BOOLEAN]
Purchase == [dev : Devices, offer : Offers]

\* One version of a user document; credited, a history field, is the sum of
\* the increments committed so far.
Version == [numStamps : Int, credited : Nat]

Newest(u) == versions[u][Len(versions[u])]

PaymentsAt(q) == {i \in 1 .. Len(q) : q[i].type = "payment"}

\* The server's balance as far as the client of d knows it.
Copy(d) == versions[Owner[d]][known[d]].numStamps

(***************************************************************************)
(* LocalDocumentsView::GetDocument for the user's numStamps (see LocalView *)
(* for the view as a whole): the newest pending payment, else the cached   *)
(* value of the server.                                                    *)
(***************************************************************************)
IsLocalView(d, v) ==
    \/ PaymentsAt(queue[d]) = {} /\ v = Copy(d)
    \/ \E i \in PaymentsAt(queue[d]) :
          /\ \A j \in PaymentsAt(queue[d]) : j <= i
          /\ v = queue[d][i].val

Init ==
    /\ versions = [u \in Users |-> <<[numStamps |-> InitStamps[u], credited |-> 0]>>]
    /\ numStampsGiven = [i \in Ids |-> 0]
    /\ delivered = {} /\ paid = {} /\ refused = {}
    /\ known = [d \in Devices |-> 1]
    /\ queue = [d \in Devices |-> << >>]
    /\ unsynced = [d \in Devices |-> 0]
    /\ answers = [d \in Devices |-> << >>]
    /\ txns = [d \in Devices |-> {}]
    /\ currentUserNumStamps = [d \in Devices |-> 0]
    /\ currentUser = [d \in Devices |-> FALSE]
    /\ echoed = [d \in Devices |-> TRUE]
    /\ popup = [d \in Devices |-> NoOffer]
    /\ loading = [d \in Devices |-> FALSE]
    /\ paying = [d \in Devices |-> 0]
    /\ callbacks = [d \in Devices |-> {}]
    /\ bought = << >>
    /\ spent = [u \in Users |-> 0]
    /\ charged = [u \in Users |-> 0]
    /\ claims = 0 /\ kills = 0 /\ faults = 0

-----------------------------------------------------------------------------
(***************************************************************************)
(* The app.  The loading screen covers the window: while it is up no       *)
(* button can be tapped.                                                   *)
(***************************************************************************)
Tappable_NoOverlay(d) == TRUE               \* mutant: the overlay lets taps through

Tappable(d) == ~loading[d]

\* processTapped: `cost <= userStamps', and the value it then writes back.
CanAfford_OffByOne(d, o) == o.cost <= currentUserNumStamps[d] + 1   \* mutant: off by one

CanAfford(d, o) == o.cost <= currentUserNumStamps[d]

NewBalance_GiftOnly(d, o) == currentUserNumStamps[d] - o.gift   \* mutant: fee forgotten

NewBalance(d, o) == currentUserNumStamps[d] - o.cost

(***************************************************************************)
(* nextBtnTapped of a form, then showPaymentPopup.  Only the entry form    *)
(* opens the popup without looking at what is filled in; the form of an    *)
(* investment opens from a row whose button the entry's creator does not   *)
(* see (CommunityTableViewCell.ConfigureCell).                             *)
(***************************************************************************)
NextBtnTapped(d, o) ==
    /\ Tappable(d) /\ popup[d] = NoOffer
    /\ o.kind = "invest" => o.to # Owner[d]
    /\ o.complete \/ o.kind = "entry"
    /\ popup' = [popup EXCEPT ![d] = o]
    /\ UNCHANGED <<serverVars, storeVars, historyVars, currentUserNumStamps,
                   currentUser, echoed, loading, paying, callbacks>>

\* PopupVC.handlePan: the popup is swiped away.
PopupSwiped(d) ==
    /\ Tappable(d) /\ popup[d] # NoOffer
    /\ popup' = [popup EXCEPT ![d] = NoOffer]
    /\ UNCHANGED <<serverVars, storeVars, historyVars, currentUserNumStamps,
                   currentUser, echoed, loading, paying, callbacks>>

\* The order in which processTapped and its delegate queue their writes.
WriteBoth_Swapped(q, pay, prod) == Append(Append(q, prod), pay)   \* mutant: order

WriteBoth_PayOnly(q, pay, prod) == Append(q, pay)     \* mutant: product forgotten

WriteBoth(q, pay, prod) == Append(Append(q, pay), prod)

(***************************************************************************)
(* The delegates' didReturnFromPayment(isSuccessfull: true): the product   *)
(* of purchase id joins the queue of plain writes, or starts a             *)
(* transaction, or (an entry without a group) is silently dropped.         *)
(***************************************************************************)
DidReturnFromPayment(d, id, o, pay) ==
    IF o.kind \in PlainKinds
      THEN /\ queue' = [queue EXCEPT ![d] = WriteBoth(@, pay, Product(id))]
           /\ unsynced' = [unsynced EXCEPT ![d] = @ + 2]
           /\ UNCHANGED txns
      ELSE /\ queue' = [queue EXCEPT ![d] = Append(@, pay)]
           /\ unsynced' = [unsynced EXCEPT ![d] = @ + 1]
           /\ txns' = IF o.complete
                        THEN [txns EXCEPT ![d] = @ \cup
                                {[type |-> "product", id |-> id,
                                  amount |-> o.gift, tap |-> 0]}]
                        ELSE txns

(***************************************************************************)
(* processTapped, when the cached balance covers the price: the new        *)
(* balance is an absolute value computed from the cache, and the delegate  *)
(* is told of success before the write is acknowledged.                    *)
(***************************************************************************)
ProcessTapped(d) ==
    LET o  == popup[d]
        id == Len(bought) + 1
    IN  /\ Tappable(d) /\ o # NoOffer
        /\ id <= MaxPurchases
        /\ currentUser[d]
        /\ CanAfford(d, o)
        /\ loading' = [loading EXCEPT ![d] = TRUE]
        /\ paying' = [paying EXCEPT ![d] = id]
        /\ echoed' = [echoed EXCEPT ![d] = FALSE]
        /\ bought' = Append(bought, [dev |-> d, offer |-> o])
        /\ spent' = [spent EXCEPT ![Owner[d]] = @ + o.cost]
        /\ DidReturnFromPayment(d, id, o,
              Payment(id, NewBalance(d, o), o.cost))
        /\ UNCHANGED <<serverVars, known, answers, currentUserNumStamps, currentUser,
                       popup, callbacks, charged, claims, kills, faults>>

(***************************************************************************)
(* processTapped, when it does not: every delegate ignores a failure, so   *)
(* the loading screen stays up.                                            *)
(***************************************************************************)
ProcessDeclined(d) ==
    /\ Tappable(d) /\ popup[d] # NoOffer
    /\ ~CanAfford(d, popup[d])
    /\ loading' = [loading EXCEPT ![d] = TRUE]
    /\ UNCHANGED <<serverVars, storeVars, historyVars, currentUserNumStamps,
                   currentUser, echoed, popup, paying, callbacks>>

\* What of a write queue survives when its newest n writes are not on disk.
OnDisk_Nothing(q, n) == << >>         \* mutant: persistence switched off

OnDisk(q, n) == SubSeq(q, 1, Len(q) - n)

(***************************************************************************)
(* The process ends: memory is gone, the unsynced tail of the write queue  *)
(* and the transactions in flight with it; answers under way find nobody;  *)
(* the next launch starts with the authenticated user, no snapshot yet and *)
(* the queue found on disk, all of which is sent again.                    *)
(***************************************************************************)
AppGone(d) ==
    /\ queue' = [queue EXCEPT ![d] = OnDisk(@, unsynced[d])]
    /\ unsynced' = [unsynced EXCEPT ![d] = 0]
    /\ answers' = [answers EXCEPT ![d] = << >>]
    /\ txns' = [txns EXCEPT ![d] = {}]
    /\ currentUserNumStamps' = [currentUserNumStamps EXCEPT ![d] = 0]
    /\ currentUser' = [currentUser EXCEPT ![d] = FALSE]
    /\ echoed' = [echoed EXCEPT ![d] = TRUE]
    /\ popup' = [popup EXCEPT ![d] = NoOffer]
    /\ loading' = [loading EXCEPT ![d] = FALSE]
    /\ paying' = [paying EXCEPT ![d] = 0]
    /\ callbacks' = [callbacks EXCEPT ![d] = {}]
    /\ kills' = kills + 1
    /\ UNCHANGED <<serverVars, known, bought, spent, charged, claims, faults>>

(***************************************************************************)
(* processTapped before the first snapshot of the user document: the       *)
(* forced unwrapping of DataService.currentUser traps.                     *)
(***************************************************************************)
ProcessTrap(d) ==
    /\ kills < MaxKills
    /\ Tappable(d) /\ popup[d] # NoOffer
    /\ ~currentUser[d]
    /\ CanAfford(d, popup[d])
    /\ AppGone(d)

\* External: the system or the user ends the app at any time.
Kill(d) ==
    /\ kills < MaxKills
    /\ AppGone(d)

(***************************************************************************)
(* The completion block of the product write or transaction: the loading   *)
(* screen goes; only on success is the popup dismissed too.  Blocks and    *)
(* snapshots share the main queue, so the snapshot of the payment write,   *)
(* raised when it was queued, has been handled by then.                    *)
(***************************************************************************)
ProductCompletion(d) ==
    \E c \in callbacks[d] :
        /\ echoed[d]
        /\ callbacks' = [callbacks EXCEPT ![d] = @ \ {c}]
        /\ loading' = [loading EXCEPT ![d] = FALSE]
        /\ paying' = [paying EXCEPT ![d] = 0]
        /\ popup' = IF c.ok THEN [popup EXCEPT ![d] = NoOffer] ELSE popup
        /\ UNCHANGED <<serverVars, storeVars, historyVars, currentUserNumStamps,
                       currentUser, echoed>>

\* DataService.configureUserListener: the snapshot block of the user document.
UserSnapshot(d) ==
    \E v \in {Copy(d)} \cup {queue[d][i].val : i \in PaymentsAt(queue[d])} :
        /\ IsLocalView(d, v)
        /\ ~(currentUser[d] /\ echoed[d] /\ currentUserNumStamps[d] = v)
        /\ currentUserNumStamps' = [currentUserNumStamps EXCEPT ![d] = v]
        /\ currentUser' = [currentUser EXCEPT ![d] = TRUE]
        /\ echoed' = [echoed EXCEPT ![d] = TRUE]
        /\ UNCHANGED <<serverVars, storeVars, historyVars, popup, loading,
                       paying, callbacks>>

(***************************************************************************)
(* DetailsVC.claimStampsGivenBtnTapped on a received post.  The amount is  *)
(* the numStampsGiven of the copy of the post that the screen was opened   *)
(* with, current or from before an earlier claim; the button is invisible  *)
(* when that copy says 0.                                                  *)
(***************************************************************************)
ClaimTapped(d, id) ==
    /\ Tappable(d) /\ popup[d] = NoOffer /\ currentUser[d]
    /\ claims < MaxClaims
    /\ id \in delivered
    /\ bought[id].offer.kind = "post" /\ bought[id].offer.to = Owner[d]
    /\ \E amount \in {bought[id].offer.gift, numStampsGiven[id]} \ {0} :
          txns' = [txns EXCEPT ![d] = @ \cup
                     {[type |-> "claim", id |-> id, amount |-> amount,
                       tap |-> claims + 1]}]
    /\ claims' = claims + 1
    /\ UNCHANGED <<serverVars, known, queue, unsynced, answers, appVars, bought,
                   spent, charged, kills, faults>>
-----------------------------------------------------------------------------
(***************************************************************************)
(* The Firestore client and server.                                        *)
(***************************************************************************)

\* WriteLocally: the oldest write that is only in memory reaches the disk.
WritePersisted(d) ==
    /\ unsynced[d] > 0
    /\ unsynced' = [unsynced EXCEPT ![d] = @ - 1]
    /\ UNCHANGED <<serverVars, known, queue, answers, txns, appVars, historyVars>>

\* The position of the write the server handles next: the first one that is
\* not answered on this call.
NextSent(d) == Len(answers[d]) + 1

\* FillWritePipeline takes writes from the disk, in order.
CanSend(d) == NextSent(d) <= Len(queue[d]) - unsynced[d]

\* The completion block of a product write or transaction still exists only
\* in the run of the app that issued it.
Completed_OnSuccess(d, id, isOk) ==      \* mutant: errors are not reported
    callbacks' = IF paying[d] = id /\ isOk
                   THEN [callbacks EXCEPT ![d] = @ \cup {[id |-> id, ok |-> isOk]}]
                   ELSE callbacks

Completed(d, id, isOk) ==
    callbacks' = IF paying[d] = id
                   THEN [callbacks EXCEPT ![d] = @ \cup {[id |-> id, ok |-> isOk]}]
                   ELSE callbacks

\* The server's user document gets one more version.
NewVersion(u, stamps, sum) ==
    versions' = [versions EXCEPT ![u] = Append(@, [numStamps |-> stamps, credited |-> sum])]

\* The balance that a payment leaves on the server.
Paid_Decrement(u, w) == Newest(u).numStamps - w.cost   \* mutant: written as a decrement

Paid(u, w) == w.val

(***************************************************************************)
(* The server applies the next write it was sent, for the first time or    *)
(* again, and answers: a payment.                                          *)
(***************************************************************************)
PaymentApplied(d) ==
    LET w == queue[d][NextSent(d)]
        u == Owner[d]
    IN  /\ CanSend(d) /\ w.type = "payment"
        /\ NewVersion(u, Paid(u, w), Newest(u).credited)
        /\ paid' = paid \cup {w.id}
        /\ answers' = [answers EXCEPT ![d] = Append(@, Len(versions[u]) + 1)]
        /\ UNCHANGED <<numStampsGiven, delivered, refused, known, queue, unsynced, txns,
                       appVars, historyVars>>

\* ... a product: a post is written with its stamps, again if it is sent again.
ProductApplied(d) ==
    LET w == queue[d][NextSent(d)]
    IN  /\ CanSend(d) /\ w.type = "product"
        /\ delivered' = delivered \cup {w.id}
        /\ numStampsGiven' = IF bought[w.id].offer.kind = "post"
              THEN [numStampsGiven EXCEPT ![w.id] = bought[w.id].offer.gift]
              ELSE numStampsGiven
        /\ answers' = [answers EXCEPT ![d] = Append(@, Len(versions[Owner[d]]))]
        /\ UNCHANGED <<versions, paid, refused, known, queue, unsynced, txns,
                       appVars, historyVars>>

(***************************************************************************)
(* OnWriteStreamMutationResult: the first answer is about the oldest       *)
(* write.  AcknowledgeBatch makes it part of the client's copy, unless the *)
(* copy is newer.                                                          *)
(***************************************************************************)
PaymentAcknowledged(d) ==
    LET w == Head(queue[d])
        version == Head(answers[d])
    IN  /\ answers[d] # << >> /\ w.type = "payment"
        /\ known' = [known EXCEPT ![d] = IF version > @ THEN version ELSE @]
        /\ charged' = [charged EXCEPT ![Owner[d]] = @ + w.cost]
        /\ queue' = [queue EXCEPT ![d] = Tail(@)]
        /\ answers' = [answers EXCEPT ![d] = Tail(@)]
        /\ UNCHANGED <<serverVars, unsynced, txns, appVars, bought, spent, claims,
                       kills, faults>>

(***************************************************************************)
(* The same for a product, whose completion block is told.  It is told     *)
(* just before the write leaves the queue; nothing the main queue or the   *)
(* end of the process can do in between depends on the order.              *)
(***************************************************************************)
ProductAcknowledged(d) ==
    /\ answers[d] # << >> /\ Head(queue[d]).type = "product"
    /\ Completed(d, Head(queue[d]).id, TRUE)
    /\ queue' = [queue EXCEPT ![d] = Tail(@)]
    /\ answers' = [answers EXCEPT ![d] = Tail(@)]
    /\ UNCHANGED <<serverVars, known, unsynced, txns, currentUserNumStamps,
                   currentUser, echoed, popup, loading, paying, historyVars>>

(***************************************************************************)
(* HandleWriteError: the call ended with a permanent error because a write *)
(* that was not answered yet was refused.  Answers not delivered yet are   *)
(* dropped and the oldest write is reported as refused, applied or not;    *)
(* the others are sent again.  The error block of a payment tells its      *)
(* delegate of a failure that every delegate ignores.                      *)
(***************************************************************************)
PaymentRejected(d) ==
    /\ CanSend(d) /\ Head(queue[d]).type = "payment"
    /\ refused' = refused \cup {Head(queue[d]).id}
    /\ queue' = [queue EXCEPT ![d] = Tail(@)]
    /\ answers' = [answers EXCEPT ![d] = << >>]
    /\ UNCHANGED <<versions, numStampsGiven, delivered, paid, known, unsynced, txns,
                   appVars, historyVars>>

ProductRejected(d) ==
    /\ CanSend(d) /\ Head(queue[d]).type = "product"
    /\ Completed(d, Head(queue[d]).id, FALSE)
    /\ queue' = [queue EXCEPT ![d] = Tail(@)]
    /\ answers' = [answers EXCEPT ![d] = << >>]
    /\ UNCHANGED <<serverVars, known, unsynced, txns, currentUserNumStamps,
                   currentUser, echoed, popup, loading, paying, historyVars>>

\* OnWriteStreamClose after any other error: the answers under way are lost,
\* and the queue is sent again from its first write.
WritesSentAgain(d) ==
    /\ faults < MaxFaults
    /\ answers[d] # << >>
    /\ answers' = [answers EXCEPT ![d] = << >>]
    /\ faults' = faults + 1
    /\ UNCHANGED <<serverVars, known, queue, unsynced, txns, appVars, bought, spent,
                   charged, claims, kills>>

\* Credit(u, n): the server-side increment of users/<u>.numStamps.
Credit(u, n) == NewVersion(u, Newest(u).numStamps + n, Newest(u).credited + n)

\* TransactionRunner: a transaction that committed ends when its answer
\* arrives; when that is lost, the same transaction runs again.
Answered(d, t) == txns' = [txns EXCEPT ![d] = @ \ {t}] /\ UNCHANGED faults
RunAgain       == faults < MaxFaults /\ faults' = faults + 1 /\ UNCHANGED txns

(***************************************************************************)
(* The transaction of CreateEntryView (the entry and its group's counter)  *)
(* or of InvestPopupVC (the investment, and the creator's charge as an     *)
(* increment) commits.                                                     *)
(***************************************************************************)
ProductCommitted(d) ==
    \E t \in txns[d] :
        /\ t.type = "product"
        /\ delivered' = delivered \cup {t.id}
        /\ Credit(bought[t.id].offer.to, t.amount)
        /\ \/ Answered(d, t) /\ Completed(d, t.id, TRUE)
           \/ RunAgain /\ UNCHANGED callbacks
        /\ UNCHANGED <<numStampsGiven, paid, refused, known, queue, unsynced, answers,
                       currentUserNumStamps, currentUser, echoed, popup, loading,
                       paying, bought, spent, charged, claims, kills>>

\* The claim transaction commits: the post is emptied, the claimer credited.
ClaimCommitted(d) ==
    \E t \in txns[d] :
        /\ t.type = "claim"
        /\ numStampsGiven' = [numStampsGiven EXCEPT ![t.id] = 0]
        /\ Credit(Owner[d], t.amount)
        /\ Answered(d, t) \/ RunAgain
        /\ UNCHANGED <<delivered, paid, refused, known, queue, unsynced, answers,
                       appVars, bought, spent, charged, claims, kills>>

\* A transaction fails: offline, refused, or no tries left.
TxnFailed(d) ==
    \E t \in txns[d] :
        /\ txns' = [txns EXCEPT ![d] = @ \ {t}]
        /\ IF t.type = "product" THEN Completed(d, t.id, FALSE)
                                 ELSE UNCHANGED callbacks
        /\ UNCHANGED <<serverVars, known, queue, unsynced, answers,
                       currentUserNumStamps, currentUser, echoed, popup, loading,
                       paying, historyVars>>

\* The watch stream tells the client of a later version of the document,
\* the newest or one before it.
Watch(d) ==
    \E v \in 1 .. Len(versions[Owner[d]]) :
        /\ known[d] < v
        /\ known' = [known EXCEPT ![d] = v]
        /\ UNCHANGED <<serverVars, queue, unsynced, answers, txns, appVars, historyVars>>
-----------------------------------------------------------------------------
UserStep(d) ==
    \/ \E o \in Offers : NextBtnTapped(d, o)
    \/ PopupSwiped(d)
    \/ ProcessTapped(d)
    \/ ProcessDeclined(d)
    \/ ProcessTrap(d)
    \/ \E id \in Ids : ClaimTapped(d, id)

SystemStep(d) ==
    \/ UserSnapshot(d)
    \/ ProductCompletion(d)
    \/ WritePersisted(d)
    \/ PaymentApplied(d)
    \/ ProductApplied(d)
    \/ PaymentAcknowledged(d)
    \/ ProductAcknowledged(d)
    \/ PaymentRejected(d)
    \/ ProductRejected(d)
    \/ WritesSentAgain(d)
    \/ ProductCommitted(d)
    \/ ClaimCommitted(d)
    \/ TxnFailed(d)
    \/ Watch(d)

Next == \E d \in Devices : UserStep(d) \/ SystemStep(d) \/ Kill(d)

Spec == Init /\ [][Next]_vars

(***************************************************************************)
(* Fairness: the main queue runs its blocks, the client writes its queue   *)
(* to disk, the server decides what it is sent and, when answers are no    *)
(* longer lost, the client hears of it.  Nothing is assumed of the user,   *)
(* and nothing keeps the app from being killed.                            *)
(***************************************************************************)
Fairness ==
    \A d \in Devices :
        /\ WF_vars(UserSnapshot(d))
        /\ WF_vars(ProductCompletion(d))
        /\ WF_vars(WritePersisted(d))
        /\ WF_vars(PaymentApplied(d) \/ ProductApplied(d)
                     \/ PaymentRejected(d) \/ ProductRejected(d))
        /\ WF_vars(PaymentAcknowledged(d) \/ ProductAcknowledged(d))
        /\ WF_vars(ProductCommitted(d) \/ ClaimCommitted(d) \/ TxnFailed(d))

FairSpec == Spec /\ Fairness
-----------------------------------------------------------------------------
(***************************************************************************)
(* Properties.                                                             *)
(***************************************************************************)
ServerType ==
    /\ versions \in [Users -> Seq(Version)] /\ \A u \in Users : versions[u] # << >>
    /\ numStampsGiven \in [Ids -> Gifts]
    /\ delivered \subseteq Ids /\ paid \subseteq Ids /\ refused \subseteq Ids

StoreType ==
    /\ known \in [Devices -> Nat]
    /\ \A d \in Devices : known[d] \in 1 .. Len(versions[Owner[d]])
    /\ queue \in [Devices -> Seq(Write)] /\ unsynced \in [Devices -> Nat]
    /\ answers \in [Devices -> Seq(Nat)]
    /\ \A d \in Devices : Len(answers[d]) + unsynced[d] <= Len(queue[d])
    /\ txns \in [Devices -> SUBSET Txn]

AppType ==
    /\ currentUserNumStamps \in [Devices -> Int]
    /\ currentUser \in [Devices -> BOOLEAN] /\ echoed \in [Devices -> BOOLEAN]
    /\ popup \in [Devices -> Offers \cup {NoOffer}]
    /\ loading \in [Devices -> BOOLEAN] /\ paying \in [Devices -> Ids \cup {0}]
    /\ callbacks \in [Devices -> SUBSET Callback]

HistoryType ==
    /\ bought \in Seq(Purchase) /\ Len(bought) <= MaxPurchases
    /\ spent \in [Users -> Nat] /\ charged \in [Users -> Nat]
    /\ claims \in 0 .. MaxClaims /\ kills \in 0 .. MaxKills /\ faults \in 0 .. MaxFaults

\* The type of the state; the answers under way are about writes on disk.
TypeOK == ServerType /\ StoreType /\ AppType /\ HistoryType

(***************************************************************************)
(* No balance is ever negative: not the server's, not one a device shows,  *)
(* not one a queued payment will write; whatever the number of devices an  *)
(* account is signed in on, and although the price is only ever compared   *)
(* with a cached balance (PaymentPopupVC.processTapped).                   *)
(***************************************************************************)
BalanceNeverNegative ==
    /\ \A u \in Users : Newest(u).numStamps >= 0
    /\ \A d \in Devices :
          /\ Copy(d) >= 0 /\ currentUserNumStamps[d] >= 0
          /\ \A i \in PaymentsAt(queue[d]) : queue[d][i].val >= 0

(***************************************************************************)
(* However often a payment is sent again, reported as refused although it  *)
(* was applied, or overtaken by another device's: all the payments of an   *)
(* account together take no more than the prices of what it bought, each   *)
(* price once.                                                             *)
(***************************************************************************)
PriceTakenOnce ==
    /\ \A u \in Users : Newest(u).numStamps >= InitStamps[u] - spent[u]
    /\ \A d \in Devices : LET u == Owner[d] IN
          /\ currentUser[d] => currentUserNumStamps[d] >= InitStamps[u] - spent[u]
          /\ \A i \in PaymentsAt(queue[d]) : queue[d][i].val >= InitStamps[u] - spent[u]

\* The accounts that are signed in on one device at most.
Sole(u) == \A d1, d2 \in Devices : Owner[d1] = u /\ Owner[d2] = u => d1 = d2
SoleUsers == {u \in Users : Sole(u)}

\* What an account may own: what it started with and was credited, less the
\* payments that its client was told went through.
Budget(u) == InitStamps[u] + Newest(u).credited - charged[u]

(***************************************************************************)
(* On the only device of an account, payments still in the write queue     *)
(* chain: each writes a balance that takes its own price off what the      *)
(* account may own and off every balance an older queued payment writes.   *)
(* So no order of answers, refusals, repetitions, credits, crashes and     *)
(* restarts lets a queued payment hand stamps back.                        *)
(***************************************************************************)
PendingPaymentsChain ==
    \A d \in Devices : Owner[d] \in SoleUsers =>
        \A i \in PaymentsAt(queue[d]) :
            /\ queue[d][i].val <= Budget(Owner[d]) - queue[d][i].cost
            /\ \A j \in PaymentsAt(queue[d]) : j < i =>
                  queue[d][i].val <= queue[d][j].val - queue[d][i].cost

(***************************************************************************)
(* On the only device of an account, the balance processTapped can compare *)
(* a price with (the cache, when the loading screen is not up) is backed   *)
(* by what the account may own and by every payment still queued, although *)
(* nothing waits for the payment write.                                    *)
(***************************************************************************)
CachedBalanceBacked ==
    \A d \in Devices : Owner[d] \in SoleUsers /\ ~loading[d] =>
        /\ currentUserNumStamps[d] <= Budget(Owner[d])
        /\ \A i \in PaymentsAt(queue[d]) : currentUserNumStamps[d] <= queue[d][i].val

(***************************************************************************)
(* A product that is a plain write (a post, a group, a membership) never   *)
(* reaches the server before its payment was decided there, across any     *)
(* kills of the app: processTapped queues the payment first.               *)
(***************************************************************************)
PayThenDeliver ==
    \A id \in delivered :
        bought[id].offer.kind \in PlainKinds => id \in paid \cup refused

(***************************************************************************)
(* An account on one device never owns more than it started with and was   *)
(* credited, less the payments acknowledged to its client: a payment that  *)
(* went through is not undone by an older one that is sent again, nor by   *)
(* one computed before it and applied after it.                            *)
(***************************************************************************)
NoFreeStamps == \A u \in SoleUsers : Newest(u).numStamps <= Budget(u)

(***************************************************************************)
(* A purchase whose form was complete is answered: the loading screen goes *)
(* away, whether its product was written, refused or the app was killed.   *)
(***************************************************************************)
PurchaseAnswered ==
    \A d \in Devices :
        (paying[d] # 0 /\ bought[paying[d]].offer.complete) ~> ~loading[d]

(***************************************************************************)
(* A payment that reached the disk of the device is applied or refused in  *)
(* the end, and the client hears of it, even when answers are lost and the *)
(* app is killed in between.                                               *)
(***************************************************************************)
OnDiskPayment(d, id) ==
    \E i \in PaymentsAt(queue[d]) :
        i <= Len(queue[d]) - unsynced[d] /\ queue[d][i].id = id

PaymentDecided ==
    \A d \in Devices, id \in Ids :
        OnDiskPayment(d, id) ~> id \in paid \cup refused /\ ~OnDiskPayment(d, id)

(***************************************************************************)
(* What InvestPopupVC's comment promises, "Pay the creator the Creator set *)
(* fee the investor payed": the stamps credited to an account are there,   *)
(* but for those it spent.                                                 *)
(***************************************************************************)
CreatorKeepsFee ==
    \A u \in SoleUsers :
        Newest(u).numStamps >= InitStamps[u] + Newest(u).credited - spent[u]
=============================================================================
