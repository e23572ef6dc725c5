----------------------------- MODULE Community -----------------------------
(***************************************************************************)
(* The community screen: the entries of a group (CommunityVC), the support *)
(* and invest buttons of each row (CommunityTableViewCell) and the invest  *)
(* popup (InvestPopupVC).  A row acts on the copy of the entry it was      *)
(* configured with and on the group that was selected at that moment, and  *)
(* both may be out of date when a button is tapped: the list is refreshed  *)
(* by a listener, the rows of a search by nothing.                         *)
(*                                                                         *)
(* The rows are shown by a few cell objects that the table uses again and  *)
(* again.  A support holds on to its cell, not to the row: its transaction *)
(* runs later, on a queue of its own and maybe more than once, and every   *)
(* time it reads which row the cell shows by then.                         *)
(*                                                                         *)
(* Every user has one device.  Supports and investments are transactions,  *)
(* which the server takes or refuses as a whole, and whose answers may be  *)
(* lost: then they run again.  Paying for an investment or an entry is the *)
(* business of StampPurchase.                                              *)
(***************************************************************************)
EXTENDS Integers, Sequences, FiniteSets

CONSTANTS
    Users,          \* accounts
    Groups,         \* documents of the collection "groups"; none is ever deleted
    Slots,          \* the cell objects of a table
    None,           \* no document, group, row, popup, or user yet
    InitSupports,   \* numSupportsRemaining of a new account
    MaxEntries,     \* bound: entries published in a behaviour
    MaxTaps,        \* bound: taps on "support" and payments of investments
    MaxFaults       \* bound: answers to transactions that are lost

ASSUME BoundAssumption == /\ InitSupports \in Nat /\ MaxEntries \in Nat
                          /\ MaxTaps \in Nat /\ MaxFaults \in Nat

Ids == 1 .. MaxEntries

\* The tabs of the segmented control.
Tabs == {"all", "supported", "invested"}

EntryDoc == [group : Groups, userId : Users, numSupports : Nat,
             usersSupported : SUBSET Users, usersInvested : SUBSET Users]
Row      == [id : Ids, copy : EntryDoc]
Cell     == [row : Row, group : Groups]
Query    == [group : Groups, tab : Tabs]

\* A support knows its cell and what it has read of it; an investment knows
\* its row.
Support    == [type : {"support"}, slot : Slots, read : Seq(Groups \cup Ids),
               tap : 1 .. MaxTaps]
Investment == [type : {"invest"}, id : Ids, group : Groups, tap : 1 .. MaxTaps]
Txn        == Support \cup Investment

ASSUME NoneAssumption == None \notin EntryDoc \cup Cell

VARIABLES
    \* ---- the server
    entry,          \* groups/<g>/entries/<id>, or None
    numEntries,     \* groups/<g>.numEntries
    numSupportsRemaining,   \* users/<uid>.numSupportsRemaining
    \* ---- each device
    currentUser,    \* the cached user's numSupportsRemaining, None before the first snapshot
    visible,        \* the community tab is on the screen
    selectedGroup,  \* CommunityVC.selectedGroup
    tab,            \* the selected segment
    listeners,      \* registered snapshot listeners, oldest first
    entries,        \* CommunityVC.entries
    searched,       \* CommunityVC.searchedEntries, None while not searching
    cells,          \* what each cell object was configured with, or None
    table,          \* the cell objects that show a row
    popup,          \* what the invest popup was opened with
    txns,           \* transactions in flight
    \* ---- history
    given,          \* committed supports
    invested,       \* committed investments
    taps, faults

serverVars  == <<entry, numEntries, numSupportsRemaining>>
screenVars  == <<visible, selectedGroup, tab, listeners, entries, searched, cells, table,
                 popup>>
historyVars == <<given, invested, taps, faults>>
vars == <<serverVars, currentUser, screenVars, txns, historyVars>>

Init ==
    /\ entry = [i \in Ids |-> None]
    /\ numEntries = [g \in Groups |-> 0]
    /\ numSupportsRemaining = [u \in Users |-> InitSupports]
    /\ currentUser = [u \in Users |-> None]
    /\ visible = [u \in Users |-> FALSE]
    /\ selectedGroup = [u \in Users |-> None]
    /\ tab = [u \in Users |-> "all"]
    /\ listeners = [u \in Users |-> << >>]
    /\ entries = [u \in Users |-> {}]
    /\ searched = [u \in Users |-> None]
    /\ cells = [u \in Users |-> [s \in Slots |-> None]]
    /\ table = [u \in Users |-> {}]
    /\ popup = [u \in Users |-> None]
    /\ txns = [u \in Users |-> {}]
    /\ given = {} /\ invested = {} /\ taps = 0 /\ faults = 0
-----------------------------------------------------------------------------
(***************************************************************************)
(* The server's side of publishing, and the user document's listener.      *)
(***************************************************************************)
Published == {i \in Ids : entry[i] # None}

NewEntry(u, g) == [group |-> g, userId |-> u, numSupports |-> 0,
                   usersSupported |-> {}, usersInvested |-> {}]

NumEntries(g) == [numEntries EXCEPT ![g] = @ + 1]

\* The transaction of the entry form: the entry and its group's counter.
EntryPublished(u, g) ==
    LET id == Cardinality(Published) + 1
    IN  /\ id <= MaxEntries
        /\ entry' = [entry EXCEPT ![id] = NewEntry(u, g)]
        /\ numEntries' = NumEntries(g)
        /\ UNCHANGED <<numSupportsRemaining, currentUser, screenVars, txns, historyVars>>

\* DataService's listener.  Transactions are not visible locally before they
\* are committed, so it sees what the server has.
UserSnapshot(u) ==
    /\ currentUser[u] # numSupportsRemaining[u]
    /\ currentUser' = [currentUser EXCEPT ![u] = numSupportsRemaining[u]]
    /\ UNCHANGED <<serverVars, screenVars, txns, historyVars>>
-----------------------------------------------------------------------------
(***************************************************************************)
(* The screen.  communityPostsListener is the newest registration;         *)
(* removing it takes that one off, and nothing else ever does.             *)
(***************************************************************************)
Removed_Kept(ls) == ls                       \* mutant: not removed

Removed(ls) == IF ls = << >> THEN << >> ELSE SubSeq(ls, 1, Len(ls) - 1)

\* ConfigureListener, for a group (or None) and a tab.
Configured(ls, g, t) == IF g = None THEN ls ELSE Append(ls, [group |-> g, tab |-> t])

\* What cellForRowAt configures a cell with, for each row that can be shown.
Cells(rows, g) == IF g = None THEN {} ELSE {[row |-> r, group |-> g] : r \in rows}

(***************************************************************************)
(* reloadData: each row on the screen takes any of the cell objects, and   *)
(* ConfigureCell gives it the row and the group.  A cell object that shows *)
(* no row keeps what it was configured with last.                          *)
(***************************************************************************)
Reloads(u, rows, g) ==
    \E used \in SUBSET Slots : \E new \in [used -> Cells(rows, g)] :
        /\ \A s1, s2 \in used : new[s1] = new[s2] => s1 = s2
        /\ used = {} => Cells(rows, g) = {}
        /\ table' = [table EXCEPT ![u] = used]
        /\ cells' = [cells EXCEPT ![u] =
              [s \in Slots |-> IF s \in used THEN new[s] ELSE @[s]]]

\* viewWillAppear.  Before the user document is known it traps.
Appears(u) ==
    /\ ~visible[u] /\ currentUser[u] # None
    /\ visible' = [visible EXCEPT ![u] = TRUE]
    /\ listeners' = [listeners EXCEPT ![u] = Configured(@, selectedGroup[u], tab[u])]
    /\ UNCHANGED <<serverVars, currentUser, selectedGroup, tab, entries, searched, cells,
                   table, popup, txns, historyVars>>

Disappears(u) ==
    /\ visible[u] /\ popup[u] = None
    /\ visible' = [visible EXCEPT ![u] = FALSE]
    /\ listeners' = [listeners EXCEPT ![u] = Removed(@)]
    /\ UNCHANGED <<serverVars, currentUser, selectedGroup, tab, entries, searched, cells,
                   table, popup, txns, historyVars>>

\* didChooseGroup: selectedGroup's observer replaces the listener.  The rows
\* stay what they are until the new listener is heard of.
DidChooseGroup(u, g) ==
    /\ visible[u] /\ popup[u] = None
    /\ selectedGroup' = [selectedGroup EXCEPT ![u] = g]
    /\ listeners' = [listeners EXCEPT ![u] = Configured(Removed(@), g, tab[u])]
    /\ UNCHANGED <<serverVars, currentUser, visible, tab, entries, searched, cells, table,
                   popup, txns, historyVars>>

SortingChanged(u, t) ==
    /\ visible[u] /\ popup[u] = None /\ t # tab[u]
    /\ tab' = [tab EXCEPT ![u] = t]
    /\ listeners' = [listeners EXCEPT ![u] = Configured(Removed(@), selectedGroup[u], t)]
    /\ UNCHANGED <<serverVars, currentUser, visible, selectedGroup, entries, searched,
                   cells, table, popup, txns, historyVars>>

\* The documents a query of one of the three tabs returns to u.
Matches(u, q, doc) ==
    /\ doc.group = q.group
    /\ q.tab = "supported" => u \in doc.usersSupported
    /\ q.tab = "invested" => u \in doc.usersInvested

\* Entry.set: the copies of the documents that match.
Listed(u, q) == {[id |-> i, copy |-> entry[i]] :
                    i \in {j \in Published : Matches(u, q, entry[j])}}

Shown(u) == IF searched[u] = None THEN entries[u] ELSE searched[u]

\* The snapshot block of any listener that is registered.
EntriesSnapshot(u) ==
    \E i \in 1 .. Len(listeners[u]) :
        LET rows == Listed(u, listeners[u][i])
        IN  /\ entries' = [entries EXCEPT ![u] = rows]
            /\ Reloads(u, IF searched[u] = None THEN rows ELSE searched[u], selectedGroup[u])
            /\ UNCHANGED <<serverVars, currentUser, visible, selectedGroup, tab, listeners,
                           searched, popup, txns, historyVars>>

\* searchDidChange: the text matches some of the entries, or is empty.
SearchDidChange(u, found) ==
    /\ visible[u] /\ popup[u] = None
    /\ found # searched[u]
    /\ searched' = [searched EXCEPT ![u] = found]
    /\ Reloads(u, IF found = None THEN entries[u] ELSE found, selectedGroup[u])
    /\ UNCHANGED <<serverVars, currentUser, visible, selectedGroup, tab, listeners, entries,
                   popup, txns, historyVars>>

\* didSelectChoice of the sorting popup, or scrolling: rows are configured
\* again, with the group that is selected now.
Reloaded(u) ==
    /\ visible[u] /\ popup[u] = None
    /\ Reloads(u, Shown(u), selectedGroup[u])
    /\ cells' # cells
    /\ UNCHANGED <<serverVars, currentUser, visible, selectedGroup, tab, listeners, entries,
                   searched, popup, txns, historyVars>>
-----------------------------------------------------------------------------
(***************************************************************************)
(* The buttons of a row, hidden or not when the row was configured.        *)
(***************************************************************************)
SupportHidden(u, copy) == u \in copy.usersInvested \/ u = copy.userId

InvestHidden_Shown(u, copy) ==               \* mutant: creator forgotten
    u \in copy.usersInvested \/ u \in copy.usersSupported

InvestHidden(u, copy) ==
    u \in copy.usersInvested \/ u \in copy.usersSupported \/ u = copy.userId

\* giveSupportBtnTapped.  The button stays where it is while the transaction
\* is in flight, and after it.
GiveSupportBtnTapped(u, s) ==
    /\ visible[u] /\ popup[u] = None /\ s \in table[u]
    /\ ~SupportHidden(u, cells[u][s].row.copy)
    /\ currentUser[u] # None /\ currentUser[u] >= 1
    /\ taps < MaxTaps
    /\ taps' = taps + 1
    /\ txns' = [txns EXCEPT ![u] = @ \cup
          {[type |-> "support", slot |-> s, read |-> << >>, tap |-> taps + 1]}]
    /\ UNCHANGED <<serverVars, currentUser, screenVars, given, invested, faults>>

InvestBtnTapped(u, s) ==
    /\ visible[u] /\ popup[u] = None /\ s \in table[u]
    /\ ~InvestHidden(u, cells[u][s].row.copy)
    /\ popup' = [popup EXCEPT ![u] = cells[u][s]]
    /\ UNCHANGED <<serverVars, currentUser, visible, selectedGroup, tab, listeners, entries,
                   searched, cells, table, txns, historyVars>>

\* The loading screen is up while the investment is in flight.
Investing(u) == \E t \in txns[u] : t.type = "invest"

\* The "Support Amount Fee" nextBtnTapped asks for, from the popup's copy.
SupportFee(copy) == copy.numSupports \div 2

\* nextBtnTapped, the payment approved, and didReturnFromPayment.
InvestmentPaid(u) ==
    /\ popup[u] # None /\ ~Investing(u) /\ taps < MaxTaps
    /\ taps' = taps + 1
    /\ txns' = [txns EXCEPT ![u] = @ \cup
          {[type |-> "invest", id |-> popup[u].row.id, group |-> popup[u].group,
            tap |-> taps + 1]}]
    /\ UNCHANGED <<serverVars, currentUser, screenVars, given, invested, faults>>

\* The invest popup is swiped away.
PopupSwiped(u) ==
    /\ popup[u] # None /\ ~Investing(u)
    /\ popup' = [popup EXCEPT ![u] = None]
    /\ UNCHANGED <<serverVars, currentUser, visible, selectedGroup, tab, listeners, entries,
                   searched, cells, table, txns, historyVars>>
-----------------------------------------------------------------------------
(***************************************************************************)
(* Transactions.  The update block of a support reads the cell's group and *)
(* entry for the address of the counter, then again for the list of        *)
(* supporters, while the main queue may be configuring the cell.           *)
(***************************************************************************)
SupportRuns(u) ==
    \E t \in txns[u] :
        LET cell == cells[u][t.slot]
        IN  /\ t.type = "support" /\ Len(t.read) < 4
            /\ txns' = [txns EXCEPT ![u] = (@ \ {t}) \cup
                  {[t EXCEPT !.read = Append(@,
                        IF Len(t.read) % 2 = 0 THEN cell.group ELSE cell.row.id)]}]
            /\ UNCHANGED <<serverVars, currentUser, screenVars, historyVars>>

\* A conflict or no connection: TransactionRunner runs the block once more.
SupportRunsAgain(u) ==
    \E t \in txns[u] :
        /\ t.type = "support" /\ Len(t.read) = 4
        /\ txns' = [txns EXCEPT ![u] = (@ \ {t}) \cup {[t EXCEPT !.read = << >>]}]
        /\ UNCHANGED <<serverVars, currentUser, screenVars, historyVars>>

(***************************************************************************)
(* An update of a document that is not there, which is what a group and an *)
(* entry that do not belong together make, fails the whole transaction.    *)
(***************************************************************************)
InPlace(g, i) == entry[i] # None /\ entry[i].group = g

Supported_Twice(u, i, j) ==           \* mutant: a second support is taken back
    IF u \in entry[i].usersSupported
      THEN [entry EXCEPT ![i].numSupports = @ - 1]
      ELSE [entry EXCEPT ![i].numSupports = @ + 1, ![j].usersSupported = @ \cup {u}]

Supported_Swapped(u, i, j) ==         \* mutant: the signs of the two increments swapped
    [entry EXCEPT ![i].numSupports = @ - 1, ![j].usersSupported = @ \cup {u}]

\* One more support at i, u among the supporters at j.
Supported(u, i, j) ==
    [entry EXCEPT ![i].numSupports = @ + 1, ![j].usersSupported = @ \cup {u}]

SupportCommitted(u) ==
    \E t \in txns[u] :
        /\ t.type = "support" /\ Len(t.read) = 4
        /\ InPlace(t.read[1], t.read[2]) /\ InPlace(t.read[3], t.read[4])
        /\ numSupportsRemaining' = [numSupportsRemaining EXCEPT ![u] = @ - 1]
        /\ entry' = Supported(u, t.read[2], t.read[4])
        /\ given' = given \cup {[user |-> u, id |-> t.read[2], list |-> t.read[4],
                                 no |-> Cardinality(given) + 1]}
        /\ \/ /\ txns' = [txns EXCEPT ![u] = @ \ {t}]
              /\ UNCHANGED faults
           \/ /\ faults < MaxFaults /\ faults' = faults + 1
              /\ txns' = [txns EXCEPT ![u] = (@ \ {t}) \cup {[t EXCEPT !.read = << >>]}]
        /\ UNCHANGED <<numEntries, currentUser, screenVars, invested, taps>>

\* The whole map is written, with the investor as its only key; the
\* completion block dismisses both popups.
InvestmentCommitted(u) ==
    \E t \in txns[u] :
        /\ t.type = "invest" /\ InPlace(t.group, t.id)
        /\ entry' = [entry EXCEPT ![t.id].usersInvested = {u}]
        /\ invested' = invested \cup {[user |-> u, id |-> t.id]}
        /\ \/ /\ popup' = [popup EXCEPT ![u] = None]
              /\ txns' = [txns EXCEPT ![u] = @ \ {t}]
              /\ UNCHANGED faults
           \/ /\ faults < MaxFaults /\ faults' = faults + 1
              /\ UNCHANGED <<popup, txns>>
        /\ UNCHANGED <<numEntries, numSupportsRemaining, currentUser, visible,
                       selectedGroup, tab, listeners, entries, searched, cells, table,
                       given, taps>>

\* Offline, refused, no tries left, or the document is not there: the
\* client is told of a failure.
TxnFailed(u) ==
    \E t \in txns[u] :
        /\ txns' = [txns EXCEPT ![u] = @ \ {t}]
        /\ UNCHANGED <<serverVars, currentUser, screenVars, historyVars>>
-----------------------------------------------------------------------------
Next ==
    \E u \in Users :
        \/ \E g \in Groups : EntryPublished(u, g)
        \/ UserSnapshot(u)
        \/ Appears(u)
        \/ Disappears(u)
        \/ \E g \in Groups : DidChooseGroup(u, g)
        \/ \E t \in Tabs : SortingChanged(u, t)
        \/ EntriesSnapshot(u)
        \/ \E found \in (SUBSET entries[u]) \cup {None} : SearchDidChange(u, found)
        \/ Reloaded(u)
        \/ \E s \in Slots : GiveSupportBtnTapped(u, s)
        \/ \E s \in Slots : InvestBtnTapped(u, s)
        \/ InvestmentPaid(u)
        \/ PopupSwiped(u)
        \/ SupportRuns(u)
        \/ SupportRunsAgain(u)
        \/ SupportCommitted(u)
        \/ InvestmentCommitted(u)
        \/ TxnFailed(u)

Spec == Init /\ [][Next]_vars
-----------------------------------------------------------------------------
(***************************************************************************)
(* Properties.                                                             *)
(***************************************************************************)
ServerType ==
    /\ entry \in [Ids -> EntryDoc \cup {None}]
    /\ numEntries \in [Groups -> Nat]
    /\ numSupportsRemaining \in [Users -> Int]

DeviceType ==
    /\ currentUser \in [Users -> Int \cup {None}]
    /\ visible \in [Users -> BOOLEAN]
    /\ selectedGroup \in [Users -> Groups \cup {None}]
    /\ tab \in [Users -> Tabs]
    /\ listeners \in [Users -> Seq(Query)]
    /\ entries \in [Users -> SUBSET Row]
    /\ searched \in [Users -> (SUBSET Row) \cup {None}]
    /\ cells \in [Users -> [Slots -> Cell \cup {None}]]
    /\ table \in [Users -> SUBSET Slots]
    /\ popup \in [Users -> Cell \cup {None}]
    /\ txns \in [Users -> SUBSET Txn]

HistoryType ==
    /\ given \subseteq [user : Users, id : Ids, list : Ids, no : Nat]
    /\ invested \subseteq [user : Users, id : Ids]
    /\ taps \in 0 .. MaxTaps /\ faults \in 0 .. MaxFaults

\* The type of the state; the supports of an entry are never negative.
TypeOK == ServerType /\ DeviceType /\ HistoryType

GivenTo(i) == {s \in given : s.id = i}
GivenBy(u) == {s \in given : s.user = u}

(***************************************************************************)
(* Supports add up: whatever row the cell shows each time the block of a   *)
(* support reads it, however often the block runs, and if the answer to a  *)
(* support that went through is lost: every support that entries count was *)
(* taken from the supporter, an entry counts as many as were addressed to  *)
(* it, and lists a user only for a support that was taken from that user.  *)
(* A block that read a group and an entry that do not belong together      *)
(* takes nothing from anybody (giveSupportBtnTapped's one transaction).    *)
(***************************************************************************)
SupportsAddUp ==
    /\ \A u \in Users : numSupportsRemaining[u] = InitSupports - Cardinality(GivenBy(u))
    /\ \A i \in Published :
          /\ entry[i].numSupports = Cardinality(GivenTo(i))
          /\ \A u \in Users : u \in entry[i].usersSupported
                                  <=> \E s \in GivenBy(u) : s.list = i

(***************************************************************************)
(* A group counts its entries: the counter that the group popup shows is   *)
(* the number of documents of its entries collection.                      *)
(***************************************************************************)
EntriesCounted ==
    \A g \in Groups : numEntries[g] = Cardinality({i \in Published : entry[i].group = g})

(***************************************************************************)
(* An investor is never asked for more than one stamp for every two        *)
(* supports the entry has now, although the popup reckons with the copy of *)
(* a row that may have been configured long ago, or found by a search      *)
(* (InvestPopupVC's nextBtnTapped, "Need listener for changing supports"). *)
(* An investor has not supported, so it takes three users to have a fee;   *)
(* the property is proved and is in no run.                                *)
(***************************************************************************)
FeeNotAhead ==
    \A u \in Users : popup[u] # None =>
        2 * SupportFee(popup[u].row.copy) <= entry[popup[u].row.id].numSupports

(***************************************************************************)
(* The creator of an entry never invests in it, however old the rows of    *)
(* the creator's screen are and whatever the cells showed before           *)
(* (ConfigureCell hides the button, and the tap takes the row at once).    *)
(***************************************************************************)
CreatorStaysOut ==
    \A i \in Published : entry[i].userId \notin entry[i].usersInvested

(***************************************************************************)
(* What ConfigureCell's comment says of the creator of an entry, "Only     *)
(* hide add support btn if user has invested or is the creator": who has   *)
(* no button to support an entry is not among its supporters.              *)
(***************************************************************************)
CreatorDoesNotSupport ==
    \A i \in Published : entry[i].userId \notin entry[i].usersSupported

(***************************************************************************)
(* The list is fed by one listener at most, and that one asks for the      *)
(* selected group and the selected tab: no sequence of changes of group,   *)
(* tab and screen leaves another behind that would fill the list with the  *)
(* rows of a group or tab that is not selected (CommunityVC).              *)
(***************************************************************************)
ListensToSelection ==
    \A u \in Users : listeners[u] =
        IF visible[u] /\ selectedGroup[u] # None
          THEN <<[group |-> selectedGroup[u], tab |-> tab[u]]>> ELSE << >>

(***************************************************************************)
(* What InvestPopupVC's comment promises, "Add the investor as a new       *)
(* firestore map entry": who has invested in an entry is listed there.     *)
(* The code writes the whole map with one key, so that the second investor *)
(* of any entry refutes this; it is stated here and is in no run.          *)
(***************************************************************************)
InvestorKept == \A v \in invested : v.user \in entry[v.id].usersInvested
=============================================================================
