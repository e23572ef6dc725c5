-------------------------- MODULE CommunityProofs --------------------------
(***************************************************************************)
(* Proofs about Community, for every set of users and groups and every     *)
(* bound.                                                                  *)
(***************************************************************************)
EXTENDS Community, SequenceTheorems, FiniteSetTheorems, TLAPS

-----------------------------------------------------------------------------
(***************************************************************************)
(* Facts about the records.                                                *)
(***************************************************************************)
LEMMA DocFields ==
    ASSUME NEW d \in EntryDoc
    PROVE  /\ d.group \in Groups /\ d.userId \in Users /\ d.numSupports \in Nat
           /\ d.usersSupported \subseteq Users /\ d.usersInvested \subseteq Users
           /\ d # None
BY NoneAssumption DEF EntryDoc

LEMMA RowFields ==
    ASSUME NEW r \in Row
    PROVE  r.id \in Ids /\ r.copy \in EntryDoc
BY DEF Row

LEMMA CellFields ==
    ASSUME NEW c \in Cell
    PROVE  c.row \in Row /\ c.group \in Groups /\ c # None
BY NoneAssumption DEF Cell

LEMMA CellRecord ==
    ASSUME NEW r \in Row, NEW g \in Groups
    PROVE  [row |-> r, group |-> g] \in Cell
BY DEF Cell

LEMMA SupportFields ==
    ASSUME NEW t \in Txn, t.type = "support"
    PROVE  t \in Support /\ t.slot \in Slots /\ t.read \in Seq(Groups \cup Ids)
BY DEF Txn, Support, Investment

LEMMA InvestmentFields ==
    ASSUME NEW t \in Txn, t.type = "invest"
    PROVE  t.id \in Ids /\ t.group \in Groups
BY DEF Txn, Support, Investment

LEMMA NewSupport ==
    ASSUME TypeOK, taps < MaxTaps, NEW s \in Slots
    PROVE  LET t == [type |-> "support", slot |-> s, read |-> << >>, tap |-> taps + 1]
           IN  t \in Txn /\ t.type = "support" /\ t.slot = s /\ t.read = << >>
<1>1. taps + 1 \in 1 .. MaxTaps
      BY BoundAssumption DEF TypeOK, HistoryType
<1>2. << >> \in Seq(Groups \cup Ids)
      BY EmptySeq
<1> QED
    BY <1>1, <1>2 DEF Txn, Support

LEMMA NewInvestment ==
    ASSUME TypeOK, taps < MaxTaps, NEW id \in Ids, NEW g \in Groups
    PROVE  LET t == [type |-> "invest", id |-> id, group |-> g, tap |-> taps + 1]
           IN  t \in Txn /\ t.type = "invest" /\ t.id = id
<1>1. taps + 1 \in 1 .. MaxTaps
      BY BoundAssumption DEF TypeOK, HistoryType
<1> QED
    BY <1>1 DEF Txn, Investment

\* The same support, having read something else.
LEMMA ReadTxn ==
    ASSUME NEW t \in Txn, t.type = "support", NEW r \in Seq(Groups \cup Ids)
    PROVE  LET e == [t EXCEPT !.read = r]
           IN  e \in Txn /\ e.type = "support" /\ e.slot = t.slot /\ e.read = r
<1>1. t \in Support
      BY SupportFields
<1> QED
    BY <1>1 DEF Txn, Support

LEMMA NewEntryDoc ==
    ASSUME NEW u \in Users, NEW g \in Groups
    PROVE  /\ NewEntry(u, g) \in EntryDoc
           /\ NewEntry(u, g).group = g /\ NewEntry(u, g).userId = u
           /\ NewEntry(u, g).numSupports = 0
           /\ NewEntry(u, g).usersSupported = {} /\ NewEntry(u, g).usersInvested = {}
BY DEF NewEntry, EntryDoc

\* A support of u writes the documents i and j.
WritesSupport(u, i, j) ==
    /\ entry' \in [Ids -> EntryDoc \cup {None}]
    /\ \A k \in Ids : entry'[k] = None <=> entry[k] = None
    /\ \A k \in Ids : entry[k] # None =>
          /\ entry'[k].group = entry[k].group /\ entry'[k].userId = entry[k].userId
          /\ entry'[k].usersInvested = entry[k].usersInvested
          /\ entry'[k].numSupports =
                IF k = i THEN entry[k].numSupports + 1 ELSE entry[k].numSupports
          /\ entry'[k].usersSupported =
                IF k = j THEN entry[k].usersSupported \cup {u} ELSE entry[k].usersSupported

LEMMA SupportedDocs ==
    ASSUME ServerType, NEW u \in Users, NEW i \in Ids, NEW j \in Ids,
           entry[i] # None, entry[j] # None, entry' = Supported(u, i, j)
    PROVE  WritesSupport(u, i, j)
<1> DEFINE e == Supported(u, i, j)
           f == [entry EXCEPT ![i].numSupports = @ + 1]
<1>0. entry \in [Ids -> EntryDoc \cup {None}] /\ entry[i] \in EntryDoc /\ entry[j] \in EntryDoc
      BY DEF ServerType
<1> DEFINE n == entry[i].numSupports + 1
           di == [entry[i] EXCEPT !.numSupports = n]
<1>1. di \in EntryDoc /\ di # None /\ di.group = entry[i].group /\ di.userId = entry[i].userId
      /\ di.usersInvested = entry[i].usersInvested /\ di.usersSupported = entry[i].usersSupported
      /\ di.numSupports = entry[i].numSupports + 1
  <2>1. n \in Nat
        BY <1>0, DocFields
  <2> HIDE DEF n
  <2>2. di \in EntryDoc /\ di.group = entry[i].group /\ di.userId = entry[i].userId
        /\ di.usersInvested = entry[i].usersInvested /\ di.usersSupported = entry[i].usersSupported
        /\ di.numSupports = n
        BY <1>0, <2>1 DEF EntryDoc
  <2> QED
      BY <2>2, DocFields DEF n
<1>2. f = [entry EXCEPT ![i] = di]
      BY <1>0
<1> HIDE DEF di
<1>3. f \in [Ids -> EntryDoc \cup {None}] /\ f[i] = di /\ \A k \in Ids \ {i} : f[k] = entry[k]
      BY <1>0, <1>1, <1>2
<1>4. e = [f EXCEPT ![j].usersSupported = @ \cup {u}]
      BY DEF Supported
<1> HIDE DEF f
<1>5. f[j] \in EntryDoc
      BY <1>0, <1>1, <1>3
<1> DEFINE us == f[j].usersSupported \cup {u}
           dj == [f[j] EXCEPT !.usersSupported = us]
<1>6. dj \in EntryDoc /\ dj # None /\ dj.group = f[j].group /\ dj.userId = f[j].userId
      /\ dj.usersInvested = f[j].usersInvested /\ dj.numSupports = f[j].numSupports
      /\ dj.usersSupported = f[j].usersSupported \cup {u}
  <2>1. us \subseteq Users
        BY <1>5, DocFields
  <2> HIDE DEF us
  <2>2. dj \in EntryDoc /\ dj.group = f[j].group /\ dj.userId = f[j].userId
        /\ dj.usersInvested = f[j].usersInvested /\ dj.numSupports = f[j].numSupports
        /\ dj.usersSupported = us
        BY <1>5, <2>1 DEF EntryDoc
  <2> QED
      BY <2>2, DocFields DEF us
<1>7. e = [f EXCEPT ![j] = dj]
      BY <1>3, <1>4
<1> HIDE DEF dj, e
<1>8. e \in [Ids -> EntryDoc \cup {None}] /\ e[j] = dj /\ \A k \in Ids \ {j} : e[k] = f[k]
      BY <1>3, <1>6, <1>7
<1>9. ASSUME NEW k \in Ids PROVE e[k] = None <=> entry[k] = None
      BY <1>0, <1>1, <1>3, <1>6, <1>8
<1>10. ASSUME NEW k \in Ids, entry[k] # None
       PROVE  /\ e[k].group = entry[k].group /\ e[k].userId = entry[k].userId
              /\ e[k].usersInvested = entry[k].usersInvested
              /\ e[k].numSupports =
                    IF k = i THEN entry[k].numSupports + 1 ELSE entry[k].numSupports
              /\ e[k].usersSupported =
                    IF k = j THEN entry[k].usersSupported \cup {u}
                             ELSE entry[k].usersSupported
  <2>1. /\ f[k].group = entry[k].group /\ f[k].userId = entry[k].userId
        /\ f[k].usersInvested = entry[k].usersInvested
        /\ f[k].usersSupported = entry[k].usersSupported
        /\ f[k].numSupports =
              IF k = i THEN entry[k].numSupports + 1 ELSE entry[k].numSupports
        BY <1>1, <1>3
  <2> QED
      BY <2>1, <1>6, <1>8
<1>11. entry' = e
      BY DEF e
<1> QED
    BY <1>8, <1>9, <1>10, <1>11 DEF WritesSupport

LEMMA InvestedDoc ==
    ASSUME NEW d \in EntryDoc, NEW u \in Users
    PROVE  LET e == [d EXCEPT !.usersInvested = {u}]
           IN  /\ e \in EntryDoc
               /\ e.group = d.group /\ e.userId = d.userId
               /\ e.numSupports = d.numSupports /\ e.usersSupported = d.usersSupported
               /\ e.usersInvested = {u}
BY DEF EntryDoc

LEMMA ListedRows ==
    ASSUME ServerType, NEW u, NEW q
    PROVE  /\ Listed(u, q) \subseteq Row
           /\ \A r \in Listed(u, q) : r.id \in Published /\ r.copy = entry[r.id]
BY DEF ServerType, Listed, Published, Row

LEMMA CellsOf ==
    ASSUME NEW rows \in SUBSET Row, NEW g \in Groups \cup {None}
    PROVE  /\ Cells(rows, g) \in SUBSET Cell
           /\ \A c \in Cells(rows, g) : c.row \in rows
<1>1. CASE g = None
      BY <1>1 DEF Cells
<1>2. CASE g # None
    <2>1. \A r \in rows : [row |-> r, group |-> g] \in Cell
          BY <1>2, CellRecord
    <2> QED
        BY <1>2, <2>1 DEF Cells
<1> QED
    BY <1>1, <1>2

\* What reloadData leaves in the cells.
LEMMA ReloadedCells ==
    ASSUME TypeOK, NEW u \in Users, NEW rows \in SUBSET Row, NEW g \in Groups \cup {None},
           Reloads(u, rows, g)
    PROVE  /\ cells' \in [Users -> [Slots -> Cell \cup {None}]]
           /\ table' \in [Users -> SUBSET Slots]
           /\ \A v \in Users \ {u} : cells'[v] = cells[v] /\ table'[v] = table[v]
           /\ \A s \in Slots : \/ cells'[u][s] = cells[u][s]
                               \/ cells'[u][s] \in Cell /\ cells'[u][s].row \in rows
           /\ \A s \in table'[u] : cells'[u][s] \in Cell
<1>1. PICK used \in SUBSET Slots : \E new \in [used -> Cells(rows, g)] :
        /\ table' = [table EXCEPT ![u] = used]
        /\ cells' = [cells EXCEPT ![u] =
              [s \in Slots |-> IF s \in used THEN new[s] ELSE @[s]]]
      BY DEF Reloads
<1>2. PICK new \in [used -> Cells(rows, g)] :
        /\ table' = [table EXCEPT ![u] = used]
        /\ cells' = [cells EXCEPT ![u] =
              [s \in Slots |-> IF s \in used THEN new[s] ELSE @[s]]]
      BY <1>1
<1>3. \A s \in used : new[s] \in Cell /\ new[s].row \in rows
      BY CellsOf
<1>4. /\ cells \in [Users -> [Slots -> Cell \cup {None}]]
      /\ table \in [Users -> SUBSET Slots]
      BY DEF TypeOK, DeviceType
<1> DEFINE now == [s \in Slots |-> IF s \in used THEN new[s] ELSE cells[u][s]]
<1>5. cells' = [cells EXCEPT ![u] = now]
      BY <1>2
<1>6. now \in [Slots -> Cell \cup {None}] /\ \A s \in Slots :
         now[s] = IF s \in used THEN new[s] ELSE cells[u][s]
      BY <1>3, <1>4
<1> HIDE DEF now
<1> QED
    BY <1>2, <1>3, <1>4, <1>5, <1>6

LEMMA Registrations ==
    ASSUME NEW ls \in Seq(Query), NEW g \in Groups \cup {None}, NEW t \in Tabs
    PROVE  /\ Removed(ls) \in Seq(Query)
           /\ Configured(ls, g, t) \in Seq(Query)
<1>1. Removed(ls) \in Seq(Query)
    <2>1. CASE ls = << >>
          BY <2>1 DEF Removed
    <2>2. CASE ls # << >>
          BY <2>2, SubSeqProperties DEF Removed
    <2> QED
        BY <2>1, <2>2
<1>2. Configured(ls, g, t) \in Seq(Query)
    <2>1. g # None => [group |-> g, tab |-> t] \in Query
          BY DEF Query
    <2> QED
        BY <2>1 DEF Configured
<1> QED
    BY <1>1, <1>2
-----------------------------------------------------------------------------
(***************************************************************************)
(* Type correctness.                                                       *)
(***************************************************************************)
LEMMA TypeInit == Init => TypeOK
<1> SUFFICES ASSUME Init PROVE TypeOK
    OBVIOUS
<1>1. \A x \in Nat : 0 \in 0 .. x
      OBVIOUS
<1> QED
    BY <1>1, BoundAssumption
    DEF Init, TypeOK, ServerType, DeviceType, HistoryType, Tabs

\* What the type invariant leaves open: a cell that shows a row has been
\* configured, and so has the cell a support holds on to; the block reads a
\* group and an id in turns.
IdsRead(r) == /\ Len(r) \in 0 .. 4
              /\ Len(r) >= 2 => r[2] \in Ids
              /\ Len(r) = 4 => r[4] \in Ids

CellsKnown == \A u \in Users : \A s \in table[u] : cells[u][s] # None

TxnsKnown == \A u \in Users : \A t \in txns[u] :
                t.type = "support" => cells[u][t.slot] # None /\ IdsRead(t.read)

KnownInv == CellsKnown /\ TxnsKnown /\ IsFiniteSet(given)

LEMMA NothingRead ==
    /\ << >> \in Seq(Groups \cup Ids) /\ Len(<< >>) = 0 /\ IdsRead(<< >>)
<1>1. << >> \in Seq(Groups \cup Ids) /\ Len(<< >>) = 0
      BY EmptySeq
<1> QED
    BY <1>1 DEF IdsRead

LEMMA ReadsMore ==
    ASSUME TypeOK, KnownInv, NEW u \in Users, NEW t \in txns[u],
           t.type = "support", Len(t.read) < 4
    PROVE  LET cell == cells[u][t.slot]
               r    == Append(t.read, IF Len(t.read) % 2 = 0 THEN cell.group ELSE cell.row.id)
           IN  r \in Seq(Groups \cup Ids) /\ IdsRead(r)
<1> DEFINE cell == cells[u][t.slot]
           x    == IF Len(t.read) % 2 = 0 THEN cell.group ELSE cell.row.id
<1>1. t \in Txn
      BY DEF TypeOK, DeviceType
<1>2. t.slot \in Slots /\ t.read \in Seq(Groups \cup Ids)
      BY <1>1, SupportFields
<1>3. cell \in Cell
      BY <1>2 DEF TypeOK, DeviceType, KnownInv, TxnsKnown
<1>4. cell.group \in Groups /\ cell.row.id \in Ids
      BY <1>3, CellFields, RowFields
<1>5. IdsRead(t.read)
      BY DEF KnownInv, TxnsKnown
<1> HIDE DEF cell
<1>6. PICK q : q = t.read
      OBVIOUS
<1>7. PICK y : y = x
      OBVIOUS
<1>8. y \in Groups \cup Ids /\ (Len(q) \in {1, 3} => y \in Ids)
    <2>1. \A n \in {1, 3} : n % 2 # 0
          OBVIOUS
    <2>2. Len(q) \in {1, 3} => y = cell.row.id
          BY <1>6, <1>7, <2>1
    <2> QED
        BY <1>4, <1>6, <1>7, <2>2
<1>9. q \in Seq(Groups \cup Ids) /\ Len(q) < 4
      BY <1>2, <1>6
<1>10. Append(q, y) \in Seq(Groups \cup Ids) /\ Len(Append(q, y)) = Len(q) + 1
       /\ Append(q, y)[Len(q) + 1] = y /\ \A k \in 1 .. Len(q) : Append(q, y)[k] = q[k]
      BY <1>8, <1>9, AppendProperties
<1>11. IdsRead(q) /\ Len(q) \in 0 .. 3
      BY <1>5, <1>6, <1>9 DEF IdsRead
<1>12. IdsRead(Append(q, y))
    <2>1. PICK a : a = Append(q, y)
          OBVIOUS
    <2> QED
        BY <1>8, <1>10, <1>11, <2>1 DEF IdsRead
<1> QED
    BY <1>6, <1>7, <1>10, <1>12 DEF cell

LEMMA Commit ==
    ASSUME TypeOK, KnownInv, NEW u \in Users, SupportCommitted(u)
    PROVE  \E i, j \in Ids :
              /\ entry[i] # None /\ entry[j] # None /\ WritesSupport(u, i, j)
              /\ numSupportsRemaining' = [numSupportsRemaining EXCEPT ![u] = @ - 1]
              /\ given' = given \cup {[user |-> u, id |-> i, list |-> j,
                                       no |-> Cardinality(given) + 1]}
              /\ \A v \in Users : \A t \in txns'[v] :
                    \/ t \in txns[v]
                    \/ /\ v = u /\ t \in Txn
                       /\ t.type = "support" /\ cells[u][t.slot] # None /\ IdsRead(t.read)
              /\ txns' \in [Users -> SUBSET Txn] /\ faults' \in 0 .. MaxFaults
              /\ UNCHANGED <<numEntries, currentUser, screenVars, invested, taps>>
<1>1. PICK t \in txns[u] :
        /\ t.type = "support" /\ Len(t.read) = 4
        /\ InPlace(t.read[1], t.read[2]) /\ InPlace(t.read[3], t.read[4])
        /\ numSupportsRemaining' = [numSupportsRemaining EXCEPT ![u] = @ - 1]
        /\ entry' = Supported(u, t.read[2], t.read[4])
        /\ given' = given \cup {[user |-> u, id |-> t.read[2], list |-> t.read[4],
                                 no |-> Cardinality(given) + 1]}
        /\ \/ /\ txns' = [txns EXCEPT ![u] = @ \ {t}]
              /\ UNCHANGED faults
           \/ /\ faults < MaxFaults /\ faults' = faults + 1
              /\ txns' = [txns EXCEPT ![u] = (@ \ {t}) \cup {[t EXCEPT !.read = << >>]}]
        /\ UNCHANGED <<numEntries, currentUser, screenVars, invested, taps>>
      BY DEF SupportCommitted
<1>2. t \in Txn /\ IdsRead(t.read) /\ cells[u][t.slot] # None
      BY <1>1 DEF TypeOK, DeviceType, KnownInv, TxnsKnown
<1>3. t.read[2] \in Ids /\ t.read[4] \in Ids
      BY <1>1, <1>2 DEF IdsRead
<1>4. entry[t.read[2]] # None /\ entry[t.read[4]] # None
      BY <1>1 DEF InPlace
<1>5. PICK new : new = [t EXCEPT !.read = << >>]
      OBVIOUS
<1>6. new \in Txn /\ new.type = "support" /\ new.slot = t.slot /\ new.read = << >>
      BY <1>1, <1>2, <1>5, ReadTxn, NothingRead
<1>7. \/ txns' = [txns EXCEPT ![u] = @ \ {t}]
      \/ txns' = [txns EXCEPT ![u] = (@ \ {t}) \cup {new}]
      BY <1>1, <1>5
<1>8. txns' \in [Users -> SUBSET Txn]
    <2>1. txns \in [Users -> SUBSET Txn]
          BY DEF TypeOK, DeviceType
    <2> QED
        BY <1>6, <1>7, <2>1
<1>9. \A v \in Users : \A x \in txns'[v] : x \in txns[v] \/ (v = u /\ x = new)
      BY <1>7 DEF TypeOK, DeviceType
<1>10. faults' \in 0 .. MaxFaults
      BY <1>1, BoundAssumption DEF TypeOK, HistoryType
<1>11. IdsRead(new.read)
      BY <1>6, NothingRead
<1>12. \A v \in Users : \A x \in txns'[v] :
          \/ x \in txns[v]
          \/ /\ v = u /\ x \in Txn
             /\ x.type = "support" /\ cells[u][x.slot] # None /\ IdsRead(x.read)
      BY <1>2, <1>6, <1>9, <1>11
<1>13. PICK i \in Ids, j \in Ids : i = t.read[2] /\ j = t.read[4]
      BY <1>3
<1>14. /\ entry[i] # None /\ entry[j] # None
       /\ entry' = Supported(u, i, j)
       /\ numSupportsRemaining' = [numSupportsRemaining EXCEPT ![u] = @ - 1]
       /\ given' = given \cup {[user |-> u, id |-> i, list |-> j,
                                no |-> Cardinality(given) + 1]}
       /\ UNCHANGED <<numEntries, currentUser, screenVars, invested, taps>>
      BY <1>1, <1>4, <1>13
<1>15. WritesSupport(u, i, j)
      BY <1>14, SupportedDocs DEF TypeOK
<1> QED
    BY <1>8, <1>10, <1>12, <1>14, <1>15

LEMMA TypeStep ==
    ASSUME TypeOK, KnownInv, [Next]_vars
    PROVE  TypeOK'
<1>1. CASE UNCHANGED vars
      BY <1>1 DEF vars, serverVars, screenVars, historyVars, TypeOK, ServerType, DeviceType,
                  HistoryType
<1>2. ASSUME NEW u \in Users, NEW g \in Groups, EntryPublished(u, g) PROVE TypeOK'
    <2>1. entry' \in [Ids -> EntryDoc \cup {None}]
          BY <1>2, NewEntryDoc DEF EntryPublished, TypeOK, ServerType
    <2>2. numEntries' \in [Groups -> Nat]
          BY <1>2 DEF EntryPublished, NumEntries, TypeOK, ServerType
    <2> QED
        BY <1>2, <2>1, <2>2 DEF EntryPublished, screenVars, historyVars, TypeOK, ServerType,
                                DeviceType, HistoryType
<1>3. ASSUME NEW u \in Users, UserSnapshot(u) PROVE TypeOK'
    <2>1. currentUser' \in [Users -> Int \cup {None}]
          BY <1>3 DEF UserSnapshot, TypeOK, ServerType, DeviceType
    <2> QED
        BY <1>3, <2>1 DEF UserSnapshot, serverVars, screenVars, historyVars, TypeOK,
                          ServerType, DeviceType, HistoryType
<1>4. ASSUME NEW u \in Users, Appears(u) PROVE TypeOK'
    <2>1. listeners' \in [Users -> Seq(Query)] /\ visible' \in [Users -> BOOLEAN]
          BY <1>4, Registrations DEF Appears, TypeOK, DeviceType
    <2> QED
        BY <1>4, <2>1 DEF Appears, serverVars, historyVars, TypeOK, ServerType, DeviceType,
                          HistoryType
<1>5. ASSUME NEW u \in Users, Disappears(u) PROVE TypeOK'
    <2>1. Removed(listeners[u]) \in Seq(Query)
          BY Registrations DEF TypeOK, DeviceType
    <2>2. listeners' \in [Users -> Seq(Query)] /\ visible' \in [Users -> BOOLEAN]
          BY <1>5, <2>1 DEF Disappears, TypeOK, DeviceType
    <2> QED
        BY <1>5, <2>2 DEF Disappears, serverVars, historyVars, TypeOK, ServerType, DeviceType,
                          HistoryType
<1>6. ASSUME NEW u \in Users, NEW g \in Groups, DidChooseGroup(u, g) PROVE TypeOK'
    <2>1. Removed(listeners[u]) \in Seq(Query) /\ tab[u] \in Tabs
          BY Registrations DEF TypeOK, DeviceType
    <2>2. Configured(Removed(listeners[u]), g, tab[u]) \in Seq(Query)
          BY <2>1, Registrations
    <2>3. /\ listeners' \in [Users -> Seq(Query)]
          /\ selectedGroup' \in [Users -> Groups \cup {None}]
          BY <1>6, <2>2 DEF DidChooseGroup, TypeOK, DeviceType
    <2> QED
        BY <1>6, <2>3 DEF DidChooseGroup, serverVars, historyVars, TypeOK, ServerType,
                          DeviceType, HistoryType
<1>7. ASSUME NEW u \in Users, NEW t \in Tabs, SortingChanged(u, t) PROVE TypeOK'
    <2>1. Removed(listeners[u]) \in Seq(Query) /\ selectedGroup[u] \in Groups \cup {None}
          BY Registrations DEF TypeOK, DeviceType
    <2>2. Configured(Removed(listeners[u]), selectedGroup[u], t) \in Seq(Query)
          BY <2>1, Registrations
    <2>3. listeners' \in [Users -> Seq(Query)] /\ tab' \in [Users -> Tabs]
          BY <1>7, <2>2 DEF SortingChanged, TypeOK, DeviceType
    <2> QED
        BY <1>7, <2>3 DEF SortingChanged, serverVars, historyVars, TypeOK, ServerType,
                          DeviceType, HistoryType
<1>8. ASSUME NEW u \in Users, EntriesSnapshot(u) PROVE TypeOK'
    <2>1. PICK i \in 1 .. Len(listeners[u]) :
            /\ entries' = [entries EXCEPT ![u] = Listed(u, listeners[u][i])]
            /\ Reloads(u, IF searched[u] = None THEN Listed(u, listeners[u][i])
                                                ELSE searched[u], selectedGroup[u])
            /\ UNCHANGED <<serverVars, currentUser, visible, selectedGroup, tab, listeners,
                           searched, popup, txns, historyVars>>
          BY <1>8 DEF EntriesSnapshot
    <2>2. Listed(u, listeners[u][i]) \in SUBSET Row
          BY ListedRows DEF TypeOK
    <2>3. PICK rows \in SUBSET Row : Reloads(u, rows, selectedGroup[u])
          BY <2>1, <2>2 DEF TypeOK, DeviceType
    <2>4. selectedGroup[u] \in Groups \cup {None}
          BY DEF TypeOK, DeviceType
    <2>5. /\ cells' \in [Users -> [Slots -> Cell \cup {None}]]
          /\ table' \in [Users -> SUBSET Slots]
          BY <2>3, <2>4, ReloadedCells
    <2>6. entries' \in [Users -> SUBSET Row]
          BY <2>1, <2>2 DEF TypeOK, DeviceType
    <2> QED
        BY <2>1, <2>5, <2>6 DEF serverVars, historyVars, TypeOK, ServerType, DeviceType,
                                HistoryType
<1>9. ASSUME NEW u \in Users, NEW found \in (SUBSET entries[u]) \cup {None},
             SearchDidChange(u, found)
      PROVE  TypeOK'
    <2>1. found \in (SUBSET Row) \cup {None} /\ entries[u] \in SUBSET Row
          BY DEF TypeOK, DeviceType
    <2>2. PICK rows \in SUBSET Row : Reloads(u, rows, selectedGroup[u])
          BY <1>9, <2>1 DEF SearchDidChange
    <2>3. selectedGroup[u] \in Groups \cup {None}
          BY DEF TypeOK, DeviceType
    <2>4. /\ cells' \in [Users -> [Slots -> Cell \cup {None}]]
          /\ table' \in [Users -> SUBSET Slots]
          BY <2>2, <2>3, ReloadedCells
    <2>5. searched' \in [Users -> (SUBSET Row) \cup {None}]
          BY <1>9, <2>1 DEF SearchDidChange, TypeOK, DeviceType
    <2> QED
        BY <1>9, <2>4, <2>5 DEF SearchDidChange, serverVars, historyVars, TypeOK, ServerType,
                                DeviceType, HistoryType
<1>10. ASSUME NEW u \in Users, Reloaded(u) PROVE TypeOK'
    <2>1. Shown(u) \in SUBSET Row /\ selectedGroup[u] \in Groups \cup {None}
          BY DEF Shown, TypeOK, DeviceType
    <2>2. Reloads(u, Shown(u), selectedGroup[u])
          BY <1>10 DEF Reloaded
    <2>3. /\ cells' \in [Users -> [Slots -> Cell \cup {None}]]
          /\ table' \in [Users -> SUBSET Slots]
          BY <2>1, <2>2, ReloadedCells
    <2> QED
        BY <1>10, <2>3 DEF Reloaded, serverVars, historyVars, TypeOK, ServerType, DeviceType,
                           HistoryType
<1>11. ASSUME NEW u \in Users, NEW s \in Slots, GiveSupportBtnTapped(u, s) PROVE TypeOK'
    <2> DEFINE new == [type |-> "support", slot |-> s, read |-> << >>, tap |-> taps + 1]
    <2>1. new \in Txn
          BY <1>11, NewSupport DEF GiveSupportBtnTapped
    <2>2. txns' = [txns EXCEPT ![u] = @ \cup {new}]
          BY <1>11 DEF GiveSupportBtnTapped
    <2> HIDE DEF new
    <2>3. txns' \in [Users -> SUBSET Txn]
          BY <2>1, <2>2 DEF TypeOK, DeviceType
    <2>4. taps' \in 0 .. MaxTaps
          BY <1>11, BoundAssumption DEF GiveSupportBtnTapped, TypeOK, HistoryType
    <2> QED
        BY <1>11, <2>3, <2>4 DEF GiveSupportBtnTapped, serverVars, screenVars, TypeOK,
                                 ServerType, DeviceType, HistoryType
<1>12. ASSUME NEW u \in Users, NEW s \in Slots, InvestBtnTapped(u, s) PROVE TypeOK'
    <2>1. popup' \in [Users -> Cell \cup {None}]
          BY <1>12 DEF InvestBtnTapped, TypeOK, DeviceType
    <2> QED
        BY <1>12, <2>1 DEF InvestBtnTapped, serverVars, historyVars, TypeOK, ServerType,
                           DeviceType, HistoryType
<1>13. ASSUME NEW u \in Users, InvestmentPaid(u) PROVE TypeOK'
    <2>1. popup[u].row.id \in Ids /\ popup[u].group \in Groups
          BY <1>13, CellFields, RowFields DEF InvestmentPaid, TypeOK, DeviceType
    <2> DEFINE new == [type |-> "invest", id |-> popup[u].row.id, group |-> popup[u].group,
                       tap |-> taps + 1]
    <2>2. new \in Txn
          BY <1>13, <2>1, NewInvestment DEF InvestmentPaid
    <2>3. txns' = [txns EXCEPT ![u] = @ \cup {new}]
          BY <1>13 DEF InvestmentPaid
    <2> HIDE DEF new
    <2>4. txns' \in [Users -> SUBSET Txn]
          BY <2>2, <2>3 DEF TypeOK, DeviceType
    <2>5. taps' \in 0 .. MaxTaps
          BY <1>13, BoundAssumption DEF InvestmentPaid, TypeOK, HistoryType
    <2> QED
        BY <1>13, <2>4, <2>5 DEF InvestmentPaid, serverVars, screenVars, TypeOK,
                                 ServerType, DeviceType, HistoryType
<1>14. ASSUME NEW u \in Users, PopupSwiped(u) PROVE TypeOK'
    <2>1. popup' \in [Users -> Cell \cup {None}]
          BY <1>14 DEF PopupSwiped, TypeOK, DeviceType
    <2> QED
        BY <1>14, <2>1 DEF PopupSwiped, serverVars, historyVars, TypeOK, ServerType,
                           DeviceType, HistoryType
<1>15. ASSUME NEW u \in Users, SupportRuns(u) PROVE TypeOK'
    <2>1. PICK t \in txns[u] :
            /\ t.type = "support" /\ Len(t.read) < 4
            /\ txns' = [txns EXCEPT ![u] = (@ \ {t}) \cup
                 {[t EXCEPT !.read = Append(@, IF Len(t.read) % 2 = 0
                      THEN cells[u][t.slot].group ELSE cells[u][t.slot].row.id)]}]
          BY <1>15 DEF SupportRuns
    <2> DEFINE r == Append(t.read, IF Len(t.read) % 2 = 0
                      THEN cells[u][t.slot].group ELSE cells[u][t.slot].row.id)
               new == [t EXCEPT !.read = r]
    <2>2. r \in Seq(Groups \cup Ids)
          BY <2>1, ReadsMore
    <2>3. txns' = [txns EXCEPT ![u] = (@ \ {t}) \cup {new}]
          BY <2>1
    <2>4. t \in Txn
          BY DEF TypeOK, DeviceType
    <2> HIDE DEF r
    <2>5. new \in Txn
          BY <2>1, <2>2, <2>4, ReadTxn
    <2> HIDE DEF new
    <2>6. txns' \in [Users -> SUBSET Txn]
          BY <2>3, <2>5 DEF TypeOK, DeviceType
    <2> QED
        BY <1>15, <2>6 DEF SupportRuns, serverVars, screenVars, historyVars, TypeOK,
                           ServerType, DeviceType, HistoryType
<1>16. ASSUME NEW u \in Users, SupportRunsAgain(u) PROVE TypeOK'
    <2>1. PICK t \in txns[u] :
            /\ t.type = "support"
            /\ txns' = [txns EXCEPT ![u] = (@ \ {t}) \cup {[t EXCEPT !.read = << >>]}]
          BY <1>16 DEF SupportRunsAgain
    <2>2. t \in Txn
          BY DEF TypeOK, DeviceType
    <2> DEFINE new == [t EXCEPT !.read = << >>]
    <2>3. new \in Txn
          BY <2>1, <2>2, ReadTxn, NothingRead
    <2>4. txns' = [txns EXCEPT ![u] = (@ \ {t}) \cup {new}]
          BY <2>1
    <2> HIDE DEF new
    <2>5. txns' \in [Users -> SUBSET Txn]
          BY <2>3, <2>4 DEF TypeOK, DeviceType
    <2> QED
        BY <1>16, <2>5 DEF SupportRunsAgain, serverVars, screenVars, historyVars, TypeOK,
                           ServerType, DeviceType, HistoryType
<1>17. ASSUME NEW u \in Users, SupportCommitted(u) PROVE TypeOK'
    <2>1. PICK i \in Ids, j \in Ids :
            /\ WritesSupport(u, i, j)
            /\ numSupportsRemaining' = [numSupportsRemaining EXCEPT ![u] = @ - 1]
            /\ given' = given \cup {[user |-> u, id |-> i, list |-> j,
                                     no |-> Cardinality(given) + 1]}
            /\ txns' \in [Users -> SUBSET Txn] /\ faults' \in 0 .. MaxFaults
            /\ UNCHANGED <<numEntries, currentUser, screenVars, invested, taps>>
          BY <1>17, Commit
    <2>2. entry' \in [Ids -> EntryDoc \cup {None}]
          BY <2>1 DEF WritesSupport
    <2>3. numSupportsRemaining' \in [Users -> Int]
          BY <2>1 DEF TypeOK, ServerType
    <2>4. Cardinality(given) + 1 \in Nat
          BY FS_CardinalityType DEF KnownInv
    <2>5. given' \subseteq [user : Users, id : Ids, list : Ids, no : Nat]
          BY <2>1, <2>4 DEF TypeOK, HistoryType
    <2> QED
        BY <2>1, <2>2, <2>3, <2>5 DEF screenVars, TypeOK, ServerType, DeviceType, HistoryType
<1>18. ASSUME NEW u \in Users, InvestmentCommitted(u) PROVE TypeOK'
    <2>1. PICK t \in txns[u] :
            /\ t.type = "invest" /\ InPlace(t.group, t.id)
            /\ entry' = [entry EXCEPT ![t.id].usersInvested = {u}]
            /\ invested' = invested \cup {[user |-> u, id |-> t.id]}
            /\ \/ /\ popup' = [popup EXCEPT ![u] = None]
                  /\ txns' = [txns EXCEPT ![u] = @ \ {t}]
                  /\ UNCHANGED faults
               \/ /\ faults < MaxFaults /\ faults' = faults + 1
                  /\ UNCHANGED <<popup, txns>>
            /\ UNCHANGED <<numEntries, numSupportsRemaining, currentUser, visible,
                           selectedGroup, tab, listeners, entries, searched, cells, table,
                           given, taps>>
          BY <1>18 DEF InvestmentCommitted
    <2>2. t.id \in Ids
          BY <2>1, InvestmentFields DEF TypeOK, DeviceType
    <2>3. [entry[t.id] EXCEPT !.usersInvested = {u}] \in EntryDoc
          BY <2>1, <2>2, InvestedDoc DEF InPlace, TypeOK, ServerType
    <2>4. entry' \in [Ids -> EntryDoc \cup {None}]
          BY <2>1, <2>2, <2>3 DEF TypeOK, ServerType
    <2>5. popup' \in [Users -> Cell \cup {None}] /\ txns' \in [Users -> SUBSET Txn]
          BY <2>1 DEF TypeOK, DeviceType
    <2>6. invested' \subseteq [user : Users, id : Ids]
          BY <2>1, <2>2 DEF TypeOK, HistoryType
    <2>7. faults' \in 0 .. MaxFaults
          BY <2>1, BoundAssumption DEF TypeOK, HistoryType
    <2> QED
        BY <2>1, <2>4, <2>5, <2>6, <2>7 DEF TypeOK, ServerType, DeviceType, HistoryType
<1>19. ASSUME NEW u \in Users, TxnFailed(u) PROVE TypeOK'
    <2>1. txns' \in [Users -> SUBSET Txn]
          BY <1>19 DEF TxnFailed, TypeOK, DeviceType
    <2> QED
        BY <1>19, <2>1 DEF TxnFailed, serverVars, screenVars, historyVars, TypeOK, ServerType,
                           DeviceType, HistoryType
<1>20. CASE Next
      BY <1>2, <1>3, <1>4, <1>5, <1>6, <1>7, <1>8, <1>9, <1>10, <1>11, <1>12, <1>13,
         <1>14, <1>15, <1>16, <1>17, <1>18, <1>19, <1>20 DEF Next
<1> QED
    BY <1>1, <1>20

\* Where the copies of a step's screens come from.
LEMMA CopiesFrom ==
    ASSUME TypeOK, KnownInv, [Next]_vars, NEW u \in Users
    PROVE  /\ \A r \in entries'[u] : r \in entries[u] \/ \E q : r \in Listed(u, q)
           /\ searched'[u] # None => \A r \in searched'[u] :
                 r \in entries[u] \/ (searched[u] # None /\ r \in searched[u])
           /\ \A s \in Slots :
                 \/ cells'[u][s] = cells[u][s]
                 \/ /\ cells'[u][s] # None
                    /\ \/ cells'[u][s].row \in entries[u]
                       \/ searched[u] # None /\ cells'[u][s].row \in searched[u]
                       \/ \E q : cells'[u][s].row \in Listed(u, q)
           /\ \A s \in table'[u] : s \in Slots /\ cells'[u][s] # None
           /\ popup'[u] # None =>
                 \/ popup'[u] = popup[u]
                 \/ \E s \in Slots : /\ popup'[u] = cells[u][s]
                                     /\ u # cells[u][s].row.copy.userId
<1> DEFINE Goal ==
      /\ \A r \in entries'[u] : r \in entries[u] \/ \E q : r \in Listed(u, q)
      /\ searched'[u] # None => \A r \in searched'[u] :
            r \in entries[u] \/ (searched[u] # None /\ r \in searched[u])
      /\ \A s \in Slots :
            \/ cells'[u][s] = cells[u][s]
            \/ /\ cells'[u][s] # None
               /\ \/ cells'[u][s].row \in entries[u]
                  \/ searched[u] # None /\ cells'[u][s].row \in searched[u]
                  \/ \E q : cells'[u][s].row \in Listed(u, q)
      /\ \A s \in table'[u] : s \in Slots /\ cells'[u][s] # None
      /\ popup'[u] # None =>
            \/ popup'[u] = popup[u]
            \/ \E s \in Slots : /\ popup'[u] = cells[u][s]
                                /\ u # cells[u][s].row.copy.userId
<1>0. \A s \in table[u] : s \in Slots /\ cells[u][s] # None
      BY DEF KnownInv, CellsKnown, TypeOK, DeviceType
<1>1. ASSUME UNCHANGED <<entries, searched, cells, table, popup>> PROVE Goal
      BY <1>0, <1>1
<1>2. ASSUME NEW v \in Users, EntriesSnapshot(v) PROVE Goal
    <2>1. PICK i \in 1 .. Len(listeners[v]) :
            /\ entries' = [entries EXCEPT ![v] = Listed(v, listeners[v][i])]
            /\ Reloads(v, IF searched[v] = None THEN Listed(v, listeners[v][i])
                                                ELSE searched[v], selectedGroup[v])
            /\ searched' = searched /\ popup' = popup
          BY <1>2 DEF EntriesSnapshot
    <2>2. Listed(v, listeners[v][i]) \in SUBSET Row
          BY ListedRows DEF TypeOK
    <2>3. PICK rows \in SUBSET Row :
            /\ rows = IF searched[v] = None THEN Listed(v, listeners[v][i]) ELSE searched[v]
            /\ Reloads(v, rows, selectedGroup[v])
          BY <2>1, <2>2 DEF TypeOK, DeviceType
    <2>4. selectedGroup[v] \in Groups \cup {None}
          BY DEF TypeOK, DeviceType
    <2>5. /\ table' \in [Users -> SUBSET Slots]
          /\ \A w \in Users \ {v} : cells'[w] = cells[w] /\ table'[w] = table[w]
          /\ \A s \in Slots : \/ cells'[v][s] = cells[v][s]
                              \/ cells'[v][s] # None /\ cells'[v][s].row \in rows
          /\ \A s \in table'[v] : cells'[v][s] # None
          BY <2>3, <2>4, ReloadedCells, CellFields
    <2>6. CASE v # u
          BY <1>0, <2>1, <2>5, <2>6 DEF TypeOK, DeviceType
    <2>7. CASE v = u
        <3>1. entries'[u] = Listed(u, listeners[u][i])
              BY <2>1, <2>7 DEF TypeOK, DeviceType
        <3> QED
            BY <2>1, <2>3, <2>5, <2>7, <3>1
    <2> QED
        BY <2>6, <2>7
<1>3. ASSUME NEW v \in Users, NEW found \in (SUBSET entries[v]) \cup {None},
             SearchDidChange(v, found)
      PROVE  Goal
    <2>1. /\ searched' = [searched EXCEPT ![v] = found]
          /\ Reloads(v, IF found = None THEN entries[v] ELSE found, selectedGroup[v])
          /\ entries' = entries /\ popup' = popup
          BY <1>3 DEF SearchDidChange
    <2>2. PICK rows \in SUBSET Row :
            /\ rows = IF found = None THEN entries[v] ELSE found
            /\ Reloads(v, rows, selectedGroup[v])
          BY <2>1 DEF TypeOK, DeviceType
    <2>3. selectedGroup[v] \in Groups \cup {None} /\ rows \subseteq entries[v]
          BY <2>2 DEF TypeOK, DeviceType
    <2>4. /\ table' \in [Users -> SUBSET Slots]
          /\ \A w \in Users \ {v} : cells'[w] = cells[w] /\ table'[w] = table[w]
          /\ \A s \in Slots : \/ cells'[v][s] = cells[v][s]
                              \/ cells'[v][s] # None /\ cells'[v][s].row \in rows
          /\ \A s \in table'[v] : cells'[v][s] # None
          BY <2>2, <2>3, ReloadedCells, CellFields
    <2>5. CASE v # u
          BY <1>0, <2>1, <2>4, <2>5 DEF TypeOK, DeviceType
    <2>6. CASE v = u
        <3>1. searched'[u] = found
              BY <2>1, <2>6 DEF TypeOK, DeviceType
        <3> QED
            BY <2>1, <2>3, <2>4, <2>6, <3>1
    <2> QED
        BY <2>5, <2>6
<1>4. ASSUME NEW v \in Users, Reloaded(v) PROVE Goal
    <2>1. /\ Reloads(v, Shown(v), selectedGroup[v])
          /\ entries' = entries /\ searched' = searched /\ popup' = popup
          BY <1>4 DEF Reloaded
    <2>2. Shown(v) \in SUBSET Row /\ selectedGroup[v] \in Groups \cup {None}
          BY DEF Shown, TypeOK, DeviceType
    <2>3. /\ table' \in [Users -> SUBSET Slots]
          /\ \A w \in Users \ {v} : cells'[w] = cells[w] /\ table'[w] = table[w]
          /\ \A s \in Slots : \/ cells'[v][s] = cells[v][s]
                              \/ cells'[v][s] # None /\ cells'[v][s].row \in Shown(v)
          /\ \A s \in table'[v] : cells'[v][s] # None
          BY <2>1, <2>2, ReloadedCells, CellFields
    <2>4. CASE v # u
          BY <1>0, <2>1, <2>3, <2>4 DEF TypeOK, DeviceType
    <2>5. CASE v = u
          BY <2>1, <2>3, <2>5 DEF Shown
    <2> QED
        BY <2>4, <2>5
<1>5. ASSUME NEW v \in Users, NEW s \in Slots, InvestBtnTapped(v, s) PROVE Goal
    <2>1. /\ popup' = [popup EXCEPT ![v] = cells[v][s]]
          /\ v # cells[v][s].row.copy.userId
          /\ UNCHANGED <<entries, searched, cells, table>>
          BY <1>5 DEF InvestBtnTapped, InvestHidden
    <2>2. popup'[u] = popup[u] \/ (v = u /\ popup'[u] = cells[u][s])
          BY <2>1 DEF TypeOK, DeviceType
    <2> QED
        BY <1>0, <2>1, <2>2
<1>6. ASSUME NEW v \in Users, PopupSwiped(v) \/ InvestmentCommitted(v) PROVE Goal
    <2>1. /\ popup' = [popup EXCEPT ![v] = None] \/ popup' = popup
          /\ UNCHANGED <<entries, searched, cells, table>>
          BY <1>6 DEF PopupSwiped, InvestmentCommitted
    <2>2. popup'[u] = popup[u] \/ popup'[u] = None
          BY <2>1 DEF TypeOK, DeviceType
    <2> QED
        BY <1>0, <2>1, <2>2
<1>7. ASSUME NEW v \in Users
      PROVE  /\ \A g \in Groups : EntryPublished(v, g) \/ DidChooseGroup(v, g)
                   => UNCHANGED <<entries, searched, cells, table, popup>>
             /\ UserSnapshot(v) \/ Appears(v) \/ Disappears(v)
                   => UNCHANGED <<entries, searched, cells, table, popup>>
             /\ \A t \in Tabs : SortingChanged(v, t)
                   => UNCHANGED <<entries, searched, cells, table, popup>>
             /\ \A s \in Slots : GiveSupportBtnTapped(v, s)
                   => UNCHANGED <<entries, searched, cells, table, popup>>
             /\ InvestmentPaid(v) \/ SupportCommitted(v) \/ TxnFailed(v)
                   => UNCHANGED <<entries, searched, cells, table, popup>>
             /\ SupportRuns(v) \/ SupportRunsAgain(v)
                   => UNCHANGED <<entries, searched, cells, table, popup>>
    <2>1. \A g \in Groups : EntryPublished(v, g) \/ DidChooseGroup(v, g)
             => UNCHANGED <<entries, searched, cells, table, popup>>
          BY DEF EntryPublished, DidChooseGroup, screenVars
    <2>2. UserSnapshot(v) \/ Appears(v) \/ Disappears(v)
             => UNCHANGED <<entries, searched, cells, table, popup>>
          BY DEF UserSnapshot, Appears, Disappears, screenVars
    <2>3. \A t \in Tabs : SortingChanged(v, t)
             => UNCHANGED <<entries, searched, cells, table, popup>>
          BY DEF SortingChanged
    <2>4. \A s \in Slots : GiveSupportBtnTapped(v, s)
             => UNCHANGED <<entries, searched, cells, table, popup>>
          BY DEF GiveSupportBtnTapped, screenVars
    <2>5. InvestmentPaid(v) \/ SupportCommitted(v) \/ TxnFailed(v)
             => UNCHANGED <<entries, searched, cells, table, popup>>
          BY DEF InvestmentPaid, SupportCommitted, TxnFailed, screenVars
    <2>6. SupportRuns(v) \/ SupportRunsAgain(v)
             => UNCHANGED <<entries, searched, cells, table, popup>>
          BY DEF SupportRuns, SupportRunsAgain, screenVars
    <2> QED
        BY <2>1, <2>2, <2>3, <2>4, <2>5, <2>6
<1>8. UNCHANGED vars => UNCHANGED <<entries, searched, cells, table, popup>>
      BY DEF vars, screenVars
<1> HIDE DEF Goal
<1>9. Goal
    <2>1. CASE UNCHANGED vars
          BY <1>1, <1>8, <2>1
    <2>2. CASE Next
        <3>1. \A v \in Users :
                 /\ \A g \in Groups : EntryPublished(v, g) \/ DidChooseGroup(v, g) => Goal
                 /\ UserSnapshot(v) \/ Appears(v) \/ Disappears(v) => Goal
                 /\ \A t \in Tabs : SortingChanged(v, t) => Goal
                 /\ \A s \in Slots : GiveSupportBtnTapped(v, s) => Goal
                 /\ InvestmentPaid(v) \/ SupportCommitted(v) \/ TxnFailed(v) => Goal
                 /\ SupportRuns(v) \/ SupportRunsAgain(v) => Goal
              BY <1>1, <1>7
        <3> QED
            BY <1>2, <1>3, <1>4, <1>5, <1>6, <2>2, <3>1 DEF Next
    <2> QED
        BY <2>1, <2>2
<1> QED
    BY <1>9 DEF Goal

\* Where the transactions of a step come from.
LEMMA TxnsFrom ==
    ASSUME TypeOK, KnownInv, [Next]_vars, NEW u \in Users, NEW t \in txns'[u]
    PROVE  \/ t \in txns[u]
           \/ t.type = "support" /\ cells[u][t.slot] # None /\ IdsRead(t.read)
           \/ t.type = "invest" /\ popup[u] # None /\ t.id = popup[u].row.id
<1> DEFINE Goal ==
       \/ t \in txns[u]
       \/ t.type = "support" /\ cells[u][t.slot] # None /\ IdsRead(t.read)
       \/ t.type = "invest" /\ popup[u] # None /\ t.id = popup[u].row.id
<1>1. ASSUME UNCHANGED txns PROVE Goal
      BY <1>1
<1>2. ASSUME NEW v \in Users, NEW s \in Slots, GiveSupportBtnTapped(v, s) PROVE Goal
    <2> DEFINE new == [type |-> "support", slot |-> s, read |-> << >>, tap |-> taps + 1]
    <2>1. /\ txns' = [txns EXCEPT ![v] = @ \cup {new}] /\ s \in table[v]
          BY <1>2 DEF GiveSupportBtnTapped
    <2>2. new.type = "support" /\ new.slot = s /\ new.read = << >>
          OBVIOUS
    <2> HIDE DEF new
    <2>3. cells[v][s] # None
          BY <2>1 DEF KnownInv, CellsKnown
    <2>4. t \in txns[u] \/ (v = u /\ t = new)
          BY <2>1 DEF TypeOK, DeviceType
    <2> QED
        BY <2>2, <2>3, <2>4, NothingRead
<1>3. ASSUME NEW v \in Users, InvestmentPaid(v) PROVE Goal
    <2> DEFINE new == [type |-> "invest", id |-> popup[v].row.id, group |-> popup[v].group,
                       tap |-> taps + 1]
    <2>1. /\ txns' = [txns EXCEPT ![v] = @ \cup {new}] /\ popup[v] # None
          BY <1>3 DEF InvestmentPaid
    <2>2. new.type = "invest" /\ new.id = popup[v].row.id
          OBVIOUS
    <2> HIDE DEF new
    <2>3. t \in txns[u] \/ (v = u /\ t = new)
          BY <2>1 DEF TypeOK, DeviceType
    <2> QED
        BY <2>1, <2>2, <2>3
<1>4. ASSUME NEW v \in Users, SupportRuns(v) PROVE Goal
    <2>1. PICK x \in txns[v] :
            /\ x.type = "support" /\ Len(x.read) < 4
            /\ txns' = [txns EXCEPT ![v] = (@ \ {x}) \cup
                 {[x EXCEPT !.read = Append(@, IF Len(x.read) % 2 = 0
                      THEN cells[v][x.slot].group ELSE cells[v][x.slot].row.id)]}]
          BY <1>4 DEF SupportRuns
    <2> DEFINE r == Append(x.read, IF Len(x.read) % 2 = 0
                      THEN cells[v][x.slot].group ELSE cells[v][x.slot].row.id)
               new == [x EXCEPT !.read = r]
    <2>2. r \in Seq(Groups \cup Ids) /\ IdsRead(r)
          BY <2>1, ReadsMore
    <2>3. txns' = [txns EXCEPT ![v] = (@ \ {x}) \cup {new}]
          BY <2>1
    <2>4. x \in Txn /\ cells[v][x.slot] # None
          BY <2>1 DEF TypeOK, DeviceType, KnownInv, TxnsKnown
    <2> HIDE DEF r
    <2>5. new.type = "support" /\ new.slot = x.slot /\ new.read = r
          BY <2>1, <2>2, <2>4, ReadTxn
    <2> HIDE DEF new
    <2>6. t \in txns[u] \/ (v = u /\ t = new)
          BY <2>3 DEF TypeOK, DeviceType
    <2> QED
        BY <2>2, <2>4, <2>5, <2>6
<1>5. ASSUME NEW v \in Users, SupportRunsAgain(v) PROVE Goal
    <2>1. PICK x \in txns[v] :
            /\ x.type = "support"
            /\ txns' = [txns EXCEPT ![v] = (@ \ {x}) \cup {[x EXCEPT !.read = << >>]}]
          BY <1>5 DEF SupportRunsAgain
    <2> DEFINE new == [x EXCEPT !.read = << >>]
    <2>2. x \in Txn /\ cells[v][x.slot] # None
          BY <2>1 DEF TypeOK, DeviceType, KnownInv, TxnsKnown
    <2>3. new.type = "support" /\ new.slot = x.slot /\ new.read = << >>
          BY <2>1, <2>2, ReadTxn, NothingRead
    <2>4. txns' = [txns EXCEPT ![v] = (@ \ {x}) \cup {new}]
          BY <2>1
    <2> HIDE DEF new
    <2>5. t \in txns[u] \/ (v = u /\ t = new)
          BY <2>4 DEF TypeOK, DeviceType
    <2> QED
        BY <2>2, <2>3, <2>5, NothingRead
<1>6. ASSUME NEW v \in Users, SupportCommitted(v) PROVE Goal
      BY <1>6, Commit
<1>7. ASSUME NEW v \in Users, InvestmentCommitted(v) \/ TxnFailed(v) PROVE Goal
    <2>1. \/ txns' = txns
          \/ \E x \in txns[v] : txns' = [txns EXCEPT ![v] = @ \ {x}]
          BY <1>7 DEF InvestmentCommitted, TxnFailed
    <2> QED
        BY <2>1 DEF TypeOK, DeviceType
<1>8. \/ UNCHANGED txns
      \/ \E v \in Users, s \in Slots : GiveSupportBtnTapped(v, s)
      \/ \E v \in Users : InvestmentPaid(v) \/ SupportRuns(v) \/ SupportRunsAgain(v)
      \/ \E v \in Users : SupportCommitted(v) \/ InvestmentCommitted(v) \/ TxnFailed(v)
      BY DEF Next, vars, EntryPublished, UserSnapshot, Appears, Disappears, DidChooseGroup,
             SortingChanged, EntriesSnapshot, SearchDidChange, Reloaded, InvestBtnTapped,
             PopupSwiped
<1> HIDE DEF Goal
<1>9. Goal
      BY <1>1, <1>2, <1>3, <1>4, <1>5, <1>6, <1>7, <1>8
<1> QED
    BY <1>9 DEF Goal

\* Every step that gives no support.
LEMMA ServerCases ==
    ASSUME [Next]_vars
    PROVE  \/ UNCHANGED <<entry, numEntries, numSupportsRemaining, given>>
           \/ \E u \in Users, g \in Groups : EntryPublished(u, g)
           \/ \E u \in Users : SupportCommitted(u)
           \/ \E u \in Users : InvestmentCommitted(u)
<1> DEFINE Kept == UNCHANGED <<entry, numEntries, numSupportsRemaining, given>>
<1>1. ASSUME NEW u \in Users
      PROVE  /\ UserSnapshot(u) \/ Appears(u) \/ Disappears(u) => Kept
             /\ \A g \in Groups : DidChooseGroup(u, g) => Kept
             /\ \A t \in Tabs : SortingChanged(u, t) => Kept
             /\ EntriesSnapshot(u) \/ Reloaded(u) \/ PopupSwiped(u) => Kept
      BY DEF UserSnapshot, Appears, Disappears, DidChooseGroup, SortingChanged,
             EntriesSnapshot, Reloaded, PopupSwiped, serverVars, historyVars
<1>2. ASSUME NEW u \in Users
      PROVE  /\ \A f : SearchDidChange(u, f) => Kept
             /\ \A s \in Slots : GiveSupportBtnTapped(u, s) \/ InvestBtnTapped(u, s) => Kept
             /\ InvestmentPaid(u) \/ TxnFailed(u) => Kept
             /\ SupportRuns(u) \/ SupportRunsAgain(u) => Kept
      BY DEF SearchDidChange, GiveSupportBtnTapped, InvestBtnTapped, InvestmentPaid,
             TxnFailed, SupportRuns, SupportRunsAgain, serverVars, historyVars
<1>3. UNCHANGED vars => Kept
      BY DEF vars, serverVars, historyVars
<1> HIDE DEF Kept
<1>4. \/ Kept
      \/ \E u \in Users, g \in Groups : EntryPublished(u, g)
      \/ \E u \in Users : SupportCommitted(u)
      \/ \E u \in Users : InvestmentCommitted(u)
      BY <1>1, <1>2, <1>3 DEF Next
<1> QED
    BY <1>4 DEF Kept

LEMMA KnownInit == Init => KnownInv
BY FS_EmptySet DEF Init, KnownInv, CellsKnown, TxnsKnown

LEMMA KnownStep ==
    ASSUME TypeOK, TypeOK', KnownInv, [Next]_vars
    PROVE  KnownInv'
<1>1. CellsKnown'
    <2> SUFFICES ASSUME NEW u \in Users, NEW s \in table'[u] PROVE cells'[u][s] # None
        BY DEF CellsKnown
    <2> QED
        BY CopiesFrom
<1>2. TxnsKnown'
    <2> SUFFICES ASSUME NEW u \in Users, NEW t \in txns'[u], t.type = "support"
                 PROVE  cells'[u][t.slot] # None /\ IdsRead(t.read)
        BY DEF TxnsKnown
    <2>1. cells[u][t.slot] # None /\ IdsRead(t.read)
          BY TxnsFrom DEF KnownInv, TxnsKnown
    <2>2. t \in Txn
          BY DEF TypeOK, DeviceType
    <2>3. t.slot \in Slots
          BY <2>2, SupportFields
    <2>4. cells'[u][t.slot] = cells[u][t.slot] \/ cells'[u][t.slot] # None
          BY <2>3, CopiesFrom
    <2> QED
        BY <2>1, <2>4
<1>3. IsFiniteSet(given')
    <2>1. CASE UNCHANGED given
          BY <2>1 DEF KnownInv
    <2>2. ASSUME NEW u \in Users, SupportCommitted(u) PROVE IsFiniteSet(given')
        <3>1. \E x : given' = given \cup {x}
              BY <2>2, Commit
        <3> QED
            BY <3>1, FS_AddElement DEF KnownInv
    <2>3. ASSUME NEW u \in Users,
                 InvestmentCommitted(u) \/ \E g \in Groups : EntryPublished(u, g)
          PROVE  UNCHANGED given
          BY <2>3 DEF InvestmentCommitted, EntryPublished, historyVars
    <2> QED
        BY <2>1, <2>2, <2>3, ServerCases
<1> QED
    BY <1>1, <1>2, <1>3 DEF KnownInv

(***************************************************************************)
(* The state is well typed in every reachable state.                       *)
(***************************************************************************)
THEOREM TypeCorrect == Spec => []TypeOK
<1>1. Init => TypeOK /\ KnownInv
      BY TypeInit, KnownInit
<1>2. TypeOK /\ KnownInv /\ [Next]_vars => (TypeOK /\ KnownInv)'
      BY TypeStep, KnownStep
<1> QED
    BY <1>1, <1>2, PTL DEF Spec
-----------------------------------------------------------------------------
(***************************************************************************)
(* What the steps do to the server.                                        *)
(***************************************************************************)

\* Publishing takes the next free number.
Numbered == \E n \in 0 .. MaxEntries : Published = 1 .. n

LEMMA NextNumber ==
    ASSUME TypeOK, Numbered, NEW u \in Users, NEW g \in Groups, EntryPublished(u, g)
    PROVE  \E id \in Ids :
              /\ id \notin Published /\ Published' = Published \cup {id}
              /\ entry' = [entry EXCEPT ![id] = NewEntry(u, g)]
              /\ Numbered'
<1>1. PICK n \in 0 .. MaxEntries : Published = 1 .. n
      BY DEF Numbered
<1>2. Cardinality(Published) = n
      BY <1>1, FS_Interval, BoundAssumption
<1>3. n + 1 \in 1 .. MaxEntries /\ entry' = [entry EXCEPT ![n + 1] = NewEntry(u, g)]
      BY <1>2, BoundAssumption DEF EntryPublished
<1>4. Published' = Published \cup {n + 1}
    <2>1. NewEntry(u, g) # None
          BY NewEntryDoc, DocFields
    <2> QED
        BY <1>3, <2>1 DEF Published, TypeOK, ServerType, Ids
<1>5. Published' = 1 .. (n + 1) /\ n + 1 \notin Published
      BY <1>1, <1>4
<1>6. n + 1 \in 0 .. MaxEntries
      BY <1>3, BoundAssumption
<1> QED
    BY <1>3, <1>4, <1>5, <1>6 DEF Numbered, Ids

\* What no step takes back.
Lasts(i) == /\ entry'[i] # None
            /\ entry'[i].group = entry[i].group /\ entry'[i].userId = entry[i].userId
            /\ entry[i].numSupports <= entry'[i].numSupports

LEMMA EntriesLast ==
    ASSUME TypeOK, KnownInv, Numbered, [Next]_vars, NEW i \in Published
    PROVE  Lasts(i)
<1>1. i \in Ids /\ entry[i] \in EntryDoc /\ entry[i] # None
      BY DEF Published, TypeOK, ServerType
<1>2. entry[i].numSupports \in Nat
      BY <1>1, DocFields
<1>3. CASE UNCHANGED entry
      BY <1>1, <1>2, <1>3 DEF Lasts
<1>4. ASSUME NEW u \in Users, NEW g \in Groups, EntryPublished(u, g) PROVE Lasts(i)
    <2>1. PICK id \in Ids : /\ id \notin Published
                            /\ entry' = [entry EXCEPT ![id] = NewEntry(u, g)]
          BY <1>4, NextNumber
    <2>2. entry'[i] = entry[i]
          BY <1>1, <2>1 DEF TypeOK, ServerType
    <2> QED
        BY <1>1, <1>2, <2>2 DEF Lasts
<1>5. ASSUME NEW u \in Users, SupportCommitted(u) PROVE Lasts(i)
    <2>1. PICK a \in Ids, b \in Ids :
             WritesSupport(u, a, b)
          BY <1>5, Commit
    <2>2. /\ entry'[i] # None
          /\ entry'[i].group = entry[i].group /\ entry'[i].userId = entry[i].userId
          /\ entry'[i].numSupports =
                IF i = a THEN entry[i].numSupports + 1 ELSE entry[i].numSupports
          BY <1>1, <2>1 DEF WritesSupport
    <2> QED
        BY <1>2, <2>2 DEF Lasts
<1>6. ASSUME NEW u \in Users, InvestmentCommitted(u) PROVE Lasts(i)
    <2>1. PICK t \in txns[u] : entry' = [entry EXCEPT ![t.id].usersInvested = {u}]
          BY <1>6 DEF InvestmentCommitted
    <2> DEFINE e == [entry[i] EXCEPT !.usersInvested = {u}]
    <2>2. entry'[i] = entry[i] \/ entry'[i] = e
          BY <1>1, <2>1 DEF TypeOK, ServerType
    <2>3. /\ e \in EntryDoc /\ e.group = entry[i].group /\ e.userId = entry[i].userId
          /\ e.numSupports = entry[i].numSupports
          BY <1>1, InvestedDoc
    <2>4. e # None
          BY <2>3, DocFields
    <2> HIDE DEF e
    <2> QED
        BY <1>1, <1>2, <2>2, <2>3, <2>4 DEF Lasts
<1> QED
    BY <1>3, <1>4, <1>5, <1>6, ServerCases

\* A support or an investment publishes nothing.
LEMMA NonePublished ==
    ASSUME TypeOK, KnownInv, NEW u \in Users, SupportCommitted(u) \/ InvestmentCommitted(u)
    PROVE  Published' = Published
<1>1. CASE SupportCommitted(u)
    <2>1. PICK a \in Ids, b \in Ids :
             WritesSupport(u, a, b)
          BY <1>1, Commit
    <2>2. \A k \in Ids : entry'[k] = None <=> entry[k] = None
          BY <2>1 DEF WritesSupport
    <2> QED
        BY <2>2 DEF Published
<1>2. CASE InvestmentCommitted(u)
    <2>1. PICK t \in txns[u] : /\ t.type = "invest" /\ InPlace(t.group, t.id)
                               /\ entry' = [entry EXCEPT ![t.id].usersInvested = {u}]
          BY <1>2 DEF InvestmentCommitted
    <2>2. t.id \in Ids
          BY <2>1, InvestmentFields DEF TypeOK, DeviceType
    <2>3. entry[t.id] \in EntryDoc
          BY <2>1, <2>2 DEF InPlace, TypeOK, ServerType
    <2>4. [entry[t.id] EXCEPT !.usersInvested = {u}] # None
          BY <2>3, InvestedDoc, DocFields
    <2>5. \A k \in Ids : entry'[k] = None <=> entry[k] = None
          BY <2>1, <2>2, <2>3, <2>4, DocFields DEF TypeOK, ServerType
    <2> QED
        BY <2>5 DEF Published
<1> QED
    BY <1>1, <1>2

LEMMA NumberedInit == Init => Numbered
<1> SUFFICES ASSUME Init PROVE Numbered
    OBVIOUS
<1>1. Published = 1 .. 0
      BY DEF Init, Published
<1>2. 0 \in 0 .. MaxEntries
      BY BoundAssumption
<1> QED
    BY <1>1, <1>2 DEF Numbered

LEMMA NumberedStep ==
    ASSUME TypeOK, KnownInv, Numbered, [Next]_vars
    PROVE  Numbered'
<1>1. CASE UNCHANGED entry
      BY <1>1 DEF Numbered, Published
<1>2. CASE \E u \in Users, g \in Groups : EntryPublished(u, g)
      BY <1>2, NextNumber
<1>3. CASE \E u \in Users : SupportCommitted(u) \/ InvestmentCommitted(u)
    <2>1. Published' = Published
          BY <1>3, NonePublished
    <2> QED
        BY <2>1 DEF Numbered
<1> QED
    BY <1>1, <1>2, <1>3, ServerCases
-----------------------------------------------------------------------------
(***************************************************************************)
(* Copies: whatever the screen holds on to was an entry once, and the      *)
(* entry has gone on from there.                                           *)
(***************************************************************************)
CopyOf(r) == /\ r.id \in Published
             /\ r.copy.userId = entry[r.id].userId
             /\ r.copy.numSupports <= entry[r.id].numSupports

ListCopies   == \A u \in Users : \A r \in entries[u] : CopyOf(r)
SearchCopies == \A u \in Users : searched[u] # None => \A r \in searched[u] : CopyOf(r)
CellCopies   == \A u \in Users : \A s \in Slots :
                   cells[u][s] # None => CopyOf(cells[u][s].row)
PopupCopies  == \A u \in Users : popup[u] # None => /\ CopyOf(popup[u].row)
                                                   /\ popup[u].row.copy.userId # u
TxnsInv      == \A u \in Users : \A t \in txns[u] :
                   t.type = "invest" => t.id \in Published /\ entry[t.id].userId # u

CopyInv == /\ TypeOK /\ KnownInv /\ Numbered
           /\ ListCopies /\ SearchCopies /\ CellCopies /\ PopupCopies /\ TxnsInv

LEMMA CopyLasts ==
    ASSUME TypeOK, KnownInv, TypeOK', Numbered, [Next]_vars, NEW r \in Row, CopyOf(r)
    PROVE  CopyOf(r)'
<1>1. r.id \in Published
      BY DEF CopyOf
<1>2. Lasts(r.id)
      BY <1>1, EntriesLast
<1>3. /\ r.copy.numSupports \in Nat /\ entry[r.id].numSupports \in Nat
      /\ entry'[r.id].numSupports \in Nat
    <2>1. entry[r.id] \in EntryDoc /\ entry'[r.id] \in EntryDoc
          BY <1>1, <1>2 DEF Published, Lasts, TypeOK, ServerType
    <2> QED
        BY <2>1, RowFields, DocFields
<1>4. r.id \in Published'
      BY <1>1, <1>2 DEF Published, Lasts
<1> QED
    BY <1>2, <1>3, <1>4 DEF CopyOf, Lasts

\* The rows a snapshot brings are copies of what is there.
LEMMA ListedCopies ==
    ASSUME TypeOK, NEW u, NEW q, NEW r \in Listed(u, q)
    PROVE  CopyOf(r)
<1>1. r.id \in Published /\ r.copy = entry[r.id]
      BY ListedRows DEF TypeOK
<1>2. entry[r.id] \in EntryDoc
      BY <1>1 DEF Published, TypeOK, ServerType
<1>3. entry[r.id].numSupports \in Nat
      BY <1>2, DocFields
<1> QED
    BY <1>1, <1>3 DEF CopyOf

LEMMA CopyInit == Init => CopyInv
<1> SUFFICES ASSUME Init PROVE CopyInv
    OBVIOUS
<1>1. TypeOK /\ KnownInv /\ Numbered
      BY TypeInit, KnownInit, NumberedInit
<1>2. ListCopies /\ SearchCopies /\ CellCopies /\ PopupCopies /\ TxnsInv
      BY DEF Init, ListCopies, SearchCopies, CellCopies, PopupCopies, TxnsInv
<1> QED
    BY <1>1, <1>2 DEF CopyInv

LEMMA CopyStep ==
    ASSUME CopyInv, [Next]_vars
    PROVE  CopyInv'
<1>1. TypeOK /\ TypeOK' /\ KnownInv /\ KnownInv' /\ Numbered /\ Numbered'
      BY TypeStep, KnownStep, NumberedStep DEF CopyInv
<1>2. \A r \in Row : CopyOf(r) => CopyOf(r)'
      BY <1>1, CopyLasts
<1>3. \A u \in Users : /\ entries[u] \subseteq Row
                       /\ \A s \in Slots : cells[u][s] # None => cells[u][s] \in Cell
                       /\ searched[u] # None => searched[u] \subseteq Row
                       /\ popup[u] # None => popup[u] \in Cell
      BY <1>1 DEF TypeOK, DeviceType
<1>4. \A u \in Users : \A r \in entries[u] : CopyOf(r)'
      BY <1>2, <1>3 DEF CopyInv, ListCopies
<1>5. \A u \in Users : searched[u] # None => \A r \in searched[u] : CopyOf(r)'
      BY <1>2, <1>3 DEF CopyInv, SearchCopies
<1>6. \A u \in Users : \A s \in Slots : \A c :
         c = cells[u][s] /\ c # None => CopyOf(c.row)'
      BY <1>2, <1>3, CellFields DEF CopyInv, CellCopies
<1>7. \A u \in Users : popup[u] # None => \A p : p = popup[u] => CopyOf(p.row)'
      BY <1>2, <1>3, CellFields DEF CopyInv, PopupCopies
<1>8. \A u : \A q : \A r \in Listed(u, q) : CopyOf(r)'
    <2> SUFFICES ASSUME NEW u, NEW q, NEW r \in Listed(u, q) PROVE CopyOf(r)'
        OBVIOUS
    <2>1. CopyOf(r) /\ r \in Row
          BY <1>1, ListedCopies, ListedRows DEF TypeOK
    <2> QED
        BY <1>2, <2>1
<1>9. ListCopies'
    <2> SUFFICES ASSUME NEW u \in Users, NEW r \in entries'[u] PROVE CopyOf(r)'
        BY DEF ListCopies
    <2>1. r \in entries[u] \/ \E q : r \in Listed(u, q)
          BY <1>1, CopiesFrom
    <2> QED
        BY <1>4, <1>8, <2>1
<1>10. SearchCopies'
    <2> SUFFICES ASSUME NEW u \in Users, searched'[u] # None, NEW r \in searched'[u]
                 PROVE  CopyOf(r)'
        BY DEF SearchCopies
    <2>1. r \in entries[u] \/ (searched[u] # None /\ r \in searched[u])
          BY <1>1, CopiesFrom
    <2> QED
        BY <1>4, <1>5, <2>1
<1>11. CellCopies'
    <2> SUFFICES ASSUME NEW u \in Users, NEW s \in Slots, cells'[u][s] # None
                 PROVE  \E c : c = cells'[u][s] /\ CopyOf(c.row)'
        BY DEF CellCopies
    <2>1. \/ cells'[u][s] = cells[u][s]
          \/ /\ cells'[u][s] # None
             /\ \/ cells'[u][s].row \in entries[u]
                \/ searched[u] # None /\ cells'[u][s].row \in searched[u]
                \/ \E q : cells'[u][s].row \in Listed(u, q)
          BY <1>1, CopiesFrom
    <2>2. PICK c : c = cells'[u][s]
          OBVIOUS
    <2>3. CASE c = cells[u][s]
          BY <1>6, <2>2, <2>3
    <2>4. CASE \/ c.row \in entries[u]
               \/ searched[u] # None /\ c.row \in searched[u]
               \/ \E q : c.row \in Listed(u, q)
          BY <1>4, <1>5, <1>8, <2>2, <2>4
    <2> QED
        BY <2>1, <2>2, <2>3, <2>4
<1>12. PopupCopies'
    <2> SUFFICES ASSUME NEW u \in Users, popup'[u] # None
                 PROVE  \E p : /\ p = popup'[u] /\ CopyOf(p.row)'
                               /\ p.row.copy.userId # u
        BY DEF PopupCopies
    <2>1. \/ popup'[u] = popup[u]
          \/ \E s \in Slots : /\ popup'[u] = cells[u][s]
                              /\ u # cells[u][s].row.copy.userId
          BY <1>1, CopiesFrom
    <2>2. PICK p : p = popup'[u]
          OBVIOUS
    <2>3. CASE p = popup[u]
          BY <1>7, <2>2, <2>3 DEF CopyInv, PopupCopies
    <2>4. CASE \E s \in Slots : p = cells[u][s] /\ u # p.row.copy.userId
          BY <1>6, <2>2, <2>4
    <2> QED
        BY <2>1, <2>2, <2>3, <2>4
<1>13. TxnsInv'
    <2> SUFFICES ASSUME NEW u \in Users, NEW t \in txns'[u], t.type = "invest"
                 PROVE  t.id \in Published' /\ entry'[t.id].userId # u
        BY DEF TxnsInv
    <2>1. t.id \in Published /\ entry[t.id].userId # u
        <3>1. CASE t \in txns[u]
              BY <3>1 DEF CopyInv, TxnsInv
        <3>2. CASE popup[u] # None /\ t.id = popup[u].row.id
              BY <3>2 DEF CopyInv, PopupCopies, CopyOf
        <3>3. "support" # "invest"
              OBVIOUS
        <3> QED
            BY <1>1, <3>1, <3>2, <3>3, TxnsFrom
    <2>2. Lasts(t.id)
          BY <1>1, <2>1, EntriesLast
    <2> QED
        BY <2>1, <2>2 DEF Published, Lasts
<1> QED
    BY <1>1, <1>9, <1>10, <1>11, <1>12, <1>13 DEF CopyInv

(***************************************************************************)
(* An investor is never asked for more than one stamp for every two        *)
(* supports the entry has at that time: the supports of an entry only      *)
(* grow, and every copy is of the past.                                    *)
(***************************************************************************)
THEOREM FeeIsFair == Spec => []FeeNotAhead
<1>1. CopyInv => FeeNotAhead
    <2> SUFFICES ASSUME CopyInv, NEW u \in Users, popup[u] # None
                 PROVE  2 * SupportFee(popup[u].row.copy) <= entry[popup[u].row.id].numSupports
        BY DEF FeeNotAhead
    <2>1. popup[u].row \in Row /\ popup[u].row.copy \in EntryDoc
          BY CellFields, RowFields DEF CopyInv, TypeOK, DeviceType
    <2>2. popup[u].row.copy.numSupports \in Nat
          BY <2>1, DocFields
    <2>3. CopyOf(popup[u].row)
          BY DEF CopyInv, PopupCopies
    <2>4. entry[popup[u].row.id] \in EntryDoc
          BY <2>3 DEF CopyOf, Published, CopyInv, TypeOK, ServerType
    <2>5. entry[popup[u].row.id].numSupports \in Nat
          BY <2>4, DocFields
    <2>6. \A x, y \in Nat : x <= y => 2 * (x \div 2) <= y
          OBVIOUS
    <2> QED
        BY <2>2, <2>3, <2>5, <2>6 DEF CopyOf, SupportFee
<1> QED
    BY <1>1, CopyInit, CopyStep, PTL DEF Spec
-----------------------------------------------------------------------------
(***************************************************************************)
(* Creators.                                                               *)
(***************************************************************************)
LEMMA CreatorStep ==
    ASSUME CopyInv, CreatorStaysOut, [Next]_vars
    PROVE  CreatorStaysOut'
<1>1. TypeOK /\ KnownInv /\ Numbered /\ TxnsInv
      BY DEF CopyInv
<1>2. CASE UNCHANGED entry
      BY <1>2 DEF CreatorStaysOut, Published
<1>3. ASSUME NEW u \in Users, NEW g \in Groups, EntryPublished(u, g) PROVE CreatorStaysOut'
    <2>1. PICK id \in Ids : /\ Published' = Published \cup {id} /\ id \notin Published
                            /\ entry' = [entry EXCEPT ![id] = NewEntry(u, g)]
          BY <1>1, <1>3, NextNumber
    <2>2. entry'[id] = NewEntry(u, g) /\ \A i \in Published : entry'[i] = entry[i]
          BY <1>1, <2>1 DEF TypeOK, ServerType, Published
    <2>3. NewEntry(u, g).userId \notin NewEntry(u, g).usersInvested
          BY NewEntryDoc
    <2> QED
        BY <2>1, <2>2, <2>3 DEF CreatorStaysOut
<1>4. ASSUME NEW u \in Users, SupportCommitted(u) PROVE CreatorStaysOut'
    <2>1. PICK a \in Ids, b \in Ids :
             WritesSupport(u, a, b)
          BY <1>1, <1>4, Commit
    <2>2. Published' = Published
          BY <1>1, <1>4, NonePublished
    <2>3. \A i \in Published : /\ entry'[i].userId = entry[i].userId
                               /\ entry'[i].usersInvested = entry[i].usersInvested
          BY <2>1 DEF Published, WritesSupport
    <2> QED
        BY <2>2, <2>3 DEF CreatorStaysOut
<1>5. ASSUME NEW u \in Users, InvestmentCommitted(u) PROVE CreatorStaysOut'
    <2>1. PICK t \in txns[u] : /\ t.type = "invest"
                               /\ entry' = [entry EXCEPT ![t.id].usersInvested = {u}]
          BY <1>5 DEF InvestmentCommitted
    <2>2. t.id \in Published /\ entry[t.id].userId # u
          BY <1>1, <2>1 DEF TxnsInv
    <2>3. entry[t.id] \in EntryDoc /\ t.id \in Ids
          BY <1>1, <2>2 DEF Published, TypeOK, ServerType
    <2> DEFINE e == [entry[t.id] EXCEPT !.usersInvested = {u}]
    <2>4. e.userId = entry[t.id].userId /\ e.usersInvested = {u}
          BY <2>3, InvestedDoc
    <2>5. entry'[t.id] = e /\ \A i \in Ids : i # t.id => entry'[i] = entry[i]
          BY <1>1, <2>1, <2>3 DEF TypeOK, ServerType
    <2> HIDE DEF e
    <2> SUFFICES ASSUME NEW i \in Published'
                 PROVE  entry'[i].userId \notin entry'[i].usersInvested
        BY DEF CreatorStaysOut
    <2>6. CASE i = t.id
          BY <2>2, <2>4, <2>5, <2>6
    <2>7. CASE i # t.id
          BY <2>5, <2>7 DEF CreatorStaysOut, Published
    <2> QED
        BY <2>6, <2>7
<1> QED
    BY <1>2, <1>3, <1>4, <1>5, ServerCases

(***************************************************************************)
(* The creator of an entry is never among its investors: an investment is  *)
(* of the row that was tapped, and who is to pay for it has a button only  *)
(* on a copy of somebody else's entry.                                     *)
(***************************************************************************)
THEOREM CreatorsStayOut == Spec => []CreatorStaysOut
<1>1. Init => CopyInv /\ CreatorStaysOut
    <2>1. Init => CreatorStaysOut
          BY DEF Init, CreatorStaysOut, Published
    <2> QED
        BY <2>1, CopyInit
<1>2. CopyInv /\ CreatorStaysOut /\ [Next]_vars => (CopyInv /\ CreatorStaysOut)'
      BY CopyStep, CreatorStep
<1> QED
    BY <1>1, <1>2, PTL DEF Spec
-----------------------------------------------------------------------------
(***************************************************************************)
(* Supports.  Each support that goes through counts for one: the commits   *)
(* are numbered, so that no two of them are the same.                      *)
(***************************************************************************)

\* What the sums are taken over.
GivenInv == \A s \in given : /\ s.id \in Published /\ s.list \in Published
                             /\ s.no \in 1 .. Cardinality(given)

SumInv == TypeOK /\ KnownInv /\ Numbered /\ GivenInv /\ SupportsAddUp

LEMMA OneMore ==
    ASSUME NEW S, IsFiniteSet(S), NEW x, x \notin S
    PROVE  /\ IsFiniteSet(S \cup {x}) /\ Cardinality(S \cup {x}) = Cardinality(S) + 1
           /\ Cardinality(S) \in Nat
BY FS_AddElement, FS_CardinalityType

LEMMA SumInit == Init => SumInv
<1> SUFFICES ASSUME Init PROVE SumInv
    OBVIOUS
<1>1. TypeOK /\ KnownInv /\ Numbered
      BY TypeInit, KnownInit, NumberedInit
<1>2. GivenInv
      BY DEF Init, GivenInv
<1>3. \A u \in Users : Cardinality(GivenBy(u)) = 0
      BY FS_EmptySet DEF Init, GivenBy
<1>4. SupportsAddUp
      BY <1>3, BoundAssumption DEF Init, SupportsAddUp, Published
<1> QED
    BY <1>1, <1>2, <1>4 DEF SumInv

\* Steps that publish nothing and commit no support keep every sum.
LEMMA SumKept ==
    ASSUME SumInv, UNCHANGED <<numSupportsRemaining, given>>, Published' = Published,
           \A i \in Published : /\ entry'[i].numSupports = entry[i].numSupports
                                /\ entry'[i].usersSupported = entry[i].usersSupported
    PROVE  GivenInv' /\ SupportsAddUp'
<1>1. GivenInv'
      BY DEF SumInv, GivenInv
<1>2. /\ \A u \in Users : GivenBy(u)' = GivenBy(u)
      /\ \A i \in Published : GivenTo(i)' = GivenTo(i)
      BY DEF GivenBy, GivenTo
<1>3. \A u \in Users : numSupportsRemaining'[u] = InitSupports - Cardinality(GivenBy(u)')
      BY <1>2 DEF SumInv, SupportsAddUp
<1>4. \A i \in Published' : entry'[i].numSupports = Cardinality(GivenTo(i)')
      BY <1>2 DEF SumInv, SupportsAddUp
<1>5. \A i \in Published' : \A u \in Users :
          u \in entry'[i].usersSupported <=> \E s \in GivenBy(u)' : s.list = i
      BY <1>2 DEF SumInv, SupportsAddUp
<1> QED
    BY <1>1, <1>3, <1>4, <1>5 DEF SupportsAddUp

LEMMA SumPublished ==
    ASSUME SumInv, NEW u \in Users, NEW g \in Groups, EntryPublished(u, g)
    PROVE  GivenInv' /\ SupportsAddUp'
<1>1. PICK id \in Ids : /\ Published' = Published \cup {id} /\ id \notin Published
                        /\ entry' = [entry EXCEPT ![id] = NewEntry(u, g)]
      BY NextNumber DEF SumInv
<1>2. entry'[id] = NewEntry(u, g) /\ \A i \in Published : entry'[i] = entry[i]
      BY <1>1 DEF SumInv, TypeOK, ServerType, Published
<1>3. given' = given /\ numSupportsRemaining' = numSupportsRemaining
      BY DEF EntryPublished, historyVars
<1>4. GivenInv'
      BY <1>1, <1>3 DEF SumInv, GivenInv
<1>5. /\ \A v \in Users : GivenBy(v)' = GivenBy(v)
      /\ \A i : GivenTo(i)' = GivenTo(i)
      BY <1>3 DEF GivenBy, GivenTo
<1>6. \A v \in Users : numSupportsRemaining'[v] = InitSupports - Cardinality(GivenBy(v)')
      BY <1>3, <1>5 DEF SumInv, SupportsAddUp
<1>7. /\ Cardinality(GivenTo(id)) = 0
      /\ \A v \in Users : ~\E s \in GivenBy(v) : s.list = id
    <2>1. GivenTo(id) = {} /\ \A v \in Users : ~\E s \in GivenBy(v) : s.list = id
          BY <1>1 DEF SumInv, GivenInv, GivenTo, GivenBy
    <2> QED
        BY <2>1, FS_EmptySet
<1>8. \A i \in Published' : entry'[i].numSupports = Cardinality(GivenTo(i)')
    <2>1. entry'[id].numSupports = 0 /\ Cardinality(GivenTo(id)') = 0
          BY <1>2, <1>5, <1>7, NewEntryDoc
    <2>2. \A i \in Published : entry[i].numSupports = Cardinality(GivenTo(i))
          BY DEF SumInv, SupportsAddUp
    <2> QED
        BY <1>1, <1>2, <1>5, <2>1, <2>2
<1>9. \A i \in Published' : \A v \in Users :
          v \in entry'[i].usersSupported <=> \E s \in GivenBy(v)' : s.list = i
    <2>1. entry'[id].usersSupported = {}
          BY <1>2, NewEntryDoc
    <2>2. \A i \in Published : \A v \in Users :
             v \in entry[i].usersSupported <=> \E s \in GivenBy(v) : s.list = i
          BY DEF SumInv, SupportsAddUp
    <2> QED
        BY <1>1, <1>2, <1>5, <1>7, <2>1, <2>2
<1> QED
    BY <1>4, <1>6, <1>8, <1>9 DEF SupportsAddUp

LEMMA SumSupported ==
    ASSUME SumInv, NEW u \in Users, SupportCommitted(u)
    PROVE  GivenInv' /\ SupportsAddUp'
<1>0. TypeOK /\ KnownInv /\ IsFiniteSet(given)
      BY DEF SumInv, KnownInv
<1>1. PICK a \in Ids, b \in Ids :
        /\ entry[a] # None /\ entry[b] # None /\ WritesSupport(u, a, b)
        /\ numSupportsRemaining' = [numSupportsRemaining EXCEPT ![u] = @ - 1]
        /\ given' = given \cup {[user |-> u, id |-> a, list |-> b,
                                 no |-> Cardinality(given) + 1]}
      BY <1>0, Commit
<1> DEFINE new == [user |-> u, id |-> a, list |-> b, no |-> Cardinality(given) + 1]
<1>2. new.user = u /\ new.id = a /\ new.list = b /\ new.no = Cardinality(given) + 1
      OBVIOUS
<1>3. given' = given \cup {new}
      BY <1>1
<1> HIDE DEF new
<1>4. Cardinality(given) \in Nat
      BY <1>0, FS_CardinalityType
<1>5. new \notin given
      BY <1>2, <1>4 DEF SumInv, GivenInv
<1>6. Cardinality(given') = Cardinality(given) + 1
      BY <1>0, <1>3, <1>5, OneMore
<1>7. Published' = Published /\ a \in Published /\ b \in Published
      BY <1>0, <1>1, NonePublished DEF Published
<1>8. GivenInv'
    <2> SUFFICES ASSUME NEW s \in given'
                 PROVE  s.id \in Published /\ s.list \in Published
                        /\ s.no \in 1 .. (Cardinality(given) + 1)
        BY <1>6, <1>7 DEF GivenInv
    <2>1. CASE s \in given
          BY <1>4, <2>1 DEF SumInv, GivenInv
    <2>2. CASE s = new
          BY <1>2, <1>4, <1>7, <2>2
    <2> QED
        BY <1>3, <2>1, <2>2
<1>9. /\ GivenBy(u)' = GivenBy(u) \cup {new} /\ new \notin GivenBy(u)
      /\ \A v \in Users : v # u => GivenBy(v)' = GivenBy(v)
      BY <1>2, <1>3, <1>5 DEF GivenBy
<1>10. /\ GivenTo(a)' = GivenTo(a) \cup {new} /\ new \notin GivenTo(a)
       /\ \A i : i # a => GivenTo(i)' = GivenTo(i)
      BY <1>2, <1>3, <1>5 DEF GivenTo
<1>11. /\ Cardinality(GivenBy(u)') = Cardinality(GivenBy(u)) + 1
       /\ Cardinality(GivenBy(u)) \in Nat
    <2>1. IsFiniteSet(GivenBy(u))
          BY <1>0, FS_Subset DEF GivenBy
    <2> QED
        BY <1>9, <2>1, OneMore
<1>12. Cardinality(GivenTo(a)') = Cardinality(GivenTo(a)) + 1
    <2>1. IsFiniteSet(GivenTo(a))
          BY <1>0, FS_Subset DEF GivenTo
    <2> QED
        BY <1>10, <2>1, OneMore
<1>13. \A v \in Users : numSupportsRemaining'[v] = InitSupports - Cardinality(GivenBy(v)')
    <2> SUFFICES ASSUME NEW v \in Users
                 PROVE  numSupportsRemaining'[v] = InitSupports - Cardinality(GivenBy(v)')
        OBVIOUS
    <2>1. numSupportsRemaining[v] = InitSupports - Cardinality(GivenBy(v))
          BY DEF SumInv, SupportsAddUp
    <2>2. CASE v = u
        <3>1. numSupportsRemaining'[u] = numSupportsRemaining[u] - 1
              BY <1>0, <1>1 DEF TypeOK, ServerType
        <3> QED
            BY <1>11, <2>1, <2>2, <3>1, BoundAssumption
    <2>3. CASE v # u
        <3>1. numSupportsRemaining'[v] = numSupportsRemaining[v]
              BY <1>0, <1>1, <2>3 DEF TypeOK, ServerType
        <3> QED
            BY <1>9, <2>1, <2>3, <3>1
    <2> QED
        BY <2>2, <2>3
<1>14. \A i \in Published :
          /\ entry'[i].numSupports =
                IF i = a THEN entry[i].numSupports + 1 ELSE entry[i].numSupports
          /\ entry'[i].usersSupported =
                IF i = b THEN entry[i].usersSupported \cup {u} ELSE entry[i].usersSupported
      BY <1>1 DEF Published, WritesSupport
<1>15. \A i \in Published : /\ entry[i].numSupports = Cardinality(GivenTo(i))
                            /\ \A v \in Users : v \in entry[i].usersSupported
                                                  <=> \E s \in GivenBy(v) : s.list = i
      BY DEF SumInv, SupportsAddUp
<1>16. \A i \in Published : entry'[i].numSupports = Cardinality(GivenTo(i)')
    <2> SUFFICES ASSUME NEW i \in Published
                 PROVE  entry'[i].numSupports = Cardinality(GivenTo(i)')
        OBVIOUS
    <2>1. CASE i = a
          BY <1>12, <1>14, <1>15, <2>1
    <2>2. CASE i # a
        <3>1. entry'[i].numSupports = entry[i].numSupports
              BY <1>14, <2>2
        <3>2. GivenTo(i)' = GivenTo(i)
              BY <1>10, <2>2
        <3> QED
            BY <1>15, <3>1, <3>2
    <2> QED
        BY <2>1, <2>2
<1>17. ASSUME NEW i \in Published, NEW v \in Users
       PROVE  v \in entry'[i].usersSupported <=> \E s \in GivenBy(v)' : s.list = i
    <2>1. CASE v = u
        <3>1. u \in entry'[i].usersSupported <=> i = b \/ u \in entry[i].usersSupported
              BY <1>14
        <3>2. (\E s \in GivenBy(u)' : s.list = i)
                 <=> i = b \/ \E s \in GivenBy(u) : s.list = i
              BY <1>2, <1>9
        <3> QED
            BY <1>15, <2>1, <3>1, <3>2
    <2>2. CASE v # u
        <3>1. v \in entry'[i].usersSupported <=> v \in entry[i].usersSupported
              BY <1>14, <2>2
        <3> QED
            BY <1>9, <1>15, <2>2, <3>1
    <2> QED
        BY <2>1, <2>2
<1> QED
    BY <1>7, <1>8, <1>13, <1>16, <1>17 DEF SupportsAddUp

(***************************************************************************)
(* Supports add up, whatever rows the cells show when the blocks of the    *)
(* supports run, and however often they run: entries count and list what   *)
(* has been taken from their supporters.                                   *)
(***************************************************************************)
THEOREM SupportsAreConserved == Spec => []SupportsAddUp
<1>1. SumInv /\ [Next]_vars => SumInv'
    <2> SUFFICES ASSUME SumInv, [Next]_vars PROVE SumInv'
        OBVIOUS
    <2>0. TypeOK /\ KnownInv /\ Numbered
          BY DEF SumInv
    <2>1. TypeOK' /\ KnownInv' /\ Numbered'
          BY <2>0, TypeStep, KnownStep, NumberedStep
    <2>2. CASE UNCHANGED <<entry, numEntries, numSupportsRemaining, given>>
        <3>1. Published' = Published
              BY <2>2 DEF Published
        <3> QED
            BY <2>1, <2>2, <3>1, SumKept DEF SumInv
    <2>3. CASE \E u \in Users, g \in Groups : EntryPublished(u, g)
          BY <2>1, <2>3, SumPublished DEF SumInv
    <2>4. CASE \E u \in Users : SupportCommitted(u)
          BY <2>1, <2>4, SumSupported DEF SumInv
    <2>5. ASSUME NEW u \in Users, InvestmentCommitted(u) PROVE SumInv'
        <3>1. PICK t \in txns[u] : entry' = [entry EXCEPT ![t.id].usersInvested = {u}]
              BY <2>5 DEF InvestmentCommitted
        <3>2. UNCHANGED <<numSupportsRemaining, given>>
              BY <2>5 DEF InvestmentCommitted
        <3>3. ASSUME NEW i \in Published
              PROVE  /\ entry'[i].numSupports = entry[i].numSupports
                     /\ entry'[i].usersSupported = entry[i].usersSupported
            <4>1. i \in Ids /\ entry[i] \in EntryDoc
                  BY <2>0 DEF Published, TypeOK, ServerType
            <4> DEFINE e == [entry[i] EXCEPT !.usersInvested = {u}]
            <4>2. entry'[i] = entry[i] \/ entry'[i] = e
                  BY <2>0, <3>1, <4>1 DEF TypeOK, ServerType
            <4>3. /\ e.numSupports = entry[i].numSupports
                  /\ e.usersSupported = entry[i].usersSupported
                  BY <4>1, InvestedDoc
            <4> HIDE DEF e
            <4> QED
                BY <4>2, <4>3
        <3>4. Published' = Published
              BY <2>0, <2>5, NonePublished
        <3> QED
            BY <2>1, <3>2, <3>3, <3>4, SumKept DEF SumInv
    <2> QED
        BY <2>2, <2>3, <2>4, <2>5, ServerCases
<1>2. SumInv => SupportsAddUp
      BY DEF SumInv
<1> QED
    BY <1>1, <1>2, SumInit, PTL DEF Spec
-----------------------------------------------------------------------------
InGroup(g) == {i \in Published : entry[i].group = g}

(***************************************************************************)
(* A group counts its entries in every reachable state: the transaction    *)
(* of the entry form is the only step that publishes, and nothing takes an *)
(* entry out of its group again.                                           *)
(***************************************************************************)
THEOREM EntriesAreCounted == Spec => []EntriesCounted
<1>1. Init => CopyInv /\ EntriesCounted
    <2> SUFFICES ASSUME Init PROVE EntriesCounted
        BY CopyInit
    <2>1. Published = {}
          BY DEF Init, Published
    <2>2. \A g \in Groups : InGroup(g) = {} /\ numEntries[g] = 0
          BY <2>1 DEF Init, InGroup
    <2> QED
        BY <2>2, FS_EmptySet DEF EntriesCounted, InGroup
<1>2. CopyInv /\ EntriesCounted /\ [Next]_vars => EntriesCounted'
    <2> SUFFICES ASSUME CopyInv, EntriesCounted, [Next]_vars, NEW g \in Groups
                 PROVE  numEntries'[g] = Cardinality(InGroup(g)')
        BY DEF EntriesCounted, InGroup
    <2>1. numEntries[g] = Cardinality(InGroup(g))
          BY DEF EntriesCounted, InGroup
    <2>2. \A i \in Published : i \in Published' /\ entry'[i].group = entry[i].group
          BY EntriesLast DEF CopyInv, Lasts, Published
    <2>3. CASE Published' \subseteq Published /\ UNCHANGED numEntries
        <3>1. InGroup(g)' = InGroup(g)
              BY <2>2, <2>3 DEF InGroup
        <3> QED
            BY <2>1, <2>3, <3>1
    <2>4. ASSUME NEW u \in Users, NEW h \in Groups, EntryPublished(u, h)
          PROVE  numEntries'[g] = Cardinality(InGroup(g)')
        <3>1. PICK id \in Ids : /\ id \notin Published /\ Published' = Published \cup {id}
                                /\ entry' = [entry EXCEPT ![id] = NewEntry(u, h)]
              BY <2>4, NextNumber DEF CopyInv
        <3>2. entry'[id].group = h
            <4>1. entry'[id] = NewEntry(u, h)
                  BY <3>1 DEF CopyInv, TypeOK, ServerType
            <4> QED
                BY <4>1 DEF NewEntry
        <3>3. numEntries' = [numEntries EXCEPT ![h] = @ + 1]
              BY <2>4 DEF EntryPublished, NumEntries
        <3>4. IsFiniteSet(InGroup(g)) /\ id \notin InGroup(g)
            <4>1. IsFiniteSet(Published)
                  BY FS_Interval, BoundAssumption DEF CopyInv, Numbered
            <4>2. InGroup(g) \subseteq Published
                  BY DEF InGroup
            <4> QED
                BY <3>1, <4>1, <4>2, FS_Subset
        <3>5. CASE h = g
            <4>1. InGroup(g)' = InGroup(g) \cup {id}
                  BY <2>2, <3>1, <3>2, <3>5 DEF InGroup
            <4>2. Cardinality(InGroup(g)') = Cardinality(InGroup(g)) + 1
                  BY <3>4, <4>1, OneMore
            <4>3. numEntries'[g] = numEntries[g] + 1
                  BY <3>3, <3>5 DEF CopyInv, TypeOK, ServerType
            <4> QED
                BY <2>1, <4>2, <4>3
        <3>6. CASE h # g
            <4>1. InGroup(g)' = InGroup(g)
                  BY <2>2, <3>1, <3>2, <3>6 DEF InGroup
            <4>2. numEntries'[g] = numEntries[g]
                  BY <3>3, <3>6 DEF CopyInv, TypeOK, ServerType
            <4> QED
                BY <2>1, <4>1, <4>2
        <3> QED
            BY <3>5, <3>6
    <2>5. CASE UNCHANGED <<entry, numEntries, numSupportsRemaining, given>>
        <3>1. Published' = Published
              BY <2>5 DEF Published
        <3> QED
            BY <2>3, <2>5, <3>1
    <2>6. ASSUME NEW u \in Users, SupportCommitted(u) \/ InvestmentCommitted(u)
          PROVE  numEntries'[g] = Cardinality(InGroup(g)')
        <3>1. UNCHANGED numEntries
              BY <2>6 DEF SupportCommitted, InvestmentCommitted
        <3>2. Published' = Published
              BY <2>6, NonePublished DEF CopyInv
        <3> QED
            BY <2>3, <3>1, <3>2
    <2> QED
        BY <2>4, <2>5, <2>6, ServerCases
<1> QED
    BY <1>1, <1>2, CopyStep, PTL DEF Spec
-----------------------------------------------------------------------------
\* The steps that touch the listener, the selection or the visibility.
LEMMA ListenerCases ==
    ASSUME [Next]_vars
    PROVE  \/ UNCHANGED <<visible, selectedGroup, tab, listeners>>
           \/ \E v \in Users : Appears(v) \/ Disappears(v)
           \/ \E v \in Users, g \in Groups : DidChooseGroup(v, g)
           \/ \E v \in Users, t \in Tabs : SortingChanged(v, t)
<1> DEFINE Kept == UNCHANGED <<visible, selectedGroup, tab, listeners>>
<1>1. ASSUME NEW v \in Users
      PROVE  /\ \A g \in Groups : EntryPublished(v, g) => Kept
             /\ UserSnapshot(v) => Kept
             /\ InvestmentPaid(v) => Kept
             /\ TxnFailed(v) => Kept
             /\ SupportCommitted(v) => Kept
             /\ SupportRuns(v) \/ SupportRunsAgain(v) => Kept
             /\ \A s \in Slots : GiveSupportBtnTapped(v, s) => Kept
      BY DEF EntryPublished, UserSnapshot, InvestmentPaid, TxnFailed, SupportCommitted,
             SupportRuns, SupportRunsAgain, GiveSupportBtnTapped, screenVars
<1>2. ASSUME NEW v \in Users
      PROVE  /\ EntriesSnapshot(v) => Kept
             /\ Reloaded(v) => Kept
             /\ PopupSwiped(v) => Kept
             /\ InvestmentCommitted(v) => Kept
             /\ \A f : SearchDidChange(v, f) => Kept
             /\ \A s \in Slots : InvestBtnTapped(v, s) => Kept
      BY DEF EntriesSnapshot, Reloaded, PopupSwiped, InvestmentCommitted, SearchDidChange,
             InvestBtnTapped
<1>3. UNCHANGED vars => Kept
      BY DEF vars, screenVars
<1> HIDE DEF Kept
<1>4. \/ Kept
      \/ \E v \in Users : Appears(v) \/ Disappears(v)
      \/ \E v \in Users, g \in Groups : DidChooseGroup(v, g)
      \/ \E v \in Users, t \in Tabs : SortingChanged(v, t)
      BY <1>1, <1>2, <1>3 DEF Next
<1> QED
    BY <1>4 DEF Kept

(***************************************************************************)
(* The list listens to one query at most, the selected one, in every       *)
(* reachable state.                                                        *)
(***************************************************************************)
THEOREM OneListener == Spec => []ListensToSelection
<1> DEFINE Wanted(u) == IF visible[u] /\ selectedGroup[u] # None
                          THEN <<[group |-> selectedGroup[u], tab |-> tab[u]]>> ELSE << >>
<1>1. Init => TypeOK /\ ListensToSelection
    <2>1. Init => ListensToSelection
          BY DEF Init, ListensToSelection
    <2> QED
        BY <2>1, TypeInit
<1>2. TypeOK /\ ListensToSelection /\ [Next]_vars => ListensToSelection'
    <2> SUFFICES ASSUME TypeOK, ListensToSelection, [Next]_vars, NEW u \in Users
                 PROVE  listeners'[u] =
                          IF visible'[u] /\ selectedGroup'[u] # None
                            THEN <<[group |-> selectedGroup'[u], tab |-> tab'[u]]>>
                            ELSE << >>
        BY DEF ListensToSelection
    <2>1. listeners[u] = Wanted(u)
          BY DEF ListensToSelection
    <2>2. Removed(Wanted(u)) = << >>
        <3>1. \A x : SubSeq(<<x>>, 1, 0) = << >>
              OBVIOUS
        <3>2. \A x : Len(<<x>>) - 1 = 0 /\ <<x>> # << >>
              OBVIOUS
        <3> QED
            BY <3>1, <3>2 DEF Removed
    <2>3. \A g, t : Configured(<< >>, g, t) =
                      IF g = None THEN << >> ELSE <<[group |-> g, tab |-> t]>>
        <3>1. \A x : Append(<< >>, x) = <<x>>
              OBVIOUS
        <3> QED
            BY <3>1 DEF Configured
    <2>4. CASE UNCHANGED <<visible, selectedGroup, tab, listeners>>
          BY <2>1, <2>4
    <2>5. ASSUME NEW v \in Users, Appears(v) PROVE listeners'[u] = Wanted(u)'
        <3>1. /\ ~visible[v] /\ visible' = [visible EXCEPT ![v] = TRUE]
              /\ listeners' = [listeners EXCEPT ![v] = Configured(@, selectedGroup[v], tab[v])]
              /\ UNCHANGED <<selectedGroup, tab>>
              BY <2>5 DEF Appears
        <3> QED
            BY <2>1, <2>3, <3>1 DEF TypeOK, DeviceType
    <2>6. ASSUME NEW v \in Users, Disappears(v) PROVE listeners'[u] = Wanted(u)'
        <3>1. /\ visible' = [visible EXCEPT ![v] = FALSE]
              /\ listeners' = [listeners EXCEPT ![v] = Removed(@)]
              /\ UNCHANGED <<selectedGroup, tab>>
              BY <2>6 DEF Disappears
        <3> QED
            BY <2>1, <2>2, <3>1 DEF TypeOK, DeviceType
    <2>7. ASSUME NEW v \in Users, NEW g \in Groups, DidChooseGroup(v, g)
          PROVE  listeners'[u] = Wanted(u)'
        <3>1. /\ visible[v] /\ selectedGroup' = [selectedGroup EXCEPT ![v] = g]
              /\ listeners' = [listeners EXCEPT ![v] = Configured(Removed(@), g, tab[v])]
              /\ UNCHANGED <<visible, tab>>
              BY <2>7 DEF DidChooseGroup
        <3> QED
            BY <2>1, <2>2, <2>3, <3>1 DEF TypeOK, DeviceType
    <2>8. ASSUME NEW v \in Users, NEW t \in Tabs, SortingChanged(v, t)
          PROVE  listeners'[u] = Wanted(u)'
        <3>1. /\ visible[v] /\ tab' = [tab EXCEPT ![v] = t]
              /\ listeners' = [listeners EXCEPT ![v] =
                                 Configured(Removed(@), selectedGroup[v], t)]
              /\ UNCHANGED <<visible, selectedGroup>>
              BY <2>8 DEF SortingChanged
        <3> QED
            BY <2>1, <2>2, <2>3, <3>1 DEF TypeOK, DeviceType
    <2> QED
        BY <2>4, <2>5, <2>6, <2>7, <2>8, ListenerCases
<1> QED
    BY <1>1, <1>2, TypeCorrect, PTL DEF Spec
=============================================================================
