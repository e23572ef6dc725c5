------------------------ MODULE StampPurchaseProofs ------------------------
(***************************************************************************)
(* Proofs about StampPurchase, for every set of users, devices and offers, *)
(* every initial balance and every bound.                                  *)
(***************************************************************************)
EXTENDS StampPurchase, SequenceTheorems, TLAPS

-----------------------------------------------------------------------------
(***************************************************************************)
(* Every purchase number in use was handed out by processTapped; a product *)
(* in a transaction is of a kind that is written by a transaction; answers *)
(* under way speak of versions the server's document has had, in order.    *)
(***************************************************************************)
Issued ==
    /\ delivered \subseteq 1 .. Len(bought)
    /\ \A d \in Devices : \A i \in 1 .. Len(queue[d]) : queue[d][i].id <= Len(bought)
    /\ \A d \in Devices : \A t \in txns[d] :
          /\ t.id <= Len(bought)
          /\ t.type = "product" => bought[t.id].offer.kind \in TxnKinds
    /\ \A d \in Devices : \A k \in 1 .. Len(answers[d]) :
          /\ answers[d][k] \in 1 .. Len(versions[Owner[d]])
          /\ \A j \in 1 .. Len(answers[d]) : j <= k => answers[d][j] <= answers[d][k]

TypeInv == TypeOK /\ Issued

\* Facts about the constants and about what the operators return.
LEMMA ConstantFacts ==
    /\ Owner \in [Devices -> Users] /\ InitStamps \in [Users -> Nat]
    /\ (\A p \in Prices : p \in Nat) /\ (\A g \in Gifts : g \in Nat)
    /\ \A o \in Offers : /\ o.kind \in Kinds /\ o.to \in Users /\ o.complete \in BOOLEAN
                         /\ o.cost \in Prices /\ o.gift \in Gifts
    /\ NoOffer \notin Offers
    /\ MaxPurchases \in Nat /\ MaxClaims \in Nat /\ MaxKills \in Nat /\ MaxFaults \in Nat
BY OwnerAssumption, StampsAssumption, OfferAssumption, BoundAssumption
   DEF Offer, Prices, Gifts

\* What the records of the write queue and of the transactions hold.
LEMMA WriteFields ==
    ASSUME NEW w \in Write
    PROVE  w.id \in Ids /\ w.val \in Int /\ w.cost \in Nat /\ w.cost \in Prices
<1>1. w.id \in Ids /\ w.val \in Int /\ w.cost \in Prices
      BY DEF Write
<1> QED
    BY <1>1, ConstantFacts

LEMMA PaymentFields ==
    ASSUME NEW id \in Ids, NEW val \in Int, NEW cost \in Prices
    PROVE  /\ Payment(id, val, cost) \in Write
           /\ Payment(id, val, cost).type = "payment" /\ Payment(id, val, cost).id = id
           /\ Payment(id, val, cost).val = val /\ Payment(id, val, cost).cost = cost
BY DEF Payment, Write

LEMMA ProductFields ==
    ASSUME NEW id \in Ids
    PROVE  Product(id) \in Write /\ Product(id).type = "product" /\ Product(id).id = id
BY DEF Product, Write, Prices

LEMMA TxnFields ==
    ASSUME NEW t \in Txn
    PROVE  t.id \in Ids /\ t.amount \in Nat /\ t.amount \in Gifts
BY ConstantFacts DEF Txn

LEMMA TxnRecord ==
    ASSUME NEW ty \in {"claim", "product"}, NEW id \in Ids, NEW g \in Gifts,
           NEW n \in 0 .. MaxClaims
    PROVE  LET t == [type |-> ty, id |-> id, amount |-> g, tap |-> n]
           IN  t \in Txn /\ t.id = id /\ t.type = ty
BY DEF Txn

\* What the shared pieces of the actions do to the type of the state.
LEMMA AppendWrite ==
    ASSUME NEW q \in Seq(Write), NEW w \in Write, NEW n \in Nat, w.id <= n,
           \A i \in 1 .. Len(q) : q[i].id <= n
    PROVE  /\ Append(q, w) \in Seq(Write) /\ Len(Append(q, w)) = Len(q) + 1
           /\ \A i \in 1 .. Len(Append(q, w)) : Append(q, w)[i].id <= n
<1>1. /\ Append(q, w) \in Seq(Write) /\ Len(Append(q, w)) = Len(q) + 1
      /\ \A i \in 1 .. Len(q) : Append(q, w)[i] = q[i]
      /\ Append(q, w)[Len(q) + 1] = w /\ Len(q) \in Nat
      BY AppendProperties, LenProperties
<1>2. \A i \in 1 .. Len(q) + 1 : i \in 1 .. Len(q) \/ i = Len(q) + 1
      BY <1>1
<1> QED
    BY <1>1, <1>2

LEMMA CompletedType ==
    ASSUME AppType, NEW d \in Devices, NEW id \in Ids, NEW isOk \in BOOLEAN,
           Completed(d, id, isOk)
    PROVE  callbacks' \in [Devices -> SUBSET Callback]
<1>1. [id |-> id, ok |-> isOk] \in Callback
      BY DEF Callback
<1> QED
    BY <1>1 DEF Completed, AppType

\* The versions of a user document.
LEMMA VersionFacts ==
    ASSUME TypeOK, NEW u \in Users
    PROVE  /\ versions[u] \in Seq(Version) /\ Len(versions[u]) \in Nat \ {0}
           /\ Newest(u) = versions[u][Len(versions[u])]
           /\ \A v \in 1 .. Len(versions[u]) :
                 /\ versions[u][v].numStamps \in Int /\ versions[u][v].credited \in Nat
<1>1. versions[u] \in Seq(Version) /\ versions[u] # << >>
      BY DEF TypeOK, ServerType
<1>2. Len(versions[u]) \in Nat \ {0}
      BY <1>1, EmptySeq, LenProperties
<1>3. \A v \in 1 .. Len(versions[u]) : versions[u][v] \in Version
      BY <1>1, ElementOfSeq
<1> QED
    BY <1>1, <1>2, <1>3 DEF Version, Newest

\* What NewVersion does: the account gets one more version, the others none.
LEMMA NewVersionFacts ==
    ASSUME TypeOK, NEW u \in Users, NEW stamps \in Int, NEW sum \in Nat,
           NewVersion(u, stamps, sum)
    PROVE  LET n == Len(versions[u]) IN
           /\ versions' \in [Users -> Seq(Version)] /\ \A x \in Users : versions'[x] # << >>
           /\ Len(versions'[u]) = n + 1
           /\ \A v \in 1 .. n : versions'[u][v] = versions[u][v]
           /\ versions'[u][n + 1].numStamps = stamps
           /\ versions'[u][n + 1].credited = sum
           /\ \A x \in Users \ {u} : versions'[x] = versions[x]
           /\ \A x \in Users : Len(versions'[x]) >= Len(versions[x])
<1> DEFINE s == versions[u]
           e == [numStamps |-> stamps, credited |-> sum]
           s1 == Append(s, e)
<1>1. e \in Version /\ e.numStamps = stamps /\ e.credited = sum
      BY DEF Version
<1>2. s \in Seq(Version) /\ Len(s) \in Nat \ {0}
      BY VersionFacts
<1>3. /\ s1 \in Seq(Version) /\ Len(s1) = Len(s) + 1 /\ s1[Len(s) + 1] = e
      /\ \A v \in 1 .. Len(s) : s1[v] = s[v]
      BY ONLY <1>1, <1>2, AppendProperties
<1>4. s1 # << >>
      BY ONLY <1>2, <1>3, EmptySeq
<1>5. versions' = [versions EXCEPT ![u] = s1]
      BY DEF NewVersion
<1>6. /\ versions \in [Users -> Seq(Version)] /\ \A x \in Users : versions[x] # << >>
      /\ \A x \in Users : Len(versions[x]) \in Nat
      BY VersionFacts DEF TypeOK, ServerType
<1> HIDE DEF s1, e
<1>7. /\ versions' \in [Users -> Seq(Version)] /\ versions'[u] = s1
      /\ \A x \in Users \ {u} : versions'[x] = versions[x]
      BY <1>3, <1>5, <1>6
<1>8. \A x \in Users : versions'[x] # << >>
      BY <1>4, <1>6, <1>7
<1>9. \A x \in Users : Len(versions'[x]) >= Len(versions[x])
      BY <1>2, <1>3, <1>6, <1>7, SMTT(30)
<1> QED
    BY <1>1, <1>3, <1>7, <1>8, <1>9

LEMMA CreditType ==
    ASSUME TypeOK, NEW u \in Users, NEW n \in Nat, Credit(u, n)
    PROVE  LET k == Len(versions[u]) IN
           /\ versions' \in [Users -> Seq(Version)] /\ \A x \in Users : versions'[x] # << >>
           /\ Len(versions'[u]) = k + 1
           /\ \A v \in 1 .. k : versions'[u][v] = versions[u][v]
           /\ versions'[u][k + 1].numStamps = Newest(u).numStamps + n
           /\ versions'[u][k + 1].credited = Newest(u).credited + n
           /\ \A x \in Users \ {u} : versions'[x] = versions[x]
           /\ \A x \in Users : Len(versions'[x]) >= Len(versions[x])
<1>1. Newest(u).numStamps \in Int /\ Newest(u).credited \in Nat
      BY VersionFacts
<1> QED
    BY <1>1, NewVersionFacts DEF Credit

\* Growing documents leave the answers and the copies of the devices valid.
LEMMA GrownVersions ==
    ASSUME TypeInv, versions' \in [Users -> Seq(Version)],
           \A x \in Users : Len(versions'[x]) >= Len(versions[x])
    PROVE  \A d \in Devices :
              /\ known[d] \in 1 .. Len(versions'[Owner[d]])
              /\ \A k \in 1 .. Len(answers[d]) : answers[d][k] \in 1 .. Len(versions'[Owner[d]])
<1>1. \A x \in Users : Len(versions'[x]) \in Nat /\ Len(versions[x]) \in Nat
      BY VersionFacts, LenProperties DEF TypeInv
<1>2. \A d \in Devices :
         /\ Len(versions'[Owner[d]]) \in Nat /\ Len(versions[Owner[d]]) \in Nat
         /\ Len(versions'[Owner[d]]) >= Len(versions[Owner[d]])
      BY <1>1, ConstantFacts
<1>3. \A d \in Devices : known[d] \in 1 .. Len(versions[Owner[d]])
      BY DEF TypeInv, TypeOK, StoreType
<1>4. \A d \in Devices : \A k \in 1 .. Len(answers[d]) : answers[d][k] \in 1 .. Len(versions[Owner[d]])
      BY DEF TypeInv, Issued
<1>5. \A x \in Nat, y \in Nat : \A z : y >= x /\ z \in 1 .. x => z \in 1 .. y
      OBVIOUS
<1> QED
    BY ONLY <1>2, <1>3, <1>4, <1>5

\* The write that leaves a queue is its first element.
Leaves(d) == Len(queue[d]) > unsynced[d] /\ queue' = [queue EXCEPT ![d] = Tail(@)]

LEMMA QueueHead ==
    ASSUME TypeOK, NEW d \in Devices, Len(queue[d]) > unsynced[d]
    PROVE  /\ Len(queue[d]) \in Nat \ {0} /\ queue[d] # << >>
           /\ Head(queue[d]) = queue[d][1] /\ Head(queue[d]) \in Write
           /\ Tail(queue[d]) \in Seq(Write)
           /\ Len(Tail(queue[d])) = Len(queue[d]) - 1
           /\ \A i \in 1 .. Len(Tail(queue[d])) : Tail(queue[d])[i] = queue[d][i + 1]
           /\ unsynced[d] <= Len(queue[d]) - 1
<1>1. /\ queue[d] \in Seq(Write) /\ unsynced[d] \in Nat /\ Len(queue[d]) \in Nat
      BY DEF TypeOK, StoreType
<1>2. Len(queue[d]) \in Nat \ {0} /\ unsynced[d] <= Len(queue[d]) - 1
      BY <1>1
<1>3. queue[d] # << >>
      BY <1>1, <1>2
<1> QED
    BY <1>1, <1>2, <1>3, HeadTailProperties

\* The answers under way: the first one is heard and leaves.
LEMMA AnswerFacts ==
    ASSUME TypeOK, NEW d \in Devices
    PROVE  /\ answers[d] \in Seq(Nat) /\ Len(answers[d]) \in Nat /\ unsynced[d] \in Nat
           /\ queue[d] \in Seq(Write) /\ Len(queue[d]) \in Nat
           /\ Len(answers[d]) + unsynced[d] <= Len(queue[d])
           /\ answers[d] # << >> =>
                 /\ Len(answers[d]) \in Nat \ {0} /\ Len(queue[d]) > unsynced[d]
                 /\ Head(answers[d]) = answers[d][1] /\ Tail(answers[d]) \in Seq(Nat)
                 /\ Len(Tail(answers[d])) = Len(answers[d]) - 1
                 /\ \A i \in 1 .. Len(Tail(answers[d])) : Tail(answers[d])[i] = answers[d][i + 1]
           /\ CanSend(d) => /\ Len(queue[d]) > unsynced[d]
                            /\ NextSent(d) \in 1 .. Len(queue[d])
                            /\ NextSent(d) = Len(answers[d]) + 1
                            /\ queue[d][NextSent(d)] \in Write
<1>1. /\ answers[d] \in Seq(Nat) /\ Len(answers[d]) \in Nat /\ unsynced[d] \in Nat
      /\ queue[d] \in Seq(Write) /\ Len(queue[d]) \in Nat
      /\ Len(answers[d]) + unsynced[d] <= Len(queue[d])
      BY DEF TypeOK, StoreType
<1>2. ASSUME answers[d] # << >>
      PROVE  /\ Len(answers[d]) \in Nat \ {0} /\ Len(queue[d]) > unsynced[d]
             /\ Head(answers[d]) = answers[d][1] /\ Tail(answers[d]) \in Seq(Nat)
             /\ Len(Tail(answers[d])) = Len(answers[d]) - 1
             /\ \A i \in 1 .. Len(Tail(answers[d])) : Tail(answers[d])[i] = answers[d][i + 1]
  <2>1. /\ Len(answers[d]) \in Nat \ {0}
        /\ Head(answers[d]) = answers[d][1] /\ Tail(answers[d]) \in Seq(Nat)
        /\ Len(Tail(answers[d])) = Len(answers[d]) - 1
        /\ \A i \in 1 .. Len(Tail(answers[d])) : Tail(answers[d])[i] = answers[d][i + 1]
        BY <1>1, <1>2, HeadTailProperties, EmptySeq
  <2> QED
      BY <1>1, <2>1
<1>3. ASSUME CanSend(d)
      PROVE  /\ Len(queue[d]) > unsynced[d] /\ NextSent(d) \in 1 .. Len(queue[d])
             /\ NextSent(d) = Len(answers[d]) + 1 /\ queue[d][NextSent(d)] \in Write
  <2>1. /\ Len(queue[d]) > unsynced[d] /\ NextSent(d) \in 1 .. Len(queue[d])
        /\ NextSent(d) = Len(answers[d]) + 1
        BY <1>1, <1>3 DEF CanSend, NextSent
  <2> QED
      BY <1>1, <2>1, ElementOfSeq
<1> QED
    BY <1>1, <1>2, <1>3

\* A purchase that was handed out has an offer.
LEMMA BoughtOffer ==
    ASSUME TypeInv, NEW id \in Ids, id <= Len(bought)
    PROVE  bought[id] \in Purchase /\ bought[id].offer \in Offers
<1>1. bought \in Seq(Purchase) /\ id \in 1 .. Len(bought)
      BY ConstantFacts DEF TypeInv, TypeOK, HistoryType, Ids
<1>2. bought[id] \in Purchase
      BY <1>1, ElementOfSeq
<1> QED
    BY <1>2 DEF Purchase

\* An answer joins those under way: one that is at least as late as they are.
LEMMA AppendedAnswer ==
    ASSUME TypeOK, NEW d \in Devices, NEW v \in Nat,
           answers' = [answers EXCEPT ![d] = Append(@, v)]
    PROVE  /\ answers' \in [Devices -> Seq(Nat)]
           /\ \A e \in Devices \ {d} : answers'[e] = answers[e]
           /\ Len(answers'[d]) = Len(answers[d]) + 1 /\ Len(answers[d]) \in Nat
           /\ \A k \in 1 .. Len(answers[d]) : answers'[d][k] = answers[d][k]
           /\ answers'[d][Len(answers[d]) + 1] = v
<1> DEFINE s == Append(answers[d], v)
<1>1. answers \in [Devices -> Seq(Nat)]
      BY DEF TypeOK, StoreType
<1>2. /\ s \in Seq(Nat) /\ Len(s) = Len(answers[d]) + 1 /\ s[Len(answers[d]) + 1] = v
      /\ \A k \in 1 .. Len(answers[d]) : s[k] = answers[d][k]
      /\ Len(answers[d]) \in Nat
      BY <1>1, AppendProperties, LenProperties
<1> HIDE DEF s
<1>3. answers' = [answers EXCEPT ![d] = s]
      BY DEF s
<1> QED
    BY <1>1, <1>2, <1>3

LEMMA AppendedFits ==
    ASSUME TypeInv, NEW d \in Devices, CanSend(d), UNCHANGED <<known, queue, unsynced, txns>>,
           answers' \in [Devices -> Seq(Nat)], Len(answers'[d]) = Len(answers[d]) + 1,
           \A e \in Devices \ {d} : answers'[e] = answers[e],
           \A e \in Devices : known[e] \in 1 .. Len(versions'[Owner[e]])
    PROVE  StoreType'
<1>1. \A e \in Devices : Len(answers'[e]) + unsynced[e] <= Len(queue[e])
  <2>1. Len(answers[d]) + 1 <= Len(queue[d]) - unsynced[d]
        BY DEF CanSend, NextSent
  <2>2. TypeOK /\ Len(answers[d]) \in Nat /\ unsynced[d] \in Nat /\ Len(queue[d]) \in Nat
        BY AnswerFacts DEF TypeInv
  <2>3. \A e \in Devices : Len(answers[e]) + unsynced[e] <= Len(queue[e])
        BY <2>2 DEF TypeOK, StoreType
  <2>4. Len(answers'[d]) + unsynced[d] <= Len(queue[d])
        BY <2>1, <2>2
  <2> QED
      BY <2>3, <2>4
<1> QED
    BY <1>1 DEF TypeInv, TypeOK, StoreType

LEMMA AnswersInOrder ==
    ASSUME TypeInv, NEW d \in Devices, NEW v \in Nat,
           versions' \in [Users -> Seq(Version)],
           \A x \in Users : Len(versions'[x]) >= Len(versions[x]),
           v \in 1 .. Len(versions'[Owner[d]]), v >= Len(versions[Owner[d]]),
           Len(answers'[d]) = Len(answers[d]) + 1, answers'[d][Len(answers[d]) + 1] = v,
           \A e \in Devices \ {d} : answers'[e] = answers[e],
           \A k \in 1 .. Len(answers[d]) : answers'[d][k] = answers[d][k]
    PROVE  \A e \in Devices : \A k \in 1 .. Len(answers'[e]) :
              /\ answers'[e][k] \in 1 .. Len(versions'[Owner[e]])
              /\ \A j \in 1 .. Len(answers'[e]) : j <= k => answers'[e][j] <= answers'[e][k]
<1>1. ASSUME NEW e \in Devices \ {d}, NEW k \in 1 .. Len(answers'[e])
      PROVE  /\ answers'[e][k] \in 1 .. Len(versions'[Owner[e]])
             /\ \A j \in 1 .. Len(answers'[e]) : j <= k => answers'[e][j] <= answers'[e][k]
      BY <1>1, GrownVersions DEF TypeInv, Issued
<1>2. ASSUME NEW k \in 1 .. Len(answers'[d])
      PROVE  /\ answers'[d][k] \in 1 .. Len(versions'[Owner[d]])
             /\ \A j \in 1 .. Len(answers'[d]) : j <= k => answers'[d][j] <= answers'[d][k]
  <2>1. /\ Len(answers[d]) \in Nat /\ Owner[d] \in Users
        /\ Len(versions[Owner[d]]) \in Nat /\ Len(versions'[Owner[d]]) \in Nat
        BY AnswerFacts, ConstantFacts, VersionFacts, LenProperties DEF TypeInv
  <2>2. \A j \in 1 .. Len(answers[d]) :
           /\ answers'[d][j] = answers[d][j] /\ answers[d][j] \in 1 .. Len(versions[Owner[d]])
           /\ answers[d][j] \in 1 .. Len(versions'[Owner[d]]) /\ answers[d][j] <= v
        BY <2>1, GrownVersions, SMTT(30) DEF TypeInv, Issued
  <2>3. CASE k \in 1 .. Len(answers[d])
    <3>1. \A j \in 1 .. Len(answers[d]) : j <= k => answers[d][j] <= answers[d][k]
          BY <2>3 DEF TypeInv, Issued
    <3> QED
        BY <2>1, <2>2, <2>3, <3>1, SMTT(30)
  <2>4. CASE k = Len(answers[d]) + 1
    <3>1. \A j \in 1 .. Len(answers'[d]) : answers'[d][j] <= v
          BY <2>1, <2>2, SMTT(30)
    <3> QED
        BY <2>4, <3>1
  <2> QED
      BY <2>1, <2>3, <2>4
<1> QED
    BY <1>1, <1>2

\* The oldest write leaves, and with it the first answer or all of them.
LEMMA HeadLeft ==
    ASSUME TypeInv, NEW d \in Devices, Leaves(d),
           \/ answers[d] # << >> /\ answers' = [answers EXCEPT ![d] = Tail(@)]
           \/ answers' = [answers EXCEPT ![d] = << >>],
           UNCHANGED <<versions, delivered, unsynced, txns, bought>>,
           known' \in [Devices -> Nat],
           \A e \in Devices : known'[e] \in 1 .. Len(versions[Owner[e]])
    PROVE  StoreType' /\ Issued'
<1>1. /\ Len(queue[d]) \in Nat \ {0} /\ Tail(queue[d]) \in Seq(Write)
      /\ Len(Tail(queue[d])) = Len(queue[d]) - 1 /\ unsynced[d] <= Len(queue[d]) - 1
      /\ \A i \in 1 .. Len(Tail(queue[d])) : Tail(queue[d])[i] = queue[d][i + 1]
      BY QueueHead DEF TypeInv, Leaves
<1>2. queue' = [queue EXCEPT ![d] = Tail(queue[d])]
      BY DEF Leaves
<1>3. /\ queue' \in [Devices -> Seq(Write)] /\ Len(queue'[d]) = Len(queue[d]) - 1
      /\ \A e \in Devices \ {d} : queue'[e] = queue[e]
      /\ \A i \in 1 .. Len(queue'[d]) : i + 1 \in 1 .. Len(queue[d])
                                        /\ queue'[d][i] = queue[d][i + 1]
      BY <1>1, <1>2 DEF TypeInv, TypeOK, StoreType
<1>4. PICK s \in Seq(Nat) :
         /\ answers' = [answers EXCEPT ![d] = s]
         /\ \/ s = << >>
            \/ /\ answers[d] # << >> /\ Len(s) = Len(answers[d]) - 1
               /\ \A k \in 1 .. Len(s) : s[k] = answers[d][k + 1]
  <2>1. << >> \in Seq(Nat)
        BY EmptySeq
  <2>2. CASE answers' = [answers EXCEPT ![d] = << >>]
        BY <2>1, <2>2
  <2>3. CASE answers[d] # << >> /\ answers' = [answers EXCEPT ![d] = Tail(@)]
        BY <2>3, AnswerFacts DEF TypeInv
  <2> QED
      BY <2>2, <2>3
<1>5. /\ answers' \in [Devices -> Seq(Nat)] /\ answers'[d] = s
      /\ \A e \in Devices \ {d} : answers'[e] = answers[e]
      BY <1>4 DEF TypeInv, TypeOK, StoreType
<1>6. /\ Len(answers[d]) + unsynced[d] <= Len(queue[d]) /\ Len(answers[d]) \in Nat
      /\ unsynced[d] \in Nat /\ Len(s) \in Nat
      BY AnswerFacts, LenProperties DEF TypeInv
<1>7. Len(s) + unsynced[d] <= Len(queue'[d])
      BY <1>1, <1>3, <1>4, <1>6, EmptySeq
<1>8. StoreType'
      BY <1>3, <1>5, <1>7 DEF TypeInv, TypeOK, StoreType
<1>9. \A e \in Devices : \A i \in 1 .. Len(queue'[e]) : queue'[e][i].id <= Len(bought)
      BY <1>3 DEF TypeInv, Issued
<1>10. ASSUME NEW k \in 1 .. Len(s)
       PROVE  /\ s[k] \in 1 .. Len(versions[Owner[d]])
              /\ \A j \in 1 .. Len(s) : j <= k => s[j] <= s[k]
  <2>1. \A j \in 1 .. Len(s) : j + 1 \in 1 .. Len(answers[d]) /\ s[j] = answers[d][j + 1]
        BY <1>4, <1>6, EmptySeq
  <2>2. /\ \A j \in 1 .. Len(answers[d]) : answers[d][j] \in 1 .. Len(versions[Owner[d]])
        /\ \A j, l \in 1 .. Len(answers[d]) : j <= l => answers[d][j] <= answers[d][l]
        BY DEF TypeInv, Issued
  <2>3. \A j \in 1 .. Len(s) : j <= k => j + 1 <= k + 1
        BY <1>6
  <2> QED
      BY <2>1, <2>2, <2>3
<1>11. Issued'
      BY <1>5, <1>9, <1>10 DEF TypeInv, Issued
<1> QED
    BY <1>8, <1>11

\* Only ProcessTapped, the taps, the answers and the crashes touch these.
LEMMA TypeInit == Init => TypeInv
<1> SUFFICES ASSUME Init PROVE TypeInv
    OBVIOUS
<1>0. /\ versions \in [Users -> Seq(Version)]
      /\ \A u \in Users : versions[u] # << >> /\ Len(versions[u]) = 1
  <2> DEFINE first(u) == [numStamps |-> InitStamps[u], credited |-> 0]
  <2>1. \A u \in Users : first(u) \in Version
        BY ConstantFacts DEF Version
  <2>2. versions = [u \in Users |-> <<first(u)>>]
        BY DEF Init
  <2> HIDE DEF first
  <2> QED
      BY <2>1, <2>2
<1>1. ServerType /\ HistoryType
      BY <1>0, ConstantFacts, EmptySeq DEF Init, ServerType, HistoryType, Ids, Gifts
<1>2. StoreType
      BY <1>0, ConstantFacts, EmptySeq DEF Init, StoreType
<1>3. AppType
      BY ConstantFacts DEF Init, AppType
<1>4. Issued
      BY ConstantFacts, EmptySeq DEF Init, Issued
<1> QED
    BY <1>1, <1>2, <1>3, <1>4 DEF TypeInv, TypeOK

LEMMA TypeStep == TypeInv /\ [Next]_vars => TypeInv'
<1> SUFFICES ASSUME TypeInv, [Next]_vars PROVE TypeInv'
    OBVIOUS
<1> USE DEF TypeInv, TypeOK, serverVars, storeVars, appVars, historyVars
<1> DEFINE Types == ServerType' /\ StoreType' /\ AppType' /\ HistoryType' /\ Issued'
<1>1. ASSUME NEW d \in Devices, NEW o \in Offers, NextBtnTapped(d, o) PROVE Types
      BY <1>1 DEF NextBtnTapped, ServerType, StoreType, AppType, HistoryType, Issued
<1>2. ASSUME NEW d \in Devices, PopupSwiped(d) PROVE Types
      BY <1>2 DEF PopupSwiped, ServerType, StoreType, AppType, HistoryType, Issued
<1>3. ASSUME NEW d \in Devices, ProcessTapped(d) PROVE Types
      <2> DEFINE o == popup[d]
             id == Len(bought) + 1
             pay == Payment(id, NewBalance(d, o), o.cost)
  <2>1. o \in Offers /\ id \in Ids /\ Len(bought) \in Nat /\ id = Len(bought) + 1
        BY <1>3, ConstantFacts DEF ProcessTapped, AppType, HistoryType, Ids
  <2>2. pay \in Write /\ Product(id) \in Write /\ pay.id = id /\ Product(id).id = id
    <3>1. o.cost \in Prices /\ o.cost \in Nat /\ currentUserNumStamps[d] \in Int
          BY <2>1, ConstantFacts DEF AppType
    <3>2. NewBalance(d, o) \in Int
          BY <3>1 DEF NewBalance
    <3>3. pay \in Write /\ pay.id = id
          BY ONLY <2>1, <3>1, <3>2, PaymentFields
    <3> QED
        BY ONLY <2>1, <3>3, ProductFields
  <2>3. bought' = Append(bought, [dev |-> d, offer |-> o]) /\ [dev |-> d, offer |-> o] \in Purchase
        BY <1>3, <2>1 DEF ProcessTapped, Purchase
  <2>4. /\ bought' \in Seq(Purchase) /\ Len(bought') = id
        /\ \A i \in 1 .. Len(bought) : bought'[i] = bought[i]
        /\ bought'[id].offer = o
        BY <2>1, <2>3, AppendProperties DEF HistoryType
  <2>5. ServerType' /\ AppType' /\ HistoryType'
    <3>1. spent' \in [Users -> Nat]
      <4>1. o.cost \in Nat /\ Owner[d] \in Users /\ spent \in [Users -> Nat]
            BY <2>1, ConstantFacts DEF HistoryType
      <4>2. spent' = [spent EXCEPT ![Owner[d]] = @ + o.cost]
            BY <1>3 DEF ProcessTapped
      <4> QED
          BY ONLY <4>1, <4>2
    <3> QED
        BY <1>3, <2>1, <2>4, <3>1 DEF ProcessTapped, ServerType, AppType, HistoryType, Ids
  <2>6. DidReturnFromPayment(d, id, o, pay)
        BY <1>3 DEF ProcessTapped
  <2>7. /\ queue[d] \in Seq(Write) /\ unsynced[d] \in Nat /\ Len(queue[d]) \in Nat
        /\ Len(answers[d]) \in Nat /\ Len(answers[d]) + unsynced[d] <= Len(queue[d])
        BY AnswerFacts
  <2>12. /\ UNCHANGED <<known, answers, versions>>
         BY <1>3 DEF ProcessTapped
  <2>10. \A e \in Devices : \A i \in 1 .. Len(queue[e]) : queue[e][i].id <= id
    <3>1. \A e \in Devices : \A i \in 1 .. Len(queue[e]) :
              queue[e][i].id \in Ids /\ queue[e][i].id <= Len(bought)
          BY ElementOfSeq, WriteFields DEF Issued, StoreType
    <3> QED
        BY <3>1, <2>1, ConstantFacts DEF Ids
  <2>11. \A e \in Devices : \A t \in txns[e] :
            /\ t.id \in 1 .. Len(bought) /\ t.id <= id
            /\ t.type = "product" => bought'[t.id].offer.kind \in TxnKinds
    <3>1. \A e \in Devices : \A t \in txns[e] : t.id \in Ids /\ t.id <= Len(bought)
          BY TxnFields DEF Issued, StoreType
    <3>2. \A e \in Devices : \A t \in txns[e] : t.id \in 1 .. Len(bought) /\ t.id <= id
          BY <3>1, <2>1, ConstantFacts DEF Ids
    <3> QED
        BY <3>2, <2>4 DEF Issued
  <2>8. CASE o.kind \in PlainKinds
    <3>1. /\ queue' = [queue EXCEPT ![d] = Append(Append(queue[d], pay), Product(id))]
          /\ unsynced' = [unsynced EXCEPT ![d] = @ + 2] /\ txns' = txns
          BY <2>6, <2>8 DEF DidReturnFromPayment, WriteBoth
    <3>2. DEFINE q1 == Append(queue[d], pay)
                 q2 == Append(q1, Product(id))
    <3>3. /\ q1 \in Seq(Write) /\ Len(q1) = Len(queue[d]) + 1
          /\ \A i \in 1 .. Len(q1) : q1[i].id <= id
      <4>1. id \in Nat /\ id <= id /\ \A i \in 1 .. Len(queue[d]) : queue[d][i].id <= id
        <5>1. \A i \in 1 .. Len(queue[d]) : queue[d][i].id \in Ids /\ queue[d][i].id <= Len(bought)
              BY <2>7, ElementOfSeq, WriteFields DEF Issued
        <5> QED
            BY <5>1, <2>1, ConstantFacts DEF Ids
      <4> QED
          BY ONLY <4>1, <2>2, <2>7, AppendWrite
    <3>4. /\ q2 \in Seq(Write) /\ Len(q2) = Len(queue[d]) + 2
          /\ \A i \in 1 .. Len(q2) : q2[i].id <= id
      <4>1. id \in Nat /\ id <= id
            BY <2>1
      <4>2. /\ q2 \in Seq(Write) /\ Len(q2) = Len(q1) + 1
            /\ \A i \in 1 .. Len(q2) : q2[i].id <= id
            BY ONLY <4>1, <3>3, <2>2, AppendWrite
      <4> QED
          BY <4>2, <3>3, <2>7
    <3>5. StoreType'
          BY <3>1, <3>4, <2>7, <2>12 DEF StoreType
    <3>6. Issued'
      <4>1. delivered' = delivered /\ delivered \subseteq 1 .. Len(bought)
            BY <1>3 DEF ProcessTapped, Issued
      <4>2. \A e \in Devices : \A i \in 1 .. Len(queue'[e]) : queue'[e][i].id <= id
            BY <2>10, <3>1, <3>4 DEF StoreType
      <4> QED
          BY <4>1, <4>2, <2>1, <2>4, <2>11, <2>12, <3>1 DEF Issued
    <3> QED
        BY <2>5, <3>5, <3>6
  <2>9. CASE o.kind \notin PlainKinds
    <3> DEFINE t == [type |-> "product", id |-> id, amount |-> o.gift, tap |-> 0]
               q1 == Append(queue[d], pay)
    <3>1. /\ queue' = [queue EXCEPT ![d] = q1]
          /\ unsynced' = [unsynced EXCEPT ![d] = @ + 1]
          /\ txns' \in {txns, [txns EXCEPT ![d] = @ \cup {t}]}
          BY <2>6, <2>9 DEF DidReturnFromPayment
    <3>2. t \in Txn /\ t.id = id /\ o.kind \in TxnKinds
      <4>1. o.gift \in Gifts /\ o.kind \in Kinds /\ 0 \in 0 .. MaxClaims
            BY <2>1, ConstantFacts
      <4> QED
          BY <4>1, <2>1, <2>9, TxnRecord DEF Kinds
    <3>3. /\ q1 \in Seq(Write) /\ Len(q1) = Len(queue[d]) + 1
          /\ \A i \in 1 .. Len(q1) : q1[i].id <= id
      <4>1. id \in Nat /\ id <= id /\ \A i \in 1 .. Len(queue[d]) : queue[d][i].id <= id
        <5>1. \A i \in 1 .. Len(queue[d]) : queue[d][i].id \in Ids /\ queue[d][i].id <= Len(bought)
              BY <2>7, ElementOfSeq, WriteFields DEF Issued
        <5> QED
            BY <5>1, <2>1, ConstantFacts DEF Ids
      <4> QED
          BY ONLY <4>1, <2>2, <2>7, AppendWrite
    <3>5. StoreType'
      <4>1. txns' \in [Devices -> SUBSET Txn]
        <5> HIDE DEF t
        <5>1. txns \in [Devices -> SUBSET Txn] /\ t \in Txn
              BY <3>2 DEF StoreType
        <5> QED
            BY ONLY <3>1, <5>1
      <4>2. queue' \in [Devices -> Seq(Write)] /\ unsynced' \in [Devices -> Nat]
            BY <3>1, <3>3, <2>7 DEF StoreType
      <4>3. \A e \in Devices : Len(answers[e]) + unsynced'[e] <= Len(queue'[e])
            BY <3>1, <3>3, <2>7 DEF StoreType
      <4> QED
          BY <4>1, <4>2, <4>3, <2>12 DEF StoreType
    <3>6. Issued'
      <4>1. delivered' = delivered /\ delivered \subseteq 1 .. Len(bought)
            BY <1>3 DEF ProcessTapped, Issued
      <4>2. \A e \in Devices : \A i \in 1 .. Len(queue'[e]) : queue'[e][i].id <= id
            BY <2>10, <3>1, <3>3 DEF StoreType
      <4>3. \A e \in Devices : \A x \in txns'[e] : x \in txns[e] \/ x = t
            BY <3>1 DEF StoreType
      <4>4. /\ t.id = id /\ bought'[id].offer.kind \in TxnKinds
            /\ id \in Nat /\ Len(bought') = id /\ 1 .. Len(bought) \subseteq 1 .. id
            BY <2>1, <2>4, <3>2
      <4> HIDE DEF t, id
      <4>5. \A e \in Devices : \A x \in txns'[e] :
               x.id <= id /\ (x.type = "product" => bought'[x.id].offer.kind \in TxnKinds)
            BY <2>11, <4>3, <4>4
      <4>6. delivered' \subseteq 1 .. Len(bought')
            BY <4>1, <4>4
      <4> QED
          BY <4>2, <4>4, <4>5, <4>6, <2>12 DEF Issued
    <3> QED
        BY <2>5, <3>5, <3>6
  <2> QED
      BY <2>8, <2>9
<1>4. ASSUME NEW d \in Devices, ProcessDeclined(d) PROVE Types
      BY <1>4 DEF ProcessDeclined, ServerType, StoreType, AppType, HistoryType, Issued
<1>5. ASSUME NEW d \in Devices, AppGone(d), kills < MaxKills PROVE Types
      <2>1. /\ queue[d] \in Seq(Write) /\ unsynced[d] \in Nat
        /\ unsynced[d] <= Len(queue[d]) /\ Len(queue[d]) \in Nat
        BY AnswerFacts
  <2> DEFINE q == SubSeq(queue[d], 1, Len(queue[d]) - unsynced[d])
  <2>2. /\ q \in Seq(Write) /\ Len(q) = Len(queue[d]) - unsynced[d]
        /\ \A i \in 1 .. Len(q) : q[i] = queue[d][i]
    <3>1. \A i \in 1 .. Len(queue[d]) - unsynced[d] : queue[d][i] \in Write
          BY <2>1, ElementOfSeq
    <3> QED
        BY <2>1, <3>1, SubSeqProperties
  <2>3. queue' = [queue EXCEPT ![d] = q]
        BY <1>5 DEF AppGone, OnDisk
  <2>4. StoreType'
    <3>1. /\ unsynced' = [unsynced EXCEPT ![d] = 0] /\ txns' = [txns EXCEPT ![d] = {}]
          /\ answers' = [answers EXCEPT ![d] = << >>] /\ UNCHANGED <<known, versions>>
          BY <1>5 DEF AppGone
    <3>2. queue' \in [Devices -> Seq(Write)] /\ 0 <= Len(q)
          BY <2>1, <2>2, <2>3 DEF StoreType
    <3>3. \A e \in Devices : Len(answers'[e]) + unsynced'[e] <= Len(queue'[e])
          BY <3>1, <3>2, <2>1, <2>2, <2>3, EmptySeq DEF StoreType
    <3>4. answers' \in [Devices -> Seq(Nat)]
          BY <3>1, EmptySeq DEF StoreType
    <3> QED
        BY <3>1, <3>2, <3>3, <3>4 DEF StoreType
  <2>6. ServerType' /\ AppType' /\ HistoryType'
        BY <1>5, ConstantFacts DEF AppGone, ServerType, AppType, HistoryType
  <2>5. Issued'
    <3>1. \A e \in Devices : \A i \in 1 .. Len(queue'[e]) : queue'[e][i].id <= Len(bought)
          BY <2>1, <2>2, <2>3 DEF StoreType, Issued
    <3>2. \A e \in Devices : answers'[e] = answers[e] \/ Len(answers'[e]) = 0
          BY <1>5, EmptySeq DEF AppGone, StoreType
    <3>3. \A e \in Devices : txns'[e] \subseteq txns[e]
          BY <1>5 DEF AppGone, StoreType
    <3>4. UNCHANGED <<delivered, bought, versions>>
          BY <1>5 DEF AppGone
    <3> QED
        BY <3>1, <3>2, <3>3, <3>4 DEF Issued
  <2> QED
      BY <2>4, <2>5, <2>6
<1>6. ASSUME NEW d \in Devices, NEW id \in Ids, ClaimTapped(d, id) PROVE Types
      <2>1. bought[id].offer.gift \in Gifts /\ numStampsGiven[id] \in Gifts
        BY <1>6, BoughtOffer, ConstantFacts DEF ClaimTapped, Issued, ServerType
  <2>2. PICK amount \in Gifts : txns' = [txns EXCEPT ![d] = @ \cup
                {[type |-> "claim", id |-> id, amount |-> amount, tap |-> claims + 1]}]
        BY <1>6, <2>1 DEF ClaimTapped
  <2>3. [type |-> "claim", id |-> id, amount |-> amount, tap |-> claims + 1] \in Txn
    <3>1. claims + 1 \in 0 .. MaxClaims
          BY <1>6, ConstantFacts DEF ClaimTapped, HistoryType
    <3> QED
        BY <3>1, TxnRecord
  <2>4. ServerType' /\ AppType' /\ HistoryType'
        BY <1>6, ConstantFacts, SMTT(30) DEF ClaimTapped, ServerType, AppType, HistoryType
  <2>6. StoreType'
        BY <1>6, <2>2, <2>3 DEF ClaimTapped, StoreType
  <2>5. Issued'
        BY <1>6, <2>2 DEF ClaimTapped, StoreType, Issued, Ids
  <2> QED
      BY <2>4, <2>5, <2>6
<1>7. ASSUME NEW d \in Devices, UserSnapshot(d) PROVE Types
      <2>1. PICK v \in Int : currentUserNumStamps' = [currentUserNumStamps EXCEPT ![d] = v]
    <3>1. Copy(d) \in Int /\ \A i \in PaymentsAt(queue[d]) : queue[d][i].val \in Int
          BY ElementOfSeq, WriteFields, VersionFacts, ConstantFacts
          DEF StoreType, PaymentsAt, Copy
    <3> QED
        BY <1>7, <3>1 DEF UserSnapshot
  <2>2. ServerType' /\ StoreType' /\ HistoryType' /\ Issued'
      BY <1>7 DEF UserSnapshot, ServerType, StoreType, HistoryType, Issued
  <2>3. AppType'
      BY <1>7, <2>1 DEF UserSnapshot, AppType
  <2> QED
      BY <2>2, <2>3
<1>8. ASSUME NEW d \in Devices, ProductCompletion(d) PROVE Types
      BY <1>8, SMTT(30) DEF ProductCompletion, ServerType, StoreType, AppType, HistoryType, Issued
<1>9. ASSUME NEW d \in Devices, WritePersisted(d) PROVE Types
      BY <1>9, SMTT(30) DEF WritePersisted, ServerType, StoreType, AppType, HistoryType, Issued
<1>10. ASSUME NEW d \in Devices, PaymentApplied(d) PROVE Types
  <2> DEFINE w == queue[d][NextSent(d)]
             u == Owner[d]
  <2>1. /\ CanSend(d) /\ NewVersion(u, w.val, Newest(u).credited)
        /\ paid' = paid \cup {w.id}
        /\ answers' = [answers EXCEPT ![d] = Append(@, Len(versions[u]) + 1)]
        BY <1>10 DEF PaymentApplied, Paid
  <2>2. /\ UNCHANGED <<numStampsGiven, delivered, refused, known, queue, unsynced, txns>>
        /\ UNCHANGED <<appVars, historyVars>>
        BY <1>10 DEF PaymentApplied
  <2>3. /\ w \in Write /\ w.id \in Ids /\ w.val \in Int /\ u \in Users
        /\ Newest(u).credited \in Nat /\ Len(versions[u]) \in Nat \ {0}
    <3>1. w \in Write /\ u \in Users
          BY <2>1, AnswerFacts, ConstantFacts
    <3>2. /\ Len(versions[u]) \in Nat \ {0} /\ Newest(u) = versions[u][Len(versions[u])]
          /\ \A v \in 1 .. Len(versions[u]) : versions[u][v].credited \in Nat
          BY <3>1, VersionFacts
    <3>3. Newest(u).credited \in Nat
          BY ONLY <3>2
    <3> QED
        BY <3>1, <3>2, <3>3, WriteFields
  <2> HIDE DEF w
  <2>4. /\ versions' \in [Users -> Seq(Version)] /\ \A x \in Users : versions'[x] # << >>
        /\ Len(versions'[u]) = Len(versions[u]) + 1
        /\ \A x \in Users : Len(versions'[x]) >= Len(versions[x])
        BY <2>1, <2>3, NewVersionFacts
  <2>5. /\ answers' \in [Devices -> Seq(Nat)]
        /\ \A e \in Devices \ {d} : answers'[e] = answers[e]
        /\ Len(answers'[d]) = Len(answers[d]) + 1 /\ Len(answers[d]) \in Nat
        /\ \A k \in 1 .. Len(answers[d]) : answers'[d][k] = answers[d][k]
        /\ answers'[d][Len(answers[d]) + 1] = Len(versions[u]) + 1
    <3>1. Len(versions[u]) + 1 \in Nat
          BY <2>3
    <3> QED
        BY <2>1, <3>1, AppendedAnswer
  <2>6. StoreType'
        BY <2>1, <2>2, <2>4, <2>5, AppendedFits, GrownVersions
  <2>7. ServerType' /\ AppType' /\ HistoryType'
        BY <2>1, <2>2, <2>3, <2>4 DEF ServerType, AppType, HistoryType
  <2>8. Issued'
    <3>1. Len(versions[u]) + 1 \in 1 .. Len(versions'[u]) /\ Len(versions[u]) + 1 >= Len(versions[u])
          BY <2>3, <2>4
    <3>2. Len(versions[u]) + 1 \in Nat
          BY <2>3
    <3>3. \A e \in Devices : \A k \in 1 .. Len(answers'[e]) :
             /\ answers'[e][k] \in 1 .. Len(versions'[Owner[e]])
             /\ \A j \in 1 .. Len(answers'[e]) : j <= k => answers'[e][j] <= answers'[e][k]
          BY <2>4, <2>5, <3>1, <3>2, AnswersInOrder
    <3> QED
        BY <2>2, <3>3 DEF Issued
  <2> QED
      BY <2>6, <2>7, <2>8
<1>11. ASSUME NEW d \in Devices, ProductApplied(d) PROVE Types
  <2> DEFINE w == queue[d][NextSent(d)]
             u == Owner[d]
  <2>1. /\ CanSend(d) /\ delivered' = delivered \cup {w.id}
        /\ answers' = [answers EXCEPT ![d] = Append(@, Len(versions[u]))]
        /\ numStampsGiven' \in {numStampsGiven,
                [numStampsGiven EXCEPT ![w.id] = bought[w.id].offer.gift]}
        BY <1>11 DEF ProductApplied
  <2>2. /\ UNCHANGED <<versions, paid, refused, known, queue, unsynced, txns>>
        /\ UNCHANGED <<appVars, historyVars>>
        BY <1>11 DEF ProductApplied
  <2>3. /\ w \in Write /\ w.id \in Ids /\ u \in Users /\ w.id <= Len(bought)
        BY <2>1, AnswerFacts, WriteFields, ConstantFacts DEF Issued
  <2>4. bought[w.id].offer.gift \in Gifts /\ w.id \in 1 .. Len(bought)
        BY <2>3, BoughtOffer, ConstantFacts DEF Ids, HistoryType
  <2> HIDE DEF w
  <2>5. /\ answers' \in [Devices -> Seq(Nat)]
        /\ \A e \in Devices \ {d} : answers'[e] = answers[e]
        /\ Len(answers'[d]) = Len(answers[d]) + 1 /\ Len(answers[d]) \in Nat
        /\ \A k \in 1 .. Len(answers[d]) : answers'[d][k] = answers[d][k]
        /\ answers'[d][Len(answers[d]) + 1] = Len(versions[u])
        BY <2>1, <2>3, VersionFacts, AppendedAnswer
  <2>6. StoreType'
    <3>1. \A e \in Devices : known[e] \in 1 .. Len(versions'[Owner[e]])
          BY <2>2 DEF StoreType
    <3> QED
        BY <2>1, <2>2, <2>5, <3>1, AppendedFits
  <2>7. ServerType' /\ AppType' /\ HistoryType'
        BY <2>1, <2>2, <2>3, <2>4 DEF ServerType, AppType, HistoryType
  <2>8. Issued'
    <3>1. Len(versions[u]) \in 1 .. Len(versions'[u]) /\ Len(versions'[u]) <= Len(versions[u]) + 1
          BY <2>2, <2>3, VersionFacts
    <3>2. \A x \in Users : Len(versions'[x]) >= Len(versions[x])
          BY <2>2, VersionFacts
    <3>3. delivered' \subseteq 1 .. Len(bought')
          BY <2>1, <2>2, <2>4 DEF Issued
    <3>4. /\ versions' \in [Users -> Seq(Version)]
          BY <2>2 DEF ServerType
    <3> QED
      <4>1. Len(versions[u]) \in Nat /\ Len(versions[u]) >= Len(versions[u])
            BY <2>3, VersionFacts
      <4>2. \A e \in Devices : \A k \in 1 .. Len(answers'[e]) :
               /\ answers'[e][k] \in 1 .. Len(versions'[Owner[e]])
               /\ \A j \in 1 .. Len(answers'[e]) : j <= k => answers'[e][j] <= answers'[e][k]
            BY <2>5, <3>1, <3>2, <3>4, <4>1, AnswersInOrder
      <4> QED
          BY <2>2, <3>3, <4>2 DEF Issued
  <2> QED
      BY <2>6, <2>7, <2>8
<1>12. ASSUME NEW d \in Devices, PaymentAcknowledged(d) PROVE Types
  <2> DEFINE w == Head(queue[d])
             a == Head(answers[d])
  <2>1. /\ answers[d] # << >>
        /\ known' = [known EXCEPT ![d] = IF a > @ THEN a ELSE @]
        /\ charged' = [charged EXCEPT ![Owner[d]] = @ + w.cost]
        /\ queue' = [queue EXCEPT ![d] = Tail(@)]
        /\ answers' = [answers EXCEPT ![d] = Tail(@)]
        /\ UNCHANGED <<serverVars, unsynced, txns, appVars, bought, spent, claims,
                       kills, faults>>
        BY <1>12 DEF PaymentAcknowledged
  <2>2. Leaves(d) /\ a \in 1 .. Len(versions[Owner[d]])
        BY <2>1, AnswerFacts DEF Leaves, Issued
  <2>3. w.cost \in Nat /\ Owner[d] \in Users
        BY <2>2, QueueHead, WriteFields, ConstantFacts DEF Leaves
  <2> HIDE DEF w, a
  <2>4. /\ known' \in [Devices -> Nat]
        /\ \A e \in Devices : known'[e] \in 1 .. Len(versions[Owner[e]])
    <3> DEFINE k == IF a > known[d] THEN a ELSE known[d]
    <3>1. /\ known \in [Devices -> Nat]
          /\ \A e \in Devices : known[e] \in 1 .. Len(versions[Owner[e]])
          BY DEF StoreType
    <3>2. k \in 1 .. Len(versions[Owner[d]]) /\ k \in Nat
          BY <2>2, <3>1
    <3>3. known' = [known EXCEPT ![d] = k]
          BY <2>1
    <3> HIDE DEF k
    <3> QED
        BY ONLY <3>1, <3>2, <3>3
  <2>5. StoreType' /\ Issued'
        BY <2>1, <2>2, <2>4, HeadLeft
  <2>6. ServerType' /\ AppType' /\ HistoryType'
        BY <2>1, <2>3, SMTT(30) DEF ServerType, AppType, HistoryType
  <2> QED
      BY <2>5, <2>6
<1>13. ASSUME NEW d \in Devices, ProductAcknowledged(d) PROVE Types
  <2>1. /\ answers[d] # << >> /\ Completed(d, Head(queue[d]).id, TRUE)
        /\ queue' = [queue EXCEPT ![d] = Tail(@)]
        /\ answers' = [answers EXCEPT ![d] = Tail(@)]
        /\ UNCHANGED <<serverVars, known, unsynced, txns, currentUserNumStamps,
                       currentUser, echoed, popup, loading, paying, historyVars>>
        BY <1>13 DEF ProductAcknowledged
  <2>2. Leaves(d)
        BY <2>1, AnswerFacts DEF Leaves
  <2>3. callbacks' \in [Devices -> SUBSET Callback]
        BY <2>1, <2>2, QueueHead, WriteFields, CompletedType DEF Leaves
  <2>4. /\ known' \in [Devices -> Nat]
        /\ \A e \in Devices : known'[e] \in 1 .. Len(versions[Owner[e]])
        BY <2>1 DEF StoreType
  <2>5. StoreType' /\ Issued'
        BY <2>1, <2>2, <2>4, HeadLeft
  <2>6. ServerType' /\ AppType' /\ HistoryType'
        BY <2>1, <2>3 DEF ServerType, AppType, HistoryType
  <2> QED
      BY <2>5, <2>6
<1>14. ASSUME NEW d \in Devices, PaymentRejected(d) \/ ProductRejected(d) PROVE Types
  <2>1. /\ CanSend(d) /\ queue' = [queue EXCEPT ![d] = Tail(@)]
        /\ answers' = [answers EXCEPT ![d] = << >>]
        /\ callbacks' = callbacks \/ Completed(d, Head(queue[d]).id, FALSE)
        /\ refused' = refused \/ refused' = refused \cup {Head(queue[d]).id}
        /\ UNCHANGED <<versions, numStampsGiven, delivered, paid, known, unsynced, txns,
                       currentUserNumStamps, currentUser, echoed, popup, loading,
                       paying, historyVars>>
        BY <1>14 DEF PaymentRejected, ProductRejected
  <2>2. Leaves(d)
        BY <2>1, AnswerFacts DEF Leaves
  <2>3. Head(queue[d]).id \in Ids
        BY <2>2, QueueHead, WriteFields DEF Leaves
  <2>4. callbacks' \in [Devices -> SUBSET Callback]
        BY <2>1, <2>3, CompletedType DEF AppType
  <2>5. StoreType' /\ Issued'
    <3>1. /\ known' \in [Devices -> Nat]
          /\ \A e \in Devices : known'[e] \in 1 .. Len(versions[Owner[e]])
          BY <2>1 DEF StoreType
    <3> QED
        BY <2>1, <2>2, <3>1, HeadLeft
  <2>6. ServerType' /\ AppType' /\ HistoryType'
        BY <2>1, <2>3, <2>4 DEF ServerType, AppType, HistoryType
  <2> QED
      BY <2>5, <2>6
<1>19. ASSUME NEW d \in Devices, WritesSentAgain(d) PROVE Types
  <2>1. /\ faults < MaxFaults /\ faults' = faults + 1
        /\ answers' = [answers EXCEPT ![d] = << >>]
        /\ UNCHANGED <<serverVars, known, queue, unsynced, txns, appVars, bought, spent,
                       charged, claims, kills>>
        BY <1>19 DEF WritesSentAgain
  <2>2. /\ answers' \in [Devices -> Seq(Nat)]
        /\ \A e \in Devices : answers'[e] = answers[e] \/ Len(answers'[e]) = 0
        BY <2>1, EmptySeq DEF StoreType
  <2>3. \A e \in Devices : Len(answers'[e]) + unsynced[e] <= Len(queue[e])
        BY <2>2, AnswerFacts, SMTT(30)
  <2>4. StoreType' /\ Issued'
        BY <2>1, <2>2, <2>3, SMTT(30) DEF StoreType, Issued
  <2>5. ServerType' /\ AppType' /\ HistoryType'
        BY <2>1, ConstantFacts DEF ServerType, AppType, HistoryType
  <2> QED
      BY <2>4, <2>5
<1>15. ASSUME NEW d \in Devices, ProductCommitted(d) \/ ClaimCommitted(d) PROVE Types
  <2>1. PICK t \in txns[d] :
           /\ txns' = [txns EXCEPT ![d] = @ \ {t}] \/ txns' = txns
           /\ faults' = faults \/ (faults < MaxFaults /\ faults' = faults + 1)
           /\ delivered' = delivered \/ delivered' = delivered \cup {t.id}
           /\ numStampsGiven' = numStampsGiven
                 \/ numStampsGiven' = [numStampsGiven EXCEPT ![t.id] = 0]
           /\ Credit(bought[t.id].offer.to, t.amount) \/ Credit(Owner[d], t.amount)
           /\ callbacks' = callbacks \/ Completed(d, t.id, TRUE)
           /\ UNCHANGED <<paid, refused, known, queue, unsynced, answers,
                          currentUserNumStamps, currentUser, echoed, popup, loading,
                          paying, bought, spent, charged, claims, kills>>
    <3>1. CASE ProductCommitted(d)
      <4>1. PICK t \in txns[d] :
               /\ delivered' = delivered \cup {t.id}
               /\ Credit(bought[t.id].offer.to, t.amount)
               /\ \/ Answered(d, t) /\ Completed(d, t.id, TRUE)
                  \/ RunAgain /\ UNCHANGED callbacks
               /\ UNCHANGED <<numStampsGiven, paid, refused, known, queue, unsynced, answers,
                              currentUserNumStamps, currentUser, echoed, popup, loading,
                              paying, bought, spent, charged, claims, kills>>
            BY <3>1 DEF ProductCommitted
      <4> QED
          BY <4>1, Zenon DEF Answered, RunAgain
    <3>2. CASE ClaimCommitted(d)
      <4>1. PICK t \in txns[d] :
               /\ numStampsGiven' = [numStampsGiven EXCEPT ![t.id] = 0]
               /\ Credit(Owner[d], t.amount)
               /\ Answered(d, t) \/ RunAgain
               /\ UNCHANGED <<delivered, paid, refused, known, queue, unsynced, answers,
                              currentUserNumStamps, currentUser, echoed, popup, loading,
                              paying, callbacks, bought, spent, charged, claims, kills>>
            BY <3>2 DEF ClaimCommitted
      <4> QED
          BY <4>1, Zenon DEF Answered, RunAgain
    <3> QED
        BY <1>15, <3>1, <3>2
  <2>2. t \in Txn /\ t.id \in Ids /\ t.amount \in Nat /\ t.id \in 1 .. Len(bought)
        BY <2>1, TxnFields DEF StoreType, Issued, Ids, HistoryType
  <2>3. bought[t.id].offer.to \in Users /\ Owner[d] \in Users
        BY <2>2, BoughtOffer, ConstantFacts
  <2>4. /\ versions' \in [Users -> Seq(Version)] /\ \A x \in Users : versions'[x] # << >>
        /\ \A x \in Users : Len(versions'[x]) >= Len(versions[x])
        BY <2>1, <2>2, <2>3, CreditType
  <2>5. \A e \in Devices :
           /\ known[e] \in 1 .. Len(versions'[Owner[e]])
           /\ \A k \in 1 .. Len(answers[e]) : answers[e][k] \in 1 .. Len(versions'[Owner[e]])
        BY <2>4, GrownVersions
  <2>6. txns' \in [Devices -> SUBSET Txn] /\ \A e \in Devices : txns'[e] \subseteq txns[e]
        BY <2>1 DEF StoreType
  <2>7. StoreType'
        BY <2>1, <2>5, <2>6 DEF StoreType
  <2>8. Issued'
        BY <2>1, <2>2, <2>5, <2>6 DEF Issued
  <2>9. ServerType'
        BY <2>1, <2>2, <2>4 DEF ServerType, Gifts
  <2>10. callbacks' \in [Devices -> SUBSET Callback]
        BY <2>1, <2>2, CompletedType DEF AppType
  <2>11. AppType' /\ HistoryType'
        BY <2>1, <2>10, ConstantFacts DEF AppType, HistoryType
  <2> QED
      BY <2>7, <2>8, <2>9, <2>11
<1>16. ASSUME NEW d \in Devices, TxnFailed(d) PROVE Types
  <2>1. PICK t \in txns[d] :
                /\ txns' = [txns EXCEPT ![d] = @ \ {t}]
                /\ callbacks' = callbacks \/ Completed(d, t.id, FALSE)
        BY <1>16 DEF TxnFailed
  <2>2. t.id \in Ids
        BY <2>1, TxnFields DEF StoreType
  <2>3. callbacks' \in [Devices -> SUBSET Callback]
        BY <2>1, <2>2, CompletedType DEF AppType
  <2>4. txns' \in [Devices -> SUBSET Txn] /\ \A e \in Devices : txns'[e] \subseteq txns[e]
        BY <2>1 DEF StoreType
  <2>5. UNCHANGED <<serverVars, known, queue, unsynced, answers, historyVars,
                    currentUserNumStamps, currentUser, echoed, popup, loading, paying>>
        BY <1>16 DEF TxnFailed
  <2>6. StoreType' /\ Issued'
        BY <2>4, <2>5 DEF StoreType, Issued
  <2>7. ServerType' /\ AppType' /\ HistoryType'
        BY <2>3, <2>5 DEF ServerType, AppType, HistoryType
  <2> QED
      BY <2>6, <2>7
<1>17. ASSUME NEW d \in Devices, Watch(d) PROVE Types
  <2>1. PICK v \in 1 .. Len(versions[Owner[d]]) :
           /\ known' = [known EXCEPT ![d] = v]
           /\ UNCHANGED <<serverVars, queue, unsynced, answers, txns, appVars, historyVars>>
        BY <1>17 DEF Watch
  <2>2. v \in Nat
        BY VersionFacts, ConstantFacts
  <2>3. StoreType'
        BY <2>1, <2>2 DEF StoreType
  <2> QED
      BY <2>1, <2>3 DEF ServerType, AppType, HistoryType, Issued
<1>18. CASE UNCHANGED vars
      BY <1>18 DEF vars, ServerType, StoreType, AppType, HistoryType, Issued
<1> QED
    BY <1>1, <1>2, <1>3, <1>4, <1>5, <1>6, <1>7, <1>8, <1>9, <1>10, <1>11, <1>12,
       <1>13, <1>14, <1>15, <1>16, <1>17, <1>18, <1>19
    DEF Next, UserStep, SystemStep, Kill, ProcessTrap

(***************************************************************************)
(* The type invariant holds in every reachable state, with it the disk     *)
(* mark of every write queue lies within the queue, and no completion,     *)
(* transaction or write names a purchase that was never approved.          *)
(***************************************************************************)
THEOREM TypeCorrect == Spec => [](TypeOK /\ Issued)
BY TypeInit, TypeStep, PTL DEF Spec, TypeInv

-----------------------------------------------------------------------------
(***************************************************************************)
(* How the actions change a write queue.                                   *)
(***************************************************************************)
LEMMA TappedQueue ==
    ASSUME TypeInv, NEW d \in Devices, ProcessTapped(d)
    PROVE  LET o  == popup[d]
               id == Len(bought) + 1
               n  == Len(queue[d])
           IN  /\ o \in Offers /\ id \in Ids /\ n \in Nat
               /\ Len(queue'[d]) = n + 1 \/ Len(queue'[d]) = n + 2
               /\ \A e \in Devices \ {d} : queue'[e] = queue[e]
               /\ \A i \in 1 .. n : queue'[d][i] = queue[d][i]
               /\ queue'[d][n + 1] = Payment(id, NewBalance(d, o), o.cost)
               /\ Len(queue'[d]) = n + 2 => queue'[d][n + 2] = Product(id)
<1> DEFINE o == popup[d]
           id == Len(bought) + 1
           n == Len(queue[d])
           pay == Payment(id, NewBalance(d, o), o.cost)
<1>1. /\ o \in Offers /\ id \in Ids /\ n \in Nat /\ queue[d] \in Seq(Write)
      /\ currentUserNumStamps[d] \in Int /\ queue \in [Devices -> Seq(Write)]
      BY ConstantFacts, LenProperties
      DEF ProcessTapped, TypeInv, TypeOK, StoreType, AppType, HistoryType, Ids
<1>2. o.cost \in Prices /\ o.cost \in Nat
      BY <1>1, ConstantFacts
<1>3. NewBalance(d, o) \in Int
      BY <1>1, <1>2 DEF NewBalance
<1>4. pay \in Write /\ Product(id) \in Write
      BY ONLY <1>1, <1>2, <1>3, PaymentFields, ProductFields
<1> DEFINE q1 == Append(queue[d], pay)
           q2 == Append(q1, Product(id))
<1>5. /\ q1 \in Seq(Write) /\ Len(q1) = n + 1 /\ q1[n + 1] = pay
      /\ \A i \in 1 .. n : q1[i] = queue[d][i]
      BY ONLY <1>1, <1>4, AppendProperties
<1>6. /\ Len(q2) = Len(q1) + 1 /\ q2[Len(q1) + 1] = Product(id)
      /\ \A i \in 1 .. Len(q1) : q2[i] = q1[i]
      BY ONLY <1>4, <1>5, AppendProperties
<1>7. /\ Len(q2) = n + 2 /\ q2[n + 1] = pay /\ q2[n + 2] = Product(id)
      /\ \A i \in 1 .. n : q2[i] = queue[d][i]
      BY ONLY <1>1, <1>5, <1>6
<1>8. queue' = [queue EXCEPT ![d] = q1] \/ queue' = [queue EXCEPT ![d] = q2]
      BY DEF ProcessTapped, DidReturnFromPayment, WriteBoth
<1> HIDE DEF q1, q2, pay
<1>9. /\ \A e \in Devices \ {d} : queue'[e] = queue[e]
      /\ queue'[d] = q1 \/ queue'[d] = q2
      BY <1>1, <1>8
<1> QED
    BY <1>1, <1>5, <1>7, <1>9 DEF pay

LEMMA SentQueue ==
    ASSUME TypeInv, NEW d \in Devices, Leaves(d)
    PROVE  /\ Len(queue[d]) \in Nat \ {0} /\ Head(queue[d]) = queue[d][1]
           /\ Len(queue'[d]) = Len(queue[d]) - 1
           /\ \A e \in Devices \ {d} : queue'[e] = queue[e]
           /\ \A i \in 1 .. Len(queue'[d]) :
                 i + 1 \in 1 .. Len(queue[d]) /\ queue'[d][i] = queue[d][i + 1]
<1>1. queue \in [Devices -> Seq(Write)]
      BY DEF TypeInv, TypeOK, StoreType
<1>2. queue'[d] = Tail(queue[d]) /\ \A e \in Devices \ {d} : queue'[e] = queue[e]
      BY <1>1 DEF Leaves
<1>3. /\ Len(queue[d]) \in Nat \ {0} /\ Head(queue[d]) = queue[d][1]
      /\ Len(Tail(queue[d])) = Len(queue[d]) - 1
      /\ \A i \in 1 .. Len(Tail(queue[d])) : Tail(queue[d])[i] = queue[d][i + 1]
      BY QueueHead DEF TypeInv, Leaves
<1> QED
    BY ONLY <1>2, <1>3

LEMMA KilledQueue ==
    ASSUME TypeInv, NEW d \in Devices, AppGone(d)
    PROVE  /\ Len(queue'[d]) \in 0 .. Len(queue[d])
           /\ \A e \in Devices \ {d} : queue'[e] = queue[e]
           /\ \A i \in 1 .. Len(queue'[d]) :
                 i \in 1 .. Len(queue[d]) /\ queue'[d][i] = queue[d][i]
<1>1. /\ queue \in [Devices -> Seq(Write)] /\ Len(queue[d]) \in Nat
      /\ unsynced[d] \in 0 .. Len(queue[d])
      BY AnswerFacts DEF TypeInv, TypeOK, StoreType
<1>2. /\ queue'[d] = SubSeq(queue[d], 1, Len(queue[d]) - unsynced[d])
      /\ \A e \in Devices \ {d} : queue'[e] = queue[e]
      BY <1>1 DEF AppGone, OnDisk
<1>3. \A i \in 1 .. Len(queue[d]) - unsynced[d] : queue[d][i] \in Write
      BY <1>1, ElementOfSeq
<1> QED
    BY <1>1, <1>2, <1>3, SubSeqProperties

\* The payments of a queue, by position.
LEMMA PaymentPositions ==
    ASSUME TypeInv, NEW d \in Devices, NEW i
    PROVE  /\ i \in PaymentsAt(queue[d]) <=>
                 i \in 1 .. Len(queue[d]) /\ queue[d][i].type = "payment"
           /\ i \in PaymentsAt(queue[d]) =>
                 /\ i \in Nat /\ queue[d][i].val \in Int /\ queue[d][i].cost \in Nat
                 /\ queue[d][i].cost \in Prices /\ queue[d][i].id \in Ids
           /\ i \in PaymentsAt(queue'[d]) <=>
                 i \in 1 .. Len(queue'[d]) /\ queue'[d][i].type = "payment"
<1>1. ASSUME i \in 1 .. Len(queue[d]) PROVE i \in Nat /\ queue[d][i] \in Write
      BY <1>1, ElementOfSeq DEF TypeInv, TypeOK, StoreType
<1> QED
    BY <1>1, WriteFields DEF PaymentsAt

\* Which payments a queue holds after a tap, an answer, a crash.
LEMMA TappedPayments ==
    ASSUME TypeInv, NEW d \in Devices, ProcessTapped(d), NEW i \in PaymentsAt(queue'[d])
    PROVE  \/ i \in PaymentsAt(queue[d]) /\ queue'[d][i] = queue[d][i]
           \/ /\ \A j \in PaymentsAt(queue[d]) : j < i
              /\ i = Len(queue[d]) + 1
              /\ queue'[d][i] = Payment(Len(bought) + 1, NewBalance(d, popup[d]),
                                        popup[d].cost)
<1>1. Len(bought) + 1 \in Ids
      BY TappedQueue
<1>2. Product(Len(bought) + 1).type = "product"
      BY <1>1, ProductFields
<1> DEFINE n == Len(queue[d])
<1>3. /\ n \in Nat /\ \A j \in 1 .. n : queue'[d][j] = queue[d][j]
      /\ Len(queue'[d]) = n + 1 \/ Len(queue'[d]) = n + 2
      /\ queue'[d][n + 1] = Payment(Len(bought) + 1, NewBalance(d, popup[d]), popup[d].cost)
      /\ Len(queue'[d]) = n + 2 => queue'[d][n + 2] = Product(Len(bought) + 1)
      BY TappedQueue
<1>4. i \in 1 .. Len(queue'[d]) /\ queue'[d][i].type = "payment"
      BY PaymentPositions
<1>5. \A j \in PaymentsAt(queue[d]) : j \in 1 .. n
      BY DEF PaymentsAt
<1>6. i \in 1 .. n \/ i = n + 1
      BY <1>2, <1>3, <1>4
<1>7. CASE i \in 1 .. n
  <2>1. queue'[d][i] = queue[d][i] /\ queue[d][i].type = "payment"
        BY <1>3, <1>4, <1>7
  <2>2. i \in PaymentsAt(queue[d])
        BY <2>1, <1>7 DEF PaymentsAt
  <2> QED
      BY <2>1, <2>2
<1>8. CASE i = n + 1
  <2>1. \A j \in PaymentsAt(queue[d]) : j < i
        BY <1>3, <1>5, <1>8
  <2> QED
      BY <2>1, <1>3, <1>8
<1> QED
    BY <1>6, <1>7, <1>8

LEMMA SentPayments ==
    ASSUME TypeInv, NEW d \in Devices, Leaves(d),
           NEW i \in PaymentsAt(queue'[d])
    PROVE  i + 1 \in PaymentsAt(queue[d]) /\ i \in Nat \ {0} /\ queue'[d][i] = queue[d][i + 1]
<1>1. i \in 1 .. Len(queue'[d]) /\ queue'[d][i].type = "payment"
      BY PaymentPositions
<1>2. i + 1 \in 1 .. Len(queue[d]) /\ queue'[d][i] = queue[d][i + 1]
      BY <1>1, SentQueue
<1> QED
    BY <1>1, <1>2, PaymentPositions

LEMMA KilledPayments ==
    ASSUME TypeInv, NEW d \in Devices, AppGone(d), NEW i \in PaymentsAt(queue'[d])
    PROVE  i \in PaymentsAt(queue[d]) /\ queue'[d][i] = queue[d][i]
BY KilledQueue, PaymentPositions

\* A version of a user document of a device's account.
LEMMA OwnVersions ==
    ASSUME TypeInv, NEW d \in Devices
    PROVE  LET u == Owner[d]
               n == Len(versions[u])
           IN  /\ u \in Users /\ n \in Nat \ {0} /\ Newest(u) = versions[u][n]
               /\ known[d] \in 1 .. n
               /\ \A v \in 1 .. n : /\ versions[u][v].numStamps \in Int
                                    /\ versions[u][v].credited \in Nat
               /\ \A k \in 1 .. Len(answers[d]) : answers[d][k] \in 1 .. n
BY VersionFacts, ConstantFacts DEF TypeInv, TypeOK, StoreType, Issued

\* The server applied a payment: its account has one more version.
LEMMA AppliedPayment ==
    ASSUME TypeInv, NEW d \in Devices, PaymentApplied(d)
    PROVE  LET p == NextSent(d)
               u == Owner[d]
               n == Len(versions[u])
           IN  /\ p \in PaymentsAt(queue[d]) /\ p = Len(answers[d]) + 1
               /\ Len(answers[d]) \in Nat
               /\ Len(versions'[u]) = n + 1
               /\ \A v \in 1 .. n : versions'[u][v] = versions[u][v]
               /\ versions'[u][n + 1].numStamps = queue[d][p].val
               /\ versions'[u][n + 1].credited = versions[u][n].credited
               /\ \A x \in Users \ {u} : versions'[x] = versions[x]
               /\ Len(answers'[d]) = p /\ answers'[d][p] = n + 1
               /\ \A k \in 1 .. Len(answers[d]) : answers'[d][k] = answers[d][k]
               /\ \A e \in Devices \ {d} : answers'[e] = answers[e]
<1> DEFINE p == NextSent(d)
           w == queue[d][p]
           u == Owner[d]
           n == Len(versions[u])
<1>1. /\ CanSend(d) /\ w.type = "payment"
      /\ NewVersion(u, w.val, Newest(u).credited)
      /\ answers' = [answers EXCEPT ![d] = Append(@, n + 1)]
      BY DEF PaymentApplied, Paid
<1>2. /\ p \in 1 .. Len(queue[d]) /\ p = Len(answers[d]) + 1 /\ w \in Write
      /\ Len(answers[d]) \in Nat
      BY <1>1, AnswerFacts DEF TypeInv
<1>3. /\ w.val \in Int /\ p \in PaymentsAt(queue[d])
      BY <1>1, <1>2, WriteFields DEF PaymentsAt
<1>4. /\ u \in Users /\ n \in Nat \ {0} /\ Newest(u) = versions[u][n]
      /\ Newest(u).credited \in Nat /\ n + 1 \in Nat
  <2>1. /\ u \in Users /\ n \in Nat \ {0} /\ Newest(u) = versions[u][n]
        /\ \A v \in 1 .. n : versions[u][v].credited \in Nat
        BY OwnVersions
  <2> QED
      BY ONLY <2>1
<1>5. /\ Len(versions'[u]) = n + 1
      /\ \A v \in 1 .. n : versions'[u][v] = versions[u][v]
      /\ versions'[u][n + 1].numStamps = w.val
      /\ versions'[u][n + 1].credited = Newest(u).credited
      /\ \A x \in Users \ {u} : versions'[x] = versions[x]
      BY <1>1, <1>3, <1>4, NewVersionFacts DEF TypeInv
<1>6. /\ Len(answers'[d]) = Len(answers[d]) + 1 /\ answers'[d][Len(answers[d]) + 1] = n + 1
      /\ \A k \in 1 .. Len(answers[d]) : answers'[d][k] = answers[d][k]
      /\ \A e \in Devices \ {d} : answers'[e] = answers[e]
      BY <1>1, <1>4, AppendedAnswer DEF TypeInv
<1> HIDE DEF w, p
<1>7. versions'[u][n + 1].numStamps = queue[d][p].val
      BY <1>5 DEF w
<1> QED
    BY <1>2, <1>3, <1>4, <1>5, <1>6, <1>7 DEF p

\* ... a product: nobody's balance changes.
LEMMA AppliedProduct ==
    ASSUME TypeInv, NEW d \in Devices, ProductApplied(d)
    PROVE  LET p == NextSent(d) IN
           /\ p \in 1 .. Len(queue[d]) /\ queue[d][p].type = "product"
           /\ p = Len(answers[d]) + 1 /\ Len(answers[d]) \in Nat
           /\ Len(answers'[d]) = p
           /\ \A k \in 1 .. Len(answers[d]) : answers'[d][k] = answers[d][k]
           /\ \A e \in Devices \ {d} : answers'[e] = answers[e]
<1> DEFINE p == NextSent(d)
<1>1. /\ CanSend(d) /\ queue[d][p].type = "product"
      /\ answers' = [answers EXCEPT ![d] = Append(@, Len(versions[Owner[d]]))]
      BY DEF ProductApplied
<1>2. /\ p \in 1 .. Len(queue[d]) /\ p = Len(answers[d]) + 1 /\ Len(answers[d]) \in Nat
      BY <1>1, AnswerFacts DEF TypeInv
<1>3. Len(versions[Owner[d]]) \in Nat
      BY OwnVersions
<1>4. /\ Len(answers'[d]) = Len(answers[d]) + 1
      /\ \A k \in 1 .. Len(answers[d]) : answers'[d][k] = answers[d][k]
      /\ \A e \in Devices \ {d} : answers'[e] = answers[e]
      BY <1>1, <1>3, AppendedAnswer DEF TypeInv
<1> QED
    BY <1>1, <1>2, <1>4

\* The first answer was heard: the answers move up with the queue.
Heard(d) == answers[d] # << >> /\ answers' = [answers EXCEPT ![d] = Tail(@)]

LEMMA HeardAnswers ==
    ASSUME TypeInv, NEW d \in Devices, Heard(d)
    PROVE  /\ Len(answers[d]) \in Nat \ {0} /\ Len(answers'[d]) = Len(answers[d]) - 1
           /\ Head(answers[d]) = answers[d][1] /\ Len(queue[d]) > unsynced[d]
           /\ \A k \in 1 .. Len(answers'[d]) :
                 k + 1 \in 1 .. Len(answers[d]) /\ answers'[d][k] = answers[d][k + 1]
           /\ \A e \in Devices \ {d} : answers'[e] = answers[e]
<1>1. answers \in [Devices -> Seq(Nat)]
      BY DEF TypeInv, TypeOK, StoreType
<1>2. answers'[d] = Tail(answers[d]) /\ \A e \in Devices \ {d} : answers'[e] = answers[e]
      BY <1>1 DEF Heard
<1>3. /\ Len(answers[d]) \in Nat \ {0} /\ Head(answers[d]) = answers[d][1]
      /\ Len(queue[d]) > unsynced[d] /\ Len(Tail(answers[d])) = Len(answers[d]) - 1
      /\ \A i \in 1 .. Len(Tail(answers[d])) : Tail(answers[d])[i] = answers[d][i + 1]
      BY AnswerFacts DEF TypeInv, Heard
<1> QED
    BY ONLY <1>2, <1>3

\* The answers of a device are lost.
Forgotten(d) == answers' = [answers EXCEPT ![d] = << >>]

LEMMA ForgottenAnswers ==
    ASSUME TypeInv, NEW d \in Devices, Forgotten(d)
    PROVE  Len(answers'[d]) = 0 /\ \A e \in Devices \ {d} : answers'[e] = answers[e]
BY EmptySeq DEF TypeInv, TypeOK, StoreType, Forgotten

\* A payment was acknowledged: it was the oldest write.
LEMMA AcknowledgedPayment ==
    ASSUME TypeInv, NEW d \in Devices, PaymentAcknowledged(d)
    PROVE  LET u == Owner[d]
               a == answers[d][1]
           IN  /\ Leaves(d) /\ Heard(d) /\ 1 \in PaymentsAt(queue[d])
               /\ a \in 1 .. Len(versions[u])
               /\ known'[d] = (IF a > known[d] THEN a ELSE known[d])
               /\ \A e \in Devices \ {d} : known'[e] = known[e]
               /\ charged'[u] = charged[u] + queue[d][1].cost
               /\ \A x \in Users \ {u} : charged'[x] = charged[x]
               /\ UNCHANGED <<versions, currentUserNumStamps, currentUser, echoed,
                              loading, spent, paid, refused, delivered, bought>>
<1> USE DEF serverVars, appVars
<1>1. /\ Heard(d) /\ Head(queue[d]).type = "payment"
      /\ queue' = [queue EXCEPT ![d] = Tail(@)]
      /\ known' = [known EXCEPT ![d] = IF Head(answers[d]) > @ THEN Head(answers[d]) ELSE @]
      /\ charged' = [charged EXCEPT ![Owner[d]] = @ + Head(queue[d]).cost]
      /\ UNCHANGED <<versions, currentUserNumStamps, currentUser, echoed, loading, spent,
                     paid, refused, delivered, bought>>
      BY DEF PaymentAcknowledged, Heard
<1>2. /\ Leaves(d) /\ Head(answers[d]) = answers[d][1] /\ Len(answers[d]) \in Nat \ {0}
      BY <1>1, HeardAnswers DEF Leaves
<1>3. Head(queue[d]) = queue[d][1] /\ Len(queue[d]) \in Nat \ {0}
      BY <1>2, SentQueue
<1>4. 1 \in 1 .. Len(queue[d]) /\ 1 \in 1 .. Len(answers[d])
      BY <1>2, <1>3
<1>5. 1 \in PaymentsAt(queue[d])
      BY <1>1, <1>3, <1>4 DEF PaymentsAt
<1>6. answers[d][1] \in 1 .. Len(versions[Owner[d]]) /\ Owner[d] \in Users
      BY <1>4, OwnVersions
<1>7. known \in [Devices -> Nat] /\ charged \in [Users -> Nat]
      BY DEF TypeInv, TypeOK, StoreType, HistoryType
<1> QED
    BY <1>1, <1>2, <1>3, <1>5, <1>6, <1>7

(***************************************************************************)
(* The steps, by what they do to balances and payments.                    *)
(***************************************************************************)
\* A committed transaction.
Credited ==
    /\ \E u \in Users, n \in Nat : Credit(u, n)
    /\ UNCHANGED <<known, queue, answers, currentUserNumStamps, currentUser, echoed,
                   loading, spent, charged>>

\* An answer to a product, and a refusal.
Dropped(d) ==
    /\ Leaves(d)
    /\ \/ Heard(d) /\ Head(queue[d]).type = "product"
       \/ Forgotten(d)
    /\ UNCHANGED <<versions, known, currentUserNumStamps, currentUser, echoed, loading,
                   spent, charged>>

\* Answers lost on the way.
Repeated(d) ==
    /\ Forgotten(d)
    /\ UNCHANGED <<versions, known, queue, currentUserNumStamps, currentUser, echoed,
                   loading, spent, charged>>

Quiet ==
    /\ UNCHANGED <<versions, known, queue, answers, currentUserNumStamps, currentUser,
                   echoed, spent, charged>>
    /\ \A d \in Devices : ~loading'[d] => ~loading[d] \/ echoed[d]

Moves ==
    \/ Quiet \/ Credited
    \/ \E d \in Devices : \/ ProcessTapped(d) \/ AppGone(d) \/ UserSnapshot(d) \/ Watch(d)
                          \/ PaymentApplied(d) \/ ProductApplied(d)
                          \/ PaymentAcknowledged(d) \/ Dropped(d) \/ Repeated(d)

LEMMA Steps == TypeInv /\ [Next]_vars => Moves
<1> SUFFICES ASSUME TypeInv, [Next]_vars PROVE Moves
    OBVIOUS
<1> USE DEF serverVars, storeVars, appVars, historyVars
<1>1. ASSUME NEW d \in Devices,
             \/ \E o \in Offers : NextBtnTapped(d, o)
             \/ PopupSwiped(d) \/ WritePersisted(d) \/ TxnFailed(d)
             \/ \E id \in Ids : ClaimTapped(d, id)
      PROVE  Quiet
      BY <1>1 DEF NextBtnTapped, PopupSwiped, WritePersisted, TxnFailed, ClaimTapped, Quiet
<1>2. ASSUME NEW d \in Devices, ProcessDeclined(d) \/ ProductCompletion(d) PROVE Quiet
  <2>1. loading \in [Devices -> BOOLEAN]
        BY DEF TypeInv, TypeOK, AppType
  <2>2. /\ UNCHANGED <<versions, known, queue, answers, currentUserNumStamps, currentUser,
                       echoed, spent, charged>>
        /\ \/ loading' = [loading EXCEPT ![d] = TRUE]
           \/ loading' = [loading EXCEPT ![d] = FALSE] /\ echoed[d]
        BY <1>2 DEF ProcessDeclined, ProductCompletion
  <2> QED
      BY <2>1, <2>2 DEF Quiet
<1>3. UNCHANGED vars => Quiet
      BY DEF vars, Quiet
<1>4. ASSUME NEW d \in Devices, ProductCommitted(d) \/ ClaimCommitted(d) PROVE Credited
  <2>1. PICK t \in txns[d] : Credit(bought[t.id].offer.to, t.amount) \/ Credit(Owner[d], t.amount)
        BY <1>4 DEF ProductCommitted, ClaimCommitted
  <2>2. t \in Txn /\ t.id <= Len(bought)
        BY DEF TypeInv, TypeOK, StoreType, Issued
  <2>3. t.id \in Ids /\ t.amount \in Nat
        BY <2>2, TxnFields
  <2>4. bought[t.id].offer.to \in Users /\ Owner[d] \in Users
        BY <2>2, <2>3, BoughtOffer, ConstantFacts
  <2>5. UNCHANGED <<known, queue, answers, currentUserNumStamps, currentUser, echoed,
                    loading, spent, charged>>
        BY <1>4 DEF ProductCommitted, ClaimCommitted
  <2> QED
      BY <2>1, <2>3, <2>4, <2>5 DEF Credited
<1>5. ASSUME NEW d \in Devices, ProductAcknowledged(d) PROVE Dropped(d)
  <2>1. Heard(d)
        BY <1>5 DEF ProductAcknowledged, Heard
  <2> QED
      BY <1>5, <2>1, HeardAnswers DEF ProductAcknowledged, Leaves, Dropped
<1>6. ASSUME NEW d \in Devices, PaymentRejected(d) \/ ProductRejected(d) PROVE Dropped(d)
  <2>1. Len(queue[d]) > unsynced[d]
        BY <1>6, AnswerFacts DEF PaymentRejected, ProductRejected, TypeInv
  <2> QED
      BY <1>6, <2>1 DEF PaymentRejected, ProductRejected, Leaves, Forgotten, Dropped
<1>7. ASSUME NEW d \in Devices, WritesSentAgain(d) PROVE Repeated(d)
      BY <1>7 DEF WritesSentAgain, Forgotten, Repeated
<1> HIDE DEF Quiet, Credited, Dropped, Repeated
<1> QED
    BY <1>1, <1>2, <1>3, <1>4, <1>5, <1>6, <1>7
    DEF Moves, Next, UserStep, SystemStep, Kill, ProcessTrap

-----------------------------------------------------------------------------
(***************************************************************************)
(* What every balance in the system is at least.  The two properties about *)
(* it speak of the newest version of a document only; an older one can     *)
(* come back in a snapshot.                                                *)
(***************************************************************************)
Covers(u, s, v) == v >= 0 /\ v >= InitStamps[u] - s

FloorInv ==
    /\ \A u \in Users : \A v \in 1 .. Len(versions[u]) : Covers(u, spent[u], versions[u][v].numStamps)
    /\ \A d \in Devices :
          /\ currentUserNumStamps[d] >= 0
          /\ currentUser[d] => Covers(Owner[d], spent[Owner[d]], currentUserNumStamps[d])
          /\ \A i \in PaymentsAt(queue[d]) : Covers(Owner[d], spent[Owner[d]], queue[d][i].val)

LEMMA FloorInit == Init => FloorInv
<1> SUFFICES ASSUME Init PROVE FloorInv
    OBVIOUS
<1>1. \A u \in Users : /\ Len(versions[u]) = 1 /\ versions[u][1].numStamps = InitStamps[u]
                       /\ InitStamps[u] \in Nat /\ spent[u] = 0
      BY ConstantFacts DEF Init
<1>2. \A u \in Users : Covers(u, spent[u], InitStamps[u])
      BY <1>1 DEF Covers
<1>3. \A u \in Users : \A v \in 1 .. Len(versions[u]) : v = 1
  <2>1. \A v \in 1 .. 1 : v = 1
        OBVIOUS
  <2> QED
      BY <1>1, <2>1
<1> QED
    BY <1>1, <1>2, <1>3 DEF Init, FloorInv, PaymentsAt

LEMMA FloorImplies == TypeInv /\ FloorInv => BalanceNeverNegative /\ PriceTakenOnce
<1> SUFFICES ASSUME TypeInv, FloorInv PROVE BalanceNeverNegative /\ PriceTakenOnce
    OBVIOUS
<1>1. \A u \in Users : Covers(u, spent[u], Newest(u).numStamps)
  <2>1. \A u \in Users : Len(versions[u]) \in 1 .. Len(versions[u])
                         /\ Newest(u) = versions[u][Len(versions[u])]
    <3>1. \A u \in Users : Len(versions[u]) \in Nat \ {0}
                           /\ Newest(u) = versions[u][Len(versions[u])]
          BY VersionFacts DEF TypeInv
    <3> QED
        BY ONLY <3>1
  <2> QED
      BY <2>1 DEF FloorInv
<1>2. \A d \in Devices : Covers(Owner[d], spent[Owner[d]], Copy(d))
      BY OwnVersions DEF FloorInv, Copy
<1> QED
    BY <1>1, <1>2 DEF FloorInv, Covers, BalanceNeverNegative, PriceTakenOnce

LEMMA FloorStep == TypeInv /\ FloorInv /\ [Next]_vars => FloorInv'
<1> SUFFICES ASSUME TypeInv, FloorInv, Moves PROVE FloorInv'
    BY Steps
<1> USE DEF serverVars, storeVars, appVars, historyVars
<1> DEFINE Documents == \A u \in Users : \A v \in 1 .. Len(versions[u]) :
                           Covers(u, spent[u], versions[u][v].numStamps)
           Queued(d) == \A i \in PaymentsAt(queue[d]) : Covers(Owner[d], spent[Owner[d]], queue[d][i].val)
           Shown(d) == /\ currentUserNumStamps[d] >= 0
                       /\ currentUser[d] => Covers(Owner[d], spent[Owner[d]], currentUserNumStamps[d])
<1>t. /\ currentUserNumStamps \in [Devices -> Int] /\ currentUser \in [Devices -> BOOLEAN]
      /\ Owner \in [Devices -> Users] /\ InitStamps \in [Users -> Nat]
      /\ spent \in [Users -> Nat]
      BY ConstantFacts DEF TypeInv, TypeOK, AppType, HistoryType
<1>f. Documents /\ \A d \in Devices : Queued(d) /\ Shown(d)
      BY DEF FloorInv
<1>g. (Documents' /\ \A d \in Devices : Queued(d)' /\ Shown(d)') => FloorInv'
      BY DEF FloorInv
<1>1. CASE Quiet
      BY <1>1 DEF Quiet, FloorInv
<1>2. CASE Credited
  <2>1. PICK u \in Users, n \in Nat : Credit(u, n)
        BY <1>2 DEF Credited
  <2>2. /\ UNCHANGED <<queue, currentUserNumStamps, currentUser, spent>>
        BY <1>2 DEF Credited
  <2>3. LET k == Len(versions[u]) IN
        /\ Len(versions'[u]) = k + 1 /\ k \in Nat \ {0}
        /\ \A v \in 1 .. k : versions'[u][v] = versions[u][v]
        /\ versions'[u][k + 1].numStamps = versions[u][k].numStamps + n
        /\ versions[u][k].numStamps \in Int
        /\ \A x \in Users \ {u} : versions'[x] = versions[x]
    <3>1. /\ Len(versions[u]) \in Nat \ {0} /\ Newest(u) = versions[u][Len(versions[u])]
          /\ \A v \in 1 .. Len(versions[u]) : versions[u][v].numStamps \in Int
          BY VersionFacts DEF TypeInv
    <3>2. versions[u][Len(versions[u])].numStamps \in Int
          BY ONLY <3>1
    <3> QED
        BY <2>1, <3>1, <3>2, CreditType DEF TypeInv
  <2>4. \A v \in 1 .. Len(versions'[u]) : Covers(u, spent[u], versions'[u][v].numStamps)
    <3> DEFINE k == Len(versions[u])
    <3>1. Covers(u, spent[u], versions[u][k].numStamps)
          BY <2>3, <1>f
    <3>2. Covers(u, spent[u], versions'[u][k + 1].numStamps)
          BY <2>3, <3>1, <1>t DEF Covers
    <3>3. \A v \in 1 .. Len(versions'[u]) : v \in 1 .. k \/ v = k + 1
          BY <2>3
    <3> QED
        BY <2>3, <3>2, <3>3, <1>f
  <2>5. Documents'
        BY <2>2, <2>3, <2>4, <1>f
  <2> QED
      BY <2>2, <2>5, <1>f, <1>g
<1>3. ASSUME NEW d \in Devices, ProcessTapped(d) PROVE FloorInv'
  <2> DEFINE c == popup[d].cost
             u == Owner[d]
  <2>1. /\ UNCHANGED <<versions, currentUserNumStamps, currentUser>>
        /\ CanAfford(d, popup[d]) /\ currentUser[d]
        /\ spent' = [spent EXCEPT ![u] = @ + c]
        BY <1>3 DEF ProcessTapped
  <2>2. /\ c \in Nat /\ c \in Prices /\ Len(bought) + 1 \in Ids
        /\ NewBalance(d, popup[d]) \in Int /\ NewBalance(d, popup[d]) >= 0
        /\ NewBalance(d, popup[d]) = currentUserNumStamps[d] - c
    <3>1. c \in Nat /\ c \in Prices /\ Len(bought) + 1 \in Ids
          BY <1>3, TappedQueue, ConstantFacts
    <3> QED
        BY <3>1, <2>1, <1>t DEF CanAfford, NewBalance
  <2> HIDE DEF c
  <2>3. /\ spent'[u] = spent[u] + c /\ \A x \in Users \ {u} : spent'[x] = spent[x]
        /\ \A x \in Users : spent'[x] >= spent[x] /\ spent'[x] \in Nat
        BY <2>1, <2>2, <1>t
  <2>4. \A x \in Users, v \in Int : Covers(x, spent[x], v) => Covers(x, spent'[x], v)
        BY <2>3, <1>t DEF Covers
  <2>5. Covers(u, spent'[u], NewBalance(d, popup[d]))
    <3>1. Covers(u, spent[u], currentUserNumStamps[d])
          BY <2>1, <1>f
    <3>2. currentUserNumStamps[d] \in Int /\ InitStamps[u] \in Nat /\ spent[u] \in Nat
          BY <1>t
    <3> QED
        BY ONLY <3>1, <3>2, <2>2, <2>3 DEF Covers
  <2>6. Queued(d)'
    <3>1. ASSUME NEW i \in PaymentsAt(queue'[d]) PROVE Covers(u, spent'[u], queue'[d][i].val)
      <4>1. CASE i \in PaymentsAt(queue[d]) /\ queue'[d][i] = queue[d][i]
        <5>1. queue[d][i].val \in Int
              BY <4>1, PaymentPositions
        <5> QED
            BY <4>1, <5>1, <2>4, <1>f, <1>t
      <4>2. CASE queue'[d][i] = Payment(Len(bought) + 1, NewBalance(d, popup[d]), popup[d].cost)
            BY <4>2, <2>5, <2>2, PaymentFields DEF c
      <4> QED
          BY <1>3, <4>1, <4>2, TappedPayments
    <3> QED
        BY <3>1
  <2>7. \A e \in Devices \ {d} : Queued(e)'
    <3>1. \A e \in Devices \ {d} : queue'[e] = queue[e]
          BY <1>3, TappedQueue
    <3>2. \A e \in Devices : \A i \in PaymentsAt(queue[e]) : queue[e][i].val \in Int
          BY PaymentPositions
    <3> QED
        BY <3>1, <3>2, <2>4, <1>f, <1>t
  <2>8. Documents'
    <3>1. \A x \in Users : \A v \in 1 .. Len(versions[x]) : versions[x][v].numStamps \in Int
          BY VersionFacts DEF TypeInv
    <3> QED
        BY <3>1, <2>1, <2>4, <1>f
  <2>9. \A e \in Devices : Shown(e)'
        BY <2>1, <2>4, <1>f, <1>t
  <2> QED
      BY <2>6, <2>7, <2>8, <2>9, <1>g
<1>4. ASSUME NEW d \in Devices, AppGone(d) PROVE FloorInv'
  <2>1. /\ UNCHANGED <<versions, spent>>
        /\ currentUserNumStamps' = [currentUserNumStamps EXCEPT ![d] = 0]
        /\ currentUser' = [currentUser EXCEPT ![d] = FALSE]
        BY <1>4 DEF AppGone
  <2>2. Queued(d)' /\ \A e \in Devices \ {d} : queue'[e] = queue[e]
        BY <1>4, <2>1, <1>f, KilledQueue, KilledPayments
  <2>3. \A e \in Devices : Queued(e)'
        BY <2>1, <2>2, <1>f
  <2>4. \A e \in Devices : Shown(e)'
        BY <2>1, <1>f, <1>t
  <2> QED
      BY <2>1, <2>3, <2>4, <1>f, <1>g
<1>5. ASSUME NEW d \in Devices, UserSnapshot(d) PROVE FloorInv'
  <2>1. PICK v : /\ IsLocalView(d, v)
                 /\ currentUserNumStamps' = [currentUserNumStamps EXCEPT ![d] = v]
                 /\ currentUser' = [currentUser EXCEPT ![d] = TRUE]
        BY <1>5 DEF UserSnapshot
  <2>2. UNCHANGED <<versions, queue, spent>>
        BY <1>5 DEF UserSnapshot
  <2>3. Covers(Owner[d], spent[Owner[d]], v)
        BY <2>1, <1>f, OwnVersions DEF IsLocalView, Copy
  <2>4. v >= 0
        BY <2>3 DEF Covers
  <2>5. \A e \in Devices : Shown(e)'
        BY <2>1, <2>2, <2>3, <2>4, <1>f, <1>t
  <2> QED
      BY <2>2, <2>5, <1>f, <1>g
<1>6. ASSUME NEW d \in Devices, PaymentApplied(d) PROVE FloorInv'
  <2> DEFINE u == Owner[d]
             n == Len(versions[u])
             p == NextSent(d)
  <2>1. UNCHANGED <<queue, currentUserNumStamps, currentUser, spent>>
        BY <1>6 DEF PaymentApplied
  <2>2. /\ p \in PaymentsAt(queue[d])
        /\ Len(versions'[u]) = n + 1
        /\ \A v \in 1 .. n : versions'[u][v] = versions[u][v]
        /\ versions'[u][n + 1].numStamps = queue[d][p].val
        /\ \A x \in Users \ {u} : versions'[x] = versions[x]
        BY <1>6, AppliedPayment
  <2>3. n \in Nat /\ \A v \in 1 .. n + 1 : v \in 1 .. n \/ v = n + 1
        BY OwnVersions
  <2>4. Documents'
        BY <2>1, <2>2, <2>3, <1>f
  <2> QED
      BY <2>1, <2>4, <1>f, <1>g
<1>7. ASSUME NEW d \in Devices, ProductApplied(d) \/ Watch(d) \/ Repeated(d) PROVE FloorInv'
      BY <1>7 DEF ProductApplied, Watch, Repeated, FloorInv
<1>8. ASSUME NEW d \in Devices, PaymentAcknowledged(d) \/ Dropped(d) PROVE FloorInv'
  <2>1. UNCHANGED <<versions, currentUserNumStamps, currentUser, spent>>
        BY <1>8 DEF PaymentAcknowledged, Dropped
  <2>2. Leaves(d)
        BY <1>8, AcknowledgedPayment DEF Dropped
  <2>3. \A i \in PaymentsAt(queue'[d]) :
            i + 1 \in PaymentsAt(queue[d]) /\ queue'[d][i] = queue[d][i + 1]
        BY <2>2, SentPayments
  <2>4. \A e \in Devices \ {d} : queue'[e] = queue[e]
        BY <2>2, SentQueue
  <2>5. \A e \in Devices : Queued(e)'
        BY <2>1, <2>3, <2>4, <1>f
  <2> QED
      BY <2>1, <2>5, <1>f, <1>g
<1> QED
    BY <1>1, <1>2, <1>3, <1>4, <1>5, <1>6, <1>7, <1>8 DEF Moves

(***************************************************************************)
(* processTapped never drives a balance below zero, on the server or on    *)
(* any device, for any number of devices sharing an account, whatever is   *)
(* lost, refused, repeated or delayed.                                     *)
(***************************************************************************)
THEOREM NeverNegative == Spec => []BalanceNeverNegative
BY TypeInit, TypeStep, FloorInit, FloorStep, FloorImplies, PTL DEF Spec

(***************************************************************************)
(* An account loses the price of what it bought at most once, however many *)
(* devices it is signed in on and however often the client of one of them  *)
(* sends a payment again: payments write the balance, they do not subtract *)
(* from it.                                                                *)
(***************************************************************************)
THEOREM PricesTakenOnce == Spec => []PriceTakenOnce
BY TypeInit, TypeStep, FloorInit, FloorStep, FloorImplies, PTL DEF Spec

-----------------------------------------------------------------------------
(***************************************************************************)
(* Payments of an account with one device.  The two invariants of the      *)
(* module are not inductive: what the cache owes to the queue holds only   *)
(* while the listener has run since the last payment write; a snapshot is  *)
(* only as good as the copy it comes from; and a payment that was applied  *)
(* but not acknowledged yet binds every version from its own on, by what   *)
(* was credited since.                                                     *)
(***************************************************************************)
\* What the account may own as of version v of its document.
Funds(u, v) == InitStamps[u] + versions[u][v].credited - charged[u]

CreditsGrow ==
    \A u \in Users : \A v, w \in 1 .. Len(versions[u]) :
        v <= w => versions[u][v].credited <= versions[u][w].credited

CopiesBacked(d) ==
    \A v \in known[d] .. Len(versions[Owner[d]]) :
        versions[Owner[d]][v].numStamps <= Funds(Owner[d], v)

Chain(d) ==
    \A i \in PaymentsAt(queue[d]) :
        /\ queue[d][i].val <= Budget(Owner[d]) - queue[d][i].cost
        /\ \A j \in PaymentsAt(queue[d]) : j < i =>
              queue[d][i].val <= queue[d][j].val - queue[d][i].cost

AnswersBacked(d) ==
    \A k \in PaymentsAt(queue[d]) : k <= Len(answers[d]) =>
        /\ queue[d][k].val <= Funds(Owner[d], answers[d][k]) - queue[d][k].cost
        /\ \A v \in answers[d][k] .. Len(versions[Owner[d]]) :
              versions[Owner[d]][v].numStamps - versions[Owner[d]][v].credited
                <= queue[d][k].val - versions[Owner[d]][answers[d][k]].credited

CacheBacked(d) ==
    /\ ~loading[d] => echoed[d]
    /\ echoed[d] =>
          /\ currentUserNumStamps[d] <= Budget(Owner[d])
          /\ \A i \in PaymentsAt(queue[d]) : currentUserNumStamps[d] <= queue[d][i].val

AccountInv(d) == CopiesBacked(d) /\ Chain(d) /\ AnswersBacked(d) /\ CacheBacked(d)

ChainInv == CreditsGrow /\ \A d \in Devices : Owner[d] \in SoleUsers => AccountInv(d)

\* The numbers the invariant compares.
LEMMA AccountNumbers ==
    ASSUME TypeInv, NEW d \in Devices
    PROVE  LET u == Owner[d]
               n == Len(versions[u])
           IN  /\ u \in Users /\ n \in Nat \ {0} /\ n \in 1 .. n
               /\ InitStamps[u] \in Nat /\ charged[u] \in Nat
               /\ Budget(u) = Funds(u, n)
               /\ known[d] \in 1 .. n
               /\ currentUserNumStamps[d] \in Int
               /\ Len(answers[d]) \in Nat /\ Len(answers[d]) <= Len(queue[d])
               /\ Len(queue[d]) \in Nat
               /\ \A v \in 1 .. n : /\ versions[u][v].numStamps \in Int
                                    /\ versions[u][v].credited \in Nat
                                    /\ Funds(u, v) \in Int
               /\ \A k \in 1 .. Len(answers[d]) : answers[d][k] \in 1 .. n
               /\ \A i \in PaymentsAt(queue[d]) :
                     i \in Nat \ {0} /\ queue[d][i].val \in Int /\ queue[d][i].cost \in Nat
<1> DEFINE u == Owner[d]
           n == Len(versions[u])
<1>1. /\ u \in Users /\ n \in Nat \ {0} /\ Newest(u) = versions[u][n]
      /\ known[d] \in 1 .. n
      /\ \A v \in 1 .. n : /\ versions[u][v].numStamps \in Int
                           /\ versions[u][v].credited \in Nat
      /\ \A k \in 1 .. Len(answers[d]) : answers[d][k] \in 1 .. n
      BY OwnVersions
<1>2. /\ InitStamps[u] \in Nat /\ charged[u] \in Nat /\ currentUserNumStamps[d] \in Int
      BY <1>1, ConstantFacts DEF TypeInv, TypeOK, HistoryType, AppType
<1>3. \A v \in 1 .. n : Funds(u, v) \in Int
      BY <1>1, <1>2 DEF Funds
<1>4. Budget(u) = Funds(u, n)
      BY <1>1 DEF Budget, Funds
<1>5. /\ Len(answers[d]) \in Nat /\ Len(answers[d]) <= Len(queue[d]) /\ Len(queue[d]) \in Nat
  <2>1. /\ Len(answers[d]) \in Nat /\ unsynced[d] \in Nat /\ Len(queue[d]) \in Nat
        /\ Len(answers[d]) + unsynced[d] <= Len(queue[d])
        BY AnswerFacts DEF TypeInv
  <2> QED
      BY ONLY <2>1
<1>6. \A i \in PaymentsAt(queue[d]) :
         i \in Nat \ {0} /\ queue[d][i].val \in Int /\ queue[d][i].cost \in Nat
  <2>1. \A i \in PaymentsAt(queue[d]) : i \in 1 .. Len(queue[d])
                /\ queue[d][i].val \in Int /\ queue[d][i].cost \in Nat
        BY PaymentPositions
  <2> QED
      BY <2>1, <1>5
<1>7. n \in 1 .. n
      BY <1>1
<1> QED
    BY <1>1, <1>2, <1>3, <1>4, <1>5, <1>6, <1>7

LEMMA ChainInit == Init => ChainInv
<1> SUFFICES ASSUME Init PROVE ChainInv
    OBVIOUS
<1>1. TypeInv /\ \A d \in Devices : queue[d] = << >> /\ PaymentsAt(queue[d]) = {}
      BY TypeInit DEF Init, PaymentsAt
<1>2. \A u \in Users : /\ Len(versions[u]) = 1 /\ versions[u][1].numStamps = InitStamps[u]
                       /\ versions[u][1].credited = 0 /\ InitStamps[u] \in Nat /\ charged[u] = 0
      BY ConstantFacts DEF Init
<1>3. CreditsGrow
  <2>1. \A v, w \in 1 .. 1 : v = w
        OBVIOUS
  <2>2. \A u \in Users : \A v, w \in 1 .. Len(versions[u]) : v = w
        BY <1>2, <2>1
  <2> QED
      BY <2>2, <1>2 DEF CreditsGrow
<1>4. ASSUME NEW d \in Devices PROVE AccountInv(d)
  <2>1. Owner[d] \in Users /\ known[d] = 1 /\ currentUserNumStamps[d] = 0 /\ echoed[d]
        BY ConstantFacts DEF Init
  <2>2. \A v \in 1 .. 1 : v = 1
        OBVIOUS
  <2>3. CopiesBacked(d)
        BY <1>2, <2>1, <2>2 DEF CopiesBacked, Funds
  <2>4. Budget(Owner[d]) = InitStamps[Owner[d]]
        BY <1>2, <2>1 DEF Budget, Newest
  <2>5. CacheBacked(d)
        BY <1>1, <1>2, <2>1, <2>4 DEF CacheBacked
  <2> QED
      BY <1>1, <2>3, <2>5 DEF AccountInv, Chain, AnswersBacked
<1> QED
    BY <1>3, <1>4 DEF ChainInv

LEMMA ChainImplies == TypeInv /\ ChainInv => PendingPaymentsChain /\ CachedBalanceBacked
BY DEF TypeInv, TypeOK, AppType, ChainInv, AccountInv, Chain, CacheBacked,
       PendingPaymentsChain, CachedBalanceBacked

\* An account with one device: what another device does is not about it.
LEMMA OtherAccount ==
    ASSUME NEW d \in Devices, NEW e \in Devices \ {d}, Owner[e] \in SoleUsers
    PROVE  Owner[e] # Owner[d]
BY DEF SoleUsers, Sole

LEMMA Untouched ==
    ASSUME NEW d \in Devices, AccountInv(d),
           versions'[Owner[d]] = versions[Owner[d]], charged'[Owner[d]] = charged[Owner[d]],
           known'[d] = known[d], queue'[d] = queue[d], answers'[d] = answers[d],
           currentUserNumStamps'[d] = currentUserNumStamps[d], echoed'[d] = echoed[d],
           ~loading'[d] => ~loading[d] \/ echoed[d]
    PROVE  AccountInv(d)'
<1> USE DEF AccountInv
<1>1. Budget(Owner[d])' = Budget(Owner[d])
      BY DEF Budget, Newest
<1>2. CopiesBacked(d)'
      BY DEF CopiesBacked, Funds
<1>3. Chain(d)' /\ CacheBacked(d)'
      BY <1>1 DEF Chain, CacheBacked
<1>4. AnswersBacked(d)'
      BY DEF AnswersBacked, Funds
<1> QED
    BY <1>2, <1>3, <1>4

\* Documents that get a version keep their credits in order.
LEMMA CreditsStillGrow ==
    ASSUME TypeInv, CreditsGrow, NEW u \in Users,
           Len(versions'[u]) = Len(versions[u]) + 1,
           \A v \in 1 .. Len(versions[u]) : versions'[u][v] = versions[u][v],
           \A x \in Users \ {u} : versions'[x] = versions[x],
           versions'[u][Len(versions[u]) + 1].credited \in Nat,
           versions'[u][Len(versions[u]) + 1].credited >= versions[u][Len(versions[u])].credited
    PROVE  CreditsGrow'
<1> DEFINE n == Len(versions[u])
           new == versions'[u][n + 1].credited
<1>1. n \in Nat \ {0} /\ \A v \in 1 .. n : versions[u][v].credited \in Nat
      BY VersionFacts DEF TypeInv
<1>2. \A v, w \in 1 .. n : v <= w => versions[u][v].credited <= versions[u][w].credited
      BY DEF CreditsGrow
<1>3. \A v \in 1 .. n : versions[u][v].credited <= new
  <2>1. n \in 1 .. n /\ \A v \in 1 .. n : v <= n
        BY <1>1
  <2>2. \A v \in 1 .. n : versions[u][v].credited <= versions[u][n].credited
        BY <1>2, <2>1
  <2>3. versions[u][n].credited \in Nat /\ new \in Nat /\ new >= versions[u][n].credited
        BY <1>1, <2>1
  <2> HIDE DEF new
  <2> QED
      BY <1>1, <2>2, <2>3
<1>4. ASSUME NEW v \in 1 .. n + 1, NEW w \in 1 .. n + 1, v <= w
      PROVE  versions'[u][v].credited <= versions'[u][w].credited
  <2>1. CASE w \in 1 .. n
    <3>1. v \in 1 .. n
          BY <2>1, <1>1, <1>4
    <3> QED
        BY <2>1, <3>1, <1>2, <1>4
  <2>2. CASE w = n + 1 /\ v \in 1 .. n
        BY <2>2, <1>3
  <2>3. CASE w = n + 1 /\ v = n + 1
        BY <2>3
  <2> QED
      BY <2>1, <2>2, <2>3, <1>1
<1>5. \A v, w \in 1 .. Len(versions'[u]) :
         v <= w => versions'[u][v].credited <= versions'[u][w].credited
      BY <1>4
<1> HIDE DEF n, new
<1> QED
    BY <1>5 DEF CreditsGrow

(***************************************************************************)
(* One lemma for each kind of step, about the device that takes it.        *)
(***************************************************************************)
LEMMA TappedAccount ==
    ASSUME TypeInv, NEW d \in Devices, AccountInv(d), ProcessTapped(d)
    PROVE  AccountInv(d)'
<1> USE DEF AccountInv, serverVars
<1> DEFINE c == popup[d].cost
           u == Owner[d]
           b == NewBalance(d, popup[d])
<1>1. /\ UNCHANGED <<versions, known, answers, currentUserNumStamps, charged>>
      /\ loading'[d] /\ ~echoed'[d] /\ ~loading[d]
      BY DEF ProcessTapped, Tappable, TypeInv, TypeOK, AppType
<1>2. /\ c \in Nat /\ c \in Prices /\ Len(bought) + 1 \in Ids
      /\ b \in Int /\ b = currentUserNumStamps[d] - c
  <2>1. c \in Nat /\ c \in Prices /\ Len(bought) + 1 \in Ids
        BY TappedQueue, ConstantFacts
  <2> QED
      BY <2>1, AccountNumbers DEF NewBalance
<1>3. ASSUME NEW i \in PaymentsAt(queue'[d])
      PROVE  \/ i \in PaymentsAt(queue[d]) /\ queue'[d][i] = queue[d][i]
             \/ /\ \A j \in PaymentsAt(queue[d]) : j < i
                /\ i = Len(queue[d]) + 1
                /\ queue'[d][i].val = b /\ queue'[d][i].cost = c
      BY <1>2, TappedPayments, PaymentFields
<1> HIDE DEF b, c
<1>4. /\ Budget(u)' = Budget(u)
      /\ b <= Budget(u) - c
      /\ \A j \in PaymentsAt(queue[d]) : b <= queue[d][j].val - c
  <2>1. /\ currentUserNumStamps[d] <= Budget(u)
        /\ \A j \in PaymentsAt(queue[d]) : currentUserNumStamps[d] <= queue[d][j].val
        BY <1>1 DEF CacheBacked
  <2>2. currentUserNumStamps[d] \in Int /\ Budget(u) \in Int
        BY AccountNumbers
  <2>3. \A j \in PaymentsAt(queue[d]) : queue[d][j].val \in Int
        BY AccountNumbers
  <2>4. Budget(u)' = Budget(u)
        BY <1>1 DEF Budget, Newest
  <2> QED
      BY <2>1, <2>2, <2>3, <2>4, <1>2
<1>5. CopiesBacked(d)'
      BY <1>1 DEF CopiesBacked, Funds
<1>6. Chain(d)'
  <2>1. ASSUME NEW i \in PaymentsAt(queue'[d])
        PROVE  queue'[d][i].val <= Budget(u) - queue'[d][i].cost
        BY <1>3, <1>4 DEF Chain
  <2>2. ASSUME NEW i \in PaymentsAt(queue'[d]), NEW j \in PaymentsAt(queue'[d]), j < i
        PROVE  queue'[d][i].val <= queue'[d][j].val - queue'[d][i].cost
    <3>1. i \in Nat /\ j \in Nat
      <4>1. i \in 1 .. Len(queue'[d]) /\ j \in 1 .. Len(queue'[d])
            BY PaymentPositions
      <4>2. Len(queue'[d]) = Len(queue[d]) + 1 \/ Len(queue'[d]) = Len(queue[d]) + 2
            BY TappedQueue
      <4>3. Len(queue[d]) \in Nat
            BY AccountNumbers
      <4> QED
          BY ONLY <4>1, <4>2, <4>3
    <3>2. CASE i \in PaymentsAt(queue[d]) /\ queue'[d][i] = queue[d][i]
      <4>1. j \in PaymentsAt(queue[d]) /\ queue'[d][j] = queue[d][j]
            BY <3>1, <3>2, <2>2, <1>3
      <4> QED
          BY <3>2, <4>1, <2>2 DEF Chain
    <3>3. CASE i = Len(queue[d]) + 1 /\ queue'[d][i].val = b /\ queue'[d][i].cost = c
      <4>1. j \in PaymentsAt(queue[d]) /\ queue'[d][j] = queue[d][j]
            BY <3>1, <3>3, <2>2, <1>3
      <4> QED
          BY <3>3, <4>1, <1>4
    <3> QED
        BY <1>3, <3>2, <3>3
  <2> QED
      BY <2>1, <2>2, <1>4 DEF Chain
<1>7. AnswersBacked(d)'
  <2>1. ASSUME NEW k \in PaymentsAt(queue'[d]), k <= Len(answers[d])
        PROVE  k \in PaymentsAt(queue[d]) /\ queue'[d][k] = queue[d][k]
    <3>1. Len(answers[d]) <= Len(queue[d]) /\ Len(answers[d]) \in Nat /\ Len(queue[d]) \in Nat
          BY AccountNumbers
    <3> QED
        BY <3>1, <2>1, <1>3
  <2> QED
      BY <2>1, <1>1 DEF AnswersBacked, Funds
<1>8. CacheBacked(d)'
      BY <1>1 DEF CacheBacked
<1> QED
    BY <1>5, <1>6, <1>7, <1>8

LEMMA GoneAccount ==
    ASSUME TypeInv, FloorInv, NEW d \in Devices, AccountInv(d), AppGone(d)
    PROVE  AccountInv(d)'
<1> USE DEF AccountInv, serverVars
<1>1. /\ UNCHANGED <<versions, known, charged>>
      /\ echoed'[d] /\ currentUserNumStamps'[d] = 0 /\ Forgotten(d)
      BY DEF AppGone, TypeInv, TypeOK, AppType, Forgotten
<1>2. \A i \in PaymentsAt(queue'[d]) : i \in PaymentsAt(queue[d]) /\ queue'[d][i] = queue[d][i]
      BY KilledPayments
<1>3. CopiesBacked(d)'
      BY <1>1 DEF CopiesBacked, Funds
<1>4. Budget(Owner[d])' = Budget(Owner[d])
      BY <1>1 DEF Budget, Newest
<1>5. Chain(d)'
      BY <1>2, <1>4 DEF Chain
<1>6. AnswersBacked(d)'
  <2>1. Len(answers'[d]) = 0
        BY <1>1, ForgottenAnswers
  <2>2. \A k \in PaymentsAt(queue'[d]) : ~(k <= 0)
    <3>1. \A k \in PaymentsAt(queue[d]) : k \in Nat \ {0}
          BY AccountNumbers
    <3> QED
        BY <1>2, <3>1
  <2> QED
      BY <2>1, <2>2 DEF AnswersBacked
<1>7. 0 <= Budget(Owner[d])
  <2> DEFINE n == Len(versions[Owner[d]])
  <2>1. /\ versions[Owner[d]][n].numStamps \in Int /\ Budget(Owner[d]) = Funds(Owner[d], n)
        /\ Funds(Owner[d], n) \in Int /\ n \in known[d] .. n /\ n \in 1 .. n /\ Owner[d] \in Users
        BY AccountNumbers
  <2>2. versions[Owner[d]][n].numStamps <= Funds(Owner[d], n)
        BY <2>1 DEF CopiesBacked
  <2>3. versions[Owner[d]][n].numStamps >= 0
        BY <2>1 DEF FloorInv, Covers
  <2> QED
      BY <2>1, <2>2, <2>3
<1>8. \A i \in PaymentsAt(queue'[d]) : 0 <= queue'[d][i].val
  <2>1. \A i \in PaymentsAt(queue[d]) : queue[d][i].val \in Int /\ queue[d][i].val >= 0
        BY AccountNumbers DEF FloorInv, Covers
  <2> QED
      BY <1>2, <2>1
<1>9. CacheBacked(d)'
      BY <1>1, <1>4, <1>7, <1>8 DEF CacheBacked
<1> QED
    BY <1>3, <1>5, <1>6, <1>9

LEMMA SnapshotAccount ==
    ASSUME TypeInv, NEW d \in Devices, CreditsGrow, AccountInv(d), UserSnapshot(d)
    PROVE  AccountInv(d)'
<1> USE DEF AccountInv, serverVars, storeVars, historyVars
<1>1. UNCHANGED <<versions, known, queue, answers, charged, loading>> /\ echoed'[d]
      BY DEF UserSnapshot, TypeInv, TypeOK, AppType
<1>2. PICK v : IsLocalView(d, v) /\ currentUserNumStamps'[d] = v
      BY DEF UserSnapshot, TypeInv, TypeOK, AppType
<1>3. Budget(Owner[d])' = Budget(Owner[d])
      BY <1>1 DEF Budget, Newest
<1>4. CopiesBacked(d)' /\ Chain(d)' /\ AnswersBacked(d)'
      BY <1>1, <1>3 DEF CopiesBacked, Chain, AnswersBacked, Funds
<1>5. v <= Budget(Owner[d]) /\ \A i \in PaymentsAt(queue[d]) : v <= queue[d][i].val
  <2>1. CASE PaymentsAt(queue[d]) = {} /\ v = Copy(d)
    <3> DEFINE u == Owner[d]
               n == Len(versions[u])
    <3>1. /\ u \in Users /\ n \in Nat \ {0} /\ n \in 1 .. n /\ known[d] \in 1 .. n
          /\ known[d] <= n /\ known[d] \in known[d] .. n
          /\ Budget(u) = Funds(u, n) /\ InitStamps[u] \in Nat /\ charged[u] \in Nat
          BY AccountNumbers
    <3>2. versions[u][known[d]].numStamps <= Funds(u, known[d])
          BY <3>1 DEF CopiesBacked
    <3>3. versions[u][known[d]].credited <= versions[u][n].credited
          BY <3>1 DEF CreditsGrow
    <3>4. /\ versions[u][known[d]].numStamps \in Int
          /\ versions[u][known[d]].credited \in Nat /\ versions[u][n].credited \in Nat
          BY <3>1, AccountNumbers
    <3>5. Copy(d) <= Budget(u)
          BY <3>1, <3>2, <3>3, <3>4, SMTT(30) DEF Copy, Funds
    <3> QED
        BY <2>1, <3>5
  <2>2. ASSUME NEW i \in PaymentsAt(queue[d]), \A j \in PaymentsAt(queue[d]) : j <= i,
               v = queue[d][i].val
        PROVE  v <= Budget(Owner[d]) /\ \A j \in PaymentsAt(queue[d]) : v <= queue[d][j].val
    <3>1. /\ v \in Int /\ queue[d][i].cost \in Nat /\ Budget(Owner[d]) \in Int
          /\ \A j \in PaymentsAt(queue[d]) : j \in Nat /\ queue[d][j].val \in Int
          BY <2>2, AccountNumbers
    <3>2. /\ v <= Budget(Owner[d]) - queue[d][i].cost
          /\ \A j \in PaymentsAt(queue[d]) : j < i => v <= queue[d][j].val - queue[d][i].cost
          BY <2>2 DEF Chain
    <3>3. \A j \in PaymentsAt(queue[d]) : j < i \/ j = i
          BY <2>2, <3>1
    <3> QED
        BY <2>2, <3>1, <3>2, <3>3
  <2> QED
      BY <1>2, <2>1, <2>2 DEF IsLocalView
<1>6. CacheBacked(d)'
      BY <1>1, <1>2, <1>3, <1>5 DEF CacheBacked
<1> QED
    BY <1>4, <1>6

LEMMA WatchAccount ==
    ASSUME TypeInv, NEW d \in Devices, AccountInv(d), Watch(d)
    PROVE  AccountInv(d)'
<1> USE DEF AccountInv, serverVars, appVars, historyVars
<1>1. UNCHANGED <<versions, queue, answers, charged, currentUserNumStamps, echoed, loading>>
      BY DEF Watch
<1>2. PICK v \in 1 .. Len(versions[Owner[d]]) : known[d] < v /\ known'[d] = v
      BY DEF Watch, TypeInv, TypeOK, StoreType
<1>3. Budget(Owner[d])' = Budget(Owner[d])
      BY <1>1 DEF Budget, Newest
<1>4. \A w \in v .. Len(versions[Owner[d]]) : w \in known[d] .. Len(versions[Owner[d]])
  <2>1. known[d] \in Nat /\ v \in Nat /\ known[d] < v /\ Len(versions[Owner[d]]) \in Nat
        BY <1>2, AccountNumbers
  <2> QED
      BY ONLY <2>1
<1>5. CopiesBacked(d)'
      BY <1>1, <1>2, <1>4 DEF CopiesBacked, Funds
<1> QED
    BY <1>1, <1>3, <1>5 DEF Chain, AnswersBacked, CacheBacked, Funds

LEMMA AppliedAccount ==
    ASSUME TypeInv, CreditsGrow, NEW d \in Devices, AccountInv(d), PaymentApplied(d)
    PROVE  AccountInv(d)' /\ CreditsGrow'
<1> USE DEF AccountInv, appVars, historyVars
<1> DEFINE may(doc, v) == InitStamps[Owner[d]] + doc[v].credited - charged[Owner[d]]
<1>0. PICK u, n, m, p, val, sum, cost :
         /\ u = Owner[d] /\ n = Len(versions[u]) /\ m = n + 1 /\ p = NextSent(d)
         /\ val = queue[d][p].val /\ cost = queue[d][p].cost /\ sum = versions[u][n].credited
      OBVIOUS
<1>1. UNCHANGED <<known, queue, charged, currentUserNumStamps, echoed, loading>>
      BY DEF PaymentApplied
<1>2. /\ p \in PaymentsAt(queue[d]) /\ p = Len(answers[d]) + 1 /\ Len(answers[d]) \in Nat
      /\ Len(versions'[u]) = m
      /\ \A v \in 1 .. n : versions'[u][v] = versions[u][v]
      /\ versions'[u][m].numStamps = val
      /\ versions'[u][m].credited = sum
      /\ \A x \in Users \ {u} : versions'[x] = versions[x]
      /\ Len(answers'[d]) = p /\ answers'[d][p] = m
      /\ \A k \in 1 .. Len(answers[d]) : answers'[d][k] = answers[d][k]
      BY <1>0, AppliedPayment
<1>3. /\ u \in Users /\ n \in Nat \ {0} /\ n \in 1 .. n /\ m \in Nat /\ known[d] \in 1 .. n
      /\ InitStamps[u] \in Nat /\ charged[u] \in Nat /\ Budget(u) = may(versions[u], n)
      /\ \A v \in 1 .. n : versions[u][v].numStamps \in Int /\ versions[u][v].credited \in Nat
      /\ \A k \in 1 .. Len(answers[d]) : answers[d][k] \in 1 .. n
      /\ \A i \in PaymentsAt(queue[d]) :
            i \in Nat \ {0} /\ queue[d][i].val \in Int /\ queue[d][i].cost \in Nat
      BY <1>0, AccountNumbers DEF Funds
<1>4. /\ val \in Int /\ sum \in Nat /\ cost \in Nat
      BY <1>0, <1>2, <1>3, SMTT(30)
<1>5. CreditsGrow'
  <2>1. versions'[u][m].credited >= versions[u][n].credited
        BY <1>0, <1>2, <1>4
  <2> QED
      BY <1>0, <1>2, <1>3, <1>4, <2>1, CreditsStillGrow, ZenonT(60)
<1>6. /\ \A v \in 1 .. n : may(versions'[u], v) = may(versions[u], v)
      /\ may(versions'[u], m) = may(versions[u], n)
      /\ Budget(u)' = Budget(u)
  <2>1. Budget(u)' = may(versions'[u], m)
        BY <1>0, <1>1, <1>2 DEF Budget, Newest
  <2> QED
      BY <1>0, <1>2, <1>3, <2>1
<1>7. val <= may(versions[u], n) - cost /\ may(versions[u], n) \in Int
  <2>1. val <= Budget(u) - cost
        BY <1>0, <1>2 DEF Chain
  <2>2. may(versions[u], n) \in Int
    <3>1. versions[u][n].credited \in Nat
          BY <1>3
    <3> QED
        BY ONLY <3>1, <1>0, <1>3
  <2> HIDE DEF may
  <2> QED
      BY <2>1, <2>2, <1>3
<1> HIDE DEF may
<1>8. CopiesBacked(d)'
  <2>1. ASSUME NEW v \in known[d] .. m
        PROVE  versions'[u][v].numStamps <= may(versions'[u], v)
    <3>1. CASE v \in 1 .. n
      <4>1. v \in known[d] .. n
            BY <3>1, <1>3
      <4>2. versions[u][v].numStamps <= may(versions[u], v)
            BY <4>1, <1>0 DEF CopiesBacked, Funds, may
      <4> QED
          BY <3>1, <4>2, <1>2, <1>6
    <3>2. CASE v = m
      <4>1. val <= may(versions[u], n)
            BY <1>4, <1>7
      <4> QED
          BY <3>2, <4>1, <1>2, <1>6
    <3> QED
        BY <3>1, <3>2, <1>0, <1>3
  <2> QED
      BY <2>1, <1>0, <1>1, <1>2 DEF CopiesBacked, Funds, may
<1>9. Chain(d)' /\ CacheBacked(d)'
      BY <1>0, <1>1, <1>6 DEF Chain, CacheBacked
<1>10. AnswersBacked(d)'
  <2>1. ASSUME NEW k \in PaymentsAt(queue[d]), k <= p
        PROVE  /\ queue[d][k].val <= may(versions'[u], answers'[d][k]) - queue[d][k].cost
               /\ \A v \in answers'[d][k] .. m :
                     versions'[u][v].numStamps - versions'[u][v].credited
                       <= queue[d][k].val - versions'[u][answers'[d][k]].credited
    <3>0. k \in Nat \ {0}
          BY <1>3
    <3>1. CASE k = p
      <4>1. answers'[d][k] = m /\ \A v \in m .. m : v = m
            BY <3>1, <1>2, <1>3
      <4>2. versions'[u][m].numStamps - versions'[u][m].credited
                <= queue[d][k].val - versions'[u][m].credited
        <5>1. val - sum <= val - sum
              BY <1>4
        <5> QED
            BY <5>1, <3>1, <1>0, <1>2
      <4>3. queue[d][k].val <= may(versions'[u], m) - queue[d][k].cost
            BY <3>1, <1>0, <1>6, <1>7
      <4> QED
          BY ONLY <4>1, <4>2, <4>3
    <3>2. CASE k < p
      <4>0. PICK a : a = answers[d][k]
            OBVIOUS
      <4>1. k \in 1 .. Len(answers[d]) /\ k <= Len(answers[d])
            BY ONLY <3>0, <3>2, <1>2
      <4>2. answers'[d][k] = a /\ a \in 1 .. n
            BY <4>0, <4>1, <1>2, <1>3
      <4>3. /\ queue[d][k].val <= may(versions[u], a) - queue[d][k].cost
            /\ \A v \in a .. n : versions[u][v].numStamps - versions[u][v].credited
                                    <= queue[d][k].val - versions[u][a].credited
            BY <4>0, <4>1, <1>0 DEF AnswersBacked, Funds, may
      <4>4. may(versions'[u], a) = may(versions[u], a) /\ versions'[u][a] = versions[u][a]
            BY <4>2, <1>2, <1>6
      <4>5. val - sum <= queue[d][k].val - versions[u][a].credited
        <5>1. val <= queue[d][k].val - cost
              BY <3>2, <1>0, <1>2 DEF Chain
        <5>2. versions[u][a].credited <= sum
          <6>1. a <= n
                BY <4>2, <1>3
          <6> QED
              BY <6>1, <4>2, <1>0, <1>3 DEF CreditsGrow
        <5>3. versions[u][a].credited \in Nat /\ queue[d][k].val \in Int
              BY <4>2, <1>3
        <5> QED
            BY ONLY <5>1, <5>2, <5>3, <1>4
      <4>6. \A v \in a .. m : (v \in a .. n /\ v \in 1 .. n) \/ v = m
            BY <4>2, <1>0, <1>3
      <4>7. ASSUME NEW v \in a .. m
            PROVE  versions'[u][v].numStamps - versions'[u][v].credited
                      <= queue[d][k].val - versions'[u][a].credited
        <5>1. CASE v \in a .. n /\ v \in 1 .. n
              BY <5>1, <4>3, <4>4, <1>2
        <5>2. CASE v = m
              BY <5>2, <4>4, <4>5, <1>2
        <5> QED
            BY <5>1, <5>2, <4>6
      <4> QED
          BY <4>2, <4>3, <4>4, <4>7
    <3>3. k = p \/ k < p
          BY ONLY <3>0, <2>1, <1>2
    <3> QED
        BY <3>1, <3>2, <3>3
  <2> QED
      BY <2>1, <1>0, <1>1, <1>2 DEF AnswersBacked, Funds, may
<1> QED
    BY <1>5, <1>8, <1>9, <1>10

LEMMA DeliveredAccount ==
    ASSUME TypeInv, NEW d \in Devices, AccountInv(d), ProductApplied(d)
    PROVE  AccountInv(d)'
<1> USE DEF AccountInv, appVars, historyVars
<1>1. UNCHANGED <<versions, known, queue, charged, currentUserNumStamps, echoed, loading>>
      BY DEF ProductApplied
<1>2. Budget(Owner[d])' = Budget(Owner[d])
      BY <1>1 DEF Budget, Newest
<1>3. CopiesBacked(d)' /\ Chain(d)' /\ CacheBacked(d)'
      BY <1>1, <1>2 DEF CopiesBacked, Chain, CacheBacked, Funds
<1>4. ASSUME NEW k \in PaymentsAt(queue[d]), k <= Len(answers'[d])
      PROVE  k <= Len(answers[d]) /\ answers'[d][k] = answers[d][k]
  <2> DEFINE p == NextSent(d)
  <2>1. /\ queue[d][p].type = "product" /\ p = Len(answers[d]) + 1 /\ Len(answers'[d]) = p
        /\ Len(answers[d]) \in Nat
        /\ \A j \in 1 .. Len(answers[d]) : answers'[d][j] = answers[d][j]
        BY AppliedProduct
  <2>2. k # p /\ k \in Nat \ {0}
        BY <2>1, PaymentPositions, AccountNumbers
  <2> HIDE DEF p
  <2>3. k <= Len(answers[d]) /\ k \in 1 .. Len(answers[d])
        BY <2>1, <2>2, <1>4
  <2> QED
      BY <2>1, <2>3
<1>5. AnswersBacked(d)'
      BY <1>1, <1>4 DEF AnswersBacked, Funds
<1> QED
    BY <1>3, <1>5

LEMMA RepeatedAccount ==
    ASSUME TypeInv, NEW d \in Devices, AccountInv(d), Repeated(d)
    PROVE  AccountInv(d)'
<1> USE DEF AccountInv
<1>1. UNCHANGED <<versions, known, queue, charged, currentUserNumStamps, echoed, loading>>
      BY DEF Repeated
<1>2. Budget(Owner[d])' = Budget(Owner[d])
      BY <1>1 DEF Budget, Newest
<1>3. CopiesBacked(d)' /\ Chain(d)' /\ CacheBacked(d)'
      BY <1>1, <1>2 DEF CopiesBacked, Chain, CacheBacked, Funds
<1>4. Len(answers'[d]) = 0
      BY ForgottenAnswers DEF Repeated
<1>5. \A k \in PaymentsAt(queue[d]) : ~(k <= 0)
  <2>1. \A k \in PaymentsAt(queue[d]) : k \in Nat \ {0}
        BY AccountNumbers
  <2> QED
      BY ONLY <2>1
<1>6. AnswersBacked(d)'
      BY <1>1, <1>4, <1>5 DEF AnswersBacked
<1> QED
    BY <1>3, <1>6

\* Chain and cache when the oldest write leaves and nothing is charged.
LEMMA DroppedAccount ==
    ASSUME TypeInv, NEW d \in Devices, AccountInv(d), Dropped(d)
    PROVE  AccountInv(d)'
<1> USE DEF AccountInv
<1>1. /\ UNCHANGED <<versions, known, charged, currentUserNumStamps, echoed, loading>>
      /\ Leaves(d)
      BY DEF Dropped
<1>2. Budget(Owner[d])' = Budget(Owner[d])
      BY <1>1 DEF Budget, Newest
<1>3. ASSUME NEW i \in PaymentsAt(queue'[d])
      PROVE  i + 1 \in PaymentsAt(queue[d]) /\ i \in Nat \ {0} /\ queue'[d][i] = queue[d][i + 1]
      BY <1>1, SentPayments
<1>4. \A i, j \in PaymentsAt(queue'[d]) : j < i => j + 1 < i + 1
      BY <1>3
<1>5. CopiesBacked(d)'
      BY <1>1 DEF CopiesBacked, Funds
<1>6. Chain(d)'
      BY <1>2, <1>3, <1>4 DEF Chain
<1>7. CacheBacked(d)'
      BY <1>1, <1>2, <1>3 DEF CacheBacked
<1>8. AnswersBacked(d)'
  <2>1. CASE Heard(d)
    <3>1. ASSUME NEW k \in PaymentsAt(queue'[d]), k <= Len(answers'[d])
          PROVE  k + 1 <= Len(answers[d]) /\ answers'[d][k] = answers[d][k + 1]
      <4>1. /\ Len(answers[d]) \in Nat \ {0} /\ Len(answers'[d]) = Len(answers[d]) - 1
            /\ \A j \in 1 .. Len(answers'[d]) : answers'[d][j] = answers[d][j + 1]
            BY <2>1, HeardAnswers
      <4>2. k \in Nat \ {0}
            BY <1>3
      <4>3. k + 1 <= Len(answers[d]) /\ k \in 1 .. Len(answers'[d])
            BY ONLY <3>1, <4>1, <4>2
      <4> QED
          BY <4>1, <4>3
    <3>2. ASSUME NEW k \in PaymentsAt(queue'[d]), k <= Len(answers'[d])
          PROVE  LET a == answers'[d][k] IN
                 /\ queue'[d][k].val <= Funds(Owner[d], a) - queue'[d][k].cost
                 /\ \A v \in a .. Len(versions[Owner[d]]) :
                       versions[Owner[d]][v].numStamps - versions[Owner[d]][v].credited
                         <= queue'[d][k].val - versions[Owner[d]][a].credited
          BY <3>1, <3>2, <1>3 DEF AnswersBacked
    <3> QED
        BY <3>2, <1>1 DEF AnswersBacked, Funds
  <2>2. CASE Forgotten(d)
    <3>1. Len(answers'[d]) = 0
          BY <2>2, ForgottenAnswers
    <3>2. \A k \in PaymentsAt(queue'[d]) : ~(k <= 0)
          BY <1>3
    <3> QED
        BY <3>1, <3>2 DEF AnswersBacked
  <2> QED
      BY <2>1, <2>2 DEF Dropped
<1> QED
    BY <1>5, <1>6, <1>7, <1>8

LEMMA AcknowledgedAccount ==
    ASSUME TypeInv, CreditsGrow, NEW d \in Devices, AccountInv(d), PaymentAcknowledged(d)
    PROVE  AccountInv(d)'
<1> USE DEF AccountInv
<1> DEFINE may(v) == InitStamps[Owner[d]] + versions[Owner[d]][v].credited - charged[Owner[d]]
<1>0. PICK u, n, a, val, cost :
         /\ u = Owner[d] /\ n = Len(versions[u]) /\ a = answers[d][1]
         /\ val = queue[d][1].val /\ cost = queue[d][1].cost
      OBVIOUS
<1>1. /\ Leaves(d) /\ Heard(d) /\ 1 \in PaymentsAt(queue[d]) /\ a \in 1 .. n
      /\ known'[d] = (IF a > known[d] THEN a ELSE known[d])
      /\ charged'[u] = charged[u] + cost
      /\ UNCHANGED <<versions, currentUserNumStamps, echoed, loading>>
      BY <1>0, AcknowledgedPayment
<1>2. /\ u \in Users /\ n \in Nat \ {0} /\ n \in 1 .. n /\ known[d] \in 1 .. n
      /\ InitStamps[u] \in Nat /\ charged[u] \in Nat /\ Budget(u) = may(n)
      /\ currentUserNumStamps[d] \in Int
      /\ \A v \in 1 .. n : versions[u][v].numStamps \in Int /\ versions[u][v].credited \in Nat
      /\ \A k \in 1 .. Len(answers[d]) : answers[d][k] \in 1 .. n
      /\ \A i \in PaymentsAt(queue[d]) :
            i \in Nat \ {0} /\ queue[d][i].val \in Int /\ queue[d][i].cost \in Nat
      BY <1>0, AccountNumbers DEF Funds
<1>3. val \in Int /\ cost \in Nat /\ \A v \in 1 .. n : may(v) \in Int
  <2>1. val \in Int /\ cost \in Nat
        BY <1>0, <1>1, <1>2
  <2>2. \A v \in 1 .. n : may(v) \in Int
        BY <1>0, <1>2
  <2> QED
      BY <2>1, <2>2
<1>4. /\ \A v \in 1 .. n : InitStamps[u] + versions'[u][v].credited - charged'[u] = may(v) - cost
      /\ Budget(u)' = Budget(u) - cost
  <2>1. ASSUME NEW v \in 1 .. n
        PROVE  InitStamps[u] + versions'[u][v].credited - charged'[u] = may(v) - cost
    <3>1. PICK init, sum, c : init = InitStamps[u] /\ sum = versions[u][v].credited /\ c = charged[u]
          OBVIOUS
    <3>2. init \in Nat /\ sum \in Nat /\ c \in Nat
          BY <3>1, <1>2
    <3>3. init + sum - (c + cost) = (init + sum - c) - cost
          BY ONLY <3>2, <1>3
    <3>4. versions'[u][v].credited = sum /\ charged'[u] = c + cost /\ may(v) = init + sum - c
          BY <3>1, <1>0, <1>1
    <3> QED
        BY ONLY <3>1, <3>3, <3>4
  <2>2. Budget(u)' = InitStamps[u] + versions'[u][n].credited - charged'[u]
        BY <1>0, <1>1 DEF Budget, Newest
  <2> HIDE DEF may
  <2> QED
      BY <2>1, <2>2, <1>2
<1>5. /\ val <= may(a) - cost
      /\ \A v \in a .. n : versions[u][v].numStamps - versions[u][v].credited
                              <= val - versions[u][a].credited
  <2>1. 1 <= Len(answers[d])
    <3>1. Len(answers[d]) \in Nat \ {0}
          BY <1>1, HeardAnswers
    <3> QED
        BY ONLY <3>1
  <2> QED
      BY <2>1, <1>0, <1>1 DEF AnswersBacked, Funds
<1>6. ASSUME NEW i \in PaymentsAt(queue'[d])
      PROVE  /\ i + 1 \in PaymentsAt(queue[d]) /\ i \in Nat \ {0} /\ 1 < i + 1
             /\ queue'[d][i] = queue[d][i + 1]
             /\ queue[d][i + 1].val \in Int /\ queue[d][i + 1].cost \in Nat
             /\ queue[d][i + 1].val <= val - queue[d][i + 1].cost
  <2>1. /\ i + 1 \in PaymentsAt(queue[d]) /\ i \in Nat \ {0}
        /\ queue'[d][i] = queue[d][i + 1]
        BY <1>1, SentPayments
  <2>2. 1 < i + 1
        BY <2>1
  <2> QED
      BY <2>1, <2>2, <1>0, <1>1, <1>2 DEF Chain
<1>7. CopiesBacked(d)'
  <2>1. ASSUME NEW v \in a .. n
        PROVE  versions[u][v].numStamps <= may(v) - cost
    <3>1. v \in 1 .. n
          BY <1>1, <1>2
    <3>2. /\ versions[u][v].numStamps - versions[u][v].credited <= val - versions[u][a].credited
          /\ versions[u][v].numStamps \in Int /\ versions[u][v].credited \in Nat
          /\ versions[u][a].credited \in Nat
          BY <3>1, <1>1, <1>2, <1>5
    <3>3. PICK init, c, stamps, sum, old :
             /\ init = InitStamps[u] /\ c = charged[u] /\ stamps = versions[u][v].numStamps
             /\ sum = versions[u][v].credited /\ old = versions[u][a].credited
          OBVIOUS
    <3>4. /\ init \in Nat /\ c \in Nat /\ stamps \in Int /\ sum \in Nat /\ old \in Nat
          /\ stamps - sum <= val - old
          BY <3>2, <3>3, <1>2
    <3>5. val <= (init + old - c) - cost /\ may(v) = init + sum - c
          BY <3>3, <1>0, <1>5
    <3>6. stamps <= (init + sum - c) - cost
          BY ONLY <3>4, <3>5, <1>3
    <3> QED
        BY ONLY <3>3, <3>5, <3>6
  <2>2. \A v \in known'[d] .. n : v \in a .. n /\ v \in 1 .. n
    <3>1. known'[d] \in Nat /\ known'[d] >= a /\ a \in Nat /\ a >= 1
          BY <1>1, <1>2
    <3> QED
        BY ONLY <3>1, <1>2
  <2> HIDE DEF may
  <2>3. \A v \in known'[d] .. n :
           versions'[u][v].numStamps <= InitStamps[u] + versions'[u][v].credited - charged'[u]
        BY <2>1, <2>2, <1>1, <1>4
  <2> QED
      BY <2>3, <1>0, <1>1 DEF CopiesBacked, Funds
<1>8. Chain(d)'
  <2>1. ASSUME NEW i \in PaymentsAt(queue'[d])
        PROVE  queue'[d][i].val <= Budget(u)' - queue'[d][i].cost
    <3>1. val <= Budget(u) - cost
          BY <1>0, <1>1 DEF Chain
    <3>2. Budget(u) \in Int
          BY <1>2, <1>3
    <3>3. queue'[d][i] = queue[d][i + 1] /\ queue[d][i + 1].val \in Int
          /\ queue[d][i + 1].cost \in Nat /\ queue[d][i + 1].val <= val - queue[d][i + 1].cost
          BY <1>6
    <3>4. queue[d][i + 1].val <= Budget(u) - cost - queue[d][i + 1].cost
          BY ONLY <3>1, <3>2, <3>3, <1>3
    <3> QED
        BY <3>3, <3>4, <1>4
  <2>2. \A i, j \in PaymentsAt(queue'[d]) : j < i =>
            queue'[d][i].val <= queue'[d][j].val - queue'[d][i].cost
    <3>1. \A i, j \in PaymentsAt(queue'[d]) : j < i => j + 1 < i + 1
          BY <1>6
    <3> QED
        BY <3>1, <1>6 DEF Chain
  <2> QED
      BY <2>1, <2>2, <1>0 DEF Chain
<1>9. CacheBacked(d)'
  <2>1. ~loading[d] => echoed[d]
        BY DEF CacheBacked
  <2>2. ASSUME echoed[d] PROVE currentUserNumStamps[d] <= Budget(u)'
    <3>1. currentUserNumStamps[d] <= val
          BY <2>2, <1>0, <1>1 DEF CacheBacked
    <3>2. val <= Budget(u) - cost
          BY <1>0, <1>1 DEF Chain
    <3>3. Budget(u) \in Int
          BY <1>2, <1>3
    <3> QED
        BY <3>1, <3>2, <3>3, <1>2, <1>3, <1>4
  <2>3. ASSUME echoed[d], NEW i \in PaymentsAt(queue'[d])
        PROVE  currentUserNumStamps[d] <= queue'[d][i].val
        BY <2>3, <1>6 DEF CacheBacked
  <2> QED
      BY <2>1, <2>2, <2>3, <1>0, <1>1 DEF CacheBacked
<1>10. AnswersBacked(d)'
  <2>1. ASSUME NEW k \in PaymentsAt(queue'[d]), k <= Len(answers'[d])
        PROVE  LET b == answers'[d][k] IN
               /\ queue'[d][k].val
                    <= (InitStamps[u] + versions'[u][b].credited - charged'[u]) - queue'[d][k].cost
               /\ \A v \in b .. n : versions[u][v].numStamps - versions[u][v].credited
                                       <= queue'[d][k].val - versions[u][b].credited
    <3>0. PICK b : b = answers[d][k + 1]
          OBVIOUS
    <3>1. /\ Len(answers[d]) \in Nat \ {0} /\ Len(answers'[d]) = Len(answers[d]) - 1
          /\ \A j \in 1 .. Len(answers'[d]) : answers'[d][j] = answers[d][j + 1]
          BY <1>1, HeardAnswers
    <3>2. k \in Nat \ {0}
          BY <1>6
    <3>3. /\ k + 1 <= Len(answers[d]) /\ k + 1 \in 1 .. Len(answers[d]) /\ 1 \in 1 .. Len(answers[d])
          /\ k \in 1 .. Len(answers'[d]) /\ 1 <= k + 1
          BY ONLY <2>1, <3>1, <3>2
    <3>4. answers'[d][k] = b /\ b \in 1 .. n
          BY <3>0, <3>1, <3>3, <1>2
    <3>5. \A v \in b .. n : versions[u][v].numStamps - versions[u][v].credited
                              <= queue'[d][k].val - versions[u][b].credited
          BY <3>0, <3>3, <1>0, <1>6 DEF AnswersBacked
    <3>6. a <= b
          BY <3>0, <3>3, <1>0 DEF TypeInv, Issued
    <3>7. versions[u][a].credited <= versions[u][b].credited
          BY <3>4, <3>6, <1>0, <1>1, <1>2 DEF CreditsGrow
    <3>8. PICK init, c, old, new, x, y :
             /\ init = InitStamps[u] /\ c = charged[u] /\ x = queue'[d][k].val
             /\ y = queue'[d][k].cost
             /\ old = versions[u][a].credited /\ new = versions[u][b].credited
          OBVIOUS
    <3>9. /\ init \in Nat /\ c \in Nat /\ old \in Nat /\ new \in Nat /\ old <= new
          /\ x \in Int /\ y \in Nat /\ x <= val - y
          BY <3>4, <3>7, <3>8, <1>1, <1>2, <1>6
    <3>10. val <= (init + old - c) - cost
          BY <3>8, <1>0, <1>5
    <3>11. x <= (init + new - (c + cost)) - y
          BY ONLY <3>9, <3>10, <1>3
    <3>12. versions'[u][b].credited = new /\ charged'[u] = c + cost
          BY <3>8, <1>1
    <3> QED
        BY <3>4, <3>5, <3>8, <3>11, <3>12
  <2> QED
      BY <2>1, <1>0, <1>1 DEF AnswersBacked, Funds
<1> QED
    BY <1>7, <1>8, <1>9, <1>10

\* A credit, of any account, seen from a device.
LEMMA CreditedAccount ==
    ASSUME TypeInv, CreditsGrow, NEW d \in Devices, AccountInv(d), Credited
    PROVE  AccountInv(d)'
<1> USE DEF AccountInv
<1> DEFINE may(doc, v) == InitStamps[Owner[d]] + doc[v].credited - charged[Owner[d]]
<1>0. PICK u, n, m : u = Owner[d] /\ n = Len(versions[u]) /\ m = n + 1
      OBVIOUS
<1>1. /\ UNCHANGED <<known, queue, answers, currentUserNumStamps, echoed, loading, charged>>
      BY DEF Credited
<1>2. PICK x \in Users, g \in Nat : Credit(x, g)
      BY DEF Credited
<1>3. CASE x # u
  <2>1. versions'[u] = versions[u]
        BY <1>0, <1>2, <1>3, CreditType, ConstantFacts DEF TypeInv
  <2> QED
      BY <2>1, <1>0, <1>1, Untouched
<1>4. CASE x = u
  <2>1. /\ u \in Users /\ n \in Nat \ {0} /\ n \in 1 .. n /\ m \in Nat /\ known[d] \in 1 .. n
        /\ InitStamps[u] \in Nat /\ charged[u] \in Nat /\ Budget(u) = may(versions[u], n)
        /\ currentUserNumStamps[d] \in Int
        /\ \A v \in 1 .. n : versions[u][v].numStamps \in Int /\ versions[u][v].credited \in Nat
        /\ \A k \in 1 .. Len(answers[d]) : answers[d][k] \in 1 .. n
        /\ \A i \in PaymentsAt(queue[d]) :
              i \in Nat \ {0} /\ queue[d][i].val \in Int /\ queue[d][i].cost \in Nat
        BY <1>0, AccountNumbers, SMTT(30) DEF Funds
  <2>2. PICK stamps, sum : stamps = versions[u][n].numStamps /\ sum = versions[u][n].credited
        OBVIOUS
  <2>3. /\ Len(versions'[u]) = m
        /\ \A v \in 1 .. n : versions'[u][v] = versions[u][v]
        /\ versions'[u][m].numStamps = stamps + g
        /\ versions'[u][m].credited = sum + g
        BY <1>0, <1>2, <1>4, <2>2, CreditType DEF TypeInv, Newest
  <2>4. stamps \in Int /\ sum \in Nat
        BY <2>1, <2>2
  <2>5. /\ \A v \in 1 .. n : may(versions'[u], v) = may(versions[u], v)
        /\ may(versions'[u], m) = may(versions[u], n) + g /\ may(versions[u], n) \in Int
    <3>1. \A v \in 1 .. n : may(versions'[u], v) = may(versions[u], v)
          BY <2>3
    <3>2. may(versions'[u], m) = InitStamps[u] + (sum + g) - charged[u]
          BY <2>3, <1>0
    <3>3. may(versions[u], n) = InitStamps[u] + sum - charged[u]
          BY <2>2, <1>0
    <3> HIDE DEF may
    <3>4. may(versions'[u], m) = may(versions[u], n) + g /\ may(versions[u], n) \in Int
          BY ONLY <3>2, <3>3, <2>1, <2>4, <1>2
    <3> QED
        BY <3>1, <3>4
  <2>6. Budget(u)' = may(versions'[u], m)
        BY <2>3, <1>0, <1>1 DEF Budget, Newest
  <2> HIDE DEF may
  <2>7. Budget(u)' = Budget(u) + g /\ Budget(u) \in Int
        BY <2>1, <2>5, <2>6
  <2>8. CopiesBacked(d)'
    <3>1. ASSUME NEW v \in known[d] .. m
          PROVE  versions'[u][v].numStamps <= may(versions'[u], v)
      <4>1. CASE v \in 1 .. n
        <5>1. v \in known[d] .. n
              BY <4>1, <2>1
        <5>2. versions[u][v].numStamps <= may(versions[u], v)
              BY <5>1, <1>0 DEF CopiesBacked, Funds, may
        <5> QED
            BY <4>1, <5>2, <2>3, <2>5
      <4>2. CASE v = m
        <5>1. n \in known[d] .. n
              BY <2>1
        <5>2. stamps <= may(versions[u], n)
              BY <5>1, <2>2, <1>0 DEF CopiesBacked, Funds, may
        <5>3. stamps + g <= may(versions[u], n) + g
              BY ONLY <5>2, <2>4, <2>5, <1>2
        <5> QED
            BY <4>2, <5>3, <2>3, <2>5
      <4> QED
          BY <4>1, <4>2, <1>0, <2>1
    <3> QED
        BY <3>1, <2>3, <1>0, <1>1 DEF CopiesBacked, Funds, may
  <2>9. Chain(d)'
    <3>1. ASSUME NEW i \in PaymentsAt(queue[d])
          PROVE  queue[d][i].val <= Budget(u)' - queue[d][i].cost
      <4>1. /\ queue[d][i].val <= Budget(u) - queue[d][i].cost
            /\ queue[d][i].val \in Int /\ queue[d][i].cost \in Nat
            BY <2>1, <1>0 DEF Chain
      <4> QED
          BY ONLY <4>1, <2>7, <1>2
    <3> QED
        BY <3>1, <1>0, <1>1 DEF Chain
  <2>10. CacheBacked(d)'
    <3>1. ASSUME currentUserNumStamps[d] <= Budget(u)
          PROVE  currentUserNumStamps[d] <= Budget(u)'
          BY ONLY <3>1, <2>1, <2>7, <1>2
    <3> QED
        BY <3>1, <1>0, <1>1 DEF CacheBacked
  <2>11. AnswersBacked(d)'
    <3>1. ASSUME NEW k \in PaymentsAt(queue[d]), k <= Len(answers[d])
          PROVE  /\ queue[d][k].val <= may(versions'[u], answers[d][k]) - queue[d][k].cost
                 /\ \A v \in answers[d][k] .. m :
                       versions'[u][v].numStamps - versions'[u][v].credited
                         <= queue[d][k].val - versions'[u][answers[d][k]].credited
      <4>0. PICK a : a = answers[d][k]
            OBVIOUS
      <4>1. a \in 1 .. n
        <5>1. k \in Nat \ {0} /\ Len(answers[d]) \in Nat
              BY <2>1, AccountNumbers
        <5>2. k \in 1 .. Len(answers[d])
              BY ONLY <3>1, <5>1
        <5> QED
            BY <4>0, <5>2, <2>1
      <4>2. /\ queue[d][k].val <= may(versions[u], a) - queue[d][k].cost
            /\ \A v \in a .. n : versions[u][v].numStamps - versions[u][v].credited
                                    <= queue[d][k].val - versions[u][a].credited
            BY <4>0, <3>1, <1>0 DEF AnswersBacked, Funds, may
      <4>3. versions'[u][a] = versions[u][a] /\ may(versions'[u], a) = may(versions[u], a)
            BY <4>1, <2>3, <2>5
      <4>4. (stamps + g) - (sum + g) <= queue[d][k].val - versions[u][a].credited
        <5>1. n \in a .. n
              BY <4>1, <2>1
        <5>2. stamps - sum <= queue[d][k].val - versions[u][a].credited
              BY <5>1, <4>2, <2>2
        <5>3. (stamps + g) - (sum + g) = stamps - sum
              BY ONLY <2>4, <1>2
        <5> QED
            BY <5>2, <5>3
      <4>5. \A v \in a .. m : (v \in a .. n /\ v \in 1 .. n) \/ v = m
            BY <4>1, <1>0, <2>1
      <4>6. ASSUME NEW v \in a .. m
            PROVE  versions'[u][v].numStamps - versions'[u][v].credited
                      <= queue[d][k].val - versions'[u][a].credited
        <5>1. CASE v \in a .. n /\ v \in 1 .. n
              BY <5>1, <4>2, <4>3, <2>3
        <5>2. CASE v = m
              BY <5>2, <4>3, <4>4, <2>3
        <5> QED
            BY <5>1, <5>2, <4>5
      <4> QED
          BY <4>0, <4>2, <4>3, <4>6
    <3> QED
        BY <3>1, <2>3, <1>0, <1>1 DEF AnswersBacked, Funds, may
  <2> QED
      BY <2>8, <2>9, <2>10, <2>11
<1> QED
    BY <1>3, <1>4

LEMMA ChainStep == TypeInv /\ FloorInv /\ ChainInv /\ [Next]_vars => ChainInv'
<1> SUFFICES ASSUME TypeInv, FloorInv, ChainInv, Moves PROVE ChainInv'
    BY Steps
<1> USE DEF serverVars, storeVars, appVars, historyVars
<1>i. CreditsGrow /\ \A e \in Devices : Owner[e] \in SoleUsers => AccountInv(e)
      BY DEF ChainInv
<1>0. ASSUME CreditsGrow', \A e \in Devices : Owner[e] \in SoleUsers => AccountInv(e)'
      PROVE  ChainInv'
      BY <1>0 DEF ChainInv
<1>v. ASSUME versions' = versions PROVE CreditsGrow'
      BY <1>v, <1>i DEF CreditsGrow
\* a step of device d leaves every other account with one device alone
<1>o. ASSUME NEW d \in Devices,
             \A x \in Users \ {Owner[d]} : versions'[x] = versions[x] /\ charged'[x] = charged[x],
             \A e \in Devices \ {d} :
                /\ known'[e] = known[e] /\ queue'[e] = queue[e] /\ answers'[e] = answers[e]
                /\ currentUserNumStamps'[e] = currentUserNumStamps[e]
                /\ echoed'[e] = echoed[e] /\ loading'[e] = loading[e],
             Owner[d] \in SoleUsers => AccountInv(d)', CreditsGrow'
      PROVE  ChainInv'
  <2>1. ASSUME NEW e \in Devices \ {d}, Owner[e] \in SoleUsers PROVE AccountInv(e)'
    <3>1. Owner[e] \in Users \ {Owner[d]}
          BY <2>1, OtherAccount, ConstantFacts
    <3> QED
        BY <2>1, <3>1, <1>o, <1>i, Untouched
  <2> QED
      BY <2>1, <1>o, <1>0
<1>t. /\ known \in [Devices -> Nat] /\ queue \in [Devices -> Seq(Write)]
      /\ currentUserNumStamps \in [Devices -> Int]
      /\ echoed \in [Devices -> BOOLEAN] /\ loading \in [Devices -> BOOLEAN]
      BY DEF TypeInv, TypeOK, StoreType, AppType
<1>1. CASE Quiet
  <2>1. \A e \in Devices : Owner[e] \in SoleUsers => AccountInv(e)'
        BY <1>1, <1>i, Untouched DEF Quiet
  <2> QED
      BY <2>1, <1>0, <1>1, <1>v DEF Quiet
<1>2. CASE Credited
  <2>1. CreditsGrow'
    <3>1. PICK u \in Users, g \in Nat : Credit(u, g)
          BY <1>2 DEF Credited
    <3>2. PICK n, sum : n = Len(versions[u]) /\ sum = versions[u][n].credited
          OBVIOUS
    <3>3. /\ Len(versions'[u]) = n + 1
          /\ \A v \in 1 .. n : versions'[u][v] = versions[u][v]
          /\ \A x \in Users \ {u} : versions'[x] = versions[x]
          /\ versions'[u][n + 1].credited = sum + g
          BY <3>1, <3>2, CreditType DEF TypeInv, Newest
    <3>4. sum \in Nat
      <4>1. n \in Nat \ {0} /\ \A v \in 1 .. n : versions[u][v].credited \in Nat
            BY <3>2, VersionFacts DEF TypeInv
      <4> QED
          BY <4>1, <3>2
    <3>5. sum + g \in Nat /\ sum + g >= sum
          BY <3>4
    <3> QED
        BY <3>2, <3>3, <3>5, <1>i, CreditsStillGrow
  <2> QED
      BY <2>1, <1>0, <1>2, <1>i, CreditedAccount
<1>3. ASSUME NEW d \in Devices, ProcessTapped(d) PROVE ChainInv'
  <2>1. /\ UNCHANGED <<versions, charged, known, answers, currentUserNumStamps>>
        /\ loading' = [loading EXCEPT ![d] = TRUE] /\ echoed' = [echoed EXCEPT ![d] = FALSE]
        BY <1>3 DEF ProcessTapped
  <2>2. \A e \in Devices \ {d} : queue'[e] = queue[e]
        BY <1>3, TappedQueue
  <2>3. Owner[d] \in SoleUsers => AccountInv(d)'
        BY <1>3, <1>i, TappedAccount
  <2> QED
      BY <2>1, <2>2, <2>3, <1>o, <1>t, <1>v
<1>4. ASSUME NEW d \in Devices, AppGone(d) PROVE ChainInv'
  <2>1. /\ UNCHANGED <<versions, charged, known>> /\ Forgotten(d)
        /\ currentUserNumStamps' = [currentUserNumStamps EXCEPT ![d] = 0]
        /\ loading' = [loading EXCEPT ![d] = FALSE] /\ echoed' = [echoed EXCEPT ![d] = TRUE]
        BY <1>4 DEF AppGone, Forgotten
  <2>2. \A e \in Devices \ {d} : queue'[e] = queue[e] /\ answers'[e] = answers[e]
        BY <1>4, <2>1, KilledQueue, ForgottenAnswers
  <2>3. Owner[d] \in SoleUsers => AccountInv(d)'
        BY <1>4, <1>i, GoneAccount
  <2> QED
      BY <2>1, <2>2, <2>3, <1>o, <1>t, <1>v
<1>5. ASSUME NEW d \in Devices, UserSnapshot(d) PROVE ChainInv'
  <2>1. /\ UNCHANGED <<versions, charged, known, queue, answers, loading>>
        /\ echoed' = [echoed EXCEPT ![d] = TRUE]
        BY <1>5 DEF UserSnapshot
  <2>2. \A e \in Devices \ {d} : currentUserNumStamps'[e] = currentUserNumStamps[e]
        BY <1>5, <1>t DEF UserSnapshot
  <2>3. Owner[d] \in SoleUsers => AccountInv(d)'
        BY <1>5, <1>i, SnapshotAccount
  <2> QED
      BY <2>1, <2>2, <2>3, <1>o, <1>t, <1>v
<1>6. ASSUME NEW d \in Devices, Watch(d) PROVE ChainInv'
  <2>1. /\ UNCHANGED <<versions, charged, queue, answers, currentUserNumStamps, echoed, loading>>
        /\ \A e \in Devices \ {d} : known'[e] = known[e]
        BY <1>6, <1>t DEF Watch
  <2>2. Owner[d] \in SoleUsers => AccountInv(d)'
        BY <1>6, <1>i, WatchAccount
  <2> QED
      BY <2>1, <2>2, <1>o, <1>v
<1>7. ASSUME NEW d \in Devices, PaymentApplied(d) PROVE ChainInv'
  <2>1. UNCHANGED <<known, queue, charged, currentUserNumStamps, echoed, loading>>
        BY <1>7 DEF PaymentApplied
  <2>2. /\ \A x \in Users \ {Owner[d]} : versions'[x] = versions[x]
        /\ \A e \in Devices \ {d} : answers'[e] = answers[e]
        BY <1>7, AppliedPayment
  <2>3. Owner[d] \in SoleUsers => AccountInv(d)'
        BY <1>7, <1>i, AppliedAccount
  <2>4. CreditsGrow'
    <3>1. PICK u, n, sum : u = Owner[d] /\ n = Len(versions[u]) /\ sum = versions[u][n].credited
          OBVIOUS
    <3>2. /\ Len(versions'[u]) = n + 1 /\ versions'[u][n + 1].credited = sum
          /\ \A v \in 1 .. n : versions'[u][v] = versions[u][v]
          /\ \A x \in Users \ {u} : versions'[x] = versions[x]
          BY <1>7, <3>1, AppliedPayment
    <3>3. u \in Users /\ sum \in Nat /\ sum >= sum
      <4>1. /\ u \in Users /\ n \in Nat \ {0}
            /\ \A v \in 1 .. n : versions[u][v].credited \in Nat
            BY <3>1, OwnVersions
      <4>2. sum \in Nat
            BY <4>1, <3>1
      <4> QED
          BY <4>1, <4>2
    <3> QED
        BY <3>1, <3>2, <3>3, <1>i, CreditsStillGrow
  <2> QED
      BY <2>1, <2>2, <2>3, <2>4, <1>o
<1>8. ASSUME NEW d \in Devices, ProductApplied(d) PROVE ChainInv'
  <2>1. UNCHANGED <<versions, known, queue, charged, currentUserNumStamps, echoed, loading>>
        BY <1>8 DEF ProductApplied
  <2>2. \A e \in Devices \ {d} : answers'[e] = answers[e]
        BY <1>8, AppliedProduct
  <2>3. Owner[d] \in SoleUsers => AccountInv(d)'
        BY <1>8, <1>i, DeliveredAccount
  <2> QED
      BY <2>1, <2>2, <2>3, <1>o, <1>v
<1>9. ASSUME NEW d \in Devices, PaymentAcknowledged(d) PROVE ChainInv'
  <2>1. /\ Leaves(d) /\ Heard(d)
        /\ \A e \in Devices \ {d} : known'[e] = known[e]
        /\ \A x \in Users \ {Owner[d]} : charged'[x] = charged[x]
        /\ UNCHANGED <<versions, currentUserNumStamps, echoed, loading>>
        BY <1>9, AcknowledgedPayment
  <2>2. \A e \in Devices \ {d} : queue'[e] = queue[e] /\ answers'[e] = answers[e]
        BY <2>1, SentQueue, HeardAnswers
  <2>3. Owner[d] \in SoleUsers => AccountInv(d)'
        BY <1>9, <1>i, AcknowledgedAccount
  <2> QED
      BY <2>1, <2>2, <2>3, <1>o, <1>v
<1>10. ASSUME NEW d \in Devices, Dropped(d) PROVE ChainInv'
  <2>1. /\ Leaves(d)
        /\ Heard(d) \/ Forgotten(d)
        /\ UNCHANGED <<versions, known, charged, currentUserNumStamps, echoed, loading>>
        BY <1>10 DEF Dropped
  <2>2. \A e \in Devices \ {d} : queue'[e] = queue[e] /\ answers'[e] = answers[e]
        BY <1>10, SentQueue, HeardAnswers, ForgottenAnswers DEF Dropped
  <2>3. Owner[d] \in SoleUsers => AccountInv(d)'
        BY <1>10, <1>i, DroppedAccount
  <2> QED
      BY <2>1, <2>2, <2>3, <1>o, <1>v
<1>11. ASSUME NEW d \in Devices, Repeated(d) PROVE ChainInv'
  <2>1. UNCHANGED <<versions, known, queue, charged, currentUserNumStamps, echoed, loading>>
        BY <1>11 DEF Repeated
  <2>2. \A e \in Devices \ {d} : answers'[e] = answers[e]
        BY <1>11, ForgottenAnswers DEF Repeated
  <2>3. Owner[d] \in SoleUsers => AccountInv(d)'
        BY <1>11, <1>i, RepeatedAccount
  <2> QED
      BY <2>1, <2>2, <2>3, <1>o, <1>v
<1> QED
    BY <1>1, <1>2, <1>3, <1>4, <1>5, <1>6, <1>7, <1>8, <1>9, <1>10, <1>11 DEF Moves

(***************************************************************************)
(* With one device per account, the price of a pending payment is never    *)
(* lost: each payment still queued leaves what the account may own, and    *)
(* every earlier queued payment, diminished by its own price, whatever is  *)
(* sent again or reported as refused.                                      *)
(***************************************************************************)
THEOREM PaymentsChain == Spec => []PendingPaymentsChain
<1>1. Init => TypeInv /\ FloorInv /\ ChainInv
      BY TypeInit, FloorInit, ChainInit
<1>2. TypeInv /\ FloorInv /\ ChainInv /\ [Next]_vars => (TypeInv /\ FloorInv /\ ChainInv)'
      BY TypeStep, FloorStep, ChainStep
<1> QED
    BY <1>1, <1>2, ChainImplies, PTL DEF Spec

(***************************************************************************)
(* The balance the popup compares a price with is backed: on the only      *)
(* device of an account it exceeds neither what the account may own nor    *)
(* what a queued payment will leave (PaymentPopupVC.processTapped).        *)
(***************************************************************************)
THEOREM CacheIsBacked == Spec => []CachedBalanceBacked
<1>1. Init => TypeInv /\ FloorInv /\ ChainInv
      BY TypeInit, FloorInit, ChainInit
<1>2. TypeInv /\ FloorInv /\ ChainInv /\ [Next]_vars => (TypeInv /\ FloorInv /\ ChainInv)'
      BY TypeStep, FloorStep, ChainStep
<1> QED
    BY <1>1, <1>2, ChainImplies, PTL DEF Spec

-----------------------------------------------------------------------------
(***************************************************************************)
(* Stamps on the server.  Some account may have no device at all; of the   *)
(* others the chain says what a payment leaves.                            *)
(***************************************************************************)
LEMMA NoFreeStampsStep ==
    TypeInv /\ FloorInv /\ ChainInv /\ NoFreeStamps /\ [Next]_vars => NoFreeStamps'
<1> SUFFICES ASSUME TypeInv, FloorInv, ChainInv, NoFreeStamps, [Next]_vars,
                    NEW u \in SoleUsers
             PROVE  Newest(u)'.numStamps <= Budget(u)'
    BY DEF NoFreeStamps
<1> USE DEF serverVars, storeVars, appVars, historyVars
<1>1. u \in Users /\ Moves /\ ChainInv'
      BY Steps, ChainStep DEF SoleUsers
<1>2. TypeInv'
      BY TypeStep
\* an account with a device: its newest version is one of those the copy bounds
<1>3. ASSUME NEW d \in Devices, Owner[d] = u PROVE Newest(u)'.numStamps <= Budget(u)'
  <2>1. CopiesBacked(d)'
        BY <1>1, <1>3 DEF ChainInv, AccountInv
  <2>2. PICK n : n = Len(versions'[u])
        OBVIOUS
  <2>3. known'[d] \in 1 .. n /\ n \in Nat
    <3>1. known'[d] \in 1 .. Len(versions'[Owner[d]])
          BY <1>2 DEF TypeInv, TypeOK, StoreType
    <3>2. versions'[u] \in Seq(Version)
          BY <1>1, <1>2 DEF TypeInv, TypeOK, ServerType
    <3>3. Len(versions'[u]) \in Nat
          BY <3>2, LenProperties
    <3> QED
        BY <3>1, <3>3, <2>2, <1>3
  <2>4. n \in known'[d] .. n
        BY <2>3
  <2>5. versions'[u][n].numStamps <= InitStamps[u] + versions'[u][n].credited - charged'[u]
        BY <2>1, <2>2, <2>4, <1>3 DEF CopiesBacked, Funds
  <2> QED
      BY <2>2, <2>5 DEF Newest, Budget
\* an account without: only credits reach it
<1>4. ASSUME \A d \in Devices : Owner[d] # u PROVE Newest(u)'.numStamps <= Budget(u)'
  <2>1. Newest(u).numStamps <= Budget(u)
        BY DEF NoFreeStamps
  <2>2. CASE versions'[u] = versions[u] /\ charged'[u] = charged[u]
        BY <2>1, <2>2 DEF Newest, Budget
  <2>3. CASE Credited
    <3>1. PICK x \in Users, g \in Nat : Credit(x, g)
          BY <2>3 DEF Credited
    <3>2. charged' = charged
          BY <2>3 DEF Credited
    <3>3. CASE x # u
          BY <3>1, <3>2, <3>3, <2>2, <1>1, CreditType DEF TypeInv
    <3>4. CASE x = u
      <4>1. PICK n, stamps, sum, init, c :
               /\ n = Len(versions[u]) /\ stamps = versions[u][n].numStamps
               /\ sum = versions[u][n].credited /\ init = InitStamps[u] /\ c = charged[u]
            OBVIOUS
      <4>2. /\ Len(versions'[u]) = n + 1 /\ versions'[u][n + 1].numStamps = stamps + g
            /\ versions'[u][n + 1].credited = sum + g
            BY <3>1, <3>4, <4>1, CreditType DEF TypeInv, Newest
      <4>3. /\ stamps \in Int /\ sum \in Nat /\ init \in Nat /\ c \in Nat
        <5>1. /\ n \in Nat \ {0}
              /\ \A v \in 1 .. n : versions[u][v].numStamps \in Int /\ versions[u][v].credited \in Nat
              BY <4>1, <1>1, VersionFacts DEF TypeInv
        <5>2. n \in 1 .. n
              BY <5>1
        <5> QED
            BY <5>1, <5>2, <4>1, <1>1, ConstantFacts DEF TypeInv, TypeOK, HistoryType
      <4>4. stamps <= init + sum - c
            BY <2>1, <4>1 DEF Newest, Budget
      <4>5. stamps + g <= init + (sum + g) - c
            BY ONLY <4>3, <4>4
      <4> QED
          BY <3>2, <4>1, <4>2, <4>5 DEF Newest, Budget
    <3> QED
        BY <3>3, <3>4
  <2>4. ASSUME NEW d \in Devices,
               \/ ProcessTapped(d) \/ AppGone(d) \/ UserSnapshot(d) \/ Watch(d)
               \/ ProductApplied(d) \/ Dropped(d) \/ Repeated(d)
        PROVE  versions' = versions /\ charged' = charged
        BY <2>4 DEF ProcessTapped, AppGone, UserSnapshot, Watch, ProductApplied, Dropped, Repeated
  <2>5. ASSUME NEW d \in Devices, PaymentApplied(d)
        PROVE  versions'[u] = versions[u] /\ charged' = charged
    <3>1. charged' = charged
          BY <2>5 DEF PaymentApplied
    <3> QED
        BY <2>5, <3>1, <1>1, <1>4, AppliedPayment
  <2>6. ASSUME NEW d \in Devices, PaymentAcknowledged(d)
        PROVE  versions'[u] = versions[u] /\ charged'[u] = charged[u]
        BY <2>6, <1>1, <1>4, AcknowledgedPayment
  <2>7. Quiet => versions' = versions /\ charged' = charged
        BY DEF Quiet
  <2> QED
      BY <2>2, <2>3, <2>4, <2>5, <2>6, <2>7, <1>1 DEF Moves
<1> QED
    BY <1>3, <1>4

(***************************************************************************)
(* No sequence of purchases, refusals, repetitions, crashes, claims and    *)
(* investments leaves an account with one device more stamps than it       *)
(* started with and was credited, less the prices of the payments its      *)
(* client was told went through.                                           *)
(***************************************************************************)
THEOREM StampsAreBacked == Spec => []NoFreeStamps
<1>1. Init => TypeInv /\ FloorInv /\ ChainInv /\ NoFreeStamps
  <2>1. Init => NoFreeStamps
    <3> SUFFICES ASSUME Init, NEW u \in SoleUsers PROVE Newest(u).numStamps <= Budget(u)
        BY DEF NoFreeStamps
    <3>1. /\ u \in Users /\ versions[u] = <<[numStamps |-> InitStamps[u], credited |-> 0]>>
          /\ charged[u] = 0 /\ InitStamps[u] \in Nat
          BY ConstantFacts DEF Init, SoleUsers
    <3> QED
        BY <3>1 DEF Newest, Budget
  <2> QED
      BY <2>1, TypeInit, FloorInit, ChainInit
<1>2. TypeInv /\ FloorInv /\ ChainInv /\ NoFreeStamps /\ [Next]_vars
        => (TypeInv /\ FloorInv /\ ChainInv /\ NoFreeStamps)'
      BY TypeStep, FloorStep, ChainStep, NoFreeStampsStep
<1> QED
    BY <1>1, <1>2, PTL DEF Spec

-----------------------------------------------------------------------------
(***************************************************************************)
(* Pay, then deliver.  The invariant is made inductive by what a queued    *)
(* product has before it: its payment, unless that was decided already;    *)
(* and by what an answer under way says.                                   *)
(***************************************************************************)
PaidOrAhead(d, i) ==
    queue[d][i].type = "product" =>
        \/ queue[d][i].id \in paid \cup refused
        \/ \E j \in 1 .. Len(queue[d]) :
              j < i /\ queue[d][j].type = "payment" /\ queue[d][j].id = queue[d][i].id

AnsweredPaid(d, i) ==
    i <= Len(answers[d]) /\ queue[d][i].type = "payment" => queue[d][i].id \in paid

Ordered(d) == \A i \in 1 .. Len(queue[d]) : PaidOrAhead(d, i) /\ AnsweredPaid(d, i)

OrderInv == PayThenDeliver /\ \A d \in Devices : Ordered(d)

LEMMA OrderInit == Init => OrderInv
BY DEF Init, OrderInv, PayThenDeliver, Ordered, PaidOrAhead, AnsweredPaid

\* A queue and its answers that a step leaves alone, or whose answers are lost.
LEMMA StillOrdered ==
    ASSUME TypeInv, NEW e \in Devices, Ordered(e), queue'[e] = queue[e],
           paid \subseteq paid', refused \subseteq refused',
           answers'[e] = answers[e] \/ Len(answers'[e]) = 0
    PROVE  Ordered(e)'
<1>1. \A i \in 1 .. Len(queue'[e]) : PaidOrAhead(e, i)'
      BY DEF Ordered, PaidOrAhead
<1>2. \A i \in 1 .. Len(queue'[e]) : AnsweredPaid(e, i)'
      BY DEF Ordered, AnsweredPaid
<1> QED
    BY <1>1, <1>2 DEF Ordered

\* The oldest write leaves the queue, decided if it is a payment.
LEMMA LeftOrdered ==
    ASSUME TypeInv, NEW d \in Devices, Leaves(d), Ordered(d),
           Heard(d) \/ Forgotten(d),
           paid \subseteq paid', refused \subseteq refused',
           queue[d][1].type = "payment" => queue[d][1].id \in paid' \cup refused'
    PROVE  Ordered(d)'
<1>1. /\ Len(queue[d]) \in Nat \ {0} /\ Len(queue'[d]) = Len(queue[d]) - 1
      /\ \A i \in 1 .. Len(queue'[d]) :
            i + 1 \in 1 .. Len(queue[d]) /\ queue'[d][i] = queue[d][i + 1]
      BY SentQueue
<1>2. ASSUME NEW i \in 1 .. Len(queue'[d]) PROVE PaidOrAhead(d, i)'
  <2> SUFFICES ASSUME queue'[d][i].type = "product",
                      queue'[d][i].id \notin paid' \cup refused'
               PROVE  \E j \in 1 .. Len(queue'[d]) : /\ j < i
                         /\ queue'[d][j].type = "payment"
                         /\ queue'[d][j].id = queue'[d][i].id
      BY DEF PaidOrAhead
  <2>1. PaidOrAhead(d, i + 1) /\ queue'[d][i] = queue[d][i + 1]
        BY <1>1 DEF Ordered
  <2>2. PICK j \in 1 .. Len(queue[d]) :
            j < i + 1 /\ queue[d][j].type = "payment" /\ queue[d][j].id = queue[d][i + 1].id
        BY <2>1 DEF PaidOrAhead
  <2>3. j # 1
        BY <2>1, <2>2
  <2>4. j - 1 \in 1 .. Len(queue'[d]) /\ j - 1 < i /\ queue'[d][j - 1] = queue[d][j]
    <3>1. j - 1 \in 1 .. Len(queue'[d]) /\ j - 1 < i /\ (j - 1) + 1 = j
          BY <1>1, <2>2, <2>3
    <3> QED
        BY <3>1, <1>1
  <2> QED
      BY <2>1, <2>2, <2>4
<1>3. ASSUME NEW i \in 1 .. Len(queue'[d]) PROVE AnsweredPaid(d, i)'
  <2>1. i + 1 \in 1 .. Len(queue[d]) /\ queue'[d][i] = queue[d][i + 1] /\ i \in Nat \ {0}
        BY <1>1
  <2>2. AnsweredPaid(d, i + 1)
        BY <2>1 DEF Ordered
  <2>3. CASE Forgotten(d)
    <3>1. Len(answers'[d]) = 0
          BY <2>3, ForgottenAnswers
    <3> QED
        BY <3>1, <2>1 DEF AnsweredPaid
  <2>4. CASE Heard(d)
    <3>1. Len(answers[d]) \in Nat \ {0} /\ Len(answers'[d]) = Len(answers[d]) - 1
          BY <2>4, HeardAnswers
    <3>2. i <= Len(answers'[d]) => i + 1 <= Len(answers[d])
          BY ONLY <3>1, <2>1
    <3> QED
        BY <3>2, <2>1, <2>2 DEF AnsweredPaid
  <2> QED
      BY <2>3, <2>4
<1> QED
    BY <1>2, <1>3 DEF Ordered

\* The server answered the next write; a payment it applied is paid.
LEMMA AnsweredOrdered ==
    ASSUME TypeInv, NEW d \in Devices, Ordered(d), queue' = queue,
           paid \subseteq paid', refused \subseteq refused',
           Len(answers'[d]) = NextSent(d), Len(answers[d]) \in Nat,
           queue[d][NextSent(d)].type = "payment" => queue[d][NextSent(d)].id \in paid'
    PROVE  Ordered(d)'
<1>1. \A i \in 1 .. Len(queue'[d]) : PaidOrAhead(d, i)'
      BY DEF Ordered, PaidOrAhead
<1>2. ASSUME NEW i \in 1 .. Len(queue'[d]) PROVE AnsweredPaid(d, i)'
  <2>1. AnsweredPaid(d, i) /\ i \in Nat
        BY DEF Ordered
  <2>2. i <= Len(answers'[d]) => i <= Len(answers[d]) \/ i = NextSent(d)
        BY <2>1 DEF NextSent
  <2> QED
      BY <2>1, <2>2 DEF AnsweredPaid
<1> QED
    BY <1>1, <1>2 DEF Ordered

LEMMA TappedOrdered ==
    ASSUME TypeInv, NEW d \in Devices, Ordered(d), ProcessTapped(d)
    PROVE  Ordered(d)'
<1>0. PICK id, n : id = Len(bought) + 1 /\ n = Len(queue[d])
      OBVIOUS
<1>1. UNCHANGED <<paid, refused, answers>>
      BY DEF ProcessTapped, serverVars
<1>2. /\ popup[d] \in Offers /\ id \in Ids /\ n \in Nat
      /\ Len(queue'[d]) = n + 1 \/ Len(queue'[d]) = n + 2
      /\ \A i \in 1 .. n : queue'[d][i] = queue[d][i]
      /\ queue'[d][n + 1] = Payment(id, NewBalance(d, popup[d]), popup[d].cost)
      /\ Len(queue'[d]) = n + 2 => queue'[d][n + 2] = Product(id)
      BY <1>0, TappedQueue
<1>3. /\ queue'[d][n + 1].type = "payment" /\ queue'[d][n + 1].id = id
      /\ Len(queue'[d]) = n + 2 => queue'[d][n + 2].id = id
      BY <1>2 DEF Payment, Product
<1>4. Len(answers[d]) \in Nat /\ Len(answers[d]) <= n
      BY <1>0, AnswerFacts DEF TypeInv
<1>5. ASSUME NEW i \in 1 .. n PROVE PaidOrAhead(d, i)' /\ AnsweredPaid(d, i)'
  <2>1. PaidOrAhead(d, i) /\ AnsweredPaid(d, i)
        BY <1>0 DEF Ordered
  <2>2. \A j \in 1 .. n : j \in 1 .. Len(queue'[d]) /\ queue'[d][j] = queue[d][j]
        BY <1>2
  <2> QED
      BY <2>1, <2>2, <1>0, <1>1 DEF PaidOrAhead, AnsweredPaid
<1>6. PaidOrAhead(d, n + 1)'
      BY <1>2, <1>3 DEF PaidOrAhead
<1>7. Len(queue'[d]) = n + 2 => PaidOrAhead(d, n + 2)'
  <2> SUFFICES ASSUME Len(queue'[d]) = n + 2 PROVE PaidOrAhead(d, n + 2)'
      OBVIOUS
  <2>1. n + 1 \in 1 .. Len(queue'[d]) /\ n + 1 < n + 2
        BY <1>2
  <2> QED
      BY <2>1, <1>3 DEF PaidOrAhead
<1>8. ~(n + 1 <= Len(answers'[d])) /\ ~(n + 2 <= Len(answers'[d]))
      BY <1>1, <1>2, <1>4
<1>9. \A i \in 1 .. Len(queue'[d]) :
         i \in 1 .. n \/ i = n + 1 \/ (i = n + 2 /\ Len(queue'[d]) = n + 2)
      BY <1>2
<1> QED
    BY <1>5, <1>6, <1>7, <1>8, <1>9 DEF Ordered, AnsweredPaid

LEMMA GoneOrdered ==
    ASSUME TypeInv, NEW d \in Devices, Ordered(d), AppGone(d)
    PROVE  Ordered(d)'
<1>1. /\ UNCHANGED <<paid, refused>> /\ Forgotten(d)
      BY DEF AppGone, serverVars, Forgotten
<1>2. /\ Len(queue'[d]) \in 0 .. Len(queue[d]) /\ Len(queue[d]) \in Nat
      /\ \A i \in 1 .. Len(queue'[d]) :
            i \in 1 .. Len(queue[d]) /\ queue'[d][i] = queue[d][i]
      BY KilledQueue, AnswerFacts DEF TypeInv
<1>3. ASSUME NEW i \in 1 .. Len(queue'[d]) PROVE PaidOrAhead(d, i)'
  <2>1. PaidOrAhead(d, i) /\ queue'[d][i] = queue[d][i]
        BY <1>2 DEF Ordered
  <2>2. \A j \in 1 .. Len(queue[d]) : j < i =>
            j \in 1 .. Len(queue'[d]) /\ queue'[d][j] = queue[d][j]
        BY <1>2
  <2> QED
      BY <2>1, <2>2, <1>1 DEF PaidOrAhead
<1>4. Len(answers'[d]) = 0
      BY <1>1, ForgottenAnswers
<1> QED
    BY <1>3, <1>4 DEF Ordered, AnsweredPaid

LEMMA OrderStep == TypeInv /\ OrderInv /\ [Next]_vars => OrderInv'
<1> SUFFICES ASSUME TypeInv, OrderInv, [Next]_vars PROVE OrderInv'
    OBVIOUS
<1> USE DEF serverVars, storeVars, appVars, historyVars
<1>t. PayThenDeliver /\ (\A d \in Devices : Ordered(d)) /\ delivered \subseteq 1 .. Len(bought)
      BY DEF OrderInv, TypeInv, Issued
<1>1. ASSUME UNCHANGED <<queue, answers, delivered, paid, refused, bought>> PROVE OrderInv'
      BY <1>1, <1>t, StillOrdered DEF OrderInv, PayThenDeliver
<1>2. ASSUME NEW d \in Devices, ProcessTapped(d) PROVE OrderInv'
  <2>1. /\ UNCHANGED <<delivered, paid, refused, answers>>
        /\ bought' = Append(bought, [dev |-> d, offer |-> popup[d]])
        BY <1>2 DEF ProcessTapped
  <2>2. popup[d] \in Offers /\ \A e \in Devices \ {d} : queue'[e] = queue[e]
        BY <1>2, TappedQueue
  <2>3. PayThenDeliver'
    <3>1. \A x \in 1 .. Len(bought) : bought'[x] = bought[x]
      <4>1. bought \in Seq(Purchase) /\ [dev |-> d, offer |-> popup[d]] \in Purchase
            BY <2>2, ConstantFacts DEF TypeInv, TypeOK, HistoryType, Purchase
      <4> QED
          BY ONLY <4>1, <2>1, AppendProperties
    <3> QED
        BY <3>1, <2>1, <1>t DEF PayThenDeliver
  <2>4. \A e \in Devices \ {d} : Ordered(e)'
        BY <2>1, <2>2, <1>t, StillOrdered
  <2>5. Ordered(d)'
        BY <1>2, <1>t, TappedOrdered
  <2> QED
      BY <2>3, <2>4, <2>5 DEF OrderInv
<1>3. ASSUME NEW d \in Devices, AppGone(d) PROVE OrderInv'
  <2>1. UNCHANGED <<delivered, paid, refused, bought>> /\ Forgotten(d)
        BY <1>3 DEF AppGone, Forgotten
  <2>2. \A e \in Devices \ {d} : queue'[e] = queue[e] /\ answers'[e] = answers[e]
        BY <1>3, <2>1, KilledQueue, ForgottenAnswers
  <2>3. \A e \in Devices \ {d} : Ordered(e)'
        BY <2>1, <2>2, <1>t, StillOrdered
  <2>4. Ordered(d)'
        BY <1>3, <1>t, GoneOrdered
  <2> QED
      BY <2>1, <2>3, <2>4, <1>t DEF OrderInv, PayThenDeliver
<1>4. ASSUME NEW d \in Devices, PaymentApplied(d) PROVE OrderInv'
  <2>1. /\ UNCHANGED <<queue, delivered, refused, bought>>
        /\ paid' = paid \cup {queue[d][NextSent(d)].id}
        BY <1>4 DEF PaymentApplied
  <2>2. /\ Len(answers'[d]) = NextSent(d) /\ Len(answers[d]) \in Nat
        /\ \A e \in Devices \ {d} : answers'[e] = answers[e]
        BY <1>4, AppliedPayment
  <2>3. \A e \in Devices \ {d} : Ordered(e)'
        BY <2>1, <2>2, <1>t, StillOrdered
  <2>4. Ordered(d)'
        BY <2>1, <2>2, <1>t, AnsweredOrdered
  <2> QED
      BY <2>1, <2>3, <2>4, <1>t DEF OrderInv, PayThenDeliver
<1>5. ASSUME NEW d \in Devices, ProductApplied(d) PROVE OrderInv'
  <2> DEFINE p == NextSent(d)
  <2>1. /\ UNCHANGED <<queue, paid, refused, bought>>
        /\ delivered' = delivered \cup {queue[d][p].id}
        BY <1>5 DEF ProductApplied
  <2>2. /\ p \in 1 .. Len(queue[d]) /\ queue[d][p].type = "product"
        /\ p = Len(answers[d]) + 1 /\ Len(answers'[d]) = p /\ Len(answers[d]) \in Nat
        /\ \A e \in Devices \ {d} : answers'[e] = answers[e]
        BY <1>5, AppliedProduct
  <2>3. queue[d][p].id \in paid \cup refused
    <3>1. PaidOrAhead(d, p)
          BY <2>2, <1>t DEF Ordered
    <3>2. SUFFICES ASSUME NEW j \in 1 .. Len(queue[d]), j < p,
                          queue[d][j].type = "payment", queue[d][j].id = queue[d][p].id
                   PROVE  queue[d][p].id \in paid
          BY <3>1, <2>2 DEF PaidOrAhead
    <3>3. AnsweredPaid(d, j) /\ j <= Len(answers[d])
          BY <2>2, <3>2, <1>t DEF Ordered
    <3> QED
        BY <3>2, <3>3 DEF AnsweredPaid
  <2>4. \A e \in Devices \ {d} : Ordered(e)'
        BY <2>1, <2>2, <1>t, StillOrdered
  <2>5. Ordered(d)'
        BY <2>1, <2>2, <1>t, AnsweredOrdered
  <2> QED
      BY <2>1, <2>3, <2>4, <2>5, <1>t DEF OrderInv, PayThenDeliver
<1>6. ASSUME NEW d \in Devices,
             \/ PaymentAcknowledged(d) \/ ProductAcknowledged(d)
             \/ PaymentRejected(d) \/ ProductRejected(d)
      PROVE  OrderInv'
  <2>1. UNCHANGED <<delivered, bought, paid>> /\ refused \subseteq refused'
        BY <1>6 DEF PaymentAcknowledged, ProductAcknowledged, PaymentRejected, ProductRejected
  <2>2. /\ Leaves(d)
        /\ Heard(d) \/ Forgotten(d)
        /\ \A e \in Devices \ {d} : answers'[e] = answers[e]
    <3>1. CASE PaymentAcknowledged(d) \/ ProductAcknowledged(d)
      <4>1. Heard(d)
            BY <3>1 DEF PaymentAcknowledged, ProductAcknowledged, Heard
      <4> QED
          BY <3>1, <4>1, HeardAnswers DEF PaymentAcknowledged, ProductAcknowledged, Leaves
    <3>2. CASE PaymentRejected(d) \/ ProductRejected(d)
      <4>1. Forgotten(d) /\ Len(queue[d]) > unsynced[d]
            BY <3>2, AnswerFacts DEF PaymentRejected, ProductRejected, Forgotten, TypeInv
      <4> QED
          BY <3>2, <4>1, ForgottenAnswers DEF PaymentRejected, ProductRejected, Leaves
    <3> QED
        BY <1>6, <3>1, <3>2
  <2>3. Head(queue[d]) = queue[d][1] /\ \A e \in Devices \ {d} : queue'[e] = queue[e]
        BY <2>2, SentQueue
  <2>4. queue[d][1].type = "payment" => queue[d][1].id \in paid' \cup refused'
    <3>1. CASE PaymentRejected(d) \/ ProductRejected(d) \/ ProductAcknowledged(d)
          BY <3>1, <2>3 DEF PaymentRejected, ProductRejected, ProductAcknowledged
    <3>2. CASE PaymentAcknowledged(d)
      <4>1. Heard(d) /\ answers[d] # << >>
            BY <3>2 DEF PaymentAcknowledged, Heard
      <4>2. Len(answers[d]) \in Nat \ {0} /\ Len(queue[d]) \in Nat \ {0}
            BY <4>1, <2>2, HeardAnswers, SentQueue
      <4>3. 1 \in 1 .. Len(queue[d]) /\ 1 <= Len(answers[d])
            BY ONLY <4>2
      <4>4. AnsweredPaid(d, 1)
            BY <4>3, <1>t DEF Ordered
      <4> QED
          BY <4>3, <4>4, <2>1 DEF AnsweredPaid
    <3> QED
        BY <1>6, <3>1, <3>2
  <2>5. \A e \in Devices \ {d} : Ordered(e)'
        BY <2>1, <2>2, <2>3, <1>t, StillOrdered
  <2>6. Ordered(d)'
        BY <2>1, <2>2, <2>4, <1>t, LeftOrdered
  <2> QED
      BY <2>1, <2>5, <2>6, <1>t DEF OrderInv, PayThenDeliver
<1>7. ASSUME NEW d \in Devices, WritesSentAgain(d) PROVE OrderInv'
  <2>1. UNCHANGED <<queue, delivered, paid, refused, bought>> /\ Forgotten(d)
        BY <1>7 DEF WritesSentAgain, Forgotten
  <2>2. \A e \in Devices : answers'[e] = answers[e] \/ Len(answers'[e]) = 0
        BY <2>1, ForgottenAnswers
  <2> QED
      BY <2>1, <2>2, <1>t, StillOrdered DEF OrderInv, PayThenDeliver
<1>8. ASSUME NEW d \in Devices, ProductCommitted(d) PROVE OrderInv'
  <2>1. PICK t \in txns[d] : t.type = "product" /\ delivered' = delivered \cup {t.id}
        BY <1>8 DEF ProductCommitted
  <2>2. bought[t.id].offer.kind \notin PlainKinds
        BY <2>1 DEF TypeInv, Issued, TxnKinds, PlainKinds
  <2>3. UNCHANGED <<queue, answers, paid, refused, bought>>
        BY <1>8 DEF ProductCommitted
  <2> QED
      BY <2>1, <2>2, <2>3, <1>t, StillOrdered DEF OrderInv, PayThenDeliver
<1>9. ASSUME NEW d \in Devices,
             \/ \E o \in Offers : NextBtnTapped(d, o)
             \/ PopupSwiped(d) \/ ProcessDeclined(d) \/ ProductCompletion(d)
             \/ UserSnapshot(d) \/ WritePersisted(d) \/ ClaimCommitted(d)
             \/ TxnFailed(d) \/ Watch(d)
             \/ \E id \in Ids : ClaimTapped(d, id)
      PROVE  UNCHANGED <<queue, answers, delivered, paid, refused, bought>>
      BY <1>9 DEF NextBtnTapped, PopupSwiped, ProcessDeclined, ProductCompletion,
                  UserSnapshot, WritePersisted, ClaimCommitted, TxnFailed, Watch,
                  ClaimTapped
<1>10. CASE UNCHANGED vars
      BY <1>1, <1>10 DEF vars
<1> QED
    BY <1>1, <1>2, <1>3, <1>4, <1>5, <1>6, <1>7, <1>8, <1>9, <1>10
    DEF Next, UserStep, SystemStep, Kill, ProcessTrap

(***************************************************************************)
(* A post, a group or a membership is never on the server before the fate  *)
(* of its payment is decided there, across any number of crashes, lost     *)
(* answers and writes sent again.                                          *)
(***************************************************************************)
THEOREM PaymentFirst == Spec => []PayThenDeliver
<1>1. OrderInv => PayThenDeliver
      BY DEF OrderInv
<1> QED
    BY <1>1, TypeInit, TypeStep, OrderInit, OrderStep, PTL DEF Spec
=============================================================================
