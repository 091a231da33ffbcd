---------------------------- MODULE CommunityProofs ----------------------------
(***************************************************************************)
(* Proofs about what an instructor offers with a course: Curriculum, Slots, *)
(* Coupons, Quizzes and Reviews, for any number of requests in flight, rows, *)
(* students, questions and attempts, and any prices, discounts and marks;  *)
(* about Chat, for any number of users, rooms, posts and sockets; about    *)
(* Notices, for any number of readers, devices and occasions and any       *)
(* limits of the queue; and about all of them together.                    *)
(***************************************************************************)
EXTENDS MCCommunity, SumTheorems, TLAPS

-----------------------------------------------------------------------------
(***************************************************************************)
(* Curriculum                                                              *)
(***************************************************************************)

\* What a transaction has written is what its ids say so far, and nobody else
\* writes there.
WritesItsIds(x) ==
    /\ ~Transacting(x) => DOMAIN undo[x] = {}
    /\ Transacting(x) =>
          /\ \A k \in 1..(editor[x].next - 1) : editor[x].ids[k] \in DOMAIN undo[x]
          /\ \A i \in DOMAIN undo[x] :
                /\ place[i] \in 1..(editor[x].next - 1)
                /\ editor[x].ids[place[i]] = i
                /\ \A k \in 1..(editor[x].next - 1) : editor[x].ids[k] = i => k <= place[i]

OrderInv ==
    /\ CurriculumTypeOK
    /\ \A x \in Editors : WritesItsIds(x)
    /\ \A x \in Editors : \A i \in DOMAIN undo[x] : undo[x][i] = chosen[i]
    /\ \A i \in Items : ~RowLocked(i) => place[i] = chosen[i]

LEMMA OrderFollows ==
    ASSUME OrderInv
    PROVE  OrderWasChosen
<1>1. ASSUME NEW i \in Items
      PROVE  Committed[i] = chosen[i]
  <2>1. CASE RowLocked(i)
    <3> DEFINE x == CHOOSE x \in Editors : LockedBy(x, i)
    <3>1. x \in Editors /\ LockedBy(x, i)
      BY <2>1 DEF RowLocked
    <3>2. Committed[i] = undo[x][i]
      BY <2>1 DEF Committed
    <3> HIDE DEF x
    <3> QED
      BY <3>1, <3>2 DEF OrderInv, LockedBy
  <2>2. CASE ~RowLocked(i)
    BY <2>2 DEF Committed, OrderInv
  <2> QED
    BY <2>1, <2>2
<1>2. Committed = [i \in Items |-> Committed[i]] /\ chosen = [i \in Items |-> chosen[i]]
  BY DEF Committed, OrderInv, CurriculumTypeOK
<1> QED
  BY <1>1, <1>2 DEF OrderWasChosen

LEMMA OrderAgrees == OrderInv => OrderWasChosen
  BY OrderFollows

LEMMA OrderInit == CurriculumInit => OrderInv
<1> SUFFICES ASSUME CurriculumInit
             PROVE  OrderInv
  OBVIOUS
<1>1. \A x \in Editors : editor[x] = Resting /\ DOMAIN undo[x] = {}
  BY DEF CurriculumInit
<1>2. CurriculumTypeOK
  BY <1>1, CurriculumAssumption DEF CurriculumInit, CurriculumTypeOK, Transacting, Items
<1> QED
  BY <1>1, <1>2 DEF CurriculumInit, OrderInv, WritesItsIds, Transacting

\* The row a transaction is at, which no other may have written.
LEMMA OneWriter ==
    ASSUME CurriculumTypeOK, NEW x \in Editors, Transacting(x), ~Done(x)
    PROVE  /\ editor[x] \in Orders /\ editor[x].next \in 1..Len(editor[x].ids)
           /\ Len(editor[x].ids) \in Nat
           /\ Target(x) \in Items
<1>1. editor[x] \in Orders
  BY DEF CurriculumTypeOK, Transacting
<1>2. editor[x].ids \in Seq(Items) /\ Len(editor[x].ids) \in Nat /\ editor[x].next \in Nat
  BY <1>1 DEF Orders
<1>3. editor[x].next \in 1..Len(editor[x].ids)
  BY <1>2 DEF CurriculumTypeOK, Done
<1> QED
  BY <1>1, <1>2, <1>3 DEF Target

LEMMA ReorderKeeps ==
    ASSUME OrderInv, NEW x \in Editors, NEW ids \in Seq(Items), Reorder(x, ids)
    PROVE  OrderInv'
<1>1. /\ editor' = [editor EXCEPT ![x] = [ids |-> ids, next |-> 1]]
      /\ place' = place /\ undo' = undo /\ chosen' = chosen /\ ~Transacting(x)
  BY DEF Reorder, Transacting
<1>2. [ids |-> ids, next |-> 1] \in Orders
  BY DEF Orders
<1>3. editor' \in [Editors -> Orders \cup {Resting}] /\ DOMAIN undo[x] = {}
  BY <1>1, <1>2 DEF OrderInv, CurriculumTypeOK, WritesItsIds
<1>4. /\ editor'[x] = [ids |-> ids, next |-> 1]
      /\ \A y \in Editors \ {x} : editor'[y] = editor[y]
  BY <1>1 DEF OrderInv, CurriculumTypeOK
<1>5. ASSUME NEW y \in Editors
      PROVE  WritesItsIds(y)'
  <2>1. CASE y = x
    BY <1>1, <1>3, <1>4, <2>1 DEF WritesItsIds, Transacting
  <2>2. CASE y # x
    BY <1>1, <1>4, <2>2 DEF OrderInv, WritesItsIds, Transacting
  <2> QED
    BY <2>1, <2>2
<1>6. CurriculumTypeOK'
  <2>1. Len(ids) \in Nat
    OBVIOUS
  <2>2. \A y \in Editors : Transacting(y)' => editor'[y].next \in 1..(Len(editor'[y].ids) + 1)
    BY <1>4, <2>1 DEF OrderInv, CurriculumTypeOK, Transacting
  <2> QED
    BY <1>1, <1>3, <2>2 DEF OrderInv, CurriculumTypeOK
<1>7. \A i \in Items : RowLocked(i)' = RowLocked(i)
  BY <1>1 DEF RowLocked, LockedBy
<1> QED
  BY <1>1, <1>5, <1>6, <1>7 DEF OrderInv

LEMMA UpdateRowKeeps ==
    ASSUME OrderInv, NEW x \in Editors, UpdateRow(x)
    PROVE  OrderInv'
<1> DEFINE t == Target(x)
           n == editor[x].next
<1>1. /\ Transacting(x) /\ ~Done(x) /\ CurriculumTypeOK /\ WritesItsIds(x)
      /\ \A y \in Editors : ~WaitsFor(x, y)
      /\ chosen' = chosen
      /\ place' = [place EXCEPT ![t] = n]
      /\ editor' = [editor EXCEPT ![x].next = @ + 1]
      /\ undo' = [undo EXCEPT ![x] =
              [i \in DOMAIN @ \cup {t} |-> IF i \in DOMAIN @ THEN @[i] ELSE place[i]]]
  BY DEF UpdateRow, OrderInv
<1>2. /\ editor[x] \in Orders /\ n \in 1..Len(editor[x].ids) /\ Len(editor[x].ids) \in Nat
      /\ t \in Items /\ t = editor[x].ids[n] /\ editor[x].ids \in Seq(Items)
  BY <1>1, OneWriter DEF Target, Orders
<1>3. \A y \in Editors \ {x} : t \notin DOMAIN undo[y]
  BY <1>1 DEF WaitsFor, LockedBy
<1>4. /\ editor'[x] = [editor[x] EXCEPT !.next = n + 1]
      /\ editor'[x] \in Orders /\ editor'[x].ids = editor[x].ids /\ editor'[x].next = n + 1
      /\ \A y \in Editors \ {x} : editor'[y] = editor[y] /\ undo'[y] = undo[y]
      /\ Transacting(x)'
  <2>1. editor'[x] = [editor[x] EXCEPT !.next = n + 1]
    BY <1>1 DEF CurriculumTypeOK
  <2>2. editor'[x] \in Orders /\ editor'[x].ids = editor[x].ids /\ editor'[x].next = n + 1
    BY <1>2, <2>1 DEF Orders
  <2>3. \A y \in Editors \ {x} : editor'[y] = editor[y] /\ undo'[y] = undo[y]
    BY <1>1 DEF CurriculumTypeOK
  <2>4. Transacting(x)'
    BY <2>2, CurriculumAssumption DEF Transacting
  <2> QED
    BY <2>1, <2>2, <2>3, <2>4
<1>5. /\ DOMAIN undo'[x] = DOMAIN undo[x] \cup {t}
      /\ \A i \in DOMAIN undo'[x] :
             undo'[x][i] = IF i \in DOMAIN undo[x] THEN undo[x][i] ELSE place[i]
  BY <1>1 DEF CurriculumTypeOK
<1>6. place'[t] = n /\ \A i \in Items : i # t => place'[i] = place[i]
  BY <1>1, <1>2 DEF CurriculumTypeOK
<1>7. CurriculumTypeOK'
  <2>1. /\ place' \in [Items -> Nat \cup {Unmade, Gone}]
        /\ chosen' \in [Items -> Nat \cup {Unmade, Gone}]
    BY <1>1, <1>2 DEF CurriculumTypeOK
  <2>2. editor' \in [Editors -> Orders \cup {Resting}]
    <3>1. editor \in [Editors -> Orders \cup {Resting}]
      BY <1>1 DEF CurriculumTypeOK
    <3>2. \A y \in Editors : editor'[y] \in Orders \cup {Resting}
      BY <1>4, <3>1
    <3>3. editor' = [y \in Editors |-> editor'[y]]
      BY <1>1, <3>1
    <3> QED
      BY <3>2, <3>3
  <2>3. DOMAIN undo' = Editors
    BY <1>1 DEF CurriculumTypeOK
  <2>4. \A y \in Editors : Transacting(y)' => editor'[y].next \in 1..(Len(editor'[y].ids) + 1)
    <3>1. editor'[x].next \in 1..(Len(editor'[x].ids) + 1)
      <4> DEFINE b == Len(editor[x].ids)
      <4>1. n \in 1..b /\ b \in Nat
        BY <1>2
      <4>2. editor'[x].next = n + 1 /\ Len(editor'[x].ids) = b
        BY <1>4, Zenon
      <4> HIDE DEF n, b
      <4>3. n + 1 \in 1..(b + 1)
        BY <4>1
      <4> QED
        BY <4>2, <4>3, Zenon
    <3>2. \A y \in Editors \ {x} : Transacting(y) => editor[y].next \in 1..(Len(editor[y].ids) + 1)
      BY <1>1 DEF CurriculumTypeOK
    <3> QED
      BY <1>4, <3>1, <3>2, Zenon DEF Transacting
  <2>5. \A y \in Editors : DOMAIN undo'[y] \subseteq Items
    BY <1>2, <1>4, <1>5, <1>1 DEF CurriculumTypeOK
  <2>6. \A y, z \in Editors : y # z => DOMAIN undo'[y] \cap DOMAIN undo'[z] = {}
    <3>1. \A y \in Editors : \A z \in Editors \ {y} : DOMAIN undo[y] \cap DOMAIN undo[z] = {}
      BY <1>1 DEF CurriculumTypeOK
    <3>2. \A y \in Editors \ {x} : undo'[y] = undo[y]
      BY <1>4
    <3>3. ASSUME NEW y \in Editors, NEW z \in Editors \ {y}
          PROVE  DOMAIN undo'[y] \cap DOMAIN undo'[z] = {}
      <4>1. CASE y = x
        BY <1>3, <1>5, <3>1, <3>2, <4>1
      <4>2. CASE z = x
        BY <1>3, <1>5, <3>1, <3>2, <4>2
      <4>3. CASE y # x /\ z # x
        BY <3>1, <3>2, <4>3
      <4> QED
        BY <4>1, <4>2, <4>3
    <3> QED
      BY <3>3
  <2> QED
    BY <2>1, <2>2, <2>3, <2>4, <2>5, <2>6 DEF CurriculumTypeOK
<1>8. ASSUME NEW y \in Editors
      PROVE  WritesItsIds(y)'
  <2>1. CASE y = x
    <3> DEFINE m == n + 1
    <3>1. \A k \in 1..(m - 1) : editor'[x].ids[k] \in DOMAIN undo'[x]
      <4> SUFFICES ASSUME NEW k \in 1..(m - 1)
                   PROVE  editor[x].ids[k] \in DOMAIN undo[x] \cup {t}
        BY <1>4, <1>5
      <4>1. k = n \/ k \in 1..(n - 1)
        BY <1>2
      <4> QED
        BY <1>1, <1>2, <4>1 DEF WritesItsIds
    <3>2. ASSUME NEW i \in DOMAIN undo'[x]
          PROVE  /\ place'[i] \in 1..(m - 1)
                 /\ editor'[x].ids[place'[i]] = i
                 /\ \A k \in 1..(m - 1) : editor'[x].ids[k] = i => k <= place'[i]
      <4>1. CASE i = t
        BY <1>2, <1>4, <1>6, <4>1
      <4>2. CASE i # t
        <5>1. i \in DOMAIN undo[x] /\ i \in Items
          BY <1>1, <1>5, <4>2 DEF CurriculumTypeOK
        <5>2. /\ place'[i] \in 1..(n - 1)
              /\ editor[x].ids[place'[i]] = i
              /\ \A k \in 1..(n - 1) : editor[x].ids[k] = i => k <= place'[i]
          BY <1>1, <1>6, <4>2, <5>1 DEF WritesItsIds
        <5>3. editor[x].ids[n] # i
          BY <1>2, <4>2
        <5>4. \A k \in 1..(m - 1) : k = n \/ k \in 1..(n - 1)
          BY <1>2
        <5> QED
          BY <1>2, <1>4, <5>2, <5>3, <5>4
      <4> QED
        BY <4>1, <4>2
    <3>3. editor'[x].next = m
      BY <1>4
    <3> HIDE DEF m
    <3> QED
      BY <1>4, <2>1, <3>1, <3>2, <3>3 DEF WritesItsIds
  <2>2. CASE y # x
    <3>1. \A i \in DOMAIN undo[y] : place'[i] = place[i]
      BY <1>1, <1>3, <1>6, <2>2 DEF CurriculumTypeOK
    <3>2. WritesItsIds(y)
      BY DEF OrderInv
    <3> QED
      BY <1>4, <2>2, <3>1, <3>2 DEF WritesItsIds, Transacting
  <2> QED
    BY <2>1, <2>2
<1>9. \A y \in Editors : \A i \in DOMAIN undo'[y] : undo'[y][i] = chosen'[i]
  <2>1. t \notin DOMAIN undo[x] => place[t] = chosen[t]
    BY <1>2, <1>3 DEF OrderInv, RowLocked, LockedBy
  <2>2. \A i \in DOMAIN undo'[x] : undo'[x][i] = chosen[i]
    BY <1>5, <2>1 DEF OrderInv
  <2>3. \A y \in Editors \ {x} : \A i \in DOMAIN undo'[y] : undo'[y][i] = chosen[i]
    BY <1>4 DEF OrderInv
  <2> QED
    BY <1>1, <2>2, <2>3
<1>10. \A i \in Items : ~RowLocked(i)' => place'[i] = chosen'[i]
  <2>1. t \in DOMAIN undo'[x]
    BY <1>5
  <2>2. \A i \in Items : ~RowLocked(i)' => i # t /\ ~RowLocked(i)
    BY <1>4, <1>5, <2>1 DEF RowLocked, LockedBy
  <2> QED
    BY <1>1, <1>6, <2>2 DEF OrderInv
<1> QED
  BY <1>7, <1>8, <1>9, <1>10 DEF OrderInv

\* The rows that a transaction locked are those it leaves unlocked.
LEMMA Unlocks ==
    ASSUME CurriculumTypeOK, NEW x \in Editors, undo' = [undo EXCEPT ![x] = <<>>]
    PROVE  /\ DOMAIN undo'[x] = {} /\ \A y \in Editors \ {x} : undo'[y] = undo[y]
           /\ \A i \in Items : RowLocked(i) => RowLocked(i)' \/ LockedBy(x, i)
           /\ \A i \in Items : LockedBy(x, i) => ~ RowLocked(i)'
           /\ \A i \in Items : RowLocked(i)' => RowLocked(i)
           /\ DOMAIN undo' = Editors
           /\ \A y \in Editors : \A z \in Editors \ {y} :
                 DOMAIN undo'[y] \subseteq Items /\ DOMAIN undo'[y] \cap DOMAIN undo'[z] = {}
<1>1. DOMAIN undo' = Editors /\ undo'[x] = <<>> /\ \A y \in Editors \ {x} : undo'[y] = undo[y]
  BY DEF CurriculumTypeOK
<1>2. DOMAIN undo'[x] = {}
  BY <1>1
<1>3. \A y \in Editors \ {x} : DOMAIN undo[x] \cap DOMAIN undo[y] = {}
  BY DEF CurriculumTypeOK
<1>4. \A i \in Items : RowLocked(i) => RowLocked(i)' \/ LockedBy(x, i)
  BY <1>1 DEF RowLocked, LockedBy
<1>5. \A i \in Items : LockedBy(x, i) => ~ RowLocked(i)'
  BY <1>1, <1>2, <1>3 DEF RowLocked, LockedBy
<1>6. \A i \in Items : RowLocked(i)' => RowLocked(i)
  BY <1>1, <1>2 DEF RowLocked, LockedBy
<1>7. ASSUME NEW y \in Editors, NEW z \in Editors \ {y}
      PROVE  DOMAIN undo'[y] \subseteq Items /\ DOMAIN undo'[y] \cap DOMAIN undo'[z] = {}
  BY <1>1, <1>2 DEF CurriculumTypeOK
<1> QED
  BY <1>1, <1>2, <1>4, <1>5, <1>6, <1>7

LEMMA UndoTypes ==
    ASSUME \A y \in Editors : DOMAIN undo'[y] \subseteq Items,
           \A y \in Editors : \A z \in Editors \ {y} : DOMAIN undo'[y] \cap DOMAIN undo'[z] = {},
           DOMAIN undo' = Editors,
           place' \in [Items -> Nat \cup {Unmade, Gone}],
           chosen' \in [Items -> Nat \cup {Unmade, Gone}],
           editor' \in [Editors -> Orders \cup {Resting}],
           \A y \in Editors : Transacting(y)' => editor'[y].next \in 1..(Len(editor'[y].ids) + 1)
    PROVE  CurriculumTypeOK'
BY DEF CurriculumTypeOK

\* The transactions of the other requests, once one rests.
LEMMA OthersGoOn ==
    ASSUME OrderInv, NEW x \in Editors,
           undo' = [undo EXCEPT ![x] = <<>>], editor' = [editor EXCEPT ![x] = Resting],
           \A y \in Editors \ {x} : \A i \in DOMAIN undo[y] : place'[i] = place[i]
    PROVE  /\ editor' \in [Editors -> Orders \cup {Resting}]
           /\ \A y \in Editors : /\ WritesItsIds(y)'
                                 /\ Transacting(y)' => editor'[y].next \in 1..(Len(editor'[y].ids) + 1)
<1>0. CurriculumTypeOK
  BY DEF OrderInv
<1>1. /\ editor' \in [Editors -> Orders \cup {Resting}] /\ editor'[x] = Resting
      /\ \A y \in Editors \ {x} : editor'[y] = editor[y]
  BY <1>0 DEF CurriculumTypeOK
<1>2. ASSUME NEW y \in Editors
      PROVE  /\ WritesItsIds(y)'
             /\ Transacting(y)' => editor'[y].next \in 1..(Len(editor'[y].ids) + 1)
  <2>1. CASE y = x
    BY <1>0, <1>1, <2>1, Unlocks DEF WritesItsIds, Transacting
  <2>2. CASE y # x
    <3>1. undo'[y] = undo[y] /\ editor'[y] = editor[y]
      BY <1>0, <1>1, <2>2, Unlocks
    <3>2. \A i \in DOMAIN undo[y] : place'[i] = place[i]
      BY <2>2
    <3>3. WritesItsIds(y) /\ (Transacting(y) => editor[y].next \in 1..(Len(editor[y].ids) + 1))
      BY <1>0 DEF OrderInv, CurriculumTypeOK
    <3> QED
      BY <3>1, <3>2, <3>3 DEF WritesItsIds, Transacting
  <2> QED
    BY <2>1, <2>2
<1> QED
  BY <1>1, <1>2

LEMMA RollbackKeeps ==
    ASSUME OrderInv, NEW x \in Editors, Rollback(x)
    PROVE  OrderInv'
<1>1. /\ place' = [i \in Items |-> IF LockedBy(x, i) THEN undo[x][i] ELSE place[i]]
      /\ undo' = [undo EXCEPT ![x] = <<>>] /\ editor' = [editor EXCEPT ![x] = Resting]
      /\ chosen' = chosen /\ CurriculumTypeOK
  BY DEF Rollback, OrderInv
<1>2. \A y \in Editors \ {x} : \A i \in DOMAIN undo[y] : i \in Items /\ place'[i] = place[i]
  BY <1>1 DEF CurriculumTypeOK, LockedBy
<1>3. /\ editor' \in [Editors -> Orders \cup {Resting}]
      /\ \A y \in Editors : /\ WritesItsIds(y)'
                            /\ Transacting(y)' => editor'[y].next \in 1..(Len(editor'[y].ids) + 1)
  BY <1>1, <1>2, OthersGoOn
<1>4. \A i \in Items : LockedBy(x, i) => undo[x][i] = chosen[i]
  BY DEF OrderInv, LockedBy
<1>5. /\ place' \in [Items -> Nat \cup {Unmade, Gone}]
      /\ chosen' \in [Items -> Nat \cup {Unmade, Gone}]
      /\ \A i \in Items : place'[i] = IF LockedBy(x, i) THEN chosen[i] ELSE place[i]
  BY <1>1, <1>4 DEF CurriculumTypeOK
<1>6. CurriculumTypeOK'
  <2>1. /\ DOMAIN undo' = Editors
        /\ \A y \in Editors : DOMAIN undo'[y] \subseteq Items
        /\ \A y \in Editors : \A z \in Editors \ {y} : DOMAIN undo'[y] \cap DOMAIN undo'[z] = {}
    BY <1>1, Unlocks DEF CurriculumTypeOK
  <2> QED
    BY <1>3, <1>5, <2>1, UndoTypes
<1>7. \A y \in Editors : \A i \in DOMAIN undo'[y] : undo'[y][i] = chosen'[i]
  BY <1>1, Unlocks DEF OrderInv
<1>8. ASSUME NEW i \in Items, ~RowLocked(i)'
      PROVE  place'[i] = chosen'[i]
  BY <1>1, <1>5, <1>8, Unlocks DEF OrderInv
<1> QED
  BY <1>3, <1>6, <1>7, <1>8 DEF OrderInv

LEMMA CommitKeeps ==
    ASSUME OrderInv, NEW x \in Editors, CommitOrder(x)
    PROVE  OrderInv'
<1> DEFINE ids == editor[x].ids
           Finds(i) == {k \in 1..Len(ids) : ids[k] = i}
<1>1. /\ chosen' = [i \in Items |-> IF i \in Range(ids)
                                    THEN SelectLastInSeq(ids, LAMBDA j : j = i) ELSE chosen[i]]
      /\ undo' = [undo EXCEPT ![x] = <<>>] /\ editor' = [editor EXCEPT ![x] = Resting]
      /\ place' = place /\ CurriculumTypeOK /\ Transacting(x)
  BY DEF CommitOrder, OrderInv, Done
<1>2. /\ ids \in Seq(Items) /\ Len(ids) \in Nat /\ editor[x].next = Len(ids) + 1
  <2>1. editor[x] \in Orders
    BY <1>1 DEF CurriculumTypeOK, Transacting
  <2>2. ids \in Seq(Items) /\ Len(ids) \in Nat /\ editor[x].next \in Nat
    BY <2>1 DEF Orders
  <2>3. editor[x].next \in 1..(Len(ids) + 1) /\ editor[x].next > Len(ids)
    BY <1>1 DEF CurriculumTypeOK, CommitOrder, Done
  <2> QED
    BY <2>2, <2>3
<1>3. /\ \A k \in 1..Len(ids) : ids[k] \in DOMAIN undo[x]
      /\ \A i \in DOMAIN undo[x] : /\ place[i] \in 1..Len(ids) /\ ids[place[i]] = i
                                   /\ \A k \in 1..Len(ids) : ids[k] = i => k <= place[i]
  <2>1. WritesItsIds(x) /\ editor[x].next - 1 = Len(ids)
    BY <1>2 DEF OrderInv
  <2> HIDE DEF ids
  <2> QED
    BY <1>1, <2>1 DEF WritesItsIds, ids
<1>4. Range(ids) = DOMAIN undo[x]
  <2>1. DOMAIN ids = 1..Len(ids)
    BY <1>2
  <2> HIDE DEF ids
  <2> QED
    BY <1>3, <2>1 DEF Range
<1>5. ASSUME NEW i \in DOMAIN undo[x]
      PROVE  SelectLastInSeq(ids, LAMBDA j : j = i) = place[i]
  <2>1. SelectLastInSeq(ids, LAMBDA j : j = i) = IF Finds(i) # {} THEN Max(Finds(i)) ELSE 0
    BY DEF SelectLastInSeq
  <2>2. place[i] \in Finds(i) /\ \A k \in Finds(i) : place[i] >= k
    BY <1>2, <1>3
  <2>3. ASSUME NEW m \in Finds(i), \A k \in Finds(i) : m >= k
        PROVE  m = place[i]
    <3>1. m >= place[i] /\ place[i] >= m /\ m \in Nat /\ place[i] \in Nat
      BY <2>2, <2>3
    <3> QED
      BY <3>1
  <2> HIDE DEF Finds
  <2>4. Max(Finds(i)) = place[i]
    BY <2>2, <2>3 DEF Max
  <2> QED
    BY <2>1, <2>2, <2>4
<1>6. \A i \in Items : chosen'[i] = IF LockedBy(x, i) THEN place[i] ELSE chosen[i]
  BY <1>1, <1>4, <1>5 DEF LockedBy
<1>7. chosen' \in [Items -> Nat \cup {Unmade, Gone}]
  <2>1. \A i \in Items : chosen'[i] \in Nat \cup {Unmade, Gone}
    BY <1>1, <1>6 DEF CurriculumTypeOK
  <2> QED
    BY <1>1, <2>1
<1> HIDE DEF ids
<1>8. /\ editor' \in [Editors -> Orders \cup {Resting}]
      /\ \A y \in Editors : /\ WritesItsIds(y)'
                            /\ Transacting(y)' => editor'[y].next \in 1..(Len(editor'[y].ids) + 1)
  BY <1>1, OthersGoOn
<1>9. CurriculumTypeOK'
  <2>1. /\ DOMAIN undo' = Editors
        /\ \A y \in Editors : DOMAIN undo'[y] \subseteq Items
        /\ \A y \in Editors : \A z \in Editors \ {y} : DOMAIN undo'[y] \cap DOMAIN undo'[z] = {}
    BY <1>1, Unlocks DEF CurriculumTypeOK
  <2>2. place' \in [Items -> Nat \cup {Unmade, Gone}]
    BY <1>1 DEF CurriculumTypeOK
  <2> QED
    BY <1>7, <1>8, <2>1, <2>2, UndoTypes
<1>10. ASSUME NEW y \in Editors, NEW i \in DOMAIN undo'[y]
       PROVE  undo'[y][i] = chosen'[i]
  <2>1. y # x /\ undo'[y] = undo[y] /\ i \in Items
    BY <1>1, Unlocks DEF CurriculumTypeOK
  <2>2. ~LockedBy(x, i)
    BY <1>1, <2>1 DEF CurriculumTypeOK, LockedBy
  <2> QED
    BY <1>6, <2>1, <2>2 DEF OrderInv
<1>11. ASSUME NEW i \in Items, ~RowLocked(i)'
       PROVE  place'[i] = chosen'[i]
  BY <1>1, <1>6, <1>11, Unlocks DEF OrderInv
<1> QED
  BY <1>8, <1>9, <1>10, <1>11 DEF OrderInv

LEMMA SetRowsKeeps ==
    ASSUME OrderInv, NEW rows, rows \subseteq Items, NEW value \in Nat \cup {Unmade, Gone},
           SetRows(rows, value)
    PROVE  OrderInv'
<1>1. /\ \A i \in rows : ~RowLocked(i)
      /\ place' = [i \in Items |-> IF i \in rows THEN value ELSE place[i]]
      /\ chosen' = [i \in Items |-> IF i \in rows THEN value ELSE chosen[i]]
      /\ editor' = editor /\ undo' = undo /\ CurriculumTypeOK
  BY DEF SetRows, OrderInv
<1>2. CurriculumTypeOK'
  BY <1>1 DEF CurriculumTypeOK, Transacting
<1>3. \A y \in Editors : \A i \in DOMAIN undo[y] :
          i \in Items /\ place'[i] = place[i] /\ chosen'[i] = chosen[i]
  BY <1>1 DEF CurriculumTypeOK, RowLocked, LockedBy
<1>4. ASSUME NEW y \in Editors
      PROVE  WritesItsIds(y)'
  <2>1. WritesItsIds(y)
    BY DEF OrderInv
  <2> QED
    BY <1>1, <1>3, <2>1 DEF WritesItsIds, Transacting
<1>5. \A i \in Items : RowLocked(i)' = RowLocked(i)
  BY <1>1 DEF RowLocked, LockedBy
<1>6. \A y \in Editors : \A i \in DOMAIN undo'[y] : undo'[y][i] = chosen'[i]
  BY <1>1, <1>3 DEF OrderInv
<1>7. \A i \in Items : ~RowLocked(i) => place'[i] = chosen'[i]
  BY <1>1 DEF OrderInv
<1> QED
  BY <1>2, <1>4, <1>5, <1>6, <1>7 DEF OrderInv

LEMMA OrderingsAreSequences == \A ids \in Orderings : ids \in Seq(Items)
<1> SUFFICES ASSUME NEW S \in SUBSET Items, NEW n, NEW ids \in SeqOf(S, n)
             PROVE  ids \in Seq(Items)
  BY DEF Orderings, Items
<1>1. PICK m \in 0..n : ids \in [1..m -> S]
  BY DEF SeqOf
<1>2. m \in Nat
  BY <1>1
<1> QED
  BY <1>1, <1>2

LEMMA OrderStep == OrderInv /\ [CurriculumNext]_curriculumVars => OrderInv'
<1> SUFFICES ASSUME OrderInv, [CurriculumNext]_curriculumVars
             PROVE  OrderInv'
  OBVIOUS
<1>1. ASSUME NEW x \in Editors, NEW ids \in Orderings, Reorder(x, ids)
      PROVE  OrderInv'
  BY <1>1, ReorderKeeps, OrderingsAreSequences
<1>2. ASSUME NEW x \in Editors,
             MissRow(x) \/ BreakDeadlock(x) \/ LoseConnection(x)
      PROVE  OrderInv'
  BY <1>2, RollbackKeeps DEF MissRow, BreakDeadlock, LoseConnection
<1>3. ASSUME NEW l \in Lessons, NEW n \in Places, AddLesson(l, n)
      PROVE  OrderInv'
  BY <1>3, SetRowsKeeps, CurriculumAssumption DEF AddLesson, Items
<1>4. ASSUME NEW i \in Items, NEW n \in Places, MoveRow(i, n)
      PROVE  OrderInv'
  BY <1>4, SetRowsKeeps, CurriculumAssumption DEF MoveRow
<1>5. ASSUME NEW i \in Items, EraseRow(i)
      PROVE  OrderInv'
  <2> DEFINE rows == {i} \cup {l \in Lessons : SectionOf[l] = i /\ Present(l)}
  <2>1. rows \subseteq Items /\ SetRows(rows, Gone)
    BY <1>5 DEF EraseRow, Items
  <2> HIDE DEF rows
  <2> QED
    BY <2>1, SetRowsKeeps
<1>6. CASE UNCHANGED curriculumVars
  BY <1>6 DEF curriculumVars, OrderInv, CurriculumTypeOK, WritesItsIds, Transacting, RowLocked,
     LockedBy
<1>7. CASE CurriculumNext
  BY <1>1, <1>2, <1>3, <1>4, <1>5, <1>7, UpdateRowKeeps, CommitKeeps DEF CurriculumNext
<1> QED
  BY <1>6, <1>7

LEMMA OrderInvariance == CurriculumSpec => []OrderInv
  BY OrderInit, OrderStep, PTL DEF CurriculumSpec

\* Every variable of Curriculum keeps its type, and no row of the curriculum is
\* written by two transactions.
THEOREM CurriculumTypes == CurriculumSpec => []CurriculumTypeOK
<1>1. OrderInv => CurriculumTypeOK
  BY DEF OrderInv
<1> QED
  BY <1>1, OrderInvariance, PTL

\* A student finds the rows of a curriculum as the finished requests left them,
\* whatever transactions are under way, are undone or wait for each other.
THEOREM OrderIsChosen == CurriculumSpec => []OrderWasChosen
  BY OrderAgrees, OrderInvariance, PTL

\* What an editor waits for, as CourseOrder has it.
Wanted == [x \in Editors |-> IF Transacting(x) THEN {editor[x].ids} ELSE {}]

\* A row that a transaction has written was there before it.
WereThere == \A x \in Editors : \A i \in DOMAIN undo[x] : undo[x][i] \notin {Unmade, Gone}

LEMMA WereThereStep ==
    ASSUME OrderInv, WereThere, [CurriculumNext]_curriculumVars
    PROVE  WereThere'
<1>0. CurriculumTypeOK
  BY DEF OrderInv
<1>1. ASSUME NEW x \in Editors, UpdateRow(x)
      PROVE  WereThere'
  <2>1. /\ \A y \in Editors \ {x} : undo'[y] = undo[y]
        /\ \A i \in DOMAIN undo'[x] :
               undo'[x][i] = IF i \in DOMAIN undo[x] THEN undo[x][i] ELSE place[i]
        /\ DOMAIN undo'[x] = DOMAIN undo[x] \cup {Target(x)}
        /\ place[Target(x)] \notin {Unmade, Gone}
    BY <1>0, <1>1 DEF UpdateRow, CurriculumTypeOK, Present
  <2> QED
    BY <2>1 DEF WereThere
<1>2. ASSUME NEW x \in Editors, undo' = [undo EXCEPT ![x] = <<>>]
      PROVE  WereThere'
  BY <1>0, <1>2, Unlocks DEF WereThere
<1>3. ASSUME undo' = undo
      PROVE  WereThere'
  BY <1>3 DEF WereThere
<1>4. ASSUME NEW x \in Editors,
             MissRow(x) \/ BreakDeadlock(x) \/ LoseConnection(x) \/ CommitOrder(x)
      PROVE  WereThere'
  BY <1>2, <1>4 DEF MissRow, BreakDeadlock, LoseConnection, Rollback, CommitOrder
<1>5. CASE CurriculumNext
  BY <1>1, <1>3, <1>4, <1>5 DEF CurriculumNext, Reorder, AddLesson, MoveRow, EraseRow, SetRows
<1>6. CASE UNCHANGED curriculumVars
  BY <1>3, <1>6 DEF curriculumVars
<1> QED
  BY <1>5, <1>6

\* A reader and the transactions agree on which rows there are.
LEMMA ThereIsPresent ==
    ASSUME OrderInv, WereThere, OrderWasChosen, NEW i \in Items
    PROVE  Order!There(i) <=> Present(i)
<1>1. CASE RowLocked(i)
  <2>1. PICK x \in Editors : i \in DOMAIN undo[x]
    BY <1>1 DEF RowLocked, LockedBy
  <2>2. WritesItsIds(x) /\ undo[x][i] = chosen[i] /\ undo[x][i] \notin {Unmade, Gone}
    BY <2>1 DEF OrderInv, WereThere
  <2>3. place[i] \in 1..(editor[x].next - 1)
    BY <2>1, <2>2 DEF WritesItsIds
  <2>4. place[i] \notin {Unmade, Gone}
    BY <2>3, CurriculumAssumption
  <2> QED
    BY <2>2, <2>4 DEF OrderWasChosen, Order!There, Present
<1>2. CASE ~RowLocked(i)
  BY <1>2 DEF OrderInv, OrderWasChosen, Order!There, Present
<1> QED
  BY <1>1, <1>2

\* The request of one editor comes or goes, and the others wait on.
LEMMA WantedChanges ==
    ASSUME OrderInv, NEW x \in Editors, NEW new,
           editor' = [editor EXCEPT ![x] = new]
    PROVE  Wanted' = [Wanted EXCEPT ![x] = IF new = Resting THEN {} ELSE {new.ids}]
<1>1. /\ DOMAIN editor = Editors /\ DOMAIN editor' = Editors /\ editor'[x] = new
      /\ \A y \in Editors \ {x} : editor'[y] = editor[y]
  BY DEF OrderInv, CurriculumTypeOK
<1>2. \A y \in Editors : Wanted'[y] = IF y = x THEN (IF new = Resting THEN {} ELSE {new.ids})
                                                ELSE Wanted[y]
  BY <1>1 DEF Wanted, Transacting
<1>3. Wanted' = [y \in Editors |-> Wanted'[y]] /\ DOMAIN Wanted = Editors
  BY DEF Wanted
<1> HIDE DEF Wanted
<1> QED
  BY <1>2, <1>3

LEMMA ReorderAsks ==
    ASSUME OrderInv, OrderWasChosen, OrderWasChosen', NEW x \in Editors, NEW ids \in Seq(Items),
           Reorder(x, ids)
    PROVE  Order!Ask(x, ids) /\ Wanted' # Wanted
<1> DEFINE new == [ids |-> ids, next |-> 1]
<1>1. /\ editor[x] = Resting /\ Committed' = Committed
      /\ editor' = [editor EXCEPT ![x] = new]
  BY DEF Reorder, OrderWasChosen
<1>2. new # Resting /\ new.ids = ids
  BY CurriculumAssumption DEF Orders
<1> HIDE DEF new
<1>3. Wanted' = [Wanted EXCEPT ![x] = {ids}]
  BY <1>1, <1>2, WantedChanges
<1>4. Wanted[x] = {} /\ x \in DOMAIN Wanted
  BY <1>1 DEF Wanted, Transacting
<1>5. Wanted' # Wanted
  BY <1>3, <1>4
<1> QED
  BY <1>1, <1>3, <1>4, <1>5 DEF Order!Ask, Wanted

LEMMA UpdateIsUnseen ==
    ASSUME OrderInv, OrderWasChosen, OrderWasChosen', NEW x \in Editors, UpdateRow(x)
    PROVE  UNCHANGED Order!vars
<1>1. Committed' = Committed /\ Transacting(x) /\ editor' = [editor EXCEPT ![x].next = @ + 1]
  BY DEF UpdateRow, OrderWasChosen
<1>2. /\ editor[x] \in Orders /\ DOMAIN editor = Editors /\ DOMAIN editor' = Editors
      /\ editor'[x] = [editor[x] EXCEPT !.next = @ + 1]
      /\ \A y \in Editors \ {x} : editor'[y] = editor[y]
  BY <1>1 DEF OrderInv, CurriculumTypeOK, Transacting
<1>3. editor'[x] \in Orders /\ editor'[x].ids = editor[x].ids
  BY <1>2 DEF Orders
<1>4. Transacting(x)'
  BY <1>3, CurriculumAssumption DEF Transacting
<1>5. Wanted' = Wanted
  BY <1>1, <1>2, <1>3, <1>4 DEF Wanted, Transacting
<1> QED
  BY <1>1, <1>5 DEF Order!vars, Wanted

LEMMA RollbackAbandons ==
    ASSUME OrderInv, OrderWasChosen, OrderWasChosen', NEW x \in Editors,
           Transacting(x), Rollback(x)
    PROVE  Order!Abandon(x) /\ Wanted' # Wanted
<1>1. Committed' = Committed /\ editor' = [editor EXCEPT ![x] = Resting]
  BY DEF Rollback, OrderWasChosen
<1>2. Wanted' = [Wanted EXCEPT ![x] = {}]
  BY <1>1, WantedChanges
<1>3. Wanted[x] # {} /\ x \in DOMAIN Wanted
  BY DEF Wanted
<1>4. Wanted' # Wanted
  BY <1>2, <1>3
<1> QED
  BY <1>1, <1>2, <1>3, <1>4 DEF Order!Abandon, Wanted

LEMMA CommitArranges ==
    ASSUME OrderInv, WereThere, OrderWasChosen, OrderWasChosen', NEW x \in Editors,
           CommitOrder(x), NEW ids, ids = editor[x].ids
    PROVE  Order!Arrange(x, ids) /\ ids \in Wanted[x] /\ Wanted' # Wanted
<1>1. /\ chosen' = [i \in Items |-> IF i \in Range(ids)
                                    THEN SelectLastInSeq(ids, LAMBDA j : j = i) ELSE chosen[i]]
      /\ editor' = [editor EXCEPT ![x] = Resting]
      /\ Transacting(x) /\ Done(x) /\ Committed = chosen /\ Committed' = chosen'
      /\ CurriculumTypeOK /\ WritesItsIds(x)
  BY DEF CommitOrder, OrderInv, OrderWasChosen, Done
<1>2. ids \in Seq(Items) /\ Len(ids) \in Nat /\ Len(ids) <= editor[x].next - 1
  <2>1. editor[x] \in Orders
    BY <1>1 DEF CurriculumTypeOK, Transacting
  <2>2. ids \in Seq(Items) /\ Len(ids) \in Nat /\ editor[x].next \in Nat
    BY <2>1 DEF Orders
  <2> QED
    BY <1>1, <2>2 DEF Done
<1>3. \A k \in 1..Len(ids) : k \in 1..(editor[x].next - 1)
  <2>1. editor[x].next \in Nat
    BY <1>1 DEF CurriculumTypeOK, Transacting, Orders
  <2> QED
    BY <1>2, <2>1
<1>4. \A i \in Range(ids) : i \in Items /\ Order!There(i)
  <2>1. ASSUME NEW k \in DOMAIN ids
        PROVE  ids[k] \in DOMAIN undo[x]
    <3>1. k \in 1..Len(ids)
      BY <1>2
    <3> QED
      BY <1>1, <1>3, <3>1 DEF WritesItsIds
  <2>2. ASSUME NEW i \in DOMAIN undo[x]
        PROVE  i \in Items /\ Order!There(i)
    <3>1. i \in Items /\ undo[x][i] = chosen[i] /\ undo[x][i] \notin {Unmade, Gone}
      BY <1>1 DEF CurriculumTypeOK, OrderInv, WereThere
    <3> QED
      BY <1>1, <3>1 DEF Order!There
  <2> QED
    BY <2>1, <2>2 DEF Range
<1>5. Wanted' = [Wanted EXCEPT ![x] = {}] /\ ids \in Wanted[x]
  <2>1. Wanted' = [Wanted EXCEPT ![x] = {}]
    BY <1>1, WantedChanges
  <2> QED
    BY <1>1, <2>1 DEF Wanted
<1>6. Order!Range(ids) = Range(ids)
  BY DEF Order!Range, Range
<1>7. Committed' = [i \in Order!Items |->
                      IF i \in Order!Range(ids) THEN Order!SelectLastInSeq(ids, LAMBDA j : j = i)
                                                ELSE Committed[i]]
  <2> DEFINE Here(i) == SelectLastInSeq(ids, LAMBDA j : j = i)
             There(i) == Order!SelectLastInSeq(ids, LAMBDA j : j = i)
  <2>1. \A i : There(i) = Here(i)
    BY DEF Order!SelectLastInSeq, SelectLastInSeq, Order!Max, Max
  <2>2. chosen' = [i \in Items |-> IF i \in Range(ids) THEN Here(i) ELSE Committed[i]]
    BY <1>1
  <2> HIDE DEF Here, There
  <2>3. chosen' = [i \in Items |-> IF i \in Range(ids) THEN There(i) ELSE Committed[i]]
    BY <2>1, <2>2
  <2>4. Committed' = [i \in Order!Items |-> IF i \in Order!Range(ids) THEN There(i)
                                                                   ELSE Committed[i]]
    BY <1>1, <1>6, <2>3, Zenon DEF Order!Items, Items
  <2> QED
    BY <2>4 DEF There
<1>8. Order!Arrange(x, ids)
  BY <1>4, <1>5, <1>6, <1>7, Zenon DEF Order!Arrange, Wanted
<1>9. Wanted' # Wanted
  <2>1. x \in DOMAIN Wanted
    BY DEF Wanted
  <2> QED
    BY <1>5, <2>1
<1> QED
  BY <1>5, <1>8, <1>9

LEMMA SetRowsSets ==
    ASSUME OrderWasChosen, OrderWasChosen', NEW rows, NEW value, SetRows(rows, value)
    PROVE  /\ Committed' = [i \in Items |-> IF i \in rows THEN value ELSE Committed[i]]
           /\ Wanted' = Wanted
BY DEF SetRows, OrderWasChosen, Wanted, Transacting

LEMMA AddLessonAdds ==
    ASSUME OrderInv, WereThere, OrderWasChosen, OrderWasChosen',
           NEW l \in Lessons, NEW n \in Places, AddLesson(l, n)
    PROVE  Order!Add(l, n)
<1>1. /\ l \in Items /\ SectionOf[l] \in Items /\ DOMAIN Committed = Items
  BY CurriculumAssumption DEF Items, Committed
<1>2. Committed[l] = Unmade
  BY <1>1 DEF AddLesson, SetRows, OrderInv, OrderWasChosen
<1>3. Order!There(SectionOf[l])
  BY <1>1, ThereIsPresent DEF AddLesson
<1>4. /\ Committed' = [i \in Items |-> IF i \in {l} THEN n ELSE Committed[i]]
      /\ Wanted' = Wanted
  BY SetRowsSets DEF AddLesson
<1>5. Committed' = [Committed EXCEPT ![l] = n]
  BY <1>1, <1>4
<1> QED
  BY <1>2, <1>3, <1>4, <1>5 DEF Order!Add, Wanted

LEMMA MoveRowMoves ==
    ASSUME OrderInv, WereThere, OrderWasChosen, OrderWasChosen',
           NEW i \in Items, NEW n \in Places, MoveRow(i, n)
    PROVE  Order!Move(i, n)
<1>1. DOMAIN Committed = Items
  BY DEF Committed
<1>2. Order!There(i)
  BY ThereIsPresent DEF MoveRow
<1>3. /\ Committed' = [j \in Items |-> IF j \in {i} THEN n ELSE Committed[j]]
      /\ Wanted' = Wanted
  BY SetRowsSets DEF MoveRow
<1>4. Committed' = [Committed EXCEPT ![i] = n]
  BY <1>1, <1>3
<1> QED
  BY <1>2, <1>3, <1>4 DEF Order!Move, Wanted

LEMMA EraseRowErases ==
    ASSUME OrderInv, WereThere, OrderWasChosen, OrderWasChosen', NEW i \in Items, EraseRow(i)
    PROVE  Order!Erase(i)
<1> DEFINE rows == {i} \cup {l \in Lessons : SectionOf[l] = i /\ Present(l)}
<1>1. /\ Committed' = [j \in Items |-> IF j \in rows THEN Gone ELSE Committed[j]]
      /\ Wanted' = Wanted
  BY SetRowsSets DEF EraseRow
<1>2. \A l \in Lessons : Order!There(l) <=> Present(l)
  BY ThereIsPresent DEF Items
<1>3. Order!There(i)
  BY ThereIsPresent DEF EraseRow
<1>4. rows = {i} \cup {l \in Lessons : SectionOf[l] = i /\ Order!There(l)}
  BY <1>2
<1> HIDE DEF rows
<1> QED
  BY <1>1, <1>3, <1>4 DEF Order!Erase, Order!Items, Items, Wanted

\* Every step of the transactions is a step of the order, or none.
LEMMA OrderMoves ==
    ASSUME OrderInv, OrderInv', WereThere, [CurriculumNext]_curriculumVars
    PROVE  [Order!Next]_(Order!vars)
<1>0. OrderWasChosen /\ OrderWasChosen'
  BY OrderAgrees, PTL
<1>1. ASSUME NEW x \in Editors, NEW ids \in Orderings, Reorder(x, ids)
      PROVE  Order!Next
  <2>1. Order!Ask(x, ids) /\ Wanted' # Wanted
    BY <1>0, <1>1, ReorderAsks, OrderingsAreSequences
  <2> QED
    BY <2>1 DEF Order!Next, Wanted
<1>2. ASSUME NEW x \in Editors, UpdateRow(x)
      PROVE  UNCHANGED Order!vars
  BY <1>0, <1>2, UpdateIsUnseen
<1>3. ASSUME NEW x \in Editors, MissRow(x) \/ BreakDeadlock(x) \/ LoseConnection(x)
      PROVE  Order!Next
  <2>1. Transacting(x) /\ Rollback(x)
    BY <1>3 DEF MissRow, BreakDeadlock, LoseConnection, WaitsFor
  <2>2. Order!Abandon(x) /\ Wanted' # Wanted
    BY <1>0, <2>1, RollbackAbandons
  <2> QED
    BY <2>2 DEF Order!Next, Wanted
<1>4. ASSUME NEW x \in Editors, CommitOrder(x)
      PROVE  Order!Next
  <2>1. PICK ids : ids = editor[x].ids
    OBVIOUS
  <2>2. Order!Arrange(x, ids) /\ ids \in Wanted[x] /\ Wanted' # Wanted
    BY <1>0, <1>4, <2>1, CommitArranges
  <2> QED
    BY <2>2 DEF Order!Next, Wanted
<1>5. ASSUME \/ \E l \in Lessons, n \in Places : Order!Add(l, n)
             \/ \E i \in Items, n \in Places : Order!Move(i, n)
             \/ \E i \in Items : Order!Erase(i)
      PROVE  [Order!Next]_(Order!vars)
  <2>1. Wanted' = Wanted
    BY <1>5 DEF Order!Add, Order!Move, Order!Erase, Wanted
  <2>2. CASE Committed' = Committed
    BY <2>1, <2>2 DEF Order!vars, Wanted
  <2>3. CASE Committed' # Committed
    BY <1>5, <2>3 DEF Order!Next, Order!Items, Items
  <2> QED
    BY <2>2, <2>3
<1>6. ASSUME NEW l \in Lessons, NEW n \in Places, AddLesson(l, n)
      PROVE  [Order!Next]_(Order!vars)
  BY <1>0, <1>5, <1>6, AddLessonAdds
<1>7. ASSUME NEW i \in Items, NEW n \in Places, MoveRow(i, n)
      PROVE  [Order!Next]_(Order!vars)
  BY <1>0, <1>5, <1>7, MoveRowMoves
<1>8. ASSUME NEW i \in Items, EraseRow(i)
      PROVE  [Order!Next]_(Order!vars)
  BY <1>0, <1>5, <1>8, EraseRowErases
<1>9. CASE UNCHANGED curriculumVars
  BY <1>9 DEF curriculumVars, Order!vars, Committed, RowLocked, LockedBy, Transacting
<1>10. CASE CurriculumNext
  BY <1>1, <1>2, <1>3, <1>4, <1>6, <1>7, <1>8, <1>10 DEF CurriculumNext
<1> QED
  BY <1>9, <1>10

LEMMA OrderStarts == CurriculumInit => Order!Init /\ WereThere
<1> SUFFICES ASSUME CurriculumInit
             PROVE  Order!Init /\ WereThere
  OBVIOUS
<1>1. OrderWasChosen
  BY OrderInit, OrderFollows
<1>2. Committed = [i \in Items |-> IF i \in Sections THEN 0 ELSE Unmade]
  BY <1>1 DEF OrderWasChosen, CurriculumInit
<1>3. Wanted = [x \in Editors |-> {}]
  BY DEF CurriculumInit, Wanted, Transacting
<1>4. WereThere
  BY DEF CurriculumInit, WereThere
<1> QED
  BY <1>2, <1>3, <1>4 DEF Order!Init, Order!Items, Items, Wanted

\* A reordering is what CourseOrder says of it: its readers, and every other
\* request, find all its rows moved or none, whichever transactions are under
\* way, wait for each other, are undone or cut off.
THEOREM OrderImplemented == CurriculumSpec => ImplementsOrder
<1>1. CurriculumSpec => []OrderInv
  BY OrderInvariance
<1>2. OrderInv /\ WereThere /\ [CurriculumNext]_curriculumVars => WereThere'
  BY WereThereStep
<1>3. OrderInv /\ OrderInv' /\ WereThere /\ [CurriculumNext]_curriculumVars
          => [Order!Next]_(Order!vars)
  BY OrderMoves
<1> QED
  BY <1>1, <1>2, <1>3, OrderStarts, PTL DEF CurriculumSpec, ImplementsOrder, Order!Spec

-----------------------------------------------------------------------------
(***************************************************************************)
(* Slots                                                                   *)
(***************************************************************************)

\* What an update has yet to write suits the row, unless another has changed it.
UpdateFits(x) ==
    EditAt(x, "update") /\ edit[x].slot \in Kept \ blurred =>
        LET row == Amended(slot[edit[x].slot], edit[x].change) IN row.start < row.end

\* A replacement has found what those before it left on its day.
ReplacesAll(x) ==
    EditAt(x, "replace") =>
        \A s \in Kept :
            slot[s].day = edit[x].day /\ slot[s].by # "alone" /\ slot[s].day \notin mixed
                => s \in edit[x].doomed

EditsMeet ==
    \A x \in SlotCalls : \A y \in SlotCalls \ {x} :
        /\ EditAt(x, "update") /\ EditAt(y, "update") /\ edit[x].slot = edit[y].slot
               => edit[x].slot \in blurred
        /\ EditAt(x, "replace") /\ EditAt(y, "replace") /\ edit[x].day = edit[y].day
               => edit[x].day \in mixed

SlotsInv ==
    /\ SlotsTypeOK /\ SlotsRunForward /\ OneReplacementADay /\ EditsMeet
    /\ \A x \in SlotCalls : UpdateFits(x) /\ ReplacesAll(x)

LEMMA AmendedRow ==
    ASSUME NEW change \in Changes, NEW row \in SlotRecords
    PROVE  /\ Amended(row, change) \in SlotRecords
           /\ Amended(row, change).day = row.day /\ Amended(row, change).by = row.by
           /\ {"start", "end"} \cap DOMAIN change = {}
                  => /\ Amended(row, change).start = row.start
                     /\ Amended(row, change).end = row.end
<1>1. DOMAIN row = {"day", "start", "end", "active", "by"}
  BY DEF SlotRecords
<1>2. CASE change \in [start : Hours]
  <2>1. DOMAIN change = {"start"}
    BY <1>2
  <2>2. Amended(row, change) = [row EXCEPT !.start = change.start]
    BY <1>1, <1>2, <2>1 DEF Amended
  <2> QED
    BY <1>2, <2>1, <2>2 DEF SlotRecords
<1>3. CASE change \in [end : Hours]
  <2>1. DOMAIN change = {"end"}
    BY <1>3
  <2>2. Amended(row, change) = [row EXCEPT !.end = change.end]
    BY <1>1, <1>3, <2>1 DEF Amended
  <2> QED
    BY <1>3, <2>1, <2>2 DEF SlotRecords
<1>4. CASE change \in [start : Hours, end : Hours]
  <2>1. DOMAIN change = {"start", "end"}
    BY <1>4
  <2>2. Amended(row, change) = [row EXCEPT !.start = change.start, !.end = change.end]
    BY <1>1, <1>4, <2>1 DEF Amended
  <2> QED
    BY <1>4, <2>1, <2>2 DEF SlotRecords
<1>5. CASE change \in [active : BOOLEAN]
  <2>1. DOMAIN change = {"active"}
    BY <1>5
  <2>2. Amended(row, change) = [row EXCEPT !.active = change.active]
    BY <1>1, <1>5, <2>1 DEF Amended
  <2> QED
    BY <1>5, <2>1, <2>2 DEF SlotRecords
<1> QED
  BY <1>2, <1>3, <1>4, <1>5 DEF Changes

LEMMA EditFields ==
    ASSUME SlotsTypeOK, NEW x \in SlotCalls
    PROVE  /\ EditAt(x, "update") => /\ edit[x].slot \in SlotRows /\ edit[x].change \in Changes
                                     /\ edit[x] = [what |-> "update", slot |-> edit[x].slot,
                                                   change |-> edit[x].change]
           /\ EditAt(x, "replace") => /\ edit[x].day \in Days /\ edit[x].spans \in SUBSET Spans
                                      /\ edit[x].doomed \in SUBSET SlotRows
                                      /\ edit[x] = [what |-> "replace", day |-> edit[x].day,
                                                    spans |-> edit[x].spans,
                                                    doomed |-> edit[x].doomed]
<1>1. edit[x] \in Edits \cup {Calm}
  BY DEF SlotsTypeOK
<1>2. CASE edit[x] \in [what : {"update"}, slot : SlotRows, change : Changes]
  BY <1>2 DEF EditAt
<1>3. CASE edit[x] \in [what : {"replace"}, day : Days, spans : SUBSET Spans, doomed : SUBSET SlotRows]
  BY <1>3 DEF EditAt
<1>4. CASE edit[x] \in [what : {"done"}] \cup {Calm}
  BY <1>4 DEF EditAt
<1> QED
  BY <1>1, <1>2, <1>3, <1>4 DEF Edits

LEMMA EntryFields ==
    ASSUME NEW d \in Days, NEW span \in Spans, NEW shown \in BOOLEAN,
           NEW by \in SlotCalls \cup {"alone"}
    PROVE  /\ Entry(d, span, shown, by) \in SlotRecords
           /\ Entry(d, span, shown, by).day = d /\ Entry(d, span, shown, by).by = by
           /\ Entry(d, span, shown, by).start < Entry(d, span, shown, by).end
BY DEF Entry, Spans, SlotRecords

LEMMA SlotsInvInit == SlotsInit => SlotsInv
BY DEF SlotsInit, SlotsInv, SlotsTypeOK, SlotsRunForward, OneReplacementADay, EditsMeet,
   UpdateFits, ReplacesAll, EditAt, Kept

LEMMA CreateSlotKeeps ==
    ASSUME SlotsInv, NEW d \in Days, NEW span \in Spans, NEW shown \in BOOLEAN,
           CreateSlot(d, span, shown)
    PROVE  SlotsInv'
<1> DEFINE row == Entry(d, span, shown, "alone")
<1>1. PICK s \in SlotRows \ (Kept \cup Awaited) :
          /\ slot' = [slot EXCEPT ![s] = row]
          /\ blurred' = blurred \ {s} /\ UNCHANGED <<edit, mixed>>
  BY DEF CreateSlot
<1>2. row \in SlotRecords /\ row.day = d /\ row.by = "alone" /\ row.start < row.end
  BY EntryFields
<1> HIDE DEF row
<1>3. SlotsTypeOK
  BY DEF SlotsInv
<1>4. slot'[s] = row /\ \A t \in SlotRows \ {s} : slot'[t] = slot[t]
  BY <1>1, <1>3 DEF SlotsTypeOK
<1>5. /\ Kept' \subseteq Kept \cup {s}
      /\ \A t \in Kept : t # s /\ t \in Kept' /\ slot'[t] = slot[t]
  BY <1>1, <1>4 DEF Kept
<1>6. /\ \A x \in SlotCalls : edit'[x] = edit[x]
      /\ \A x \in SlotCalls : EditAt(x, "update") => edit[x].slot # s
  BY <1>1 DEF Awaited
<1>7. SlotsTypeOK'
  <2>1. slot' \in [SlotRows -> SlotRecords \cup {NoSlot}]
    BY <1>1, <1>2, <1>3 DEF SlotsTypeOK
  <2>2. \A x \in SlotCalls : EditAt(x, "replace") =>
            \A t \in edit[x].doomed : t \in Kept' /\ slot'[t].day = edit[x].day
    BY <1>3, <1>5 DEF SlotsTypeOK
  <2> QED
    BY <1>1, <1>3, <2>1, <2>2 DEF SlotsTypeOK, EditAt
<1>8. SlotsRunForward'
  BY <1>1, <1>2, <1>4, <1>5 DEF SlotsInv, SlotsRunForward
<1>9. OneReplacementADay'
  BY <1>1, <1>2, <1>4, <1>5 DEF SlotsInv, OneReplacementADay
<1>10. EditsMeet'
  <2>1. EditsMeet
    BY DEF SlotsInv
  <2> QED
    BY <1>1, <1>6, <2>1 DEF EditsMeet, EditAt
<1>11. ASSUME NEW x \in SlotCalls
       PROVE  UpdateFits(x)' /\ ReplacesAll(x)'
  <2>1. UpdateFits(x) /\ ReplacesAll(x)
    BY DEF SlotsInv
  <2>2. UpdateFits(x)'
    BY <1>1, <1>5, <1>6, <2>1 DEF UpdateFits, EditAt
  <2>3. ReplacesAll(x)'
    BY <1>1, <1>2, <1>4, <1>5, <2>1 DEF ReplacesAll, EditAt
  <2> QED
    BY <2>2, <2>3
<1> QED
  BY <1>7, <1>8, <1>9, <1>10, <1>11 DEF SlotsInv

LEMMA DeleteSlotKeeps ==
    ASSUME SlotsInv, NEW s \in SlotRows, DeleteSlot(s)
    PROVE  SlotsInv'
<1>1. /\ s \in Kept /\ slot' = [slot EXCEPT ![s] = NoSlot]
      /\ UNCHANGED <<edit, blurred, mixed>> /\ SlotsTypeOK
      /\ \A x \in SlotCalls : EditAt(x, "replace") => s \notin edit[x].doomed
  BY DEF DeleteSlot, Locked, SlotsInv
<1>2. slot'[s] = NoSlot /\ \A t \in SlotRows \ {s} : slot'[t] = slot[t]
  BY <1>1 DEF SlotsTypeOK
<1>3. /\ Kept' = Kept \ {s} /\ \A t \in Kept' : t \in Kept /\ slot'[t] = slot[t]
  BY <1>1, <1>2 DEF Kept
<1>4. SlotsTypeOK'
  <2>1. slot' \in [SlotRows -> SlotRecords \cup {NoSlot}]
    BY <1>1 DEF SlotsTypeOK
  <2>2. \A x \in SlotCalls : EditAt(x, "replace") =>
            \A t \in edit[x].doomed : t \in Kept' /\ slot'[t].day = edit[x].day
    BY <1>1, <1>3 DEF SlotsTypeOK
  <2> QED
    BY <1>1, <2>1, <2>2 DEF SlotsTypeOK, EditAt
<1>5. SlotsRunForward' /\ OneReplacementADay'
  BY <1>1, <1>3 DEF SlotsInv, SlotsRunForward, OneReplacementADay
<1>6. EditsMeet'
  BY <1>1 DEF SlotsInv, EditsMeet, EditAt
<1>7. ASSUME NEW x \in SlotCalls
      PROVE  UpdateFits(x)' /\ ReplacesAll(x)'
  <2>1. UpdateFits(x) /\ ReplacesAll(x)
    BY DEF SlotsInv
  <2>2. UpdateFits(x)'
    BY <1>1, <1>3, <2>1 DEF UpdateFits, EditAt
  <2>3. ReplacesAll(x)'
    BY <1>1, <1>3, <2>1 DEF ReplacesAll, EditAt
  <2> QED
    BY <2>2, <2>3
<1> QED
  BY <1>4, <1>5, <1>6, <1>7 DEF SlotsInv

\* The edits of all requests but one are as they were, and so are the rows.
LEMMA OtherEdits ==
    ASSUME SlotsInv, NEW x \in SlotCalls, NEW e \in Edits,
           edit' = [edit EXCEPT ![x] = e]
    PROVE  /\ edit' \in [SlotCalls -> Edits \cup {Calm}] /\ edit'[x] = e
           /\ \A y \in SlotCalls \ {x} : edit'[y] = edit[y]
BY DEF SlotsInv, SlotsTypeOK

LEMMA BeginUpdateKeeps ==
    ASSUME SlotsInv, NEW x \in SlotCalls, NEW s \in SlotRows, NEW change \in Changes,
           BeginUpdate(x, s, change)
    PROVE  SlotsInv'
<1> DEFINE others == {y \in SlotCalls : EditAt(y, "update") /\ edit[y].slot = s}
           e == [what |-> "update", slot |-> s, change |-> change]
<1>1. /\ edit[x] = Calm /\ s \in Kept /\ AmendmentIsValid(slot[s], change)
      /\ edit' = [edit EXCEPT ![x] = e]
      /\ blurred' = IF others = {} THEN blurred ELSE blurred \cup {s}
      /\ slot' = slot /\ mixed' = mixed /\ SlotsTypeOK
  BY DEF BeginUpdate, SlotsInv
<1>2. e \in Edits /\ e.what = "update" /\ e.slot = s /\ e.change = change
  BY DEF Edits
<1> HIDE DEF e
<1>3. /\ edit' \in [SlotCalls -> Edits \cup {Calm}] /\ edit'[x] = e
      /\ \A y \in SlotCalls \ {x} : edit'[y] = edit[y]
  BY <1>1, <1>2, OtherEdits
<1>4. Kept' = Kept /\ blurred \subseteq blurred' /\ blurred' \subseteq blurred \cup {s}
  BY <1>1 DEF Kept
<1>5. /\ ~ EditAt(x, "replace")' /\ ~ EditAt(x, "update") /\ ~ EditAt(x, "replace")
      /\ \A y \in SlotCalls \ {x} : \A what : EditAt(y, what)' = EditAt(y, what)
  BY <1>1, <1>2, <1>3 DEF EditAt
<1>6. SlotsTypeOK'
  <2>1. \A y \in SlotCalls : EditAt(y, "replace")' =>
            \A t \in edit'[y].doomed : t \in Kept' /\ slot'[t].day = edit'[y].day
    BY <1>1, <1>3, <1>4, <1>5 DEF SlotsTypeOK
  <2> QED
    BY <1>1, <1>3, <1>4, <2>1 DEF SlotsTypeOK
<1>7. SlotsRunForward' /\ OneReplacementADay'
  BY <1>1, <1>4 DEF SlotsInv, SlotsRunForward, OneReplacementADay
<1>8. EditsMeet'
  <2>1. ASSUME NEW y \in SlotCalls \ {x}, EditAt(y, "update"), edit[y].slot = s
        PROVE  s \in blurred'
    BY <1>1, <2>1
  <2>2. EditsMeet
    BY DEF SlotsInv
  <2> QED
    BY <1>1, <1>2, <1>3, <1>4, <1>5, <2>1, <2>2 DEF EditsMeet
<1>9. ASSUME NEW y \in SlotCalls
      PROVE  UpdateFits(y)' /\ ReplacesAll(y)'
  <2>1. CASE y = x
    <3>1. ASSUME s \in Kept' \ blurred'
          PROVE  Amended(slot[s], change).start < Amended(slot[s], change).end
      <4>1. s \in Kept \ blurred /\ slot[s] \in SlotRecords
        BY <1>1, <1>4, <3>1 DEF SlotsTypeOK, Kept
      <4>2. slot[s].start < slot[s].end
        BY <4>1 DEF SlotsInv, SlotsRunForward
      <4> QED
        BY <1>1, <4>1, <4>2, AmendedRow DEF AmendmentIsValid
    <3> QED
      BY <1>1, <1>2, <1>3, <1>5, <2>1, <3>1 DEF UpdateFits, ReplacesAll
  <2>2. CASE y # x
    <3>1. UpdateFits(y) /\ ReplacesAll(y)
      BY DEF SlotsInv
    <3> QED
      BY <1>1, <1>3, <1>4, <1>5, <2>2, <3>1 DEF UpdateFits, ReplacesAll
  <2> QED
    BY <2>1, <2>2
<1> QED
  BY <1>6, <1>7, <1>8, <1>9 DEF SlotsInv

LEMMA EndUpdateKeeps ==
    ASSUME SlotsInv, NEW x \in SlotCalls, EndUpdate(x)
    PROVE  SlotsInv'
<1> DEFINE s == edit[x].slot
           row == Amended(slot[s], edit[x].change)
           e == [what |-> "done"]
<1>1. /\ EditAt(x, "update") /\ s \in SlotRows /\ edit[x].change \in Changes
      /\ \A y \in SlotCalls : EditAt(y, "replace") => s \notin edit[y].doomed
      /\ slot' = IF s \in Kept THEN [slot EXCEPT ![s] = row] ELSE slot
      /\ edit' = [edit EXCEPT ![x] = e]
      /\ blurred' = blurred /\ mixed' = mixed /\ SlotsTypeOK
  BY EditFields DEF EndUpdate, Locked, SlotsInv
<1>2. e \in Edits /\ e.what = "done"
  BY DEF Edits
<1>3. /\ edit' \in [SlotCalls -> Edits \cup {Calm}] /\ edit'[x] = e
      /\ \A y \in SlotCalls \ {x} : edit'[y] = edit[y]
  <2> HIDE DEF e
  <2> QED
    BY <1>1, <1>2, OtherEdits
<1>4. /\ ~ EditAt(x, "update")' /\ ~ EditAt(x, "replace")'
      /\ \A y \in SlotCalls \ {x} : \A what : EditAt(y, what)' = EditAt(y, what)
  BY <1>2, <1>3 DEF EditAt
<1>5. s \in Kept => row \in SlotRecords /\ row.day = slot[s].day /\ row.by = slot[s].by
  BY <1>1, AmendedRow DEF SlotsTypeOK, Kept
<1>6. s \in Kept \ blurred => row.start < row.end
  BY <1>1 DEF SlotsInv, UpdateFits
<1> HIDE DEF row, e
<1>7. /\ slot' \in [SlotRows -> SlotRecords \cup {NoSlot}]
      /\ \A t \in SlotRows \ {s} : slot'[t] = slot[t]
      /\ s \notin Kept => slot'[s] = slot[s]
      /\ s \in Kept => slot'[s] = row
  BY <1>1, <1>5 DEF SlotsTypeOK
<1> HIDE DEF s
<1>8. /\ Kept' \subseteq Kept
      /\ \A t \in Kept \ {s} : t \in Kept' /\ slot'[t] = slot[t]
      /\ \A t \in Kept' : slot'[t].day = slot[t].day /\ slot'[t].by = slot[t].by
  BY <1>1, <1>5, <1>7 DEF Kept
<1>9. SlotsTypeOK'
  <2>1. \A y \in SlotCalls : EditAt(y, "replace")' =>
            \A t \in edit'[y].doomed : t \in Kept' /\ slot'[t].day = edit'[y].day
    BY <1>1, <1>3, <1>4, <1>8 DEF SlotsTypeOK
  <2> QED
    BY <1>1, <1>3, <1>7, <2>1 DEF SlotsTypeOK
<1>10. SlotsRunForward'
  BY <1>1, <1>6, <1>7, <1>8 DEF SlotsInv, SlotsRunForward
<1>11. OneReplacementADay'
  BY <1>1, <1>8 DEF SlotsInv, OneReplacementADay
<1>12. EditsMeet'
  BY <1>1, <1>3, <1>4 DEF SlotsInv, EditsMeet
<1>13. ASSUME NEW y \in SlotCalls
       PROVE  UpdateFits(y)' /\ ReplacesAll(y)'
  <2>1. CASE y = x
    BY <1>4, <2>1 DEF UpdateFits, ReplacesAll
  <2>2. CASE y # x
    <3>1. UpdateFits(y) /\ ReplacesAll(y) /\ edit'[y] = edit[y]
      BY <1>3, <2>2 DEF SlotsInv
    <3>2. UpdateFits(y)'
      <4>1. EditAt(y, "update") => edit[y].slot # s \/ s \in blurred
        BY <1>1, <2>2 DEF SlotsInv, EditsMeet, s
      <4> QED
        BY <1>1, <1>4, <1>8, <2>2, <3>1, <4>1 DEF UpdateFits
    <3>3. ReplacesAll(y)'
      BY <1>1, <1>4, <1>8, <2>2, <3>1 DEF ReplacesAll
    <3> QED
      BY <3>2, <3>3
  <2> QED
    BY <2>1, <2>2
<1> QED
  BY <1>9, <1>10, <1>11, <1>12, <1>13 DEF SlotsInv

LEMMA BeginReplaceKeeps ==
    ASSUME SlotsInv, NEW x \in SlotCalls, NEW d \in Days, NEW spans \in SUBSET Spans,
           BeginReplace(x, d, spans)
    PROVE  SlotsInv'
<1> DEFINE others == {y \in SlotCalls : EditAt(y, "replace") /\ edit[y].day = d}
           e == [what |-> "replace", day |-> d, spans |-> spans, doomed |-> OfDay(d)]
<1>1. /\ edit[x] = Calm /\ edit' = [edit EXCEPT ![x] = e]
      /\ mixed' = IF others = {} THEN mixed ELSE mixed \cup {d}
      /\ slot' = slot /\ blurred' = blurred /\ SlotsTypeOK
  BY DEF BeginReplace, SlotsInv
<1>2. e \in Edits /\ e.what = "replace" /\ e.day = d /\ e.doomed = OfDay(d)
  BY DEF Edits, OfDay, Kept
<1> HIDE DEF e
<1>3. /\ edit' \in [SlotCalls -> Edits \cup {Calm}] /\ edit'[x] = e
      /\ \A y \in SlotCalls \ {x} : edit'[y] = edit[y]
  BY <1>1, <1>2, OtherEdits
<1>4. Kept' = Kept /\ mixed \subseteq mixed' /\ mixed' \subseteq mixed \cup {d}
  BY <1>1 DEF Kept
<1>5. /\ ~ EditAt(x, "update")' /\ ~ EditAt(x, "update") /\ ~ EditAt(x, "replace")
      /\ \A y \in SlotCalls \ {x} : \A what : EditAt(y, what)' = EditAt(y, what)
  BY <1>1, <1>2, <1>3 DEF EditAt
<1>6. SlotsTypeOK'
  <2>1. \A t \in OfDay(d) : t \in Kept /\ slot[t].day = d
    BY DEF OfDay
  <2>2. ASSUME NEW y \in SlotCalls, EditAt(y, "replace")', NEW t \in edit'[y].doomed
        PROVE  t \in Kept' /\ slot'[t].day = edit'[y].day
    <3>1. CASE y = x
      BY <1>1, <1>2, <1>3, <1>4, <2>1, <2>2, <3>1
    <3>2. CASE y # x
      BY <1>1, <1>3, <1>4, <1>5, <2>2, <3>2 DEF SlotsTypeOK
    <3> QED
      BY <3>1, <3>2
  <2> QED
    BY <1>1, <1>3, <1>4, <2>2 DEF SlotsTypeOK
<1>7. SlotsRunForward' /\ OneReplacementADay'
  BY <1>1, <1>4 DEF SlotsInv, SlotsRunForward, OneReplacementADay
<1>8. EditsMeet'
  <2>1. ASSUME NEW y \in SlotCalls \ {x}, EditAt(y, "replace"), edit[y].day = d
        PROVE  d \in mixed'
    BY <1>1, <2>1
  <2>2. EditsMeet
    BY DEF SlotsInv
  <2> QED
    BY <1>1, <1>2, <1>3, <1>4, <1>5, <2>1, <2>2 DEF EditsMeet
<1>9. ASSUME NEW y \in SlotCalls
      PROVE  UpdateFits(y)' /\ ReplacesAll(y)'
  <2>1. CASE y = x
    BY <1>1, <1>2, <1>3, <1>4, <1>5, <2>1 DEF UpdateFits, ReplacesAll, OfDay
  <2>2. CASE y # x
    <3>1. UpdateFits(y) /\ ReplacesAll(y)
      BY DEF SlotsInv
    <3> QED
      BY <1>1, <1>3, <1>4, <1>5, <2>2, <3>1 DEF UpdateFits, ReplacesAll
  <2> QED
    BY <2>1, <2>2
<1> QED
  BY <1>6, <1>7, <1>8, <1>9 DEF SlotsInv

LEMMA EndReplaceKeeps ==
    ASSUME SlotsInv, NEW x \in SlotCalls, EndReplace(x)
    PROVE  SlotsInv'
<1> DEFINE e == edit[x]
           free == ((SlotRows \ Kept) \cup e.doomed) \ Awaited
           Given(new, t) == \E span \in e.spans : new[span] = t
<1>1. /\ EditAt(x, "replace") /\ e.day \in Days /\ e.spans \in SUBSET Spans
      /\ e.doomed \in SUBSET SlotRows /\ \A t \in e.doomed : t \in Kept /\ slot[t].day = e.day
      /\ mixed' = mixed /\ SlotsTypeOK
  BY EditFields DEF EndReplace, SlotsInv, SlotsTypeOK
<1>2. PICK new \in [e.spans -> free], on \in SUBSET e.spans :
          /\ slot' = [t \in SlotRows |->
                IF \E span \in e.spans : new[span] = t
                THEN LET span == CHOOSE span \in e.spans : new[span] = t IN
                     Entry(e.day, span, span \in on, x)
                ELSE IF t \in e.doomed THEN NoSlot ELSE slot[t]]
          /\ edit' = [y \in SlotCalls |->
                IF y = x THEN [what |-> "done"]
                ELSE IF EditAt(y, "replace") THEN [edit[y] EXCEPT !.doomed = @ \ e.doomed]
                     ELSE edit[y]]
          /\ blurred' = blurred \ {new[span] : span \in e.spans}
  BY ZenonT(60) DEF EndReplace
<1>3. \A t \in SlotRows :
          Given(new, t) => /\ t \in free /\ slot'[t] \in SlotRecords
                           /\ slot'[t].day = e.day /\ slot'[t].by = x
                           /\ slot'[t].start < slot'[t].end
  <2> SUFFICES ASSUME NEW t \in SlotRows, Given(new, t)
               PROVE  /\ t \in free /\ slot'[t] \in SlotRecords
                      /\ slot'[t].day = e.day /\ slot'[t].by = x
                      /\ slot'[t].start < slot'[t].end
    OBVIOUS
  <2> DEFINE span == CHOOSE span \in e.spans : new[span] = t
  <2>1. span \in e.spans /\ new[span] = t
    BY Zenon
  <2> DEFINE shown == span \in on
             row == Entry(e.day, span, shown, x)
  <2>2. slot'[t] = row
    BY <1>2
  <2>3. t \in free
    BY <2>1
  <2>4. span \in Spans /\ shown \in BOOLEAN
    BY <1>1, <2>1
  <2> HIDE DEF span, free, shown
  <2>5. row \in SlotRecords /\ row.day = e.day /\ row.by = x /\ row.start < row.end
    BY <1>1, <2>4, EntryFields
  <2> QED
    BY <2>2, <2>3, <2>5
<1>4. \A t \in SlotRows :
          ~ Given(new, t) => slot'[t] = IF t \in e.doomed THEN NoSlot ELSE slot[t]
  BY <1>2
<1>5. \A t \in SlotRows : Given(new, t) => (t \notin Kept \/ t \in e.doomed) /\ t \notin Awaited
  BY <1>3
<1>6. \A t \in SlotRows : ~ Given(new, t) => (t \in blurred' <=> t \in blurred)
  BY <1>2
<1>7. /\ ~ EditAt(x, "update")' /\ ~ EditAt(x, "replace")'
      /\ \A y \in SlotCalls \ {x} :
            /\ EditAt(y, "update")' => EditAt(y, "update") /\ edit'[y] = edit[y]
            /\ EditAt(y, "replace")' => /\ EditAt(y, "replace") /\ edit'[y].day = edit[y].day
                                        /\ edit'[y].doomed = edit[y].doomed \ e.doomed
      /\ edit' \in [SlotCalls -> Edits \cup {Calm}]
  <2>1. edit'[x] = [what |-> "done"]
    BY <1>2
  <2>2. ~ EditAt(x, "update")' /\ ~ EditAt(x, "replace")'
    BY <2>1 DEF EditAt
  <2>3. ASSUME NEW y \in SlotCalls \ {x}
        PROVE  /\ EditAt(y, "update")' => EditAt(y, "update") /\ edit'[y] = edit[y]
               /\ EditAt(y, "replace")' => /\ EditAt(y, "replace") /\ edit'[y].day = edit[y].day
                                           /\ edit'[y].doomed = edit[y].doomed \ e.doomed
               /\ edit'[y] \in Edits \cup {Calm}
    <3>1. CASE EditAt(y, "replace")
      <4> DEFINE rest == edit[y].doomed \ e.doomed
      <4>1. /\ edit[y] = [what |-> "replace", day |-> edit[y].day, spans |-> edit[y].spans,
                          doomed |-> edit[y].doomed]
            /\ edit[y].day \in Days /\ edit[y].spans \in SUBSET Spans
            /\ edit[y].doomed \in SUBSET SlotRows
        BY <1>1, <3>1, EditFields
      <4>2. edit'[y] = [edit[y] EXCEPT !.doomed = rest]
        BY <1>2, <3>1
      <4>3. rest \in SUBSET SlotRows
        BY <4>1
      <4> DEFINE r == edit[y]
      <4> HIDE DEF rest
      <4>6. r = [what |-> "replace", day |-> r.day, spans |-> r.spans, doomed |-> r.doomed]
        BY <4>1
      <4>7. edit'[y] = [r EXCEPT !.doomed = rest]
        BY <4>2
      <4> HIDE DEF r
      <4>8. edit'[y] = [what |-> "replace", day |-> r.day, spans |-> r.spans, doomed |-> rest]
        BY <4>6, <4>7
      <4>4. edit'[y] \in Edits
        BY <4>1, <4>3, <4>8 DEF Edits, r
      <4>5. edit'[y].what = "replace" /\ edit'[y].day = edit[y].day /\ edit'[y].doomed = rest
        BY <4>8 DEF r
      <4> QED
        BY <3>1, <4>4, <4>5 DEF EditAt, rest
    <3>2. CASE ~ EditAt(y, "replace")
      <4>1. edit'[y] = edit[y] /\ edit[y] \in Edits \cup {Calm}
        BY <1>1, <1>2, <3>2 DEF SlotsTypeOK
      <4> QED
        BY <3>2, <4>1 DEF EditAt
    <3> QED
      BY <3>1, <3>2
  <2>4. edit'[x] \in Edits
    BY <2>1 DEF Edits
  <2>5. edit' = [y \in SlotCalls |-> edit'[y]]
    BY <1>2
  <2> QED
    BY <2>2, <2>3, <2>4, <2>5
<1>8. slot' \in [SlotRows -> SlotRecords \cup {NoSlot}]
  <2>1. \A t \in SlotRows : slot'[t] \in SlotRecords \cup {NoSlot}
    BY <1>1, <1>3, <1>4 DEF SlotsTypeOK
  <2>2. slot' = [t \in SlotRows |-> slot'[t]]
    BY <1>2
  <2> QED
    BY <2>1, <2>2
<1> HIDE DEF free, Given
<1>9. /\ \A t \in Kept' : ~ Given(new, t) => t \in Kept /\ slot'[t] = slot[t] /\ t \notin e.doomed
      /\ \A t \in Kept : t \notin e.doomed => t \in Kept' /\ slot'[t] = slot[t] /\ ~ Given(new, t)
      /\ Kept' \subseteq SlotRows
  BY <1>4, <1>5 DEF Kept
<1>10. SlotsTypeOK'
  <2>1. ASSUME NEW y \in SlotCalls, EditAt(y, "replace")', NEW t \in edit'[y].doomed
        PROVE  t \in Kept' /\ slot'[t].day = edit'[y].day
    <3>1. /\ y # x /\ EditAt(y, "replace") /\ edit'[y].day = edit[y].day
          /\ t \in edit[y].doomed /\ t \notin e.doomed
      BY <1>7, <2>1
    <3>2. t \in Kept /\ slot[t].day = edit[y].day
      BY <1>1, <3>1 DEF SlotsTypeOK
    <3> QED
      BY <1>9, <3>1, <3>2
  <2>2. blurred' \subseteq SlotRows
    BY <1>1, <1>2 DEF SlotsTypeOK
  <2> QED
    BY <1>1, <1>7, <1>8, <2>1, <2>2 DEF SlotsTypeOK
<1>11. SlotsRunForward'
  <2>1. ASSUME NEW t \in Kept', t \notin blurred'
        PROVE  slot'[t].start < slot'[t].end
    <3>1. CASE Given(new, t)
      BY <1>3, <1>9, <3>1
    <3>2. CASE ~ Given(new, t)
      BY <1>6, <1>9, <2>1, <3>2 DEF SlotsInv, SlotsRunForward
    <3> QED
      BY <3>1, <3>2
  <2> QED
    BY <2>1 DEF SlotsRunForward
<1>12. \A t \in Kept : slot[t].day = e.day /\ slot[t].by # "alone" /\ slot[t].day \notin mixed
           => t \in e.doomed
  BY <1>1 DEF SlotsInv, ReplacesAll
<1>13. OneReplacementADay'
  <2>1. ASSUME NEW s \in Kept', NEW t \in Kept', slot'[s].day = slot'[t].day,
               slot'[s].day \notin mixed', "alone" \notin {slot'[s].by, slot'[t].by}
        PROVE  slot'[s].by = slot'[t].by
    <3>1. CASE Given(new, s) /\ Given(new, t)
      BY <1>3, <1>9, <3>1
    <3>2. CASE Given(new, s) /\ ~ Given(new, t)
      BY <1>1, <1>3, <1>9, <1>12, <2>1, <3>2
    <3>3. CASE ~ Given(new, s) /\ Given(new, t)
      BY <1>1, <1>3, <1>9, <1>12, <2>1, <3>3
    <3>4. CASE ~ Given(new, s) /\ ~ Given(new, t)
      BY <1>1, <1>9, <2>1, <3>4 DEF SlotsInv, OneReplacementADay
    <3> QED
      BY <3>1, <3>2, <3>3, <3>4
  <2> QED
    BY <2>1 DEF OneReplacementADay
<1>14. EditsMeet'
  <2>1. EditsMeet
    BY DEF SlotsInv
  <2>2. \A y \in SlotCalls : EditAt(y, "update") => ~ Given(new, edit[y].slot) /\ edit[y].slot \in SlotRows
    BY <1>1, <1>5, EditFields DEF Awaited
  <2>3. ASSUME NEW y \in SlotCalls, NEW z \in SlotCalls \ {y},
               EditAt(y, "update")', EditAt(z, "update")', edit'[y].slot = edit'[z].slot
        PROVE  edit'[y].slot \in blurred'
    BY <1>6, <1>7, <2>1, <2>2, <2>3 DEF EditsMeet
  <2>4. ASSUME NEW y \in SlotCalls, NEW z \in SlotCalls \ {y},
               EditAt(y, "replace")', EditAt(z, "replace")', edit'[y].day = edit'[z].day
        PROVE  edit'[y].day \in mixed'
    BY <1>1, <1>7, <2>1, <2>4 DEF EditsMeet
  <2> QED
    BY <2>3, <2>4 DEF EditsMeet
<1>15. ASSUME NEW y \in SlotCalls
       PROVE  UpdateFits(y)' /\ ReplacesAll(y)'
  <2>1. CASE y = x
    BY <1>7, <2>1 DEF UpdateFits, ReplacesAll
  <2>2. CASE y # x
    <3>1. UpdateFits(y) /\ ReplacesAll(y)
      BY DEF SlotsInv
    <3>2. UpdateFits(y)'
      <4> SUFFICES ASSUME EditAt(y, "update")', edit'[y].slot \in Kept' \ blurred'
                   PROVE  LET row == Amended(slot'[edit'[y].slot], edit'[y].change)
                          IN  row.start < row.end
        BY DEF UpdateFits
      <4>1. EditAt(y, "update") /\ edit'[y] = edit[y] /\ edit[y].slot \in SlotRows
        BY <1>1, <1>7, <2>2, EditFields
      <4>2. ~ Given(new, edit[y].slot)
        BY <1>5, <4>1 DEF Awaited
      <4>3. edit[y].slot \in Kept \ blurred /\ slot'[edit[y].slot] = slot[edit[y].slot]
        BY <1>6, <1>9, <4>1, <4>2
      <4> QED
        BY <3>1, <4>1, <4>3 DEF UpdateFits
    <3>3. ReplacesAll(y)'
      <4> SUFFICES ASSUME EditAt(y, "replace")', NEW t \in Kept', slot'[t].day = edit'[y].day,
                          slot'[t].by # "alone", slot'[t].day \notin mixed'
                   PROVE  t \in edit'[y].doomed
        BY DEF ReplacesAll
      <4>1. /\ EditAt(y, "replace") /\ edit'[y].day = edit[y].day
            /\ edit'[y].doomed = edit[y].doomed \ e.doomed
        BY <1>7, <2>2
      <4>2. CASE Given(new, t)
        <5>1. slot'[t].day = e.day
          BY <1>3, <1>9, <4>2
        <5>2. e.day \in mixed
          BY <1>1, <2>2, <4>1, <5>1 DEF SlotsInv, EditsMeet
        <5> QED
          BY <1>1, <5>1, <5>2
      <4>3. CASE ~ Given(new, t)
        <5>1. t \in Kept /\ slot'[t] = slot[t] /\ t \notin e.doomed
          BY <1>9, <4>3
        <5>2. t \in edit[y].doomed
          BY <1>1, <3>1, <4>1, <5>1 DEF ReplacesAll
        <5> QED
          BY <4>1, <5>1, <5>2
      <4> QED
        BY <4>2, <4>3
    <3> QED
      BY <3>2, <3>3
  <2> QED
    BY <2>1, <2>2
<1> QED
  BY <1>10, <1>11, <1>13, <1>14, <1>15 DEF SlotsInv

LEMMA SlotsInvStep == SlotsInv /\ [SlotsNext]_slotsVars => SlotsInv'
<1> SUFFICES ASSUME SlotsInv, [SlotsNext]_slotsVars
             PROVE  SlotsInv'
  OBVIOUS
<1>1. CASE UNCHANGED slotsVars
  BY <1>1 DEF slotsVars, SlotsInv, SlotsTypeOK, SlotsRunForward, OneReplacementADay, EditsMeet,
     UpdateFits, ReplacesAll, EditAt, Kept
<1>2. CASE SlotsNext
  BY <1>2, CreateSlotKeeps, DeleteSlotKeeps, BeginUpdateKeeps, BeginReplaceKeeps, EndUpdateKeeps,
     EndReplaceKeeps DEF SlotsNext
<1> QED
  BY <1>1, <1>2

LEMMA SlotsInvariance == SlotsSpec => []SlotsInv
  BY SlotsInvInit, SlotsInvStep, PTL DEF SlotsSpec

\* Every variable of Slots keeps its type, and a replacement has locked rows of
\* its own day only.
THEOREM SlotsTypes == SlotsSpec => []SlotsTypeOK
<1>1. SlotsInv => SlotsTypeOK
  BY DEF SlotsInv
<1> QED
  BY <1>1, SlotsInvariance, PTL

\* A slot begins before it ends and a day shows the slots of one replacement,
\* whatever requests come between the reading and the writing of another, but
\* for two updates of a slot or two replacements of a day at one time.
THEOREM SlotsSound == SlotsSpec => []SlotsAreSound
<1>1. SlotsInv => SlotsAreSound
  BY DEF SlotsInv, SlotsAreSound
<1> QED
  BY <1>1, SlotsInvariance, PTL

-----------------------------------------------------------------------------
(***************************************************************************)
(* Coupons                                                                 *)
(***************************************************************************)

\* A quote was made of the coupon as it still is, and so was a fresh bill.
QuoteStands ==
    quote # NoQuote =>
        LET c == Canonical[quote.typed] IN
        /\ InForce(c, quote.course)
        /\ quote.final \in
               FinalInCents(Less(quote.amount * Cent, QuotedDiscount(c, quote.amount)))

BillStands ==
    /\ bill # NoQuote /\ bill.applied => bill.typed \in Codes
    /\ bill # NoQuote /\ bill.fresh =>
          LET price == PriceOf[bill.course]
              valid == bill.typed \in Codes /\ InForce(bill.typed, bill.course) IN
          \E francs \in Francs(IF valid THEN Less(price * Cent, ChargedDiscount(bill.typed, price))
                                         ELSE price * Cent) :
              bill.amount = Payable(francs)

CouponsInv == CouponsTypeOK /\ QuoteAddsUp /\ QuoteStands /\ BillStands

\* What a number is rounded to lies within half a unit of it.
LEMMA NearestIs ==
    ASSUME NEW n \in Int, NEW unit \in Nat \ {0}, NEW m \in Nearest(n, unit)
    PROVE  m \in Int /\ (2 * m - 1) * unit <= 2 * n /\ 2 * n <= (2 * m + 1) * unit
<1>1. n \div unit \in Int
  OBVIOUS
<1>2. m \in Int /\ 2 * n \in (2 * m - 1) * unit..(2 * m + 1) * unit
  BY <1>1 DEF Nearest
<1>3. (2 * m - 1) * unit \in Int /\ (2 * m + 1) * unit \in Int /\ 2 * n \in Int
  BY <1>2
<1> QED
  BY <1>2, <1>3

\* Rounding to cents and to francs.
LEMMA CentsAddUp ==
    ASSUME NEW a \in Nat, NEW d \in Int,
           NEW saved \in Cents(d), NEW final \in FinalInCents(Less(a * Cent, d))
    PROVE  /\ saved \in Int /\ final \in Nat
           /\ \/ saved + final \in (a - 1)..(a + 1)
              \/ saved > a /\ final = 0
<1> DEFINE n == Less(a * Cent, d)
<1>1. n \in Nat /\ n = IF a * 10000 > d THEN a * 10000 - d ELSE 0
  BY DEF Less, Cent
<1>2. saved \in Int /\ (2 * saved - 1) * 10000 <= 2 * d /\ 2 * d <= (2 * saved + 1) * 10000
  BY NearestIs DEF Cents, Cent
<1>3. final \in Int /\ (2 * final - 1) * 10000 <= 2 * n /\ 2 * n <= (2 * final + 1) * 10000
  <2> HIDE DEF n
  <2>1. final \in Nearest(n, Cent)
    BY DEF FinalInCents, Cents, n
  <2> QED
    BY <1>1, <2>1, NearestIs DEF Cent
<1> HIDE DEF n
<1> QED
  BY <1>1, <1>2, <1>3

LEMMA CentsAndFrancs ==
    ASSUME NEW m \in Nat, NEW final \in FinalInCents(m), NEW francs \in Francs(m)
    PROVE  /\ final \in Nat /\ Payable(francs) \in Nat \ {0}
           /\ \/ Payable(francs) * 100 \in (final - 50)..(final + 50)
              \/ Payable(francs) = 1 /\ final <= 50
<1>1. final \in Int /\ (2 * final - 1) * 10000 <= 2 * m /\ 2 * m <= (2 * final + 1) * 10000
  BY NearestIs DEF FinalInCents, Cents, Cent
<1>2. /\ francs \in Int
      /\ (2 * francs - 1) * 1000000 <= 2 * m /\ 2 * m <= (2 * francs + 1) * 1000000
  BY NearestIs DEF Francs, Franc
<1>3. final \in Nat /\ francs \in Nat
  BY <1>1, <1>2
<1> QED
  BY <1>1, <1>2, <1>3 DEF Payable

LEMMA DiscountTypes ==
    ASSUME CouponsTypeOK, NEW c \in Codes, coupon[c] # NoOffer, NEW amount \in Nat
    PROVE  /\ QuotedDiscount(c, amount) = ChargedDiscount(c, amount)
           /\ QuotedDiscount(c, amount) \in Int
<1> DEFINE row == coupon[c]
<1>1. /\ row.kind \in {"percentage", "fixed"} /\ row.value \in Int
      /\ row.cap \in Nat \cup {NoCap}
  BY DEF CouponsTypeOK, OfferRows
<1>2. Share(c, amount) \in Int
  <2>1. amount * row.value \in Int /\ row.value * Cent \in Int
    BY <1>1 DEF Cent
  <2> QED
    BY <2>1 DEF Share
<1>3. Capped(c, Share(c, amount)) \in Int
  <2>1. row.cap # NoCap => row.cap * Cent \in Int
    BY <1>1 DEF Cent
  <2> QED
    BY <1>2, <2>1 DEF Capped, Lesser
<1> QED
  BY <1>2, <1>3 DEF QuotedDiscount, ChargedDiscount

LEMMA LessIsNat ==
    ASSUME NEW a \in Nat, NEW b \in Int
    PROVE  Less(a, b) \in Nat
BY DEF Less

LEMMA ChargeFollows ==
    ASSUME CouponsInv
    PROVE  QuoteIsCharged
<1> SUFFICES ASSUME quote # NoQuote, bill # NoQuote, bill.fresh,
                    quote.typed = bill.typed, quote.typed \in Codes,
                    quote.course = bill.course, quote.amount = PriceOf[quote.course]
             PROVE  \/ bill.amount * 100 \in (quote.final - 50)..(quote.final + 50)
                    \/ bill.amount = 1 /\ quote.final <= 50
  BY DEF QuoteIsCharged
<1> DEFINE c == quote.typed
           price == PriceOf[quote.course]
           m == Less(price * Cent, QuotedDiscount(c, price))
<1>1. CouponsTypeOK /\ Canonical[c] = c /\ quote.course \in OnSale /\ price \in Nat
  BY CouponsAssumption DEF CouponsInv, CouponsTypeOK, Quotes
<1>2. InForce(c, quote.course) /\ quote.final \in FinalInCents(m)
  BY <1>1 DEF CouponsInv, QuoteStands
<1>3. \E francs \in Francs(Less(price * Cent, ChargedDiscount(c, price))) :
          bill.amount = Payable(francs)
  BY <1>2 DEF CouponsInv, BillStands
<1>4. QuotedDiscount(c, price) = ChargedDiscount(c, price) /\ QuotedDiscount(c, price) \in Int
  BY <1>1, <1>2, DiscountTypes DEF InForce
<1>5. m \in Nat
  <2> DEFINE d == QuotedDiscount(c, price)
             whole == price * Cent
  <2>1. d \in Int /\ whole \in Nat
    BY <1>1, <1>4 DEF Cent
  <2> HIDE DEF d, whole
  <2>2. Less(whole, d) \in Nat
    BY <2>1, LessIsNat
  <2> QED
    BY <2>2 DEF d, whole
<1>6. PICK francs \in Francs(m) : bill.amount = Payable(francs)
  BY <1>3, <1>4
<1> HIDE DEF m, c, price
<1>7. \/ Payable(francs) * 100 \in (quote.final - 50)..(quote.final + 50)
      \/ Payable(francs) = 1 /\ quote.final <= 50
  BY <1>2, <1>5, <1>6, CentsAndFrancs
<1> QED
  BY <1>6, <1>7

\* What a change leaves of a quote and of a bill.
LEMMA ChangeKeeps ==
    ASSUME CouponsInv, Changed
    PROVE  /\ quote' \in Quotes \cup {NoQuote} /\ bill' \in Bills \cup {NoQuote}
           /\ QuoteAddsUp' /\ QuoteStands' /\ BillStands'
<1>1. bill \in Bills \cup {NoQuote}
  BY DEF CouponsInv, CouponsTypeOK
<1>2. quote' = NoQuote
  BY DEF Changed
<1>3. \/ bill' = bill /\ bill = NoQuote
      \/ bill # NoQuote /\ bill \in Bills /\ bill' = [bill EXCEPT !.fresh = FALSE]
  BY <1>1 DEF Changed, Outdated
<1>4. bill' \in Bills \cup {NoQuote}
  BY <1>3 DEF Bills
<1>5. QuoteAddsUp' /\ QuoteStands'
  BY <1>2 DEF QuoteAddsUp, QuoteStands
<1>6. BillStands'
  BY <1>3 DEF CouponsInv, BillStands, Bills
<1> QED
  BY <1>2, <1>4, <1>5, <1>6

LEMMA CouponsInvInit == CouponsInit => CouponsInv
BY CouponsAssumption DEF CouponsInit, CouponsInv, CouponsTypeOK, QuoteAddsUp, QuoteStands,
   BillStands, Windows

LEMMA UpdatedRow ==
    ASSUME NEW row \in OfferRows, NEW change \in Amendments
    PROVE  Updated(row, change) \in OfferRows
<1> DEFINE new == Updated(row, change)
           names == {"kind", "value", "minimum", "cap", "limit", "active", "courses"}
<1>1. DOMAIN row = names /\ \A column \in names : row[column] \in Columns[column]
  BY DEF OfferRows, Columns
<1>2. \A column \in names : new[column] \in Columns[column]
  BY <1>1, CouponsAssumption DEF Updated
<1>3. new = [kind |-> new["kind"], value |-> new["value"], minimum |-> new["minimum"],
             cap |-> new["cap"], limit |-> new["limit"], active |-> new["active"],
             courses |-> new["courses"]]
  BY <1>1 DEF Updated
<1> HIDE DEF new
<1>4. /\ new["kind"] \in {"percentage", "fixed"} /\ new["value"] \in Int /\ new["minimum"] \in Nat
      /\ new["cap"] \in Nat \cup {NoCap} /\ new["limit"] \in Int /\ new["active"] \in BOOLEAN
      /\ new["courses"] \in SUBSET OnSale
  BY <1>2 DEF Columns
<1>5. [kind |-> new["kind"], value |-> new["value"], minimum |-> new["minimum"],
       cap |-> new["cap"], limit |-> new["limit"], active |-> new["active"],
       courses |-> new["courses"]] \in OfferRows
  BY <1>4 DEF OfferRows
<1>6. new \in OfferRows
  BY <1>3, <1>5, Zenon
<1> QED
  BY <1>6 DEF new

\* What is kept when nothing of a coupon changes.
LEMMA SameCoupons ==
    ASSUME UNCHANGED <<coupon, used, window>>
    PROVE  \A c, course : InForce(c, course)' = InForce(c, course)
BY DEF InForce, Exhausted, Covers

LEMMA SameDiscounts ==
    ASSUME UNCHANGED coupon
    PROVE  \A c, amount : /\ QuotedDiscount(c, amount)' = QuotedDiscount(c, amount)
                          /\ ChargedDiscount(c, amount)' = ChargedDiscount(c, amount)
BY DEF QuotedDiscount, ChargedDiscount, Capped, Share

LEMMA AdministratorKeeps ==
    ASSUME CouponsInv, Changed,
           coupon' \in [Codes -> OfferRows \cup {NoOffer}], used' \in [Codes -> 0..MaxUses],
           window' \in [Codes -> Windows], spent' = spent
    PROVE  CouponsInv'
<1>1. /\ quote' \in Quotes \cup {NoQuote} /\ bill' \in Bills \cup {NoQuote}
      /\ QuoteAddsUp' /\ QuoteStands' /\ BillStands'
  BY ChangeKeeps
<1>2. CouponsTypeOK'
  BY <1>1 DEF CouponsInv, CouponsTypeOK
<1> QED
  BY <1>1, <1>2 DEF CouponsInv

LEMMA ValidateKeeps ==
    ASSUME CouponsInv, NEW typed \in Typed, NEW course \in OnSale, NEW amount \in Nat,
           ValidateCoupon(typed, course, amount)
    PROVE  CouponsInv'
<1> DEFINE c == Canonical[typed]
           d == QuotedDiscount(c, amount)
<1>0. PICK saved \in Cents(d), final \in FinalInCents(Less(amount * Cent, d)) :
          quote' = [typed |-> typed, course |-> course, amount |-> amount,
                    discount |-> saved, final |-> final]
  BY DEF ValidateCoupon
<1> DEFINE q == [typed |-> typed, course |-> course, amount |-> amount,
                 discount |-> saved, final |-> final]
<1>1. /\ InForce(c, course) /\ quote' = q /\ UNCHANGED <<coupon, used, window, spent, bill>>
      /\ c \in Codes /\ CouponsTypeOK
  BY <1>0, CouponsAssumption DEF ValidateCoupon, CouponsInv
<1>2. d \in Int
  BY <1>1, DiscountTypes DEF InForce
<1>3. /\ saved \in Int /\ final \in Nat
      /\ \/ saved + final \in (amount - 1)..(amount + 1)
         \/ saved > amount /\ final = 0
  <2> HIDE DEF d
  <2> QED
    BY <1>0, <1>2, CentsAddUp
<1>4. q \in Quotes
  BY <1>3 DEF Quotes
<1>5. QuoteAddsUp'
  BY <1>1, <1>3 DEF QuoteAddsUp
<1>6. QuoteStands'
  <2>1. InForce(c, course)'
    BY <1>1, SameCoupons
  <2>2. QuotedDiscount(c, amount)' = d
    BY <1>1, SameDiscounts
  <2>3. quote'.typed = typed /\ quote'.course = course /\ quote'.amount = amount /\ quote'.final = final
    BY <1>1
  <2> QED
    BY <1>0, <2>1, <2>2, <2>3 DEF QuoteStands
<1>7. BillStands'
  <2>1. bill' = bill
    BY <1>1
  <2>2. InForce(bill.typed, bill.course)' = InForce(bill.typed, bill.course)
    BY <1>1, <2>1, SameCoupons
  <2>3. ChargedDiscount(bill.typed, PriceOf[bill.course])' = ChargedDiscount(bill.typed, PriceOf[bill.course])
    BY <1>1, <2>1, SameDiscounts
  <2>4. BillStands
    BY DEF CouponsInv
  <2> QED
    BY <2>1, <2>2, <2>3, <2>4 DEF BillStands
<1>8. CouponsTypeOK'
  BY <1>1, <1>4 DEF CouponsTypeOK
<1> QED
  BY <1>5, <1>6, <1>7, <1>8 DEF CouponsInv

LEMMA PaymentKeeps ==
    ASSUME CouponsInv, NEW typed \in Typed, NEW course \in OnSale,
           CreatePaymentIntent(typed, course)
    PROVE  CouponsInv'
<1> DEFINE price == PriceOf[course]
           valid == typed \in Codes /\ InForce(typed, course)
           m == IF valid THEN Less(price * Cent, ChargedDiscount(typed, price)) ELSE price * Cent
<1>0. PICK francs \in Francs(m) :
          bill' = [typed |-> typed, course |-> course, applied |-> valid,
                   amount |-> Payable(francs), fresh |-> TRUE]
  BY DEF CreatePaymentIntent
<1> DEFINE amount == Payable(francs)
           b == [typed |-> typed, course |-> course, applied |-> valid, amount |-> amount,
                 fresh |-> TRUE]
<1>1. /\ bill' = b /\ UNCHANGED <<coupon, used, window, spent, quote>> /\ CouponsTypeOK
      /\ price \in Nat /\ price * Cent \in Nat
  <2>1. price \in Nat
    BY CouponsAssumption
  <2>2. price * Cent \in Nat
    BY <2>1 DEF Cent
  <2>3. bill' = b /\ UNCHANGED <<coupon, used, window, spent, quote>>
    BY <1>0 DEF CreatePaymentIntent
  <2> QED
    BY <2>1, <2>2, <2>3 DEF CouponsInv
<1>2. m \in Nat
  <2>1. CASE valid
    <3>1. ChargedDiscount(typed, price) \in Int
      BY <1>1, <2>1, DiscountTypes DEF InForce
    <3> DEFINE d == ChargedDiscount(typed, price)
               whole == price * Cent
    <3>2. Less(whole, d) \in Nat
      <4>1. whole \in Nat /\ d \in Int
        BY <1>1, <3>1
      <4> HIDE DEF whole, d
      <4> QED
        BY <4>1, LessIsNat
    <3> QED
      BY <2>1, <3>2
  <2>2. CASE ~valid
    BY <1>1, <2>2
  <2> QED
    BY <2>1, <2>2
<1>3. amount \in Nat \ {0}
  <2>1. francs \in Int /\ 2 * m <= (2 * francs + 1) * 1000000
    <3> HIDE DEF m
    <3> QED
      BY <1>0, <1>2, NearestIs DEF Francs, Franc
  <2> HIDE DEF m
  <2> QED
    BY <1>2, <2>1 DEF Payable
<1>4. b \in Bills
  <2>1. valid \in BOOLEAN
    BY DEF InForce
  <2> HIDE DEF valid, amount
  <2> QED
    BY <1>3, <2>1 DEF Bills
<1>5. BillStands'
  <2>1. InForce(typed, course)' = InForce(typed, course)
    BY <1>1, SameCoupons
  <2>2. ChargedDiscount(typed, price)' = ChargedDiscount(typed, price)
    BY <1>1, SameDiscounts
  <2>3. bill'.typed = typed /\ bill'.course = course /\ bill'.amount = amount /\ bill'.applied = valid
    <3> HIDE DEF amount, valid
    <3> QED
      BY <1>1
  <2>4. \E f \in Francs(m) : bill'.amount = Payable(f)
    BY <1>0, <2>3
  <2> QED
    BY <2>1, <2>2, <2>3, <2>4 DEF BillStands
<1>6. QuoteStands'
  <2>1. quote' = quote
    BY <1>1
  <2>2. \A a, course2 : InForce(a, course2)' = InForce(a, course2)
    BY <1>1, SameCoupons
  <2>3. \A a, c : QuotedDiscount(c, a)' = QuotedDiscount(c, a)
    BY <1>1, SameDiscounts
  <2> QED
    BY <2>1, <2>2, <2>3 DEF CouponsInv, QuoteStands
<1>7. QuoteAddsUp'
  BY <1>1 DEF CouponsInv, QuoteAddsUp
<1>8. CouponsTypeOK'
  <2> HIDE DEF b
  <2> QED
    BY <1>1, <1>4 DEF CouponsTypeOK
<1> QED
  BY <1>5, <1>6, <1>7, <1>8 DEF CouponsInv

LEMMA SettleKeeps ==
    ASSUME CouponsInv, SettlePayment
    PROVE  CouponsInv'
<1>1. /\ quote' = NoQuote /\ bill' = NoQuote /\ UNCHANGED <<coupon, window>>
      /\ CouponsTypeOK
  BY DEF SettlePayment, CouponsInv
<1>3. quote' \in Quotes \cup {NoQuote} /\ QuoteAddsUp' /\ QuoteStands' /\ BillStands'
  BY <1>1 DEF QuoteAddsUp, QuoteStands, BillStands
<1>4. used' \in [Codes -> 0..MaxUses] /\ spent' \subseteq Codes
  <2>1. CASE ~ bill.applied
    BY <1>1, <2>1 DEF SettlePayment, CouponsTypeOK
  <2>2. CASE bill.applied
    <3>1. bill.typed \in Codes
      BY <2>2 DEF SettlePayment, CouponsInv, BillStands
    <3> QED
      BY <1>1, <2>2, <3>1, CouponsAssumption DEF SettlePayment, CouponsTypeOK
  <2> QED
    BY <2>1, <2>2
<1>5. CouponsTypeOK'
  BY <1>1, <1>3, <1>4 DEF CouponsTypeOK
<1> QED
  BY <1>3, <1>5 DEF CouponsInv

LEMMA CouponsInvStep == CouponsInv /\ [CouponsNext]_couponVars => CouponsInv'
<1> SUFFICES ASSUME CouponsInv, [CouponsNext]_couponVars
             PROVE  CouponsInv'
  OBVIOUS
<1>0. CouponsTypeOK
  BY DEF CouponsInv
<1>1. ASSUME NEW typed \in Typed, NEW offer \in Offers, NEW when \in Windows,
             CreateCoupon(typed, offer, when)
      PROVE  CouponsInv'
  <2>1. Canonical[typed] \in Codes /\ Entered(offer) \in OfferRows /\ MaxUses \in Nat
    BY CouponsAssumption
  <2>2. /\ coupon' \in [Codes -> OfferRows \cup {NoOffer}] /\ used' \in [Codes -> 0..MaxUses]
        /\ window' \in [Codes -> Windows]
    BY <1>0, <1>1, <2>1 DEF CreateCoupon, CouponsTypeOK
  <2> QED
    BY <1>1, <2>2, AdministratorKeeps DEF CreateCoupon
<1>2. ASSUME NEW c \in Codes, NEW change \in Amendments, NEW when \in Windows,
             UpdateCoupon(c, change, when)
      PROVE  CouponsInv'
  <2>1. coupon[c] \in OfferRows
    BY <1>0, <1>2 DEF UpdateCoupon, CouponsTypeOK
  <2>2. Updated(coupon[c], change) \in OfferRows
    BY <2>1, UpdatedRow
  <2>3. coupon' \in [Codes -> OfferRows \cup {NoOffer}] /\ window' \in [Codes -> Windows]
    BY <1>0, <1>2, <2>2 DEF UpdateCoupon, CouponsTypeOK
  <2> QED
    BY <1>0, <1>2, <2>3, AdministratorKeeps DEF UpdateCoupon, CouponsTypeOK
<1>3. ASSUME NEW c \in Codes, DeleteCoupon(c)
      PROVE  CouponsInv'
  BY <1>0, <1>3, AdministratorKeeps DEF DeleteCoupon, CouponsTypeOK
<1>4. ASSUME NEW c \in Codes, TimePasses(c)
      PROVE  CouponsInv'
  <2>1. window' \in [Codes -> Windows]
    BY <1>0, <1>4 DEF TimePasses, CouponsTypeOK, Windows
  <2> QED
    BY <1>0, <1>4, <2>1, AdministratorKeeps DEF TimePasses, CouponsTypeOK
<1>5. ASSUME NEW c \in Codes, UsedByAnother(c)
      PROVE  CouponsInv'
  <2>1. used' \in [Codes -> 0..MaxUses]
    BY <1>0, <1>5, CouponsAssumption DEF UsedByAnother, CouponsTypeOK
  <2> QED
    BY <1>0, <1>5, <2>1, AdministratorKeeps DEF UsedByAnother, CouponsTypeOK
<1>6. ASSUME NEW typed \in Typed, NEW course \in OnSale, NEW amount \in Amounts,
             ValidateCoupon(typed, course, amount)
      PROVE  CouponsInv'
  <2>1. amount \in Nat
    BY CouponsAssumption DEF Amounts
  <2> QED
    BY <1>6, <2>1, ValidateKeeps
<1>7. CASE UNCHANGED couponVars
  BY <1>7 DEF couponVars, CouponsInv, CouponsTypeOK, QuoteAddsUp, QuoteStands, BillStands,
     InForce, Exhausted, Covers, QuotedDiscount, ChargedDiscount, Capped, Share
<1>8. CASE CouponsNext
  BY <1>1, <1>2, <1>3, <1>4, <1>5, <1>6, <1>8, PaymentKeeps, SettleKeeps DEF CouponsNext
<1> QED
  BY <1>7, <1>8

LEMMA CouponsInvariance == CouponsSpec => []CouponsInv
  BY CouponsInvInit, CouponsInvStep, PTL DEF CouponsSpec

\* Every variable of Coupons keeps its type, and a payment asks for a franc at
\* least.
THEOREM CouponsTypes == CouponsSpec => []CouponsTypeOK
<1>1. CouponsInv => CouponsTypeOK
  BY DEF CouponsInv
<1> QED
  BY <1>1, CouponsInvariance, PTL

\* What a buyer is quoted adds up to the price, to a cent, and is what the
\* payment asks, to half a franc: for every price, value and cap of a coupon,
\* although quote and payment compute and round the discount apart, and halves
\* may be rounded either way.
THEOREM QuotesHonoured == CouponsSpec => []QuotesAreHonoured
<1>1. CouponsInv => QuotesAreHonoured
  BY ChargeFollows DEF CouponsInv, QuotesAreHonoured
<1> QED
  BY <1>1, CouponsInvariance, PTL

-----------------------------------------------------------------------------
(***************************************************************************)
(* Quizzes                                                                 *)
(***************************************************************************)

\* A submission has read this attempt, or stored its answers to it.
Took(s, a) ==
    \/ submission[s].at = "scored" /\ submission[s].attempt = a
    \/ answer[a][s] # {}

EarnsItsAnswers ==
    \A s \in Submissions : submission[s].at = "scored" =>
        /\ submission[s].result.earned = PointsOf(submission[s].answers)
        /\ submission[s].result.docked
           \/ submission[s].result.earned <= submission[s].result.total
NotYetAnswered ==
    \A a \in Attempts : attempt[a].at \in {"none", "open"} =>
        \A s \in Submissions : answer[a][s] = {}
TakenOnce ==
    \A a \in Attempts : \A s, t \in Submissions :
        Took(s, a) /\ Took(t, a) /\ s # t => {s, t} \cap raced # {}
\* The passes of attempts that were passed at the first query are no more than
\* those it counted.
PassesWereCounted ==
    report # NoResult => Cardinality(Passed \ late) <= report.total

QuizInv ==
    /\ QuizTypeOK
    /\ EarnsItsAnswers
    /\ NotYetAnswered
    /\ TakenOnce
    /\ PassesWereCounted
    /\ ResultIsOfItsAnswers
    /\ PassRateIsSound

LEMMA PointsAdd ==
    ASSUME NEW S, IsFiniteSet(S)
    PROVE  PointsOf(S) = SumOver([r \in S |-> r.points], S)
<1> DEFINE f == [r \in S |-> r.points]
           Adds(g) == g = [s \in SUBSET S |->
               IF s = {} THEN 0
               ELSE (CHOOSE x \in s : TRUE).points + g[s \ {CHOOSE x \in s : TRUE}]]
           h == CHOOSE g : Adds(g)
<1>1. PointsOf(S) = h[S]
  BY DEF PointsOf, MapThenSumSet, MapThenFoldSet
<1>2. ASSUME NEW g
      PROVE  IsPartialSum(g, f, S) <=> Adds(g)
  <2>1. ASSUME NEW s \in SUBSET S, s # {}
        PROVE  f[First(s)] = First(s).points
    BY <2>1, FirstIsMember
  <2> HIDE DEF f
  <2> QED
    BY <2>1 DEF IsPartialSum, First
<1>3. \E g : Adds(g)
  <2> HIDE DEF Adds, f
  <2> QED
    BY <1>2, PartialSumExists
<1> HIDE DEF Adds, f
<1>4. IsPartialSum(h, f, S)
  BY <1>2, <1>3
<1>5. PointsOf(S) = SumOver(f, S)
  BY <1>1, <1>4, SumIs
<1> QED
  BY <1>5 DEF f

LEMMA PointsOfQuestions ==
    ASSUME NEW S, IsFiniteSet(S)
    PROVE  MapThenSumSet(LAMBDA q : question[q].points, S)
               = SumOver([q \in S |-> question[q].points], S)
<1> DEFINE f == [q \in S |-> question[q].points]
           Adds(g) == g = [s \in SUBSET S |->
               IF s = {} THEN 0
               ELSE question[CHOOSE x \in s : TRUE].points + g[s \ {CHOOSE x \in s : TRUE}]]
           h == CHOOSE g : Adds(g)
<1>1. MapThenSumSet(LAMBDA q : question[q].points, S) = h[S]
  BY DEF MapThenSumSet, MapThenFoldSet
<1>2. ASSUME NEW g
      PROVE  IsPartialSum(g, f, S) <=> Adds(g)
  <2>1. ASSUME NEW s \in SUBSET S, s # {}
        PROVE  f[First(s)] = question[First(s)].points
    BY <2>1, FirstIsMember
  <2> HIDE DEF f
  <2> QED
    BY <2>1 DEF IsPartialSum, First
<1>3. \E g : Adds(g)
  <2> HIDE DEF Adds, f
  <2> QED
    BY <1>2, PartialSumExists
<1> HIDE DEF Adds, f
<1>4. IsPartialSum(h, f, S)
  BY <1>2, <1>3
<1>5. MapThenSumSet(LAMBDA q : question[q].points, S) = SumOver(f, S)
  BY <1>1, <1>4, SumIs
<1> QED
  BY <1>5 DEF f

\* A verdict is a Boolean.
LEMMA VerdictsAre ==
    ASSUME NEW e, NEW t, NEW p
    PROVE  Verdicts(e, t, p) \subseteq BOOLEAN
<1> DEFINE b == e * 100 >= p * t
           c == p = 0
<1>1. b \in BOOLEAN /\ c \in BOOLEAN
  OBVIOUS
<1>2. Verdicts(e, t, p) \in {{c}, BOOLEAN, {b}}
  BY DEF Verdicts
<1> HIDE DEF b, c
<1> QED
  BY <1>1, <1>2

\* What a submission earns is the sum of its answers', and no more than there is
\* while every question is worth something.
LEMMA ScoredIs ==
    ASSUME QuizTypeOK, NEW given \in [Questions -> GivenAnswers], NEW passed \in BOOLEAN
    PROVE  LET res == Scored(Marked(given), passed) IN
           /\ Marked(given) \in SUBSET AnswerRows
           /\ res \in Results
           /\ res.earned = PointsOf(Marked(given))
           /\ res.docked \/ res.earned <= res.total
<1> DEFINE most(q) == question[q].points
           got(q) == IF CheckAnswer(question[q].kind, given[q]) THEN most(q) ELSE 0
           m == [q \in Asked |-> [question |-> q, points |-> got(q)]]
           f == [q \in Asked |-> got(q)]
           t == [q \in Asked |-> most(q)]
           rows == {m[q] : q \in Asked}
           g == [r \in rows |-> r.points]
           docked == \E q \in Asked : most(q) < 0
<1>1. Asked \in SUBSET Questions /\ IsFiniteSet(Asked)
  BY QuizzesAssumption, FS_Subset DEF Asked
<1>2. ASSUME NEW q \in Asked
      PROVE  most(q) \in Int /\ got(q) \in Int /\ (~docked => 0 <= got(q) /\ got(q) <= most(q))
  <2>1. question[q] \in QuestionRows
    BY <1>2 DEF QuizTypeOK, Asked
  <2>2. most(q) \in Int
    <3>1. most(q) \in NewPoints \cup AmendedPoints
      BY <2>1 DEF QuestionRows
    <3>2. NewPoints \cup AmendedPoints \subseteq Int
      <4>1. NewPoints \subseteq Nat \ {0} /\ AmendedPoints \subseteq Int
        BY QuizzesAssumption
      <4> QED
        BY <4>1
    <3> HIDE DEF most
    <3> QED
      BY <3>1, <3>2
  <2>3. ~docked => ~(most(q) < 0)
    OBVIOUS
  <2> HIDE DEF most, docked
  <2> QED
    BY <2>2, <2>3
<1>3. rows \in SUBSET AnswerRows
  <2>1. ASSUME NEW q \in Asked
        PROVE  got(q) \in Int
    BY <1>2
  <2> HIDE DEF got
  <2> QED
    BY <1>1, <2>1 DEF AnswerRows
<1>4. docked \in BOOLEAN
  OBVIOUS
<1> HIDE DEF got, most, docked
<1>5. \A q \in Asked : f[q] \in Int /\ t[q] \in Int
                        /\ (~docked => f[q] \in Nat /\ t[q] \in Nat /\ f[q] <= t[q])
  BY <1>2
<1>6. /\ SumOver(f, Asked) \in Int /\ SumOver(t, Asked) \in Int
      /\ docked \/ SumOver(f, Asked) <= SumOver(t, Asked)
  <2> HIDE DEF f, t
  <2> QED
    BY <1>1, <1>5, SumInt, SumLeq
<1>7. SumOver(f, Asked) = SumOver(g, rows) /\ IsFiniteSet(rows)
  <2>1. \A x, y \in Asked : m[x] = m[y] => x = y
    <3>1. \A x \in Asked : m[x].question = x
      OBVIOUS
    <3> QED
      BY <3>1
  <2>2. \A x \in Asked : f[x] \in Int /\ f[x] = g[m[x]]
    BY <1>5
  <2> HIDE DEF m, f, g
  <2> QED
    BY <1>1, <2>1, <2>2, SumRename
<1>8. PointsOf(rows) = SumOver(g, rows)
  BY <1>7, PointsAdd
<1>9. TotalPoints = SumOver(t, Asked)
  BY <1>1, PointsOfQuestions DEF TotalPoints, t, most
<1>10. rows = Marked(given)
  BY DEF got, most, Marked
<1> DEFINE e == PointsOf(Marked(given))
           res == [at |-> "completed", earned |-> e, total |-> TotalPoints,
                   passed |-> passed, docked |-> docked]
<1>11. e \in Int /\ TotalPoints \in Int /\ (docked \/ e <= TotalPoints)
  BY <1>6, <1>7, <1>8, <1>9, <1>10
<1>12. Scored(Marked(given), passed) = res
  BY DEF Scored, docked, most
<1> HIDE DEF e
<1>13. res \in Results
  BY <1>4, <1>11 DEF Results
<1>14. res.earned = e /\ res.total = TotalPoints /\ res.docked = docked
  OBVIOUS
<1>15. e = PointsOf(Marked(given))
  BY DEF e
<1> HIDE DEF rows, res
<1> QED
  BY <1>3, <1>10, <1>11, <1>12, <1>13, <1>14, <1>15

LEMMA QuizInitially == QuizInit => QuizInv
<1> SUFFICES ASSUME QuizInit
             PROVE  QuizInv
  OBVIOUS
<1>1. QuizTypeOK
  <2>1. attempt \in [Attempts -> AttemptRows] /\ Counted = {}
    BY DEF QuizInit, AttemptRows, Counted
  <2>2. submission \in [Submissions -> SubmissionRows]
    BY DEF QuizInit, SubmissionRows
  <2> QED
    BY <2>1, <2>2 DEF QuizInit, QuizTypeOK
<1> QED
  BY <1>1 DEF QuizInit, QuizInv, EarnsItsAnswers, NotYetAnswered, TakenOnce, Took,
              PassesWereCounted, ResultIsOfItsAnswers, PassRateIsSound, Counted

\* Steps that leave attempts and their answers alone.
LEMMA QuizStays ==
    ASSUME QuizInv, QuizTypeOK', UNCHANGED <<attempt, answer, submission, raced, shrunk>>,
           PassesWereCounted', PassRateIsSound'
    PROVE  QuizInv'
BY DEF QuizInv, EarnsItsAnswers, NotYetAnswered, TakenOnce, Took, ResultIsOfItsAnswers,
       Counted

\* The fields of an attempt's row and of a submission's.
LEMMA QuizFields ==
    ASSUME QuizTypeOK
    PROVE  /\ \A a \in Counted : attempt[a].passed \in BOOLEAN
           /\ \A s \in Submissions : submission[s].at = "scored" =>
                  /\ submission[s].attempt \in Attempts
                  /\ submission[s].answers \in SUBSET AnswerRows
                  /\ submission[s].result \in Results
<1>1. ASSUME NEW a \in Counted
      PROVE  attempt[a].passed \in BOOLEAN
  <2>1. attempt[a] \in AttemptRows /\ attempt[a].at = "completed"
    BY DEF QuizTypeOK, Counted
  <2>2. attempt[a] \in Results
    BY <2>1 DEF AttemptRows
  <2> QED
    BY <2>2 DEF Results
<1>2. ASSUME NEW s \in Submissions, submission[s].at = "scored"
      PROVE  /\ submission[s].attempt \in Attempts
             /\ submission[s].answers \in SUBSET AnswerRows
             /\ submission[s].result \in Results
  <2>1. submission[s] \in SubmissionRows
    BY DEF QuizTypeOK
  <2> HIDE DEF AnswerRows, Results
  <2> QED
    BY <1>2, <2>1 DEF SubmissionRows
<1> QED
  BY <1>1, <1>2

LEMMA CountsTyped ==
    ASSUME NEW S \in SUBSET Attempts
    PROVE  IsFiniteSet(S) /\ Cardinality(S) \in Nat
           /\ Cardinality(S) \in 0..Cardinality(Attempts)
BY QuizzesAssumption, FS_Subset, FS_CardinalityType

LEMMA ReportFields ==
    ASSUME QuizTypeOK, report # NoResult
    PROVE  /\ report \in ReportRows /\ report.total \in Nat
           /\ report.passes # NoResult => report.passes \in Nat
BY CountsTyped DEF QuizTypeOK, ReportRows

LEMMA DeleteQuizKeeps ==
    ASSUME QuizInv, DeleteQuiz
    PROVE  QuizInv'
<1>1. /\ quiz' = NoQuiz /\ question' = [q \in Questions |-> NoQuestion]
      /\ attempt' = [a \in Attempts |->
             IF attempt[a].at = "none" THEN attempt[a] ELSE [at |-> "deleted"]]
      /\ answer' = [a \in Attempts |-> [s \in Submissions |-> {}]]
      /\ late' = {} /\ report' = NoResult /\ UNCHANGED <<submission, raced, shrunk>>
      /\ QuizTypeOK
  BY DEF DeleteQuiz, QuizInv
<1>2. attempt' \in [Attempts -> AttemptRows]
  <2>1. [at |-> "deleted"] \in AttemptRows
    BY DEF AttemptRows
  <2> QED
    BY <1>1, <2>1 DEF QuizTypeOK
<1>3. \A a \in Attempts : attempt'[a].at # "completed" /\ (attempt'[a].at # "open")
  BY <1>1
<1>4. QuizTypeOK' /\ Counted' = {}
  BY <1>1, <1>2, <1>3 DEF QuizTypeOK, Counted
<1>5. EarnsItsAnswers'
  BY <1>1 DEF QuizInv, EarnsItsAnswers
<1>6. NotYetAnswered' /\ PassesWereCounted' /\ PassRateIsSound' /\ ResultIsOfItsAnswers'
  BY <1>1, <1>4 DEF NotYetAnswered, PassesWereCounted, PassRateIsSound, ResultIsOfItsAnswers
<1>7. TakenOnce'
  <2>1. \A a \in Attempts, s \in Submissions : Took(s, a)' => Took(s, a)
    BY <1>1 DEF Took
  <2> QED
    BY <1>1, <2>1 DEF QuizInv, TakenOnce
<1> QED
  BY <1>4, <1>5, <1>6, <1>7 DEF QuizInv

LEMMA DeleteQuestionKeeps ==
    ASSUME QuizInv, NEW q \in Questions, DeleteQuestion(q)
    PROVE  QuizInv'
<1>1. /\ question' = [question EXCEPT ![q] = NoQuestion]
      /\ answer' = [a \in Attempts |-> [s \in Submissions |->
             {r \in answer[a][s] : r.question # q}]]
      /\ shrunk' = shrunk \cup {a \in Attempts : answer'[a] # answer[a]}
      /\ UNCHANGED <<quiz, attempt, submission, report, raced, late>>
      /\ QuizTypeOK
  BY DEF DeleteQuestion, QuizInv
<1>2. \A a \in Attempts, s \in Submissions : answer'[a][s] \subseteq answer[a][s]
  BY <1>1
<1>3. answer' \in [Attempts -> [Submissions -> SUBSET AnswerRows]]
  <2>1. \A a \in Attempts, s \in Submissions : answer[a][s] \in SUBSET AnswerRows
    BY <1>1 DEF QuizTypeOK
  <2> QED
    BY <1>1, <2>1
<1>4. QuizTypeOK'
  BY <1>1, <1>3 DEF QuizTypeOK, Counted
<1>5. Counted' = Counted /\ Passed' = Passed
  BY <1>1 DEF Counted, Passed
<1>6. EarnsItsAnswers'
  BY <1>1 DEF QuizInv, EarnsItsAnswers
<1>7. NotYetAnswered' /\ PassesWereCounted' /\ PassRateIsSound'
  BY <1>1, <1>2, <1>5 DEF QuizInv, NotYetAnswered, PassesWereCounted, PassRateIsSound
<1>8. TakenOnce'
  <2>1. \A a \in Attempts, s \in Submissions : Took(s, a)' => Took(s, a)
    BY <1>1, <1>2 DEF Took
  <2> QED
    BY <1>1, <2>1 DEF QuizInv, TakenOnce
<1>9. ResultIsOfItsAnswers'
  <2> SUFFICES ASSUME NEW a \in (Counted \ shrunk)'
               PROVE  \E s \in Submissions :
                          /\ submission[s].at = "stored"
                          /\ attempt[a].earned = PointsOf(answer'[a][s])
    BY <1>1 DEF ResultIsOfItsAnswers
  <2>1. a \in Counted \ shrunk /\ answer'[a] = answer[a]
    BY <1>1, <1>5 DEF Counted
  <2> QED
    BY <2>1 DEF QuizInv, ResultIsOfItsAnswers
<1> QED
  BY <1>4, <1>6, <1>7, <1>8, <1>9 DEF QuizInv

LEMMA StartKeeps ==
    ASSUME QuizInv, NEW a \in Attempts, StartAttempt(a)
    PROVE  QuizInv'
<1> DEFINE o == [at |-> "open"]
<1>1. /\ attempt[a].at = "none" /\ attempt' = [attempt EXCEPT ![a] = o]
      /\ UNCHANGED <<quiz, question, answer, submission, report, raced, shrunk, late>>
      /\ QuizTypeOK
  BY DEF StartAttempt, QuizInv, script
<1>2. o \in AttemptRows /\ o.at = "open"
  BY DEF AttemptRows
<1> HIDE DEF o
<1>3. /\ attempt' \in [Attempts -> AttemptRows] /\ attempt'[a] = o
      /\ \A b \in Attempts \ {a} : attempt'[b] = attempt[b]
  BY <1>1, <1>2 DEF QuizTypeOK
<1>4. Counted' = Counted /\ Passed' = Passed /\ \A b \in Counted : attempt'[b] = attempt[b]
  <2>1. Counted' = Counted /\ \A b \in Counted : attempt'[b] = attempt[b]
    BY <1>1, <1>2, <1>3 DEF Counted
  <2> QED
    BY <2>1 DEF Passed
<1>5. QuizTypeOK'
  BY <1>1, <1>3, <1>4 DEF QuizTypeOK
<1>6. NotYetAnswered'
  BY <1>1, <1>3 DEF QuizInv, NotYetAnswered
<1>7. EarnsItsAnswers' /\ TakenOnce' /\ PassesWereCounted' /\ PassRateIsSound'
  BY <1>1, <1>4 DEF QuizInv, EarnsItsAnswers, TakenOnce, Took, PassesWereCounted,
                    PassRateIsSound
<1>8. ResultIsOfItsAnswers'
  BY <1>1, <1>4 DEF QuizInv, ResultIsOfItsAnswers
<1> QED
  BY <1>5, <1>6, <1>7, <1>8 DEF QuizInv

\* What is left of a script whose attempts are not touched.
LEMMA ScriptKeeps ==
    ASSUME QuizInv, UNCHANGED <<attempt, answer, submission, report, raced, shrunk, late>>,
           quiz' \in Quizzes \cup {NoQuiz},
           question' \in [Questions -> QuestionRows \cup {NoQuestion}]
    PROVE  QuizInv'
<1>1. QuizTypeOK' /\ Passed' = Passed
  BY DEF QuizInv, QuizTypeOK, Counted, Passed
<1>2. PassesWereCounted' /\ PassRateIsSound'
  BY <1>1 DEF QuizInv, PassesWereCounted, PassRateIsSound
<1> QED
  BY <1>1, <1>2, QuizStays

LEMMA SubmitKeeps ==
    ASSUME QuizInv, NEW s \in Submissions, NEW a \in Attempts,
           NEW given \in [Questions -> GivenAnswers], SubmitAttempt(s, a, given)
    PROVE  QuizInv'
<1>0. PICK passed \in Verdicts(PointsOf(Marked(given)), TotalPoints, quiz.passing) :
          submission' = [submission EXCEPT ![s] =
              [at |-> "scored", attempt |-> a, answers |-> Marked(given),
               result |-> Scored(Marked(given), passed)]]
  BY DEF SubmitAttempt
<1>a. passed \in BOOLEAN
  BY <1>0, VerdictsAre
<1> DEFINE rows == Marked(given)
           res == Scored(Marked(given), passed)
           c == [at |-> "scored", attempt |-> a, answers |-> rows, result |-> res]
<1>1. /\ submission[s].at = "none" /\ attempt[a].at = "open"
      /\ submission' = [submission EXCEPT ![s] = c]
      /\ raced' = IF \E t \in Submissions \ {s} :
                         submission[t].at = "scored" /\ submission[t].attempt = a
                  THEN raced \cup {s} ELSE raced
      /\ UNCHANGED <<quiz, question, attempt, answer, report, shrunk, late>>
      /\ QuizTypeOK
  BY <1>0 DEF SubmitAttempt, Open, script, QuizInv
<1>2. /\ rows \in SUBSET AnswerRows /\ res \in Results
      /\ res.earned = PointsOf(rows) /\ (res.docked \/ res.earned <= res.total)
  BY <1>1, <1>a, ScoredIs
<1>3. /\ c.at = "scored" /\ c.attempt = a /\ c.answers = rows /\ c.result = res
  OBVIOUS
<1>4. c \in SubmissionRows
  <2> HIDE DEF rows, res, AnswerRows, Results
  <2> QED
    BY <1>2 DEF SubmissionRows
<1> HIDE DEF c, rows, res
<1>5. /\ submission' \in [Submissions -> SubmissionRows] /\ submission'[s] = c
      /\ \A t \in Submissions \ {s} : submission'[t] = submission[t]
  BY <1>1, <1>4 DEF QuizTypeOK
<1>6. raced \subseteq raced' /\ raced' \subseteq Submissions
  BY <1>1 DEF QuizTypeOK
<1>7. QuizTypeOK'
  BY <1>1, <1>5, <1>6 DEF QuizTypeOK, Counted
<1>8. EarnsItsAnswers'
  BY <1>2, <1>3, <1>5 DEF QuizInv, EarnsItsAnswers
<1>9. NotYetAnswered' /\ PassesWereCounted' /\ PassRateIsSound'
  <2>1. Passed' = Passed
    BY <1>1 DEF Passed, Counted
  <2> QED
    BY <1>1, <2>1 DEF QuizInv, NotYetAnswered, PassesWereCounted, PassRateIsSound
<1>10. ResultIsOfItsAnswers'
  <2>1. \A t \in Submissions : submission[t].at = "stored" => submission'[t].at = "stored"
    BY <1>1, <1>5
  <2>2. Counted' = Counted
    BY <1>1 DEF Counted
  <2> QED
    BY <1>1, <2>1, <2>2 DEF QuizInv, ResultIsOfItsAnswers
<1>11. TakenOnce'
  <2>1. \A t \in Submissions : answer[a][t] = {}
    BY <1>1 DEF QuizInv, NotYetAnswered
  <2>2. \A b \in Attempts, t \in Submissions : t # s \/ b # a => (Took(t, b)' => Took(t, b))
    BY <1>1, <1>3, <1>5 DEF Took
  <2>3. \A t \in Submissions \ {s} : Took(t, a) => s \in raced'
    BY <1>1, <2>1 DEF Took, QuizTypeOK
  <2> SUFFICES ASSUME NEW b \in Attempts, NEW t \in Submissions, NEW u \in Submissions,
                      Took(t, b)', Took(u, b)', t # u
               PROVE  {t, u} \cap raced' # {}
    BY DEF TakenOnce
  <2>4. CASE b = a /\ (t = s \/ u = s)
    BY <2>2, <2>3, <2>4
  <2>5. CASE ~ (b = a /\ (t = s \/ u = s))
    <3>1. Took(t, b) /\ Took(u, b)
      BY <2>2, <2>5
    <3> QED
      BY <1>6, <3>1 DEF QuizInv, TakenOnce
  <2> QED
    BY <2>4, <2>5
<1> QED
  BY <1>7, <1>8, <1>9, <1>10, <1>11 DEF QuizInv

LEMMA RefuseKeeps ==
    ASSUME QuizInv, NEW s \in Submissions, submission[s].at = "scored",
           submission' = [submission EXCEPT ![s] = [at |-> "refused"]],
           UNCHANGED <<quiz, question, attempt, answer, report, raced, shrunk, late>>
    PROVE  QuizInv'
<1> DEFINE c == [at |-> "refused"]
<1>1. c \in SubmissionRows /\ c.at = "refused"
  BY DEF SubmissionRows
<1> HIDE DEF c
<1>2. /\ submission' \in [Submissions -> SubmissionRows] /\ submission'[s] = c
      /\ \A t \in Submissions \ {s} : submission'[t] = submission[t]
  BY <1>1 DEF c, QuizInv, QuizTypeOK
<1>3. QuizTypeOK' /\ Counted' = Counted /\ Passed' = Passed
  BY <1>2 DEF QuizInv, QuizTypeOK, Counted, Passed
<1>4. EarnsItsAnswers' /\ NotYetAnswered' /\ PassesWereCounted' /\ PassRateIsSound'
  BY <1>1, <1>2, <1>3
     DEF QuizInv, EarnsItsAnswers, NotYetAnswered, PassesWereCounted, PassRateIsSound
<1>5. TakenOnce'
  <2>1. \A a \in Attempts, t \in Submissions : Took(t, a)' => Took(t, a)
    BY <1>1, <1>2 DEF Took
  <2> QED
    BY <2>1 DEF QuizInv, TakenOnce
<1>6. ResultIsOfItsAnswers'
  <2>1. \A t \in Submissions : submission[t].at = "stored" => submission'[t].at = "stored"
    BY <1>2
  <2> QED
    BY <1>3, <2>1 DEF QuizInv, ResultIsOfItsAnswers
<1> QED
  BY <1>3, <1>4, <1>5, <1>6 DEF QuizInv

LEMMA StoreAcceptedKeeps ==
    ASSUME QuizInv, NEW s \in Submissions, StoreSubmission(s), Accepted(s)
    PROVE  QuizInv'
<1> DEFINE a == submission[s].attempt
           rows == submission[s].answers
           res == submission[s].result
           d == [at |-> "stored"]
<1>1. /\ submission[s].at = "scored"
      /\ answer' = [answer EXCEPT ![a][s] = {r \in rows : question[r.question] # NoQuestion}]
      /\ attempt' = [attempt EXCEPT ![a] = res]
      /\ late' = IF report # NoResult /\ res.passed THEN late \cup {a} ELSE late
      /\ submission' = [submission EXCEPT ![s] = d]
      /\ UNCHANGED <<quiz, question, report, raced, shrunk>>
      /\ QuizTypeOK
  BY DEF StoreSubmission, script, QuizInv
<1>2. /\ a \in Attempts /\ rows \in SUBSET AnswerRows /\ res \in Results
  BY <1>1, QuizFields
<1>3. res.earned = PointsOf(rows) /\ (res.docked \/ res.earned <= res.total)
  BY <1>1 DEF QuizInv, EarnsItsAnswers
<1>4. {r \in rows : question[r.question] # NoQuestion} = rows
  BY DEF Accepted
<1>5. d \in SubmissionRows /\ d.at = "stored"
  BY DEF SubmissionRows
<1>6. Took(s, a)
  BY <1>1 DEF Took
<1> HIDE DEF a, rows, res, d
<1>7. answer' = [answer EXCEPT ![a][s] = rows]
  BY <1>1, <1>4, Zenon
<1>8. /\ answer' \in [Attempts -> [Submissions -> SUBSET AnswerRows]]
      /\ answer'[a][s] = rows
      /\ \A b \in Attempts, t \in Submissions :
             b # a \/ t # s => answer'[b][t] = answer[b][t]
  <2>1. answer \in [Attempts -> [Submissions -> SUBSET AnswerRows]]
    BY <1>1 DEF QuizTypeOK
  <2> HIDE DEF AnswerRows
  <2> QED
    BY <1>2, <1>7, <2>1
<1>9. /\ submission' \in [Submissions -> SubmissionRows] /\ submission'[s].at = "stored"
      /\ \A t \in Submissions \ {s} : submission'[t] = submission[t]
  BY <1>1, <1>5 DEF QuizTypeOK
<1>10. /\ attempt' \in [Attempts -> AttemptRows] /\ attempt'[a] = res
       /\ \A b \in Attempts \ {a} : attempt'[b] = attempt[b]
  BY <1>1, <1>2 DEF QuizTypeOK, AttemptRows
<1>11. res.at = "completed" /\ res.passed \in BOOLEAN
  BY <1>2 DEF Results
<1>12. late \subseteq late' /\ late' \subseteq Attempts
  BY <1>1, <1>2 DEF QuizTypeOK
<1>13. QuizTypeOK'
  <2>1. \A b \in Counted' : attempt'[b].docked \/ attempt'[b].earned <= attempt'[b].total
    BY <1>1, <1>3, <1>10 DEF QuizTypeOK, Counted
  <2> QED
    BY <1>1, <1>8, <1>9, <1>10, <1>12, <2>1 DEF QuizTypeOK
<1>14. EarnsItsAnswers'
  BY <1>9 DEF QuizInv, EarnsItsAnswers
<1>15. NotYetAnswered'
  BY <1>8, <1>10, <1>11 DEF QuizInv, NotYetAnswered
<1>16. TakenOnce'
  <2>1. \A b \in Attempts, t \in Submissions : Took(t, b)' => Took(t, b)
    BY <1>6, <1>8, <1>9 DEF Took
  <2> QED
    BY <1>1, <2>1 DEF QuizInv, TakenOnce
<1>17. ResultIsOfItsAnswers'
  <2> SUFFICES ASSUME NEW b \in Counted' \ shrunk'
               PROVE  \E t \in Submissions :
                          /\ submission'[t].at = "stored"
                          /\ attempt'[b].earned = PointsOf(answer'[b][t])
    BY DEF ResultIsOfItsAnswers
  <2>1. CASE b = a
    BY <1>3, <1>8, <1>9, <1>10, <2>1
  <2>2. CASE b # a
    <3>1. b \in Counted \ shrunk /\ attempt'[b] = attempt[b]
      BY <1>1, <1>10, <2>2 DEF Counted
    <3>2. PICK t \in Submissions :
              submission[t].at = "stored" /\ attempt[b].earned = PointsOf(answer[b][t])
      BY <3>1 DEF QuizInv, ResultIsOfItsAnswers
    <3>3. t # s /\ b \in Attempts
      BY <1>1, <3>1, <3>2 DEF Counted
    <3>4. answer'[b][t] = answer[b][t] /\ submission'[t].at = "stored"
      BY <1>8, <1>9, <2>2, <3>2, <3>3
    <3> QED
      BY <3>1, <3>2, <3>4
  <2> QED
    BY <2>1, <2>2
<1>18. PassesWereCounted'
  <2> SUFFICES ASSUME report # NoResult
               PROVE  Cardinality(Passed' \ late') <= report.total
    BY <1>1 DEF PassesWereCounted
  <2>1. Passed' \ late' \subseteq Passed \ late
    BY <1>1, <1>10, <1>12 DEF Passed, Counted
  <2>2. Passed \ late \in SUBSET Attempts
    BY DEF Passed, Counted
  <2>3. IsFiniteSet(Passed \ late)
    BY <2>2, CountsTyped
  <2>4. /\ Cardinality(Passed' \ late') <= Cardinality(Passed \ late)
        /\ Cardinality(Passed' \ late') \in Nat /\ Cardinality(Passed \ late) \in Nat
    BY <2>1, <2>3, FS_Subset, FS_CardinalityType
  <2>5. report.total \in Nat /\ Cardinality(Passed \ late) <= report.total
    BY <1>1, ReportFields DEF QuizInv, PassesWereCounted
  <2> QED
    BY <2>4, <2>5
<1>19. PassRateIsSound'
  <2> SUFFICES ASSUME report # NoResult, report.passes # NoResult
               PROVE  report.passes <= report.total + Cardinality(late')
    BY <1>1 DEF PassRateIsSound
  <2>1. report.total \in Nat /\ report.passes \in Nat
    BY <1>1, ReportFields
  <2>2. report.passes <= report.total + Cardinality(late)
    BY DEF QuizInv, PassRateIsSound
  <2>3. IsFiniteSet(late') /\ Cardinality(late) \in Nat /\ Cardinality(late') \in Nat
    BY <1>1, <1>12, CountsTyped DEF QuizTypeOK
  <2>4. Cardinality(late) <= Cardinality(late')
    BY <1>12, <2>3, FS_Subset
  <2> QED
    BY <2>1, <2>2, <2>3, <2>4
<1> QED
  BY <1>13, <1>14, <1>15, <1>16, <1>17, <1>18, <1>19 DEF QuizInv

LEMMA StoreSubmissionKeeps ==
    ASSUME QuizInv, NEW s \in Submissions, StoreSubmission(s)
    PROVE  QuizInv'
<1>1. CASE ~ Accepted(s)
  <2>1. /\ submission[s].at = "scored"
        /\ submission' = [submission EXCEPT ![s] = [at |-> "refused"]]
        /\ UNCHANGED <<quiz, question, attempt, answer, report, raced, shrunk, late>>
    BY <1>1 DEF StoreSubmission, script
  <2> QED
    BY <2>1, RefuseKeeps
<1> QED
  BY <1>1, StoreAcceptedKeeps

LEMMA CountAttemptsKeeps ==
    ASSUME QuizInv, CountAttempts
    PROVE  QuizInv'
<1> DEFINE n == Cardinality(Counted)
           r == [total |-> n, passes |-> NoResult]
<1>1. /\ report' = r /\ late' = {}
      /\ UNCHANGED <<quiz, question, attempt, answer, submission, raced, shrunk>>
      /\ QuizTypeOK
  BY DEF CountAttempts, script, QuizInv
<1>2. Counted \in SUBSET Attempts /\ Passed \in SUBSET Counted
  BY DEF Counted, Passed
<1>3. IsFiniteSet(Counted) /\ n \in 0..Cardinality(Attempts)
  BY <1>2, CountsTyped
<1>4. Cardinality(Passed) <= n
  BY <1>2, <1>3, FS_Subset
<1> HIDE DEF n
<1>5. r \in ReportRows /\ r.total = n /\ r.passes = NoResult
  BY <1>3 DEF ReportRows
<1> HIDE DEF r
<1>6. QuizTypeOK'
  BY <1>1, <1>5 DEF QuizTypeOK, Counted
<1>7. PassesWereCounted' /\ PassRateIsSound'
  <2>1. Passed' = Passed /\ Passed \ {} = Passed
    BY <1>1 DEF Passed, Counted
  <2> QED
    BY <1>1, <1>4, <1>5, <2>1 DEF PassesWereCounted, PassRateIsSound
<1> QED
  BY <1>1, <1>6, <1>7, QuizStays

LEMMA CountPassesKeeps ==
    ASSUME QuizInv, CountPasses
    PROVE  QuizInv'
<1> DEFINE n == Cardinality(Passed)
           r == [report EXCEPT !.passes = n]
<1>1. /\ report # NoResult /\ report' = r
      /\ UNCHANGED <<quiz, question, attempt, answer, submission, raced, shrunk, late>>
      /\ QuizTypeOK
  BY DEF CountPasses, script, QuizInv
<1>2. Passed \in SUBSET Attempts /\ Passed \ late \in SUBSET Attempts /\ late \in SUBSET Attempts
  BY <1>1 DEF Counted, Passed, QuizTypeOK
<1>3. /\ n \in 0..Cardinality(Attempts) /\ n \in Nat
      /\ IsFiniteSet(Passed \ late) /\ Cardinality(Passed \ late) \in Nat
      /\ IsFiniteSet(late) /\ Cardinality(late) \in Nat
  BY <1>2, CountsTyped
<1>4. n <= Cardinality(Passed \ late) + Cardinality(late)
  <2>1. Passed \subseteq (Passed \ late) \cup late
    OBVIOUS
  <2> DEFINE A == Passed \ late
             B == late
  <2>2. IsFiniteSet(A) /\ IsFiniteSet(B) /\ Cardinality(A) \in Nat /\ Cardinality(B) \in Nat
    BY <1>3
  <2>3. n <= Cardinality(A \cup B) /\ Cardinality(A \cup B) \in Nat
    BY <2>1, <2>2, FS_Union, FS_Subset, FS_CardinalityType
  <2>4. /\ Cardinality(A \cup B) = Cardinality(A) + Cardinality(B) - Cardinality(A \cap B)
        /\ Cardinality(A \cap B) \in Nat
    <3>1. IsFiniteSet(A \cap B)
      BY <2>2, FS_Intersection
    <3> HIDE DEF A, B
    <3> QED
      BY <2>2, <3>1, FS_Union, FS_CardinalityType
  <2> HIDE DEF A, B, n
  <2>5. n <= Cardinality(A) + Cardinality(B)
    BY <1>3, <2>2, <2>3, <2>4
  <2> QED
    BY <2>5 DEF A, B
<1>5. report \in ReportRows /\ report.total \in Nat /\ Cardinality(Passed \ late) <= report.total
  BY <1>1, ReportFields DEF QuizInv, PassesWereCounted
<1> HIDE DEF n
<1>6. r \in ReportRows /\ r.total = report.total /\ r.passes = n
  BY <1>3, <1>5 DEF ReportRows
<1> HIDE DEF r
<1>7. QuizTypeOK'
  BY <1>1, <1>6 DEF QuizTypeOK, Counted
<1>8. Passed' = Passed
  BY <1>1 DEF Passed, Counted
<1>9. PassesWereCounted'
  BY <1>1, <1>5, <1>6, <1>8 DEF PassesWereCounted
<1>10. n <= report.total + Cardinality(late)
  BY <1>3, <1>4, <1>5
<1>11. PassRateIsSound'
  BY <1>1, <1>6, <1>10 DEF PassRateIsSound
<1> QED
  BY <1>1, <1>7, <1>9, <1>11, QuizStays

LEMMA SendReportKeeps ==
    ASSUME QuizInv, SendReport
    PROVE  QuizInv'
<1>1. /\ report' = NoResult /\ late' = {}
      /\ UNCHANGED <<quiz, question, attempt, answer, submission, raced, shrunk>>
      /\ QuizTypeOK
  BY DEF SendReport, script, QuizInv
<1>2. QuizTypeOK' /\ PassesWereCounted' /\ PassRateIsSound'
  BY <1>1 DEF QuizTypeOK, Counted, PassesWereCounted, PassRateIsSound
<1> QED
  BY <1>1, <1>2, QuizStays

LEMMA QuizStep == QuizInv /\ [QuizNext]_quizVars => QuizInv'
<1> SUFFICES ASSUME QuizInv, [QuizNext]_quizVars
             PROVE  QuizInv'
  OBVIOUS
<1>0. QuizTypeOK
  BY DEF QuizInv
<1>1. ASSUME NEW p \in PassingScores, CreateQuiz(p)
      PROVE  QuizInv'
  <2>1. [published |-> FALSE, passing |-> p] \in Quizzes
    BY DEF Quizzes
  <2> QED
    BY <1>0, <1>1, <2>1, ScriptKeeps DEF CreateQuiz, QuizTypeOK
<1>2. ASSUME NEW row \in Quizzes, UpdateQuiz(row)
      PROVE  QuizInv'
  BY <1>0, <1>2, ScriptKeeps DEF UpdateQuiz, QuizTypeOK
<1>3. ASSUME NEW q \in Questions, NEW row \in QuestionRows,
             AddQuestion(q, row) \/ UpdateQuestion(q, row)
      PROVE  QuizInv'
  <2>1. /\ question' = [question EXCEPT ![q] = row]
        /\ UNCHANGED <<quiz, attempt, answer, submission, report, raced, shrunk, late>>
    BY <1>3 DEF AddQuestion, UpdateQuestion
  <2> QED
    BY <1>0, <2>1, ScriptKeeps DEF QuizTypeOK
<1>4. CASE UNCHANGED quizVars
  BY <1>0, <1>4, ScriptKeeps DEF quizVars, QuizTypeOK
<1>5. CASE QuizNext
  BY <1>1, <1>2, <1>3, <1>5, DeleteQuizKeeps, DeleteQuestionKeeps, StartKeeps, SubmitKeeps,
     StoreSubmissionKeeps, CountAttemptsKeeps, CountPassesKeeps, SendReportKeeps DEF QuizNext
<1> QED
  BY <1>4, <1>5

LEMMA QuizInvariance == QuizSpec => []QuizInv
  BY QuizInitially, QuizStep, PTL DEF QuizSpec

\* Every variable of Quizzes keeps its type, and no result earns more points
\* than its quiz had, unless a question took points away: an update may give it
\* any number of them.
THEOREM QuizTypes == QuizSpec => []QuizTypeOK
<1>1. QuizInv => QuizTypeOK
  BY DEF QuizInv
<1> QED
  BY <1>1, QuizInvariance, PTL

\* A result is that of one whole set of answers, a second set is kept only of
\* submissions that raced, and a report counts no more passes than attempts:
\* whatever the instructor did between the reading of a submission and its
\* storing, and whoever submitted between the two counts.
THEOREM ResultsSound == QuizSpec => []ResultsAreSound
<1>1. QuizInv => AnsweredOnce
  BY DEF QuizInv, TakenOnce, Took, AnsweredOnce
<1>2. QuizInv => ResultsAreSound
  BY <1>1 DEF QuizInv, ResultsAreSound
<1> QED
  BY <1>2, QuizInvariance, PTL

-----------------------------------------------------------------------------
(***************************************************************************)
(* Reviews                                                                 *)
(***************************************************************************)

\* A request whose storing brings the rating up to date, or says that it does
\* not.
Mends(x) ==
    \/ On(x, "changed")
    \/ On(x, "computed") /\ (task[x].found = Average \/ task[x].behind)
Pending == \E x \in ReviewCalls : Mends(x)

RatingInv ==
    /\ ReviewsTypeOK
    /\ rating = Average \/ overtaken \/ lapsed \/ Pending
    /\ (\E x \in ReviewCalls : On(x, "computed")) => Pending

LEMMA StarsAdd ==
    ASSUME NEW S, IsFiniteSet(S)
    PROVE  MapThenSumSet(LAMBDA u : review[u], S) = SumOver(review, S)
<1> DEFINE Adds(g) == g = [s \in SUBSET S |->
               IF s = {} THEN 0
               ELSE review[CHOOSE x \in s : TRUE] + g[s \ {CHOOSE x \in s : TRUE}]]
           h == CHOOSE g : Adds(g)
<1>1. MapThenSumSet(LAMBDA u : review[u], S) = h[S]
  BY DEF MapThenSumSet, MapThenFoldSet
<1>2. ASSUME NEW g
      PROVE  IsPartialSum(g, review, S) <=> Adds(g)
  BY DEF IsPartialSum, First
<1>3. \E g : Adds(g)
  <2> HIDE DEF Adds
  <2> QED
    BY <1>2, PartialSumExists
<1> HIDE DEF Adds
<1>4. IsPartialSum(h, review, S)
  BY <1>2, <1>3
<1> QED
  BY <1>1, <1>4, SumIs

LEMMA AverageIs ==
    Average = [stars |-> SumOver(review, Reviewed), count |-> Cardinality(Reviewed)]
<1>1. Reviewed \in SUBSET Reviewers
  BY DEF Reviewed
<1> QED
  BY <1>1, ReviewsAssumption, FS_Subset, StarsAdd DEF Average

\* The average is of as many stars as there are reviews to give.
LEMMA AverageType ==
    ASSUME ReviewsTypeOK
    PROVE  Average \in Averages
<1> DEFINE n == Cardinality(Reviewed)
           sum == SumOver(review, Reviewed)
           most == Cardinality(Reviewers)
<1>1. Reviewed \in SUBSET Reviewers /\ IsFiniteSet(Reviewers)
  BY ReviewsAssumption DEF Reviewed
<1>2. IsFiniteSet(Reviewed) /\ n \in Nat /\ most \in Nat /\ n <= most
  BY <1>1, FS_Subset, FS_CardinalityType
<1>3. \A u \in Reviewed : review[u] \in Nat /\ review[u] <= 5
  <2>1. \A u \in Reviewed : review[u] \in Ratings
    BY DEF ReviewsTypeOK, Reviewed
  <2>2. \A r \in Ratings : r \in Nat /\ r <= 5
    <3>1. Ratings \subseteq 1..5
      BY ReviewsAssumption
    <3> QED
      BY <3>1
  <2> QED
    BY <2>1, <2>2, Zenon
<1>4. sum \in Nat /\ sum <= n * 5
  BY <1>2, <1>3, SumNat, SumBound
<1>5. Average = [stars |-> sum, count |-> n]
  BY AverageIs
<1> HIDE DEF n, sum, most
<1>6. sum \in 0..(5 * most) /\ n \in 0..most /\ sum <= 5 * n
  BY <1>2, <1>4
<1> QED
  BY <1>5, <1>6 DEF Averages, MostStars, most

LEMMA TaskFields ==
    ASSUME ReviewsTypeOK, NEW x \in ReviewCalls
    PROVE  /\ On(x, "create") => task[x].who \in Reviewers /\ task[x].stars \in Ratings
           /\ On(x, "computed") =>
                 /\ task[x].found \in Averages /\ task[x].behind \in BOOLEAN
                 /\ task[x] = [at |-> "computed", found |-> task[x].found, behind |-> task[x].behind]
BY DEF ReviewsTypeOK, Tasks, On

LEMMA RatingInit == ReviewsInit => RatingInv
<1> SUFFICES ASSUME ReviewsInit
             PROVE  RatingInv
  OBVIOUS
<1>1. Reviewed = {}
  BY DEF ReviewsInit, Reviewed
<1>2. Average = [stars |-> 0, count |-> 0]
  BY <1>1, FS_EmptySet, AverageIs, SumEmpty
<1>3. Cardinality(Reviewers) \in Nat
  BY ReviewsAssumption, FS_CardinalityType
<1>4. ReviewsTypeOK
  <2>1. rating \in Averages
    BY <1>3 DEF ReviewsInit, Averages, MostStars
  <2>2. enrolled \in [Reviewers -> Statuses]
    BY DEF ReviewsInit, Statuses
  <2>3. asks \in 0..MaxReviewCalls
    BY ReviewsAssumption DEF ReviewsInit
  <2> QED
    BY <2>1, <2>2, <2>3 DEF ReviewsInit, ReviewsTypeOK
<1> QED
  BY <1>2, <1>4 DEF ReviewsInit, RatingInv, On

\* A change of reviews is followed by its request.
LEMMA ChangeMends ==
    ASSUME NEW x \in ReviewCalls, On(x, "changed")', ReviewsTypeOK'
    PROVE  RatingInv'
BY DEF RatingInv, Pending, Mends

LEMMA AskTypes ==
    ASSUME ReviewsTypeOK, NEW x \in ReviewCalls, NEW t \in Tasks, Ask(x, t)
    PROVE  /\ task' \in [ReviewCalls -> Tasks \cup {Ready}] /\ asks' \in 0..MaxReviewCalls
           /\ task'[x] = t /\ t # Ready /\ \A y \in ReviewCalls \ {x} : task'[y] = task[y]
           /\ task[x] = Ready
BY ReviewsAssumption DEF ReviewsTypeOK, Ask

LEMMA AverageStays ==
    ASSUME UNCHANGED review
    PROVE  Average' = Average
<1>1. (Average = [stars |-> SumOver(review, Reviewed), count |-> Cardinality(Reviewed)])'
  BY AverageIs, PTL
<1>2. Reviewed' = Reviewed
  BY DEF Reviewed
<1> QED
  BY <1>1, <1>2, AverageIs

\* Requests that neither change a review nor compute nor store a rating.
LEMMA PendingStays ==
    ASSUME UNCHANGED review,
           \A y \in ReviewCalls : Mends(y) => task'[y] = task[y],
           \A y \in ReviewCalls : On(y, "computed")' => On(y, "computed")
    PROVE  /\ Average' = Average
           /\ Pending => Pending'
           /\ (\E y \in ReviewCalls : On(y, "computed"))' => \E y \in ReviewCalls : On(y, "computed")
<1>1. Average' = Average
  BY AverageStays
<1>2. \A y \in ReviewCalls : Mends(y) => Mends(y)'
  BY <1>1 DEF Mends, On
<1> QED
  BY <1>1, <1>2 DEF Pending

\* A request that changes the reviews owes the course a rating.
LEMMA AmendKeeps ==
    ASSUME RatingInv, NEW x \in ReviewCalls, NEW u \in Reviewers,
           NEW stars \in Ratings \cup {NoReview},
           Ask(x, [at |-> "changed"]), review' = [review EXCEPT ![u] = stars],
           UNCHANGED <<enrolled, rating, overtaken, lapsed>>
    PROVE  RatingInv'
<1> DEFINE t == [at |-> "changed"]
<1>1. t \in Tasks
  BY DEF Tasks
<1>2. /\ task' \in [ReviewCalls -> Tasks \cup {Ready}] /\ asks' \in 0..MaxReviewCalls
      /\ task'[x] = t /\ t # Ready
  BY <1>1, AskTypes DEF RatingInv
<1>3. ReviewsTypeOK'
  BY <1>2 DEF RatingInv, ReviewsTypeOK
<1>4. On(x, "changed")'
  BY <1>2 DEF On
<1> QED
  BY <1>3, <1>4, ChangeMends

LEMMA CreateKeeps ==
    ASSUME RatingInv, NEW x \in ReviewCalls, NEW u \in Reviewers, NEW stars \in Ratings,
           CreateReview(x, u, stars)
    PROVE  RatingInv'
<1> DEFINE t == [at |-> "create", who |-> u, stars |-> stars]
<1>1. t \in Tasks /\ t.at = "create"
  BY DEF Tasks
<1>2. Ask(x, t) /\ UNCHANGED <<enrolled, review, rating, overtaken, lapsed>>
  BY DEF CreateReview
<1> HIDE DEF t
<1>3. /\ task' \in [ReviewCalls -> Tasks \cup {Ready}] /\ asks' \in 0..MaxReviewCalls
      /\ task'[x] = t /\ task[x] = Ready
      /\ \A y \in ReviewCalls \ {x} : task'[y] = task[y]
  BY <1>1, <1>2, AskTypes DEF RatingInv
<1>4. ReviewsTypeOK'
  BY <1>2, <1>3 DEF RatingInv, ReviewsTypeOK
<1>5. \A y \in ReviewCalls : Mends(y) => task'[y] = task[y]
  BY <1>3 DEF Mends, On
<1>6. \A y \in ReviewCalls : On(y, "computed")' => On(y, "computed")
  BY <1>1, <1>3 DEF On
<1> QED
  BY <1>2, <1>4, <1>5, <1>6, PendingStays DEF RatingInv

LEMMA InsertKeeps ==
    ASSUME RatingInv, NEW x \in ReviewCalls, InsertReview(x)
    PROVE  RatingInv'
<1> DEFINE c == task[x]
           t == [at |-> "changed"]
<1>1. /\ On(x, "create") /\ c.who \in Reviewers /\ c.stars \in Ratings
      /\ UNCHANGED <<enrolled, rating, asks, overtaken, lapsed>> /\ ReviewsTypeOK
  BY TaskFields DEF InsertReview, RatingInv
<1>2. t \in Tasks /\ t # Ready /\ t.at = "changed"
  BY ReviewsAssumption DEF Tasks
<1>3. CASE review[c.who] = NoReview
  <2>1. /\ review' = [review EXCEPT ![c.who] = c.stars]
        /\ task' = [task EXCEPT ![x] = t]
    BY <1>3 DEF InsertReview
  <2>2. task' \in [ReviewCalls -> Tasks \cup {Ready}] /\ task'[x] = t
    BY <1>1, <1>2, <2>1 DEF ReviewsTypeOK
  <2>3. review' \in [Reviewers -> Ratings \cup {NoReview}]
    BY <1>1, <2>1 DEF ReviewsTypeOK
  <2>4. ReviewsTypeOK'
    BY <1>1, <2>2, <2>3 DEF ReviewsTypeOK
  <2>5. On(x, "changed")'
    BY <1>2, <2>2 DEF On
  <2> QED
    BY <2>4, <2>5, ChangeMends
<1>4. CASE review[c.who] # NoReview
  <2>1. task' = [task EXCEPT ![x] = Ready] /\ UNCHANGED review
    BY <1>4 DEF InsertReview
  <2>2. /\ task' \in [ReviewCalls -> Tasks \cup {Ready}] /\ task'[x] = Ready
        /\ \A y \in ReviewCalls \ {x} : task'[y] = task[y]
    BY <1>1, <2>1 DEF ReviewsTypeOK
  <2>3. ReviewsTypeOK'
    BY <1>1, <2>1, <2>2 DEF ReviewsTypeOK
  <2>4. \A y \in ReviewCalls : Mends(y) => task'[y] = task[y]
    BY <1>1, <2>2 DEF Mends, On
  <2>5. \A y \in ReviewCalls : On(y, "computed")' => On(y, "computed")
    BY <2>2 DEF On
  <2> QED
    BY <1>1, <2>1, <2>3, <2>4, <2>5, PendingStays DEF RatingInv
<1> QED
  BY <1>3, <1>4

LEMMA ComputeKeeps ==
    ASSUME RatingInv, NEW x \in ReviewCalls, ComputeRating(x)
    PROVE  RatingInv'
<1> DEFINE t == [at |-> "computed", found |-> Average, behind |-> FALSE]
<1>1. /\ task' = [task EXCEPT ![x] = t]
      /\ UNCHANGED <<enrolled, review, rating, asks, overtaken, lapsed>> /\ ReviewsTypeOK
  BY DEF ComputeRating, RatingInv
<1>2. t \in Tasks /\ t # Ready
  <2>1. Average \in Averages
    BY <1>1, AverageType
  <2>2. t \in Tasks
    BY <2>1 DEF Tasks
  <2>3. Ready \notin Tasks
    BY ReviewsAssumption
  <2> HIDE DEF t
  <2> QED
    BY <2>2, <2>3
<1>3. Average' = Average
  BY <1>1, AverageStays
<1> DEFINE a == Average
<1>4. t.at = "computed" /\ t.found = a
  OBVIOUS
<1> HIDE DEF t, a
<1>5. task' \in [ReviewCalls -> Tasks \cup {Ready}] /\ task'[x] = t
  BY <1>1, <1>2 DEF ReviewsTypeOK
<1>6. ReviewsTypeOK'
  BY <1>1, <1>5 DEF ReviewsTypeOK
<1>7. Mends(x)'
  BY <1>2, <1>3, <1>4, <1>5 DEF Mends, On, a
<1> QED
  BY <1>6, <1>7 DEF RatingInv, Pending

LEMMA StoreKeeps ==
    ASSUME RatingInv, NEW x \in ReviewCalls, StoreRating(x)
    PROVE  RatingInv'
<1>1. /\ On(x, "computed") /\ rating' = task[x].found /\ overtaken' = task[x].behind
      /\ lapsed' = FALSE /\ UNCHANGED <<enrolled, review, asks>> /\ ReviewsTypeOK
      /\ task' = [y \in ReviewCalls |->
            IF y = x THEN Ready
            ELSE IF On(y, "computed") THEN [task[y] EXCEPT !.behind = TRUE] ELSE task[y]]
  BY DEF StoreRating, Found, RatingInv
<1>2. task[x].found \in Averages /\ task[x].behind \in BOOLEAN
  BY <1>1, TaskFields
<1>3. ASSUME NEW y \in ReviewCalls \ {x}, On(y, "computed")
      PROVE  task'[y] \in Tasks /\ On(y, "computed")' /\ task'[y].behind
  <2> DEFINE f == task[y].found
             r == [at |-> "computed", found |-> f, behind |-> TRUE]
           b == task[y].behind
           r0 == task[y]
  <2>1. f \in Averages /\ r0 = [at |-> "computed", found |-> f, behind |-> b]
    BY <1>1, <1>3, TaskFields
  <2>2. task'[y] = [r0 EXCEPT !.behind = TRUE]
    BY <1>1, <1>3
  <2>3. task'[y] = r
    <3> HIDE DEF f, b, r0
    <3> QED
      BY <2>1, <2>2
  <2>4. r \in Tasks /\ r.at = "computed" /\ r.behind
    BY <2>1 DEF Tasks
  <2> HIDE DEF r
  <2> QED
    BY <2>3, <2>4, ReviewsAssumption DEF On
<1>4. /\ task'[x] = Ready
      /\ \A y \in ReviewCalls \ {x} : ~ On(y, "computed") => task'[y] = task[y]
  BY <1>1
<1>5. ReviewsTypeOK'
  <2>1. \A y \in ReviewCalls : task'[y] \in Tasks \cup {Ready}
    BY <1>1, <1>3, <1>4 DEF ReviewsTypeOK
  <2>2. task' = [y \in ReviewCalls |-> task'[y]]
    BY <1>1
  <2>3. task' \in [ReviewCalls -> Tasks \cup {Ready}]
    BY <2>1, <2>2
  <2> QED
    BY <1>1, <1>2, <2>3 DEF ReviewsTypeOK
<1>6. \A y \in ReviewCalls \ {x} : Mends(y) => Mends(y)'
  BY <1>3, <1>4 DEF Mends, On
<1>7. (\E y \in ReviewCalls : On(y, "computed"))' => Pending'
  <2> SUFFICES ASSUME NEW y \in ReviewCalls, On(y, "computed")'
               PROVE  Mends(y)'
    BY DEF Pending
  <2>1. y # x
    BY <1>4 DEF On
  <2>2. On(y, "computed")
    BY <1>4, <2>1 DEF On
  <2> QED
    BY <1>3, <2>1, <2>2 DEF Mends
<1>8. rating' = Average' \/ overtaken' \/ lapsed' \/ Pending'
  <2>1. CASE task[x].behind
    BY <1>1, <2>1
  <2>2. CASE task[x].found = Average
    BY <1>1, <2>2, AverageStays
  <2>3. CASE ~ task[x].behind /\ task[x].found # Average
    <3>1. PICK y \in ReviewCalls : Mends(y)
      BY <1>1 DEF RatingInv, Pending
    <3>2. y # x
      BY <1>1, <2>3, <3>1 DEF Mends, On
    <3> QED
      BY <1>6, <3>1, <3>2 DEF Pending
  <2> QED
    BY <2>1, <2>2, <2>3
<1> QED
  BY <1>5, <1>7, <1>8 DEF RatingInv

LEMMA RatingStep == RatingInv /\ [ReviewsNext]_reviewVars => RatingInv'
<1> SUFFICES ASSUME RatingInv, [ReviewsNext]_reviewVars
             PROVE  RatingInv'
  OBVIOUS
<1>0. ReviewsTypeOK
  BY DEF RatingInv
<1>1. ASSUME NEW x \in ReviewCalls, NEW u \in Reviewers, NEW stars \in Ratings,
             UpdateReview(x, u, stars)
      PROVE  RatingInv'
  BY <1>1, AmendKeeps DEF UpdateReview
<1>2. ASSUME NEW x \in ReviewCalls, NEW u \in Reviewers, DeleteReview(x, u)
      PROVE  RatingInv'
  BY <1>2, AmendKeeps DEF DeleteReview
<1>3. CASE SyncCourseStats
  <2>1. UNCHANGED <<enrolled, review, task, asks>> /\ Average' = Average
    BY <1>3, AverageStays DEF SyncCourseStats
  <2>2. \/ UNCHANGED <<rating, overtaken, lapsed>>
        \/ rating' = Average /\ overtaken' = FALSE /\ lapsed' = FALSE
    BY <1>3 DEF SyncCourseStats
  <2>3. ReviewsTypeOK'
    BY <1>0, <2>1, <2>2, AverageType DEF ReviewsTypeOK
  <2>4. \A y \in ReviewCalls : Mends(y)' = Mends(y) /\ On(y, "computed")' = On(y, "computed")
    BY <2>1 DEF Mends, On
  <2> QED
    BY <2>1, <2>2, <2>3, <2>4 DEF RatingInv, Pending
<1>4. ASSUME NEW u \in Reviewers, NEW status \in Statuses, ChangeEnrollment(u, status)
      PROVE  RatingInv'
  <2>1. ReviewsTypeOK'
    BY <1>0, <1>4 DEF ChangeEnrollment, ReviewsTypeOK
  <2>2. UNCHANGED <<review, rating, task, overtaken, lapsed>>
    BY <1>4 DEF ChangeEnrollment
  <2> QED
    BY <2>1, <2>2, PendingStays DEF RatingInv, On
<1>5. CASE ReviewsCrash
  <2>1. /\ lapsed' = (lapsed \/ \E x \in ReviewCalls : On(x, "changed") \/ On(x, "computed"))
        /\ task' = [x \in ReviewCalls |-> Ready]
        /\ UNCHANGED <<enrolled, review, rating, asks, overtaken>> /\ Average' = Average
    BY <1>5, AverageStays DEF ReviewsCrash
  <2>2. \A x \in ReviewCalls : task'[x] = Ready
    BY <2>1
  <2>3. lapsed' \in BOOLEAN
    BY <1>0, <2>1 DEF ReviewsTypeOK, On
  <2>4. ReviewsTypeOK'
    BY <1>0, <2>1, <2>3 DEF ReviewsTypeOK
  <2>5. \A x \in ReviewCalls : ~ On(x, "computed")'
    BY <2>2 DEF On
  <2> QED
    BY <2>1, <2>4, <2>5 DEF RatingInv, Pending, Mends
<1>6. CASE UNCHANGED reviewVars
  <2>1. ReviewsTypeOK' /\ UNCHANGED <<review, rating, task, overtaken, lapsed>>
    BY <1>0, <1>6 DEF reviewVars, ReviewsTypeOK
  <2> QED
    BY <2>1, PendingStays DEF RatingInv, On
<1>7. CASE ReviewsNext
  BY <1>1, <1>2, <1>3, <1>4, <1>5, <1>7, CreateKeeps, InsertKeeps, ComputeKeeps, StoreKeeps
     DEF ReviewsNext, ReviewStep
<1> QED
  BY <1>6, <1>7

LEMMA RatingInvariance == ReviewsSpec => []RatingInv
  BY RatingInit, RatingStep, PTL DEF ReviewsSpec

\* Every variable of Reviews keeps its type, and no rating is above five stars.
THEOREM ReviewsTypes == ReviewsSpec => []ReviewsTypeOK
<1>1. RatingInv => ReviewsTypeOK
  BY DEF RatingInv
<1> QED
  BY <1>1, RatingInvariance, PTL

\* Once no request is on its way the rating of the course is that of its
\* reviews, however the three steps of the requests came between each other,
\* unless it was overtaken or a request died.
THEOREM RatingsAgree == ReviewsSpec => []RatingAgrees
<1>1. RatingInv => RatingAgrees
  BY DEF RatingInv, RatingAgrees, Pending, Mends, On
<1> QED
  BY <1>1, RatingInvariance, PTL

-----------------------------------------------------------------------------
(***************************************************************************)
(* Chat                                                                    *)
(***************************************************************************)

InRoom(x) == At(x, "join") \/ At(x, "send") \/ At(x, "add") \/ At(x, "answer")
TakesPart(u, r) == IsParticipant(r, u) \/ <<u, r>> \in left

RoomsExist ==
    /\ \A r \in Rooms : chat[r] = "none" => listening[r] = {}
    /\ \A x \in Calls : InRoom(x) => Exists(call[x].room)
\* Whatever is under way in a room is a participant's, or of one who left.
EngagedTakePart ==
    \A u \in People, r \in Rooms : Engaged(u, r) => TakesPart(u, r)
AnswersAreReplies ==
    \A x \in Calls : At(x, "answer") =>
        call[x].kind = "reply" \/ (chat[call[x].room] = "support" /\ call[x].who \in Staff)
OneLineEach ==
    \A u \in People \ stray : \A k, l \in linked : UserOf[k] = u /\ UserOf[l] = u => k = l
Opening == {x \in Calls : At(x, "open")}
ChatsAreCounted == Cardinality(CourseChats) + Cardinality(Opening) <= 1 + crossed
OwedListen ==
    \A d \in owed : post[d[2]] # NoPost /\ d[1] \in listening[post[d[2]].room]

ChatInv ==
    /\ ChatTypeOK
    /\ RoomsExist
    /\ EngagedTakePart
    /\ AnswersAreReplies
    /\ OneLineEach
    /\ OnlineUsersListen
    /\ ChatsAreCounted
    /\ OwedListen
    /\ RoomHearsTheMessage

LEMMA CallFields ==
    ASSUME ChatTypeOK, NEW x \in Calls
    PROVE  /\ InRoom(x) => call[x].room \in Rooms
           /\ At(x, "join") => call[x].line \in Lines /\ UserOf[call[x].line] \in People
           /\ At(x, "send") \/ At(x, "add") \/ At(x, "answer") => call[x].who \in People
           /\ At(x, "answer") => call[x].kind \in {"text", "reply"}
           /\ At(x, "emit") => call[x].post \in Posts /\ call[x] = [at |-> "emit", post |-> call[x].post]
<1>1. call[x] # Idle => call[x] \in CallSteps
  BY DEF ChatTypeOK
<1> QED
  BY <1>1, ChatAssumption DEF At, InRoom, CallSteps

LEMMA RoomInit ==  ChatInit => ChatInv
<1> SUFFICES ASSUME ChatInit
             PROVE  ChatInv
  OBVIOUS
<1>1. ChatTypeOK
  BY DEF ChatInit, ChatTypeOK, ChatKinds
<1>2. \A x \in Calls : \A s : ~ At(x, s)
  BY DEF ChatInit, At
<1>3. CourseChats = {} /\ Opening = {}
  BY <1>2 DEF ChatInit, CourseChats, Opening
<1>4. ChatsAreCounted
  BY <1>3, FS_EmptySet DEF ChatInit, ChatsAreCounted
<1>5. RoomsExist /\ EngagedTakePart /\ AnswersAreReplies
  BY <1>2 DEF ChatInit, RoomsExist, InRoom, EngagedTakePart, Engaged, AnswersAreReplies
<1> QED
  BY <1>1, <1>4, <1>5
     DEF ChatInit, ChatInv, OneLineEach, OnlineUsersListen, OwedListen, RoomHearsTheMessage

LEMMA BeginIs ==
    ASSUME ChatTypeOK, NEW x \in Calls, NEW t \in CallSteps, Begin(x, t)
    PROVE  /\ call' \in [Calls -> CallSteps \cup {Idle}]
           /\ call[x] = Idle /\ call'[x] = t /\ t # Idle
           /\ \A y \in Calls \ {x} : call'[y] = call[y]
BY ChatAssumption DEF ChatTypeOK, Begin

LEMMA FinishIs ==
    ASSUME ChatTypeOK, NEW x \in Calls, Finish(x)
    PROVE  /\ call' \in [Calls -> CallSteps \cup {Idle}] /\ call'[x] = Idle
           /\ \A y \in Calls \ {x} : call'[y] = call[y]
BY DEF ChatTypeOK, Finish

LEMMA NewChatIs ==
    ASSUME ChatTypeOK, RoomsExist, NEW r \in Rooms, NEW kind \in ChatKinds \ {"none"},
           NEW who \in SUBSET People, NewChat(r, kind, who)
    PROVE  /\ chat' \in [Rooms -> ChatKinds] /\ member' \in [Rooms -> SUBSET People]
           /\ chat[r] = "none" /\ chat'[r] = kind /\ member'[r] = who
           /\ \A s \in Rooms \ {r} : chat'[s] = chat[s] /\ member'[s] = member[s]
           /\ \A s \in Rooms : /\ member[s] \subseteq member'[s]
                               /\ Exists(s) => chat'[s] = chat[s]
                               /\ chat'[s] = "none" => chat[s] = "none" /\ member'[s] = {}
           /\ listening[r] = {}
<1>1. /\ chat[r] = "none" /\ chat' = [chat EXCEPT ![r] = kind]
      /\ member' = [member EXCEPT ![r] = who]
  BY DEF NewChat
<1>2. /\ chat \in [Rooms -> ChatKinds] /\ member \in [Rooms -> SUBSET People]
      /\ \A s \in Rooms : chat[s] = "none" => member[s] = {}
  BY DEF ChatTypeOK
<1>3. listening[r] = {}
  BY <1>1 DEF RoomsExist
<1> QED
  BY <1>1, <1>2, <1>3 DEF Exists

LEMMA NewPostIs ==
    ASSUME ChatTypeOK, NEW m \in Posts, NEW r \in Rooms, NEW u \in People,
           NEW kind \in {"text", "thread", "reply"}, NewPost(m, r, u, kind)
    PROVE  /\ post' \in [Posts -> PostRows \cup {NoPost}] /\ owed' \subseteq Lines \X Posts
           /\ post[m] = NoPost /\ post'[m] # NoPost
           /\ post'[m].room = r /\ post'[m].by = u /\ post'[m].kind = kind
           /\ \A n \in Posts \ {m} : post'[n] = post[n]
           /\ owed' = owed \cup (listening[r] \X {m})
<1> DEFINE row == [room |-> r, by |-> u, kind |-> kind, fate |-> "kept"]
<1>1. /\ post[m] = NoPost /\ post' = [post EXCEPT ![m] = row]
      /\ owed' = owed \cup (listening[r] \X {m})
  BY DEF NewPost
<1>2. row \in PostRows /\ row.room = r /\ row.by = u /\ row.kind = kind
  BY DEF PostRows
<1>3. listening[r] \subseteq Lines
  BY DEF ChatTypeOK
<1> HIDE DEF row
<1> QED
  BY <1>1, <1>2, <1>3, ChatAssumption DEF ChatTypeOK

LEMMA GatewayStays ==
    ASSUME OneLineEach, OnlineUsersListen, UNCHANGED gateway
    PROVE  OneLineEach' /\ OnlineUsersListen'
BY DEF gateway, OneLineEach, OnlineUsersListen

LEMMA CountsStay ==
    ASSUME ChatsAreCounted, CourseChats' \subseteq CourseChats, Opening' \subseteq Opening,
           crossed \in Nat, crossed' = crossed
    PROVE  ChatsAreCounted'
<1>1. CourseChats \in SUBSET Rooms /\ Opening \in SUBSET Calls
  BY DEF CourseChats, Opening
<1>2. IsFiniteSet(CourseChats) /\ IsFiniteSet(Opening)
  BY <1>1, ChatAssumption, FS_Subset
<1>3. /\ IsFiniteSet(CourseChats') /\ IsFiniteSet(Opening')
      /\ Cardinality(CourseChats') <= Cardinality(CourseChats)
      /\ Cardinality(Opening') <= Cardinality(Opening)
  BY <1>2, FS_Subset
<1>4. /\ Cardinality(CourseChats) \in Nat /\ Cardinality(Opening) \in Nat
      /\ Cardinality(CourseChats') \in Nat /\ Cardinality(Opening') \in Nat
  BY <1>2, <1>3, FS_CardinalityType
<1>5. Cardinality(CourseChats) + Cardinality(Opening) <= 1 + crossed
  BY DEF ChatsAreCounted
<1>6. Cardinality(CourseChats') + Cardinality(Opening') <= 1 + crossed'
  BY <1>3, <1>4, <1>5
<1> QED
  BY <1>6 DEF ChatsAreCounted

LEMMA OwedStay ==
    ASSUME ChatTypeOK, OwedListen, RoomHearsTheMessage, UNCHANGED <<post, owed>>,
           \A r \in Rooms : Exists(r) => chat'[r] = chat[r],
           \A r \in Rooms : listening[r] \subseteq listening'[r],
           \A y \in Calls : At(y, "emit") => call'[y] = call[y]
    PROVE  OwedListen' /\ RoomHearsTheMessage'
<1> SUFFICES ASSUME NEW d \in owed
             PROVE  /\ post[d[2]] # NoPost /\ d[1] \in listening'[post[d[2]].room]
                    /\ \/ \E x \in Calls : call'[x] = [at |-> "emit", post |-> d[2]]
                       \/ post[d[2]].kind \in {"reply", "answer"}
                       \/ chat'[post[d[2]].room] = "support" /\ post[d[2]].by \in Staff
  BY DEF OwedListen, RoomHearsTheMessage
<1>1. d[2] \in Posts /\ post[d[2]] # NoPost /\ d[1] \in listening[post[d[2]].room]
  BY DEF ChatTypeOK, OwedListen
<1>2. post[d[2]].room \in Rooms
  BY <1>1 DEF ChatTypeOK, PostRows
<1>3. \A x \in Calls : call[x] = [at |-> "emit", post |-> d[2]] => call'[x] = call[x]
  <2>1. [at |-> "emit", post |-> d[2]] \in CallSteps
    BY <1>1 DEF CallSteps
  <2> QED
    BY <2>1, ChatAssumption DEF At
<1>4. \/ \E x \in Calls : call[x] = [at |-> "emit", post |-> d[2]]
      \/ post[d[2]].kind \in {"reply", "answer"}
      \/ chat[post[d[2]].room] = "support" /\ post[d[2]].by \in Staff
  BY DEF RoomHearsTheMessage
<1>5. chat[post[d[2]].room] = "support" => chat'[post[d[2]].room] = "support"
  BY <1>2 DEF Exists
<1>6. d[1] \in listening'[post[d[2]].room]
  BY <1>1, <1>2
<1>7. \/ \E x \in Calls : call'[x] = [at |-> "emit", post |-> d[2]]
      \/ post[d[2]].kind \in {"reply", "answer"}
      \/ chat'[post[d[2]].room] = "support" /\ post[d[2]].by \in Staff
  BY <1>3, <1>4, <1>5
<1> QED
  BY <1>1, <1>6, <1>7

\* A call begins and nothing else happens.
LEMMA BeginKeeps ==
    ASSUME ChatInv, NEW x \in Calls, NEW t \in CallSteps, Begin(x, t),
           UNCHANGED <<stored, gateway, owed, left>>,
           t.at \in {"join", "send", "add", "answer"} => Exists(t.room),
           t.at \in {"send", "answer"} => TakesPart(t.who, t.room),
           t.at = "join" => TakesPart(UserOf[t.line], t.room),
           t.at = "answer" => t.kind = "reply" \/ (chat[t.room] = "support" /\ t.who \in Staff),
           crossed' \in Nat, ChatsAreCounted'
    PROVE  ChatInv'
<1>1. /\ UNCHANGED <<chat, member, post, linked, listening, tracked, stray, owed, left>>
      /\ ChatTypeOK
  BY DEF stored, gateway, ChatInv
<1>2. /\ call' \in [Calls -> CallSteps \cup {Idle}]
      /\ call[x] = Idle /\ call'[x] = t /\ t # Idle
      /\ \A y \in Calls \ {x} : call'[y] = call[y]
  BY <1>1, BeginIs
<1>3. ChatTypeOK'
  BY <1>1, <1>2 DEF ChatTypeOK
<1>4. RoomsExist'
  BY <1>1, <1>2 DEF ChatInv, RoomsExist, InRoom, At, Exists
<1>5. EngagedTakePart'
  <2> SUFFICES ASSUME NEW u \in People, NEW r \in Rooms, Engaged(u, r)'
               PROVE  TakesPart(u, r)'
    BY DEF EngagedTakePart
  <2>1. TakesPart(u, r)' = TakesPart(u, r)
    BY <1>1 DEF TakesPart, IsParticipant
  <2>2. Engaged(u, r) \/ TakesPart(u, r)
    BY <1>1, <1>2 DEF Engaged, At
  <2> QED
    BY <2>1, <2>2 DEF ChatInv, EngagedTakePart
<1>6. AnswersAreReplies'
  BY <1>1, <1>2 DEF ChatInv, AnswersAreReplies, At
<1>7. OneLineEach' /\ OnlineUsersListen'
  BY GatewayStays DEF ChatInv
<1>8. OwedListen' /\ RoomHearsTheMessage'
  BY <1>1, <1>2, OwedStay DEF ChatInv, At
<1> QED
  BY <1>3, <1>4, <1>5, <1>6, <1>7, <1>8 DEF ChatInv

\* A call ends that was not to be heard, and nothing else happens.
LEMMA FinishKeeps ==
    ASSUME ChatInv, NEW x \in Calls, Finish(x), ~ At(x, "emit"),
           UNCHANGED <<stored, gateway, owed, left, crossed>>
    PROVE  ChatInv'
<1>1. /\ UNCHANGED <<chat, member, post, linked, listening, tracked, stray, owed, left, crossed>>
      /\ ChatTypeOK
  BY DEF stored, gateway, ChatInv
<1>2. /\ call' \in [Calls -> CallSteps \cup {Idle}] /\ call'[x] = Idle
      /\ \A y \in Calls \ {x} : call'[y] = call[y]
  BY <1>1, FinishIs
<1>3. ChatTypeOK'
  BY <1>1, <1>2 DEF ChatTypeOK
<1>4. RoomsExist'
  BY <1>1, <1>2 DEF ChatInv, RoomsExist, InRoom, At, Exists
<1>5. EngagedTakePart'
  <2>1. \A u \in People, r \in Rooms :
            TakesPart(u, r)' = TakesPart(u, r) /\ (Engaged(u, r)' => Engaged(u, r))
    BY <1>1, <1>2 DEF TakesPart, IsParticipant, Engaged, At
  <2> QED
    BY <2>1 DEF ChatInv, EngagedTakePart
<1>6. AnswersAreReplies'
  BY <1>1, <1>2 DEF ChatInv, AnswersAreReplies, At
<1>7. OneLineEach' /\ OnlineUsersListen'
  BY GatewayStays DEF ChatInv
<1>8. OwedListen' /\ RoomHearsTheMessage'
  BY <1>1, <1>2, OwedStay DEF ChatInv, At
<1>9. ChatsAreCounted'
  <2>1. CourseChats' = CourseChats /\ Opening' \subseteq Opening
    BY <1>1, <1>2 DEF CourseChats, Opening, At
  <2> QED
    BY <1>1, <2>1, CountsStay DEF ChatInv, ChatTypeOK
<1> QED
  BY <1>3, <1>4, <1>5, <1>6, <1>7, <1>8, <1>9 DEF ChatInv

LEMMA GetCourseChatKeeps ==
    ASSUME ChatInv, NEW x \in Calls, GetOrCreateCourseChat(x)
    PROVE  ChatInv'
<1> DEFINE t == [at |-> IF NoCourseChat THEN "open" ELSE "recruit"]
<1>1. /\ Begin(x, t) /\ UNCHANGED <<stored, gateway, owed, left>>
      /\ crossed' = IF NoCourseChat /\ \E y \in Calls : At(y, "open")
                    THEN crossed + 1 ELSE crossed
      /\ ChatTypeOK /\ crossed \in Nat
  BY DEF GetOrCreateCourseChat, ChatInv, ChatTypeOK
<1>2. /\ t \in CallSteps /\ t.at \in {"open", "recruit"} /\ (t.at = "open" <=> NoCourseChat)
  BY DEF CallSteps
<1> HIDE DEF t
<1>3. /\ call[x] = Idle /\ call'[x] = t /\ t # Idle
      /\ \A y \in Calls \ {x} : call'[y] = call[y]
  BY <1>1, <1>2, BeginIs
<1>4. CourseChats' = CourseChats /\ CourseChats \in SUBSET Rooms /\ Opening \in SUBSET Calls
  BY <1>1 DEF stored, CourseChats, Opening
<1>5. /\ IsFiniteSet(CourseChats) /\ IsFiniteSet(Opening)
      /\ Cardinality(CourseChats) \in Nat /\ Cardinality(Opening) \in Nat
  BY <1>4, ChatAssumption, FS_Subset, FS_CardinalityType
<1>6. Cardinality(CourseChats) + Cardinality(Opening) <= 1 + crossed
  BY DEF ChatInv, ChatsAreCounted
<1>7. crossed' \in Nat
  BY <1>1
<1>8. CASE NoCourseChat
  <2>1. x \notin Opening /\ Opening' = Opening \cup {x}
    BY <1>2, <1>3, <1>8 DEF Opening, At
  <2>2. Cardinality(Opening') = Cardinality(Opening) + 1
    BY <1>5, <2>1, FS_AddElement
  <2>3. Cardinality(CourseChats) = 0
    BY <1>8, FS_EmptySet DEF NoCourseChat
  <2>4. CASE \E y \in Calls : At(y, "open")
    <3>1. crossed' = crossed + 1
      BY <1>1, <1>8, <2>4
    <3>2. Cardinality(CourseChats') + Cardinality(Opening') <= 1 + crossed'
      BY <1>1, <1>4, <1>5, <1>6, <2>2, <3>1
    <3> QED
      BY <1>1, <1>2, <1>7, <3>2, BeginKeeps DEF ChatsAreCounted
  <2>5. CASE ~ \E y \in Calls : At(y, "open")
    <3>1. Opening = {} /\ crossed' = crossed
      BY <1>1, <2>5 DEF Opening
    <3>2. Cardinality(Opening) = 0
      BY <3>1, FS_EmptySet
    <3>3. Cardinality(CourseChats') + Cardinality(Opening') <= 1 + crossed'
      BY <1>1, <1>4, <2>2, <2>3, <3>1, <3>2
    <3> QED
      BY <1>1, <1>2, <1>7, <3>3, BeginKeeps DEF ChatsAreCounted
  <2> QED
    BY <2>4, <2>5
<1>9. CASE ~ NoCourseChat
  <2>1. Opening' \subseteq Opening /\ crossed' = crossed
    BY <1>1, <1>2, <1>3, <1>9 DEF Opening, At
  <2>2. ChatsAreCounted'
    BY <1>1, <1>4, <2>1, CountsStay DEF ChatInv
  <2> QED
    BY <1>1, <1>2, <1>7, <2>2, BeginKeeps
<1> QED
  BY <1>8, <1>9

\* A chat is made that is no course's.
LEMMA CreateRoomKeeps ==
    ASSUME ChatInv, NEW u \in People, NEW others \in SUBSET People, NEW kind \in ChatKinds,
           NEW r \in Rooms, CreateChatRoom(u, others, kind, r)
    PROVE  ChatInv'
<1> DEFINE who == others \cup {u}
<1>1. /\ kind \in ChatKinds \ {"none"} /\ kind # "course" /\ who \in SUBSET People
      /\ NewChat(r, kind, who)
      /\ UNCHANGED <<post, linked, listening, tracked, stray, call, owed, left, crossed>>
      /\ ChatTypeOK /\ RoomsExist
  BY DEF CreateChatRoom, gateway, ChatInv, ChatKinds
<1> HIDE DEF who
<1>2. /\ chat' \in [Rooms -> ChatKinds] /\ member' \in [Rooms -> SUBSET People]
      /\ chat[r] = "none" /\ chat'[r] = kind
      /\ \A s \in Rooms \ {r} : chat'[s] = chat[s] /\ member'[s] = member[s]
      /\ \A s \in Rooms : /\ member[s] \subseteq member'[s]
                          /\ Exists(s) => chat'[s] = chat[s]
                          /\ chat'[s] = "none" => chat[s] = "none" /\ member'[s] = {}
      /\ listening[r] = {}
  BY <1>1, NewChatIs
<1>3. ChatTypeOK'
  BY <1>1, <1>2 DEF ChatTypeOK
<1>4. RoomsExist' /\ AnswersAreReplies'
  <2>1. \A y \in Calls : /\ InRoom(y)' = InRoom(y) /\ At(y, "answer")' = At(y, "answer")
                         /\ InRoom(y) => call[y].room \in Rooms /\ Exists(call[y].room)
                         /\ At(y, "answer") => InRoom(y)
    BY <1>1, CallFields DEF InRoom, At, RoomsExist
  <2>2. \A s \in Rooms : Exists(s) => Exists(s)' /\ chat'[s] = chat[s]
    BY <1>2 DEF Exists
  <2>3. RoomsExist'
    BY <1>1, <1>2, <2>1, <2>2 DEF RoomsExist
  <2>4. AnswersAreReplies'
    BY <1>1, <2>1, <2>2 DEF ChatInv, AnswersAreReplies
  <2> QED
    BY <2>3, <2>4
<1>5. EngagedTakePart'
  <2>1. \A v \in People, s \in Rooms :
            (TakesPart(v, s) => TakesPart(v, s)') /\ Engaged(v, s)' = Engaged(v, s)
    BY <1>1, <1>2 DEF TakesPart, IsParticipant, Engaged, At
  <2> QED
    BY <2>1 DEF ChatInv, EngagedTakePart
<1>6. OneLineEach' /\ OnlineUsersListen'
  BY <1>1, GatewayStays DEF ChatInv, gateway
<1>7. OwedListen' /\ RoomHearsTheMessage'
  BY <1>1, <1>2, OwedStay DEF ChatInv
<1>8. ChatsAreCounted'
  <2>1. CourseChats' \subseteq CourseChats /\ Opening' = Opening
    BY <1>1, <1>2 DEF CourseChats, Opening, At
  <2> QED
    BY <1>1, <2>1, CountsStay DEF ChatInv, ChatTypeOK
<1> QED
  BY <1>3, <1>4, <1>5, <1>6, <1>7, <1>8 DEF ChatInv

LEMMA OpenCourseChatKeeps ==
    ASSUME ChatInv, NEW x \in Calls, NEW r \in Rooms, OpenCourseChat(x, r)
    PROVE  ChatInv'
<1>1. /\ At(x, "open") /\ NewChat(r, "course", Seeded) /\ Finish(x)
      /\ UNCHANGED <<post, linked, listening, tracked, stray, owed, left, crossed>>
      /\ ChatTypeOK /\ RoomsExist /\ crossed \in Nat
  BY DEF OpenCourseChat, gateway, ChatInv, ChatTypeOK
<1>2. /\ chat' \in [Rooms -> ChatKinds] /\ member' \in [Rooms -> SUBSET People]
      /\ chat[r] = "none" /\ chat'[r] = "course"
      /\ \A s \in Rooms \ {r} : chat'[s] = chat[s] /\ member'[s] = member[s]
      /\ \A s \in Rooms : /\ member[s] \subseteq member'[s]
                          /\ Exists(s) => chat'[s] = chat[s]
                          /\ chat'[s] = "none" => chat[s] = "none" /\ member'[s] = {}
      /\ listening[r] = {}
  BY <1>1, NewChatIs, ChatAssumption DEF ChatKinds
<1>3. /\ call' \in [Calls -> CallSteps \cup {Idle}] /\ call'[x] = Idle
      /\ \A y \in Calls \ {x} : call'[y] = call[y]
  BY <1>1, FinishIs
<1>4. ChatTypeOK'
  BY <1>1, <1>2, <1>3 DEF ChatTypeOK
<1>5. RoomsExist' /\ AnswersAreReplies'
  <2>1. \A y \in Calls : /\ InRoom(y)' => InRoom(y) /\ call'[y] = call[y]
                         /\ At(y, "answer")' => At(y, "answer") /\ call'[y] = call[y]
                         /\ InRoom(y) => call[y].room \in Rooms /\ Exists(call[y].room)
                         /\ At(y, "answer") => InRoom(y)
    BY <1>1, <1>3, CallFields DEF InRoom, At, RoomsExist
  <2>2. \A s \in Rooms : Exists(s) => Exists(s)' /\ chat'[s] = chat[s]
    BY <1>2 DEF Exists
  <2>3. RoomsExist'
    BY <1>1, <1>2, <2>1, <2>2 DEF RoomsExist
  <2>4. AnswersAreReplies'
    BY <1>1, <2>1, <2>2 DEF ChatInv, AnswersAreReplies
  <2> QED
    BY <2>3, <2>4
<1>6. EngagedTakePart'
  <2>1. \A v \in People, s \in Rooms :
            (TakesPart(v, s) => TakesPart(v, s)') /\ (Engaged(v, s)' => Engaged(v, s))
    BY <1>1, <1>2, <1>3 DEF TakesPart, IsParticipant, Engaged, At
  <2> QED
    BY <2>1 DEF ChatInv, EngagedTakePart
<1>7. OneLineEach' /\ OnlineUsersListen'
  BY <1>1, GatewayStays DEF ChatInv, gateway
<1>8. OwedListen' /\ RoomHearsTheMessage'
  <2>1. \A y \in Calls : At(y, "emit") => call'[y] = call[y]
    BY <1>1, <1>3 DEF At
  <2> QED
    BY <1>1, <1>2, <2>1, OwedStay DEF ChatInv
<1>9. ChatsAreCounted'
  <2>1. /\ r \notin CourseChats /\ CourseChats' = CourseChats \cup {r}
        /\ x \in Opening /\ Opening' = Opening \ {x}
    BY <1>1, <1>2, <1>3 DEF CourseChats, Opening, At
  <2>2. /\ IsFiniteSet(CourseChats) /\ IsFiniteSet(Opening)
        /\ Cardinality(CourseChats) \in Nat /\ Cardinality(Opening) \in Nat
    <3>1. CourseChats \in SUBSET Rooms /\ Opening \in SUBSET Calls
      BY DEF CourseChats, Opening
    <3> QED
      BY <3>1, ChatAssumption, FS_Subset, FS_CardinalityType
  <2>3. /\ Cardinality(CourseChats') = Cardinality(CourseChats) + 1
        /\ Cardinality(Opening') = Cardinality(Opening) - 1
    BY <2>1, <2>2, FS_AddElement, FS_RemoveElement
  <2>4. Cardinality(CourseChats) + Cardinality(Opening) <= 1 + crossed
    BY DEF ChatInv, ChatsAreCounted
  <2>5. Cardinality(CourseChats') + Cardinality(Opening') <= 1 + crossed'
    BY <1>1, <2>2, <2>3, <2>4
  <2> QED
    BY <2>5 DEF ChatsAreCounted
<1> QED
  BY <1>4, <1>5, <1>6, <1>7, <1>8, <1>9 DEF ChatInv

LEMMA InsertParticipantKeeps ==
    ASSUME ChatInv, NEW x \in Calls, InsertParticipant(x)
    PROVE  ChatInv'
<1> DEFINE u == call[x].who
           r == call[x].room
<1>1. /\ At(x, "add") /\ member' = [member EXCEPT ![r] = @ \cup {u}]
      /\ left' = left \ {<<u, r>>} /\ Finish(x)
      /\ UNCHANGED <<chat, post, linked, listening, tracked, stray, owed, crossed>>
      /\ ChatTypeOK /\ RoomsExist
  BY DEF InsertParticipant, gateway, ChatInv
<1>2. u \in People /\ r \in Rooms /\ Exists(r)
  BY <1>1, CallFields DEF InRoom, RoomsExist
<1>3. /\ call' \in [Calls -> CallSteps \cup {Idle}] /\ call'[x] = Idle
      /\ \A y \in Calls \ {x} : call'[y] = call[y]
  BY <1>1, FinishIs
<1> HIDE DEF u, r
<1>4. /\ member' \in [Rooms -> SUBSET People] /\ member'[r] = member[r] \cup {u}
      /\ \A s \in Rooms \ {r} : member'[s] = member[s]
  BY <1>1, <1>2 DEF ChatTypeOK
<1>5. ChatTypeOK'
  BY <1>1, <1>2, <1>3, <1>4 DEF ChatTypeOK, Exists
<1>6. RoomsExist' /\ AnswersAreReplies'
  BY <1>1, <1>3 DEF ChatInv, RoomsExist, AnswersAreReplies, InRoom, At, Exists
<1>7. EngagedTakePart'
  <2>1. \A v \in People, s \in Rooms :
            (TakesPart(v, s) => TakesPart(v, s)') /\ (Engaged(v, s)' => Engaged(v, s))
    BY <1>1, <1>3, <1>4 DEF TakesPart, IsParticipant, Engaged, At
  <2> QED
    BY <2>1 DEF ChatInv, EngagedTakePart
<1>8. OneLineEach' /\ OnlineUsersListen'
  BY <1>1, GatewayStays DEF ChatInv, gateway
<1>9. OwedListen' /\ RoomHearsTheMessage'
  BY <1>1, <1>3, OwedStay DEF ChatInv, At
<1>10. ChatsAreCounted'
  <2>1. CourseChats' = CourseChats /\ Opening' \subseteq Opening
    BY <1>1, <1>3 DEF CourseChats, Opening, At
  <2> QED
    BY <1>1, <2>1, CountsStay DEF ChatInv, ChatTypeOK
<1> QED
  BY <1>5, <1>6, <1>7, <1>8, <1>9, <1>10 DEF ChatInv

LEMMA RemoveParticipantKeeps ==
    ASSUME ChatInv, NEW u \in People, NEW r \in Rooms, RemoveParticipant(u, r)
    PROVE  ChatInv'
<1>1. /\ Exists(r) /\ member' = [member EXCEPT ![r] = @ \ {u}]
      /\ left' = IF IsParticipant(r, u) /\ Engaged(u, r) THEN left \cup {<<u, r>>} ELSE left
      /\ UNCHANGED <<chat, post, linked, listening, tracked, stray, call, owed, crossed>>
      /\ ChatTypeOK
  BY DEF RemoveParticipant, gateway, ChatInv
<1>2. /\ member' \in [Rooms -> SUBSET People] /\ member'[r] = member[r] \ {u}
      /\ \A s \in Rooms \ {r} : member'[s] = member[s]
  BY <1>1 DEF ChatTypeOK
<1>3. left' \subseteq People \X Rooms /\ left \subseteq left'
  BY <1>1 DEF ChatTypeOK
<1>4. ChatTypeOK'
  BY <1>1, <1>2, <1>3 DEF ChatTypeOK
<1>5. RoomsExist' /\ AnswersAreReplies'
  BY <1>1 DEF ChatInv, RoomsExist, AnswersAreReplies, InRoom, At, Exists
<1>6. EngagedTakePart'
  <2> SUFFICES ASSUME NEW v \in People, NEW s \in Rooms, Engaged(v, s)
               PROVE  TakesPart(v, s)'
    BY <1>1 DEF EngagedTakePart, Engaged, At
  <2>1. TakesPart(v, s)
    BY DEF ChatInv, EngagedTakePart
  <2> QED
    BY <1>1, <1>2, <1>3, <2>1 DEF TakesPart, IsParticipant
<1>7. OneLineEach' /\ OnlineUsersListen'
  BY <1>1, GatewayStays DEF ChatInv, gateway
<1>8. OwedListen' /\ RoomHearsTheMessage'
  BY <1>1, OwedStay DEF ChatInv
<1>9. ChatsAreCounted'
  <2>1. CourseChats' = CourseChats /\ Opening' = Opening
    BY <1>1 DEF CourseChats, Opening, At
  <2> QED
    BY <1>1, <2>1, CountsStay DEF ChatInv, ChatTypeOK
<1> QED
  BY <1>4, <1>5, <1>6, <1>7, <1>8, <1>9 DEF ChatInv

\* Who answers takes part, and the call goes on.
LEMMA TakePartKeeps ==
    ASSUME ChatInv, NEW x \in Calls, NEW u \in People, NEW r \in Rooms,
           NEW kind \in {"text", "reply"}, TakePart(x, u, r, kind), Exists(r),
           kind = "reply" \/ (chat[r] = "support" /\ u \in Staff),
           UNCHANGED <<post, gateway, owed, crossed>>
    PROVE  ChatInv'
<1> DEFINE t == [at |-> "answer", who |-> u, room |-> r, kind |-> kind]
<1>1. /\ Begin(x, t) /\ member' = [member EXCEPT ![r] = @ \cup {u}]
      /\ left' = left \ {<<u, r>>}
      /\ UNCHANGED <<chat, post, linked, listening, tracked, stray, owed, crossed>>
      /\ ChatTypeOK
  BY DEF TakePart, gateway, ChatInv
<1>2. t \in CallSteps /\ t.at = "answer" /\ t.who = u /\ t.room = r /\ t.kind = kind
  BY DEF CallSteps
<1> HIDE DEF t
<1>3. /\ call' \in [Calls -> CallSteps \cup {Idle}]
      /\ call[x] = Idle /\ call'[x] = t /\ t # Idle
      /\ \A y \in Calls \ {x} : call'[y] = call[y]
  BY <1>1, <1>2, BeginIs
<1>4. /\ member' \in [Rooms -> SUBSET People] /\ member'[r] = member[r] \cup {u}
      /\ \A s \in Rooms \ {r} : member'[s] = member[s]
  BY <1>1 DEF ChatTypeOK
<1>5. ChatTypeOK'
  BY <1>1, <1>3, <1>4 DEF ChatTypeOK, Exists
<1>6. RoomsExist' /\ AnswersAreReplies'
  BY <1>1, <1>2, <1>3 DEF ChatInv, RoomsExist, AnswersAreReplies, InRoom, At, Exists
<1>7. EngagedTakePart'
  <2>1. \A v \in People, s \in Rooms : TakesPart(v, s) => TakesPart(v, s)'
    BY <1>1, <1>4 DEF TakesPart, IsParticipant
  <2>2. TakesPart(u, r)'
    BY <1>4 DEF TakesPart, IsParticipant
  <2>3. \A v \in People, s \in Rooms :
            Engaged(v, s)' => Engaged(v, s) \/ (v = u /\ s = r)
    BY <1>1, <1>2, <1>3 DEF Engaged, At
  <2> QED
    BY <2>1, <2>2, <2>3 DEF ChatInv, EngagedTakePart
<1>8. OneLineEach' /\ OnlineUsersListen'
  BY GatewayStays DEF ChatInv
<1>9. OwedListen' /\ RoomHearsTheMessage'
  BY <1>1, <1>3, OwedStay DEF ChatInv, At
<1>10. ChatsAreCounted'
  <2>1. CourseChats' = CourseChats /\ Opening' \subseteq Opening
    BY <1>1, <1>2, <1>3 DEF CourseChats, Opening, At
  <2> QED
    BY <1>1, <2>1, CountsStay DEF ChatInv, ChatTypeOK
<1> QED
  BY <1>5, <1>6, <1>7, <1>8, <1>9, <1>10 DEF ChatInv

\* A post is stored by a call; who listens is owed it.
LEMMA NewPostOwed ==
    ASSUME ChatInv, NEW m \in Posts, NEW r \in Rooms, NEW u \in People,
           NEW kind \in {"text", "thread", "reply"}, NewPost(m, r, u, kind),
           listening' = listening,
           \A s \in Rooms : Exists(s) => chat'[s] = chat[s],
           \A y \in Calls : At(y, "emit") => call'[y] = call[y],
           \/ listening[r] = {}
           \/ \E x \in Calls : call'[x] = [at |-> "emit", post |-> m]
           \/ kind = "reply"
           \/ chat'[r] = "support" /\ u \in Staff
    PROVE  OwedListen' /\ RoomHearsTheMessage'
<1>1. /\ post[m] = NoPost /\ post'[m] # NoPost
      /\ post'[m].room = r /\ post'[m].by = u /\ post'[m].kind = kind
      /\ \A n \in Posts \ {m} : post'[n] = post[n]
      /\ owed' = owed \cup (listening[r] \X {m})
      /\ ChatTypeOK
  BY NewPostIs DEF ChatInv
<1> SUFFICES ASSUME NEW d \in owed'
             PROVE  /\ post'[d[2]] # NoPost /\ d[1] \in listening[post'[d[2]].room]
                    /\ \/ \E x \in Calls : call'[x] = [at |-> "emit", post |-> d[2]]
                       \/ post'[d[2]].kind \in {"reply", "answer"}
                       \/ chat'[post'[d[2]].room] = "support" /\ post'[d[2]].by \in Staff
  BY DEF OwedListen, RoomHearsTheMessage
<1>2. CASE d \in listening[r] \X {m}
  BY <1>1, <1>2
<1>3. CASE d \in owed
  <2>1. /\ d[2] \in Posts /\ post[d[2]] # NoPost /\ d[1] \in listening[post[d[2]].room]
    BY <1>1, <1>3 DEF ChatTypeOK, ChatInv, OwedListen
  <2>2. post'[d[2]] = post[d[2]]
    BY <1>1, <2>1
  <2>3. post[d[2]].room \in Rooms
    BY <1>1, <2>1 DEF ChatTypeOK, PostRows
  <2>4. \A x \in Calls : call[x] = [at |-> "emit", post |-> d[2]] => call'[x] = call[x]
    <3>1. [at |-> "emit", post |-> d[2]] \in CallSteps
      BY <2>1 DEF CallSteps
    <3> QED
      BY <3>1, ChatAssumption DEF At
  <2>5. \/ \E x \in Calls : call[x] = [at |-> "emit", post |-> d[2]]
        \/ post[d[2]].kind \in {"reply", "answer"}
        \/ chat[post[d[2]].room] = "support" /\ post[d[2]].by \in Staff
    BY <1>3 DEF ChatInv, RoomHearsTheMessage
  <2>6. chat[post[d[2]].room] = "support" => chat'[post[d[2]].room] = "support"
    BY <2>3 DEF Exists
  <2>7. \/ \E x \in Calls : call'[x] = [at |-> "emit", post |-> d[2]]
        \/ post[d[2]].kind \in {"reply", "answer"}
        \/ chat'[post[d[2]].room] = "support" /\ post[d[2]].by \in Staff
    BY <2>4, <2>5, <2>6
  <2> QED
    BY <2>1, <2>2, <2>7
<1> QED
  BY <1>1, <1>2, <1>3

\* The parts of the invariant that posts have no part in, for a call that
\* leaves its room.
LEMMA LeaveRoomKeeps ==
    ASSUME ChatInv, NEW x \in Calls, ~ InRoom(x)', ~ At(x, "open")',
           call' \in [Calls -> CallSteps \cup {Idle}],
           \A y \in Calls \ {x} : call'[y] = call[y],
           post' \in [Posts -> PostRows \cup {NoPost}], owed' \subseteq Lines \X Posts,
           UNCHANGED <<chat, member, linked, listening, tracked, stray, left, crossed>>
    PROVE  /\ ChatTypeOK' /\ RoomsExist' /\ AnswersAreReplies' /\ EngagedTakePart'
           /\ OneLineEach' /\ OnlineUsersListen' /\ ChatsAreCounted'
<1>1. ChatTypeOK'
  BY DEF ChatInv, ChatTypeOK
<1>2. RoomsExist' /\ AnswersAreReplies'
  BY DEF ChatInv, RoomsExist, AnswersAreReplies, InRoom, At, Exists
<1>3. EngagedTakePart'
  <2>1. \A v \in People, s \in Rooms :
            TakesPart(v, s)' = TakesPart(v, s) /\ (Engaged(v, s)' => Engaged(v, s))
    BY DEF TakesPart, IsParticipant, Engaged, At, InRoom
  <2> QED
    BY <2>1 DEF ChatInv, EngagedTakePart
<1>4. OneLineEach' /\ OnlineUsersListen'
  BY GatewayStays DEF ChatInv, gateway
<1>5. ChatsAreCounted'
  <2>1. CourseChats' = CourseChats /\ Opening' \subseteq Opening
    BY DEF CourseChats, Opening, At
  <2> QED
    BY <2>1, CountsStay DEF ChatInv, ChatTypeOK
<1> QED
  BY <1>1, <1>2, <1>3, <1>4, <1>5

LEMMA StoreMessageKeeps ==
    ASSUME ChatInv, NEW x \in Calls, NEW m \in Posts, StoreMessage(x, m)
    PROVE  ChatInv'
<1> DEFINE t == [at |-> "emit", post |-> m]
           r == call[x].room
           u == call[x].who
<1>1. /\ At(x, "send") /\ NewPost(m, r, u, "text") /\ call' = [call EXCEPT ![x] = t]
      /\ UNCHANGED <<chat, member, linked, listening, tracked, stray, left, crossed>>
      /\ ChatTypeOK
  BY DEF StoreMessage, gateway, ChatInv
<1>2. r \in Rooms /\ u \in People
  BY <1>1, CallFields DEF InRoom
<1>3. t \in CallSteps /\ t.at = "emit"
  BY DEF CallSteps
<1>4. t # Idle
  BY <1>3, ChatAssumption
<1> HIDE DEF r, u
<1>5. post' \in [Posts -> PostRows \cup {NoPost}] /\ owed' \subseteq Lines \X Posts
  BY <1>1, <1>2, NewPostIs
<1>6. /\ \A y \in Calls : At(y, "emit") => call'[y] = call[y]
      /\ \E y \in Calls : call'[y] = t
  BY <1>1 DEF At, ChatTypeOK
<1>7. OwedListen' /\ RoomHearsTheMessage'
  BY <1>1, <1>2, <1>6, NewPostOwed
<1> HIDE DEF t
<1>8. /\ call' \in [Calls -> CallSteps \cup {Idle}] /\ call'[x] = t
      /\ \A y \in Calls \ {x} : call'[y] = call[y]
  BY <1>1, <1>3 DEF ChatTypeOK
<1>9. ~ InRoom(x)' /\ ~ At(x, "open")'
  BY <1>3, <1>8 DEF InRoom, At
<1> QED
  BY <1>1, <1>5, <1>7, <1>8, <1>9, LeaveRoomKeeps DEF ChatInv

LEMMA StoreAnswerKeeps ==
    ASSUME ChatInv, NEW x \in Calls, NEW m \in Posts, StoreAnswer(x, m)
    PROVE  ChatInv'
<1> DEFINE r == call[x].room
           u == call[x].who
           kind == call[x].kind
<1>1. /\ At(x, "answer") /\ NewPost(m, r, u, kind) /\ Finish(x)
      /\ UNCHANGED <<chat, member, linked, listening, tracked, stray, left, crossed>>
      /\ ChatTypeOK
  BY DEF StoreAnswer, gateway, ChatInv
<1>2. r \in Rooms /\ u \in People /\ kind \in {"text", "reply"}
  BY <1>1, CallFields DEF InRoom
<1>3. kind = "reply" \/ (chat[r] = "support" /\ u \in Staff)
  BY <1>1 DEF ChatInv, AnswersAreReplies
<1> HIDE DEF r, u, kind
<1>4. post' \in [Posts -> PostRows \cup {NoPost}] /\ owed' \subseteq Lines \X Posts
  BY <1>1, <1>2, NewPostIs
<1>5. /\ call' \in [Calls -> CallSteps \cup {Idle}] /\ call'[x] = Idle
      /\ \A y \in Calls \ {x} : call'[y] = call[y]
  BY <1>1, FinishIs
<1>6. \A y \in Calls : At(y, "emit") => call'[y] = call[y]
  BY <1>1, <1>5 DEF At
<1>7. OwedListen' /\ RoomHearsTheMessage'
  BY <1>1, <1>2, <1>3, <1>6, NewPostOwed
<1>8. ~ InRoom(x)' /\ ~ At(x, "open")'
  BY <1>5 DEF InRoom, At
<1> QED
  BY <1>1, <1>4, <1>5, <1>7, <1>8, LeaveRoomKeeps DEF ChatInv

\* Those who listen were sent the message; who else was owed it, listened.
LEMMA SendToRoomKeeps ==
    ASSUME ChatInv, NEW x \in Calls, SendToRoom(x)
    PROVE  ChatInv'
<1> DEFINE m == call[x].post
           r == post[m].room
<1>1. /\ At(x, "emit") /\ owed' = owed \ (listening[r] \X {m}) /\ Finish(x)
      /\ UNCHANGED <<chat, member, post, linked, listening, tracked, stray, left, crossed>>
      /\ ChatTypeOK
  BY DEF SendToRoom, Hear, gateway, stored, ChatInv
<1>2. m \in Posts /\ call[x] = [at |-> "emit", post |-> m]
  BY <1>1, CallFields
<1>3. /\ call' \in [Calls -> CallSteps \cup {Idle}] /\ call'[x] = Idle
      /\ \A y \in Calls \ {x} : call'[y] = call[y]
  BY <1>1, FinishIs
<1>4. ~ InRoom(x)' /\ ~ At(x, "open")'
  BY <1>3 DEF InRoom, At
<1>5. post' \in [Posts -> PostRows \cup {NoPost}] /\ owed' \subseteq Lines \X Posts
  BY <1>1 DEF ChatTypeOK
<1>6. OwedListen'
  BY <1>1 DEF ChatInv, OwedListen
<1>7. RoomHearsTheMessage'
  <2> SUFFICES ASSUME NEW d \in owed'
               PROVE  \/ \E y \in Calls : call'[y] = [at |-> "emit", post |-> d[2]]
                      \/ post[d[2]].kind \in {"reply", "answer"}
                      \/ chat[post[d[2]].room] = "support" /\ post[d[2]].by \in Staff
    BY <1>1 DEF RoomHearsTheMessage
  <2>1. d \in owed /\ d = <<d[1], d[2]>> /\ d[1] \in listening[post[d[2]].room]
    BY <1>1 DEF ChatTypeOK, ChatInv, OwedListen
  <2>2. d[2] # m
    <3>1. ASSUME d[2] = m PROVE FALSE
      <4>1. d \in listening[r] \X {m}
        BY <2>1, <3>1
      <4> QED
        BY <1>1, <4>1
    <3> QED
      BY <3>1
  <2>3. \A y \in Calls : call[y] = [at |-> "emit", post |-> d[2]] => y # x
    BY <1>2, <2>2
  <2>4. \/ \E y \in Calls : call[y] = [at |-> "emit", post |-> d[2]]
        \/ post[d[2]].kind \in {"reply", "answer"}
        \/ chat[post[d[2]].room] = "support" /\ post[d[2]].by \in Staff
    BY <2>1 DEF ChatInv, RoomHearsTheMessage
  <2> QED
    BY <1>3, <2>3, <2>4
<1> QED
  BY <1>1, <1>3, <1>4, <1>5, <1>6, <1>7, LeaveRoomKeeps DEF ChatInv

LEMMA CreateThreadKeeps ==
    ASSUME ChatInv, NEW u \in People, NEW r \in Rooms, NEW m \in Posts, CreateThread(u, r, m)
    PROVE  ChatInv'
<1>1. /\ NewChat(r, "direct", {u}) /\ NewPost(m, r, u, "thread")
      /\ UNCHANGED <<linked, listening, tracked, stray, call, left, crossed>>
      /\ ChatTypeOK /\ RoomsExist
  BY DEF CreateThread, gateway, ChatInv
<1>2. /\ chat' \in [Rooms -> ChatKinds] /\ member' \in [Rooms -> SUBSET People]
      /\ chat[r] = "none" /\ chat'[r] = "direct"
      /\ \A s \in Rooms \ {r} : chat'[s] = chat[s] /\ member'[s] = member[s]
      /\ \A s \in Rooms : /\ member[s] \subseteq member'[s]
                          /\ Exists(s) => chat'[s] = chat[s]
                          /\ chat'[s] = "none" => chat[s] = "none" /\ member'[s] = {}
      /\ listening[r] = {}
  <2>1. "direct" \in ChatKinds \ {"none"} /\ {u} \in SUBSET People
    BY DEF ChatKinds
  <2> QED
    BY <1>1, <2>1, NewChatIs
<1>3. post' \in [Posts -> PostRows \cup {NoPost}] /\ owed' \subseteq Lines \X Posts
  BY <1>1, NewPostIs
<1>4. ChatTypeOK'
  BY <1>1, <1>2, <1>3 DEF ChatTypeOK
<1>5. RoomsExist' /\ AnswersAreReplies'
  <2>1. \A y \in Calls : /\ InRoom(y)' = InRoom(y) /\ At(y, "answer")' = At(y, "answer")
                         /\ InRoom(y) => call[y].room \in Rooms /\ Exists(call[y].room)
                         /\ At(y, "answer") => InRoom(y)
    BY <1>1, CallFields DEF InRoom, At, RoomsExist
  <2>2. \A s \in Rooms : Exists(s) => Exists(s)' /\ chat'[s] = chat[s]
    BY <1>2 DEF Exists
  <2>3. RoomsExist'
    BY <1>1, <1>2, <2>1, <2>2 DEF RoomsExist
  <2>4. AnswersAreReplies'
    BY <1>1, <2>1, <2>2 DEF ChatInv, AnswersAreReplies
  <2> QED
    BY <2>3, <2>4
<1>6. EngagedTakePart'
  <2>1. \A v \in People, s \in Rooms :
            (TakesPart(v, s) => TakesPart(v, s)') /\ Engaged(v, s)' = Engaged(v, s)
    BY <1>1, <1>2 DEF TakesPart, IsParticipant, Engaged, At
  <2> QED
    BY <2>1 DEF ChatInv, EngagedTakePart
<1>7. OneLineEach' /\ OnlineUsersListen'
  BY <1>1, GatewayStays DEF ChatInv, gateway
<1>8. OwedListen' /\ RoomHearsTheMessage'
  BY <1>1, <1>2, NewPostOwed
<1>9. ChatsAreCounted'
  <2>1. CourseChats' \subseteq CourseChats /\ Opening' = Opening
    BY <1>1, <1>2 DEF CourseChats, Opening, At
  <2> QED
    BY <1>1, <2>1, CountsStay DEF ChatInv, ChatTypeOK
<1> QED
  BY <1>4, <1>5, <1>6, <1>7, <1>8, <1>9 DEF ChatInv

\* A post is withdrawn, removed, or becomes the answer.
LEMMA PostKeeps ==
    ASSUME ChatInv, NEW m \in Posts, NEW row \in PostRows, Written(m),
           post' = [post EXCEPT ![m] = row],
           row.room = post[m].room, row.by = post[m].by,
           row.kind = post[m].kind \/ row.kind = "answer",
           UNCHANGED <<chat, member, gateway, call, owed, left, crossed>>
    PROVE  ChatInv'
<1>1. /\ post[m] # NoPost /\ ChatTypeOK
      /\ UNCHANGED <<chat, member, linked, listening, tracked, stray, call, owed, left, crossed>>
  BY DEF Written, gateway, ChatInv
<1>2. /\ post' \in [Posts -> PostRows \cup {NoPost}] /\ post'[m] = row /\ row # NoPost
      /\ \A n \in Posts \ {m} : post'[n] = post[n]
  BY <1>1, ChatAssumption DEF ChatTypeOK
<1>3. ChatTypeOK'
  BY <1>1, <1>2 DEF ChatTypeOK
<1>4. RoomsExist' /\ AnswersAreReplies' /\ EngagedTakePart'
  BY <1>1 DEF ChatInv, RoomsExist, AnswersAreReplies, InRoom, At, Exists, EngagedTakePart,
              TakesPart, IsParticipant, Engaged
<1>5. OneLineEach' /\ OnlineUsersListen'
  BY GatewayStays DEF ChatInv
<1>6. OwedListen' /\ RoomHearsTheMessage'
  <2>1. \A d \in owed : d[2] \in Posts
    BY <1>1 DEF ChatTypeOK
  <2>2. OwedListen'
    BY <1>1, <1>2, <2>1 DEF ChatInv, OwedListen
  <2>3. RoomHearsTheMessage'
    BY <1>1, <1>2, <2>1 DEF ChatInv, RoomHearsTheMessage
  <2> QED
    BY <2>2, <2>3
<1>7. ChatsAreCounted'
  <2>1. CourseChats' = CourseChats /\ Opening' = Opening
    BY <1>1 DEF CourseChats, Opening, At
  <2> QED
    BY <1>1, <2>1, CountsStay DEF ChatInv, ChatTypeOK
<1> QED
  BY <1>3, <1>4, <1>5, <1>6, <1>7 DEF ChatInv

\* How a field of a post changes.
LEMMA PostFields ==
    ASSUME ChatTypeOK, NEW m \in Posts, Written(m)
    PROVE  /\ \A fate \in {"withdrawn", "removed"} :
                  LET row == [post[m] EXCEPT !.fate = fate] IN
                  /\ row \in PostRows /\ row.room = post[m].room /\ row.by = post[m].by
                  /\ row.kind = post[m].kind
           /\ LET row == [post[m] EXCEPT !.kind = "answer"] IN
                  /\ row \in PostRows /\ row.room = post[m].room /\ row.by = post[m].by
                  /\ row.kind = "answer"
<1>1. post[m] \in PostRows
  BY DEF ChatTypeOK, Written
<1> QED
  BY <1>1 DEF PostRows

\* The parts of the invariant that sockets have no part in, when fewer listen.
LEMMA SocketKeeps ==
    ASSUME ChatInv, UNCHANGED <<chat, member, post, call, left, crossed>>,
           linked' \subseteq Lines, listening' \in [Rooms -> SUBSET linked'],
           tracked' \in [People -> SUBSET Rooms], stray' \subseteq People,
           \A r \in Rooms : listening'[r] \subseteq listening[r],
           owed' \subseteq owed,
           \A d \in owed' : d[1] \in listening'[post[d[2]].room],
           OneLineEach', OnlineUsersListen'
    PROVE  ChatInv'
<1>1. ChatTypeOK'
  BY DEF ChatInv, ChatTypeOK
<1>2. RoomsExist' /\ AnswersAreReplies'
  BY DEF ChatInv, RoomsExist, AnswersAreReplies, InRoom, At, Exists
<1>3. EngagedTakePart'
  <2>1. \A v \in People, s \in Rooms :
            TakesPart(v, s)' = TakesPart(v, s) /\ (Engaged(v, s)' => Engaged(v, s))
    BY DEF TakesPart, IsParticipant, Engaged, At
  <2> QED
    BY <2>1 DEF ChatInv, EngagedTakePart
<1>4. OwedListen' /\ RoomHearsTheMessage'
  BY DEF ChatInv, OwedListen, RoomHearsTheMessage
<1>5. ChatsAreCounted'
  <2>1. CourseChats' = CourseChats /\ Opening' = Opening
    BY DEF CourseChats, Opening, At
  <2> QED
    BY <2>1, CountsStay DEF ChatInv, ChatTypeOK
<1> QED
  BY <1>1, <1>2, <1>3, <1>4, <1>5 DEF ChatInv

LEMMA ConnectKeeps ==
    ASSUME ChatInv, NEW k \in Lines, HandleConnection(k)
    PROVE  ChatInv'
<1>1. /\ linked' = linked \cup {k}
      /\ stray' = IF LinesOf(UserOf[k]) = {} THEN stray ELSE stray \cup {UserOf[k]}
      /\ UNCHANGED <<chat, member, post, listening, tracked, call, owed, left, crossed>>
      /\ ChatTypeOK
  BY DEF HandleConnection, stored, ChatInv
<1>2. UserOf[k] \in People
  BY ChatAssumption
<1>3. linked' \subseteq Lines /\ stray' \subseteq People /\ stray \subseteq stray'
  BY <1>1, <1>2 DEF ChatTypeOK
<1>4. listening' \in [Rooms -> SUBSET linked'] /\ tracked' \in [People -> SUBSET Rooms]
  BY <1>1 DEF ChatTypeOK
<1>5. OneLineEach'
  <2> SUFFICES ASSUME NEW u \in People \ stray', NEW i \in linked', NEW j \in linked',
                      UserOf[i] = u, UserOf[j] = u
               PROVE  i = j
    BY DEF OneLineEach
  <2>1. CASE UserOf[k] = u
    BY <1>1, <2>1 DEF LinesOf
  <2>2. CASE UserOf[k] # u
    BY <1>1, <1>3, <2>2 DEF ChatInv, OneLineEach
  <2> QED
    BY <2>1, <2>2
<1>6. OnlineUsersListen'
  BY <1>1, <1>3 DEF ChatInv, OnlineUsersListen
<1>7. \A d \in owed' : d[1] \in listening'[post[d[2]].room]
  BY <1>1 DEF ChatInv, OwedListen
<1> QED
  BY <1>1, <1>3, <1>4, <1>5, <1>6, <1>7, SocketKeeps

LEMMA DisconnectKeeps ==
    ASSUME ChatInv, NEW k \in Lines, HandleDisconnect(k)
    PROVE  ChatInv'
<1> DEFINE u == UserOf[k]
           last == LinesOf(u) = {k}
<1>1. /\ k \in linked /\ linked' = linked \ {k}
      /\ listening' = [r \in Rooms |-> listening[r] \ {k}]
      /\ tracked' = IF last THEN [tracked EXCEPT ![u] = {}] ELSE tracked
      /\ stray' = IF last THEN stray \ {u} ELSE stray
      /\ owed' = {d \in owed : d[1] # k}
      /\ UNCHANGED <<chat, member, post, call, left, crossed>>
      /\ ChatTypeOK
  BY DEF HandleDisconnect, NoLonger, Untracked, stored, ChatInv
<1>2. u \in People
  BY ChatAssumption
<1>3. last => \A i \in linked' : UserOf[i] # u
  BY <1>1 DEF LinesOf
<1>4. ~ last => u \in stray
  <2>1. \/ last \/ \E i \in linked : i # k /\ UserOf[i] = u
    BY <1>1 DEF LinesOf
  <2> QED
    BY <1>1, <1>2, <2>1 DEF ChatInv, OneLineEach
<1>5. \A v \in People \ {u} : v \in stray' <=> v \in stray
  BY <1>1
<1>6. u \notin stray' => last
  BY <1>1, <1>4
<1>7. \A v \in People \ {u} : tracked'[v] = tracked[v]
  BY <1>1 DEF ChatTypeOK
<1>8. last => tracked'[u] = {}
  BY <1>1, <1>2 DEF ChatTypeOK
<1>9. tracked' \in [People -> SUBSET Rooms] /\ stray' \subseteq People
  BY <1>1, <1>2 DEF ChatTypeOK
<1>10. \A r \in Rooms : listening'[r] \subseteq linked' /\ listening'[r] \subseteq listening[r]
  BY <1>1 DEF ChatTypeOK
<1>11. /\ linked' \subseteq Lines /\ listening' \in [Rooms -> SUBSET linked']
  BY <1>1, <1>10 DEF ChatTypeOK
<1> HIDE DEF u, last
<1>12. OneLineEach'
  <2> SUFFICES ASSUME NEW v \in People \ stray', NEW i \in linked', NEW j \in linked',
                      UserOf[i] = v, UserOf[j] = v
               PROVE  i = j
    BY DEF OneLineEach
  <2>1. v # u
    BY <1>3, <1>6
  <2> QED
    BY <1>1, <1>5, <2>1 DEF ChatInv, OneLineEach
<1>13. OnlineUsersListen'
  <2> SUFFICES ASSUME NEW v \in People \ stray', NEW r \in Rooms
               PROVE  r \in tracked'[v] <=> \E i \in listening'[r] : UserOf[i] = v
    BY DEF OnlineUsersListen
  <2>1. CASE v = u
    BY <1>3, <1>6, <1>8, <1>10, <2>1
  <2>2. CASE v # u
    <3>1. r \in tracked[v] <=> \E i \in listening[r] : UserOf[i] = v
      BY <1>5, <2>2 DEF ChatInv, OnlineUsersListen
    <3>2. \A i \in listening[r] : UserOf[i] = v => i \in listening'[r]
      BY <1>1, <2>2 DEF u
    <3> QED
      BY <1>7, <1>10, <2>2, <3>1, <3>2
  <2> QED
    BY <2>1, <2>2
<1>14. owed' \subseteq owed /\ \A d \in owed' : d[1] \in listening'[post[d[2]].room]
  <2> SUFFICES ASSUME NEW d \in owed'
               PROVE  d[1] \in listening'[post[d[2]].room]
    BY <1>1
  <2>1. /\ d \in owed /\ d[1] # k /\ d[2] \in Posts
        /\ post[d[2]] # NoPost /\ d[1] \in listening[post[d[2]].room]
    BY <1>1 DEF ChatTypeOK, ChatInv, OwedListen
  <2>2. post[d[2]].room \in Rooms
    BY <1>1, <2>1 DEF ChatTypeOK, PostRows
  <2> QED
    BY <1>1, <2>1, <2>2
<1> QED
  BY <1>1, <1>9, <1>10, <1>11, <1>12, <1>13, <1>14, SocketKeeps

LEMMA LeaveKeeps ==
    ASSUME ChatInv, NEW k \in Lines, NEW r \in Rooms, HandleLeaveRoom(k, r)
    PROVE  ChatInv'
<1> DEFINE u == UserOf[k]
<1>1. /\ k \in linked
      /\ listening' = [listening EXCEPT ![r] = @ \ {k}]
      /\ tracked' = [tracked EXCEPT ![u] = @ \ {r}]
      /\ owed' = {d \in owed : ~(d[1] = k /\ post[d[2]].room = r)}
      /\ UNCHANGED <<chat, member, post, linked, call, left, stray, crossed>>
      /\ ChatTypeOK
  BY DEF HandleLeaveRoom, stored, ChatInv
<1>2. u \in People
  BY ChatAssumption
<1>3. /\ listening' \in [Rooms -> SUBSET linked'] /\ listening'[r] = listening[r] \ {k}
      /\ \A s \in Rooms \ {r} : listening'[s] = listening[s]
  BY <1>1 DEF ChatTypeOK
<1>4. /\ tracked' \in [People -> SUBSET Rooms] /\ tracked'[u] = tracked[u] \ {r}
      /\ \A v \in People \ {u} : tracked'[v] = tracked[v]
  BY <1>1, <1>2 DEF ChatTypeOK
<1>5. linked' \subseteq Lines /\ stray' \subseteq People
  BY <1>1 DEF ChatTypeOK
<1>6. OneLineEach'
  BY <1>1 DEF ChatInv, OneLineEach
<1>7. OnlineUsersListen'
  <2> SUFFICES ASSUME NEW v \in People \ stray, NEW s \in Rooms
               PROVE  s \in tracked'[v] <=> \E i \in listening'[s] : UserOf[i] = v
    BY <1>1 DEF OnlineUsersListen
  <2>1. s \in tracked[v] <=> \E i \in listening[s] : UserOf[i] = v
    BY DEF ChatInv, OnlineUsersListen
  <2>2. CASE s # r
    BY <1>3, <1>4, <2>1, <2>2
  <2>3. CASE s = r /\ v # u
    BY <1>3, <1>4, <2>1, <2>3
  <2>4. CASE s = r /\ v = u
    <3>1. \A i \in listening[r] : i \in linked
      BY <1>1 DEF ChatTypeOK
    <3>2. \A i \in listening[r] : UserOf[i] = u => i = k
      BY <1>1, <3>1, <2>4 DEF ChatInv, OneLineEach
    <3> QED
      BY <1>3, <1>4, <2>4, <3>2
  <2> QED
    BY <2>2, <2>3, <2>4
<1>8. owed' \subseteq owed /\ \A d \in owed' : d[1] \in listening'[post[d[2]].room]
  <2> SUFFICES ASSUME NEW d \in owed'
               PROVE  d[1] \in listening'[post[d[2]].room]
    BY <1>1
  <2>1. /\ d \in owed /\ d[2] \in Posts /\ ~(d[1] = k /\ post[d[2]].room = r)
        /\ post[d[2]] # NoPost /\ d[1] \in listening[post[d[2]].room]
    BY <1>1 DEF ChatTypeOK, ChatInv, OwedListen
  <2>2. post[d[2]].room \in Rooms
    BY <1>1, <2>1 DEF ChatTypeOK, PostRows
  <2> QED
    BY <1>3, <2>1, <2>2
<1>9. \A s \in Rooms : listening'[s] \subseteq listening[s]
  BY <1>3
<1> QED
  BY <1>1, <1>3, <1>4, <1>5, <1>6, <1>7, <1>8, <1>9, SocketKeeps

LEMMA JoinKeeps ==
    ASSUME ChatInv, NEW x \in Calls, JoinRoom(x)
    PROVE  ChatInv'
<1> DEFINE k == call[x].line
           r == call[x].room
           u == UserOf[k]
<1>1. /\ At(x, "join")
      /\ listening' = [listening EXCEPT ![r] = @ \cup (linked \cap {k})]
      /\ tracked' = [tracked EXCEPT ![u] = @ \cup {r}]
      /\ stray' = IF k \in linked THEN stray ELSE stray \cup {u}
      /\ Finish(x)
      /\ UNCHANGED <<chat, member, post, linked, owed, left, crossed>>
      /\ ChatTypeOK
  BY DEF JoinRoom, stored, ChatInv
<1>2. k \in Lines /\ r \in Rooms /\ u \in People /\ Exists(r)
  BY <1>1, CallFields DEF InRoom, ChatInv, RoomsExist
<1>3. /\ call' \in [Calls -> CallSteps \cup {Idle}] /\ call'[x] = Idle
      /\ \A y \in Calls \ {x} : call'[y] = call[y]
  BY <1>1, FinishIs
<1>4. TakesPart(u, r)
  BY <1>1, <1>2 DEF ChatInv, EngagedTakePart, Engaged
<1> HIDE DEF k, r
<1>5. /\ listening' \in [Rooms -> SUBSET linked']
      /\ listening'[r] = listening[r] \cup (linked \cap {k})
      /\ \A s \in Rooms \ {r} : listening'[s] = listening[s]
  BY <1>1, <1>2 DEF ChatTypeOK
<1> HIDE DEF u
<1>6. /\ tracked' \in [People -> SUBSET Rooms] /\ tracked'[u] = tracked[u] \cup {r}
      /\ \A v \in People \ {u} : tracked'[v] = tracked[v]
  BY <1>1, <1>2 DEF ChatTypeOK
<1>7. stray \subseteq stray' /\ stray' \subseteq People /\ (k \notin linked => u \in stray')
  BY <1>1, <1>2 DEF ChatTypeOK
<1>8. ChatTypeOK'
  BY <1>1, <1>3, <1>5, <1>6, <1>7 DEF ChatTypeOK
<1>9. RoomsExist' /\ AnswersAreReplies'
  BY <1>1, <1>2, <1>3, <1>5 DEF ChatInv, RoomsExist, AnswersAreReplies, InRoom, At, Exists
<1>10. EngagedTakePart'
  <2>1. \A v \in People, s \in Rooms : TakesPart(v, s)' = TakesPart(v, s)
    BY <1>1 DEF TakesPart, IsParticipant
  <2>2. \A v \in People, s \in Rooms : Engaged(v, s)' => Engaged(v, s) \/ (v = u /\ s = r)
    BY <1>1, <1>3, <1>5 DEF Engaged, At, u
  <2> QED
    BY <1>4, <2>1, <2>2 DEF ChatInv, EngagedTakePart
<1>11. OneLineEach'
  BY <1>1, <1>7 DEF ChatInv, OneLineEach
<1>12. OnlineUsersListen'
  <2> SUFFICES ASSUME NEW v \in People \ stray', NEW s \in Rooms
               PROVE  s \in tracked'[v] <=> \E i \in listening'[s] : UserOf[i] = v
    BY DEF OnlineUsersListen
  <2>1. s \in tracked[v] <=> \E i \in listening[s] : UserOf[i] = v
    BY <1>7 DEF ChatInv, OnlineUsersListen
  <2>2. CASE v = u /\ s = r
    <3>1. k \in listening'[r] /\ UserOf[k] = v
      BY <1>5, <1>7, <2>2 DEF u
    <3> QED
      BY <1>6, <2>2, <3>1
  <2>3. CASE v = u /\ s # r
    BY <1>5, <1>6, <2>1, <2>3
  <2>4. CASE v # u
    BY <1>5, <1>6, <2>1, <2>4 DEF u
  <2> QED
    BY <2>2, <2>3, <2>4
<1>13. OwedListen' /\ RoomHearsTheMessage'
  <2>1. \A y \in Calls : At(y, "emit") => call'[y] = call[y]
    BY <1>1, <1>3 DEF At
  <2>2. \A s \in Rooms : listening[s] \subseteq listening'[s]
    BY <1>5
  <2> QED
    BY <1>1, <2>1, <2>2, OwedStay DEF ChatInv
<1>14. ChatsAreCounted'
  <2>1. CourseChats' = CourseChats /\ Opening' \subseteq Opening
    BY <1>1, <1>3 DEF CourseChats, Opening, At
  <2> QED
    BY <1>1, <2>1, CountsStay DEF ChatInv, ChatTypeOK
<1> QED
  BY <1>8, <1>9, <1>10, <1>11, <1>12, <1>13, <1>14 DEF ChatInv

LEMMA ChatCrashKeeps ==
    ASSUME ChatInv, ChatCrash
    PROVE  ChatInv'
<1>1. /\ linked' = {} /\ listening' = [r \in Rooms |-> {}]
      /\ tracked' = [u \in People |-> {}] /\ call' = [x \in Calls |-> Idle]
      /\ owed' = {} /\ stray' = {}
      /\ crossed' = IF NoCourseChat THEN 0 ELSE Cardinality(CourseChats) - 1
      /\ UNCHANGED <<chat, member, post, left>>
      /\ ChatTypeOK
  BY DEF ChatCrash, stored, ChatInv
<1>2. \A x \in Calls : call'[x] = Idle
  BY <1>1
<1>3. CourseChats' = CourseChats /\ CourseChats \in SUBSET Rooms /\ Opening' = {}
  BY <1>1, <1>2 DEF CourseChats, Opening, At
<1>4. IsFiniteSet(CourseChats) /\ Cardinality(CourseChats) \in Nat
  BY <1>3, ChatAssumption, FS_Subset, FS_CardinalityType
<1>5. Cardinality(CourseChats) = 0 <=> NoCourseChat
  BY <1>4, FS_EmptySet DEF NoCourseChat
<1>6. crossed' \in Nat /\ Cardinality(CourseChats) <= 1 + crossed'
  BY <1>1, <1>4, <1>5
<1>7. ChatsAreCounted'
  <2>1. Cardinality(Opening') = 0
    BY <1>3, FS_EmptySet
  <2> QED
    BY <1>3, <1>4, <1>6, <2>1 DEF ChatsAreCounted
<1>8. ChatTypeOK'
  BY <1>1, <1>6 DEF ChatTypeOK
<1>9. RoomsExist' /\ AnswersAreReplies' /\ EngagedTakePart'
  BY <1>1, <1>2 DEF RoomsExist, AnswersAreReplies, InRoom, At, EngagedTakePart, Engaged
<1>10. OneLineEach' /\ OnlineUsersListen' /\ OwedListen' /\ RoomHearsTheMessage'
  BY <1>1 DEF OneLineEach, OnlineUsersListen, OwedListen, RoomHearsTheMessage
<1> QED
  BY <1>7, <1>8, <1>9, <1>10 DEF ChatInv

\* A call begins that is not to open a chat.
LEMMA AskKeeps ==
    ASSUME ChatInv, NEW x \in Calls, NEW t \in CallSteps, Begin(x, t), t.at # "open",
           UNCHANGED <<stored, gateway, owed, left, crossed>>,
           t.at \in {"join", "send", "add", "answer"} => Exists(t.room),
           t.at \in {"send", "answer"} => TakesPart(t.who, t.room),
           t.at = "join" => TakesPart(UserOf[t.line], t.room),
           t.at = "answer" => t.kind = "reply" \/ (chat[t.room] = "support" /\ t.who \in Staff)
    PROVE  ChatInv'
<1>1. ChatTypeOK /\ crossed \in Nat
  BY DEF ChatInv, ChatTypeOK
<1>2. /\ call'[x] = t /\ \A y \in Calls \ {x} : call'[y] = call[y]
  BY <1>1, BeginIs
<1>3. CourseChats' = CourseChats /\ Opening' \subseteq Opening
  BY <1>2 DEF stored, CourseChats, Opening, At
<1>4. ChatsAreCounted'
  BY <1>1, <1>3, CountsStay DEF ChatInv
<1> QED
  BY <1>1, <1>4, BeginKeeps

LEMMA ChatStep == ChatInv /\ [ChatNext]_chatVars => ChatInv'
<1> SUFFICES ASSUME ChatInv, [ChatNext]_chatVars
             PROVE  ChatInv'
  OBVIOUS
<1>0. ChatTypeOK
  BY DEF ChatInv
<1>1. ASSUME NEW x \in Calls, NEW u \in People, NEW p \in People, NEW r \in Rooms,
             AddParticipant(x, u, p, r)
      PROVE  ChatInv'
  <2> DEFINE t == [at |-> "add", who |-> p, room |-> r]
  <2>1. t \in CallSteps /\ t.at = "add" /\ t.room = r
    BY DEF CallSteps
  <2>2. Begin(x, t) /\ Exists(r) /\ UNCHANGED <<stored, gateway, owed, left, crossed>>
    BY <1>1 DEF AddParticipant
  <2> HIDE DEF t
  <2> QED
    BY <2>1, <2>2, AskKeeps
<1>2. ASSUME NEW x \in Calls, NEW u \in People, NEW r \in Rooms, SendMessage(x, u, r)
      PROVE  ChatInv'
  <2> DEFINE t == [at |-> "send", who |-> u, room |-> r]
  <2>1. t \in CallSteps /\ t.at = "send" /\ t.room = r /\ t.who = u
    BY DEF CallSteps
  <2>2. Begin(x, t) /\ IsParticipant(r, u) /\ UNCHANGED <<stored, gateway, owed, left, crossed>>
    BY <1>2 DEF SendMessage
  <2>3. Exists(r)
    BY <1>0, <2>2 DEF ChatTypeOK, IsParticipant, Exists
  <2> HIDE DEF t
  <2> QED
    BY <2>1, <2>2, <2>3, AskKeeps DEF TakesPart
<1>3. ASSUME NEW x \in Calls, NEW k \in Lines, NEW r \in Rooms, HandleJoinRoom(x, k, r)
      PROVE  ChatInv'
  <2> DEFINE t == [at |-> "join", line |-> k, room |-> r]
  <2>1. t \in CallSteps /\ t.at = "join" /\ t.room = r /\ t.line = k
    BY DEF CallSteps
  <2>2. /\ Begin(x, t) /\ IsParticipant(r, UserOf[k])
        /\ UNCHANGED <<stored, gateway, owed, left, crossed>>
    BY <1>3 DEF HandleJoinRoom, Allowed
  <2>3. Exists(r)
    BY <1>0, <2>2 DEF ChatTypeOK, IsParticipant, Exists
  <2> HIDE DEF t
  <2> QED
    BY <2>1, <2>2, <2>3, AskKeeps DEF TakesPart
<1>4. ASSUME NEW x \in Calls, NEW u \in People, NEW r \in Rooms,
             AdminReply(x, u, r) \/ CreateReply(x, u, r)
      PROVE  ChatInv'
  <2>1. CASE AdminReply(x, u, r)
    BY <2>1, TakePartKeeps DEF AdminReply, Exists
  <2>2. CASE CreateReply(x, u, r)
    <3>1. /\ TakePart(x, u, r, "reply") /\ Exists(r)
          /\ UNCHANGED <<post, gateway, owed, crossed>>
      BY <2>2 DEF CreateReply
    <3>2. "reply" \in {"text", "reply"}
      OBVIOUS
    <3> QED
      BY <3>1, <3>2, TakePartKeeps
  <2> QED
    BY <1>4, <2>1, <2>2
<1>5. ASSUME NEW x \in Calls, RecruitRequester(x)
      PROVE  ChatInv'
  BY <1>5, FinishKeeps DEF RecruitRequester, At
<1>6. ASSUME NEW m \in Posts, MarkAnswered(m)
      PROVE  ChatInv'
  <2> DEFINE row == [post[m] EXCEPT !.kind = "answer"]
  <2>1. /\ Written(m) /\ post' = [post EXCEPT ![m] = row]
        /\ UNCHANGED <<chat, member, gateway, call, owed, left, crossed>>
    BY <1>0, <1>6 DEF MarkAnswered, ChatTypeOK
  <2>2. /\ row \in PostRows /\ row.room = post[m].room /\ row.by = post[m].by
        /\ row.kind = "answer"
    BY <1>0, <2>1, PostFields
  <2> HIDE DEF row
  <2> QED
    BY <2>1, <2>2, PostKeeps
<1>7. ASSUME NEW m \in Posts, NEW u \in People, DeleteMessage(u, m) \/ DeletePost(u, m)
      PROVE  ChatInv'
  <2>1. PICK fate \in {"withdrawn", "removed"} : post' = [post EXCEPT ![m].fate = fate]
    BY <1>7 DEF DeleteMessage, DeletePost
  <2> DEFINE row == [post[m] EXCEPT !.fate = fate]
  <2>2. /\ Written(m) /\ post' = [post EXCEPT ![m] = row]
        /\ UNCHANGED <<chat, member, gateway, call, owed, left, crossed>>
    BY <1>0, <1>7, <2>1 DEF DeleteMessage, DeletePost, ChatTypeOK
  <2>3. /\ row \in PostRows /\ row.room = post[m].room /\ row.by = post[m].by
        /\ row.kind = post[m].kind
    BY <1>0, <2>2, PostFields
  <2> HIDE DEF row
  <2> QED
    BY <2>2, <2>3, PostKeeps
<1>8. CASE UNCHANGED chatVars
  <2>1. UNCHANGED <<chat, member, post, linked, listening, tracked, call, owed, left, stray,
                    crossed>>
    BY <1>8 DEF chatVars
  <2>2. /\ linked' \subseteq Lines /\ listening' \in [Rooms -> SUBSET linked']
        /\ tracked' \in [People -> SUBSET Rooms] /\ stray' \subseteq People
    BY <1>0, <2>1 DEF ChatTypeOK
  <2>3. OneLineEach' /\ OnlineUsersListen'
    BY <2>1, GatewayStays DEF ChatInv, gateway
  <2>4. \A d \in owed' : d[1] \in listening'[post[d[2]].room]
    BY <2>1 DEF ChatInv, OwedListen
  <2> QED
    BY <2>1, <2>2, <2>3, <2>4, SocketKeeps
<1>10. ASSUME NEW x \in Calls, NEW p \in People, NEW r \in Rooms, RecruitNamed(x, p, r)
       PROVE  ChatInv'
  <2> DEFINE t == [at |-> "add", who |-> p, room |-> r]
  <2>1. t \in CallSteps /\ t.at = "add" /\ t.room = r /\ t.who = p
    BY DEF CallSteps
  <2>2. /\ Begin(x, t) /\ r \in CourseChats
        /\ UNCHANGED <<stored, gateway, owed, left, crossed>>
    BY <1>10 DEF RecruitNamed
  <2>3. Exists(r)
    BY <2>2 DEF CourseChats, Exists
  <2> HIDE DEF t
  <2> QED
    BY <2>1, <2>2, <2>3, AskKeeps
<1>9. CASE ChatNext
  BY <1>1, <1>2, <1>3, <1>4, <1>5, <1>6, <1>7, <1>9, <1>10, CreateRoomKeeps, RemoveParticipantKeeps,
     CreateThreadKeeps, GetCourseChatKeeps, InsertParticipantKeeps, SendToRoomKeeps, JoinKeeps,
     OpenCourseChatKeeps, StoreMessageKeeps, StoreAnswerKeeps, ConnectKeeps, DisconnectKeeps,
     LeaveKeeps, ChatCrashKeeps DEF ChatNext
<1> QED
  BY <1>8, <1>9

LEMMA ChatInvariance == ChatSpec => []ChatInv
  BY RoomInit, ChatStep, PTL DEF ChatSpec

\* Who writes takes part, or left while the call was on its way.
LEMMA WritersStep ==
    ASSUME ChatInv, [ChatNext]_chatVars, NEW m \in Posts, post[m] = NoPost, post'[m] # NoPost
    PROVE  post'[m].by \in member'[post'[m].room] \/ <<post'[m].by, post'[m].room>> \in left
<1>0. ChatTypeOK /\ RoomsExist
  BY DEF ChatInv
<1>1. ASSUME NEW n \in Posts, NEW r \in Rooms, NEW u \in People,
             NEW kind \in {"text", "thread", "reply"}, NewPost(n, r, u, kind)
      PROVE  n = m /\ post'[m].by = u /\ post'[m].room = r
  BY <1>0, <1>1, NewPostIs
<1>2. ASSUME NEW u \in People, NEW r \in Rooms, NEW n \in Posts, CreateThread(u, r, n)
      PROVE  post'[m].by \in member'[post'[m].room]
  <2>1. NewChat(r, "direct", {u}) /\ NewPost(n, r, u, "thread")
    BY <1>2 DEF CreateThread
  <2>2. member'[r] = {u}
    BY <1>0, <2>1 DEF NewChat, ChatTypeOK
  <2> QED
    BY <1>1, <2>1, <2>2
<1>3. ASSUME NEW x \in Calls, NEW n \in Posts, StoreMessage(x, n) \/ StoreAnswer(x, n)
      PROVE  \/ post'[m].by \in member'[post'[m].room]
             \/ <<post'[m].by, post'[m].room>> \in left
  <2> DEFINE r == call[x].room
             u == call[x].who
  <2>1. (At(x, "send") \/ At(x, "answer")) /\ member' = member
    BY <1>0, <1>3, CallFields DEF StoreMessage, StoreAnswer, InRoom
  <2>2. r \in Rooms /\ u \in People
    BY <1>0, <2>1, CallFields DEF InRoom
  <2>3. \E kind \in {"text", "reply"} : NewPost(n, r, u, kind)
    BY <1>0, <1>3, CallFields DEF StoreMessage, StoreAnswer
  <2>4. post'[m].by = u /\ post'[m].room = r
    BY <1>1, <2>2, <2>3
  <2>5. Engaged(u, r)
    BY <2>1 DEF Engaged
  <2>6. TakesPart(u, r)
    BY <2>2, <2>5 DEF ChatInv, EngagedTakePart
  <2> HIDE DEF r, u
  <2> QED
    BY <2>1, <2>4, <2>6 DEF TakesPart, IsParticipant
<1>5. ASSUME NEW n \in Posts, NEW u \in People, DeleteMessage(u, n) \/ DeletePost(u, n)
      PROVE  FALSE
  <2>1. Written(n) /\ \A k \in Posts \ {n} : post'[k] = post[k]
    BY <1>0, <1>5 DEF DeleteMessage, DeletePost, ChatTypeOK
  <2>2. n # m /\ post'[m] = post[m]
    BY <2>1 DEF Written
  <2> QED
    BY <2>2
<1>6. CASE post' = post
  BY <1>6
<1>7. CASE UNCHANGED chatVars
  BY <1>6, <1>7 DEF chatVars
<1>8. CASE ChatNext
  <2>1. ASSUME NEW u \in People, NEW r \in Rooms
        PROVE  /\ \A others \in SUBSET People, kind \in ChatKinds :
                      CreateChatRoom(u, others, kind, r) => post' = post
               /\ RemoveParticipant(u, r) => post' = post
    BY DEF CreateChatRoom, RemoveParticipant
  <2>2. ASSUME NEW x \in Calls
        PROVE  GetOrCreateCourseChat(x) \/ RecruitRequester(x) \/ InsertParticipant(x)
                   \/ SendToRoom(x) \/ JoinRoom(x) => post' = post
    BY DEF GetOrCreateCourseChat, RecruitRequester, InsertParticipant, SendToRoom, JoinRoom,
           stored
  <2>3. ASSUME NEW x \in Calls, NEW r \in Rooms
        PROVE  /\ OpenCourseChat(x, r) => post' = post
               /\ \A u \in People : \/ RecruitNamed(x, u, r) \/ SendMessage(x, u, r)
                                     \/ AdminReply(x, u, r) \/ CreateReply(x, u, r)
                                     => post' = post
               /\ \A u, p \in People : AddParticipant(x, u, p, r) => post' = post
               /\ \A k \in Lines : HandleJoinRoom(x, k, r) => post' = post
    BY DEF OpenCourseChat, RecruitNamed, SendMessage, AdminReply, CreateReply,
           AddParticipant, HandleJoinRoom, stored
  <2>4. ASSUME NEW k \in Lines
        PROVE  /\ HandleConnection(k) \/ HandleDisconnect(k) => post' = post
               /\ \A r \in Rooms : HandleLeaveRoom(k, r) => post' = post
    BY DEF HandleConnection, HandleDisconnect, HandleLeaveRoom, stored
  <2>5. ChatCrash => post' = post
    BY DEF ChatCrash, stored
  <2> SUFFICES ASSUME post' # post
               PROVE  \/ post'[m].by \in member'[post'[m].room]
                      \/ <<post'[m].by, post'[m].room>> \in left
    BY <1>6
  <2>6. \/ \E u \in People, r \in Rooms, n \in Posts : CreateThread(u, r, n)
        \/ \E x \in Calls, n \in Posts : StoreMessage(x, n) \/ StoreAnswer(x, n)
        \/ \E n \in Posts : MarkAnswered(n)
        \/ \E n \in Posts, u \in People : DeleteMessage(u, n) \/ DeletePost(u, n)
    BY <1>8, <2>1, <2>2, <2>3, <2>4, <2>5 DEF ChatNext
  <2>7. CASE \E n \in Posts : MarkAnswered(n)
    <3>1. PICK n \in Posts : MarkAnswered(n)
      BY <2>7
    <3>2. Written(n) /\ \A k \in Posts \ {n} : post'[k] = post[k]
      BY <1>0, <3>1 DEF MarkAnswered, ChatTypeOK
    <3>3. n # m /\ post'[m] = post[m]
      BY <3>2 DEF Written
    <3> QED
      BY <3>3
  <2> QED
    BY <1>2, <1>3, <1>5, <2>6, <2>7
<1> QED
  BY <1>7, <1>8

\* Every variable of Chat keeps its type; only connected sockets listen.
THEOREM ChatTypes == ChatSpec => []ChatTypeOK
<1>1. ChatInv => ChatTypeOK
  BY DEF ChatInv
<1> QED
  BY <1>1, ChatInvariance, PTL

\* Who listens in a room and who is listed there are its participants, a
\* message reaches everyone who listens, and what is written is written by a
\* participant: however joins, leavings, messages and lost sockets interleave.
THEOREM ChatSound == ChatSpec => ChatIsSound
<1>1. ChatInv => RoomsAgree /\ RoomHearsTheMessage
  <2> SUFFICES ASSUME ChatInv
               PROVE  RoomsAgree /\ RoomHearsTheMessage
    OBVIOUS
  <2>1. ListenersTakePart
    <3> SUFFICES ASSUME NEW r \in Rooms, NEW k \in listening[r]
                 PROVE  IsParticipant(r, UserOf[k]) \/ <<UserOf[k], r>> \in left
      BY DEF ListenersTakePart
    <3>1. UserOf[k] \in People
      BY ChatAssumption DEF ChatInv, ChatTypeOK
    <3> QED
      BY <3>1 DEF ChatInv, EngagedTakePart, Engaged, TakesPart
  <2>2. OneCourseChat
    <3>1. /\ CourseChats \in SUBSET Rooms /\ Opening \in SUBSET Calls
      BY DEF CourseChats, Opening
    <3>2. Cardinality(CourseChats) \in Nat /\ Cardinality(Opening) \in Nat /\ crossed \in Nat
      BY <3>1, ChatAssumption, FS_Subset, FS_CardinalityType DEF ChatInv, ChatTypeOK
    <3>3. Cardinality(CourseChats) + Cardinality(Opening) <= 1 + crossed
      BY DEF ChatInv, ChatsAreCounted
    <3>4. Cardinality(CourseChats) <= 1 + crossed
      BY <3>2, <3>3
    <3> QED
      BY <3>4 DEF OneCourseChat
  <2> QED
    BY <2>1, <2>2 DEF ChatInv, RoomsAgree
<1>2. ChatInv /\ [ChatNext]_chatVars =>
          [\A m \in Posts : post[m] = NoPost /\ post'[m] # NoPost =>
               \/ post'[m].by \in member'[post'[m].room]
               \/ <<post'[m].by, post'[m].room>> \in left]_chatVars
  BY WritersStep
<1> QED
  BY <1>1, <1>2, ChatInvariance, PTL DEF ChatSpec, ChatIsSound, WritersTakePart

-----------------------------------------------------------------------------
(***************************************************************************)
(* Notices                                                                 *)
(***************************************************************************)

Steps == {"none", "waiting", "starting", "stored", "listed", "sending", "removing",
          "done", "failed"}

\* What is done of a notice accounts for the n rows stored for it.
Fits(d, n) ==
    /\ n <= 1 + d.lapses
    /\ d.at = "none" => n = 0 /\ d = Untold
    /\ d.at = "waiting" =>
           n <= d.lapses /\ d.lapses <= d.tries + d.stalls /\ d.tries < NoticeAttempts
    /\ d.at = "starting" => n <= d.lapses /\ 1 + d.lapses <= d.tries + d.stalls /\ d.tries > 0
    /\ d.at \in {"stored", "listed", "sending", "removing", "done"} => n >= 1
    /\ d.at \in {"stored", "sending", "removing"} /\ d.tries > 0 =>
           1 + d.lapses <= d.tries + d.stalls
    /\ d.at = "listed" => d.tries = 0
    /\ d.at = "stored" => d.tries > 0
    /\ d.at = "failed" => n >= 1 \/ GivenUp(d)

Accounted(o, u) == \E n \in Nat : Stored(o, u) = 1..n /\ Fits(dispatch[o][u], n)

LEMMA AccountedNext ==
    ASSUME viaQueue' = viaQueue, NEW o, NEW u, NEW n \in Nat, Stored(o, u)' = 1..n,
           Fits(dispatch'[o][u], n)
    PROVE  Accounted(o, u)'
BY DEF Accounted, Fits, GivenUp

\* A push that is due can be made.
DueWorks(o, u) ==
    \A d \in due[o][u] : u \notin online /\ <<u, d>> \in token /\ d \notin gone

Reaches(o, u) ==
    /\ AtStep(o, u, "sending") => due[o][u] \subseteq dispatch[o][u].known
    /\ AtStep(o, u, "removing") \/ AtStep(o, u, "done") => due[o][u] \subseteq pushed[o][u]
    /\ AtStep(o, u, "removing") => dispatch[o][u].known \subseteq gone

NoticeOK(o, u) == Accounted(o, u) /\ DueWorks(o, u) /\ Reaches(o, u)

NobodyToldYet ==
    \A a \in Announcements :
        /\ announcement[a] = "none" => a \notin announcing
        /\ announcement[a] = "none" \/ a \in announcing => \A u \in Readers : AtStep(a, u, "none")
ToldOrExcused ==
    \A a \in Announcements, u \in Readers :
        announcement[a] \in {"hidden", "published"} =>
            <<a, u>> \in excused \/ a \in announcing \/ ~ AtStep(a, u, "none")

NoticesInv ==
    /\ NoticesTypeOK
    /\ \A o \in Occasions, u \in Readers : NoticeOK(o, u)
    /\ NobodyToldYet
    /\ ToldOrExcused

LEMMA TwoLevels ==
    ASSUME NEW S, NEW T, NEW V, NEW f \in [S -> [T -> V]], NEW a \in S, NEW b \in T,
           NEW v \in V, NEW g, g = [f EXCEPT ![a][b] = v]
    PROVE  /\ g \in [S -> [T -> V]] /\ g[a][b] = v
           /\ \A x \in S, y \in T : x # a \/ y # b => g[x][y] = f[x][y]
OBVIOUS

LEMMA DispatchFields ==
    ASSUME NEW d \in Dispatches
    PROVE  /\ d.at \in Steps /\ d.tries \in Nat /\ d.tries <= NoticeAttempts
           /\ d.stalls \in Nat /\ d.stalls <= NoticeStalls
           /\ d.lapses \in Nat /\ d.lapses <= NoticeAttempts + NoticeStalls
           /\ d.known \in SUBSET Devices
BY NoticesAssumption DEF Dispatches, Steps

\* A dispatch with the fields given.
LEMMA DispatchIs ==
    ASSUME NEW at \in Steps, NEW tries \in Nat, tries <= NoticeAttempts,
           NEW stalls \in Nat, stalls <= NoticeStalls,
           NEW lapses \in Nat, lapses <= NoticeAttempts + NoticeStalls,
           NEW known \in SUBSET Devices
    PROVE  [at |-> at, tries |-> tries, stalls |-> stalls, lapses |-> lapses, known |-> known]
               \in Dispatches
BY NoticesAssumption DEF Dispatches, Steps

LEMMA DispatchForm ==
    ASSUME NEW d \in Dispatches
    PROVE  d = [at |-> d.at, tries |-> d.tries, stalls |-> d.stalls, lapses |-> d.lapses,
                known |-> d.known]
BY DEF Dispatches

LEMMA MovedIs ==
    ASSUME NEW d \in Dispatches, NEW step \in Steps
    PROVE  /\ [d EXCEPT !.at = step] \in Dispatches
           /\ [d EXCEPT !.at = step].at = step
           /\ [d EXCEPT !.at = step].tries = d.tries
           /\ [d EXCEPT !.at = step].stalls = d.stalls
           /\ [d EXCEPT !.at = step].lapses = d.lapses
           /\ [d EXCEPT !.at = step].known = d.known
BY DEF Dispatches, Steps

LEMMA TriedIs ==
    ASSUME NEW d \in Dispatches, d.tries < NoticeAttempts
    PROVE  /\ [d EXCEPT !.at = "starting", !.tries = @ + 1] \in Dispatches
           /\ [d EXCEPT !.at = "starting", !.tries = @ + 1].at = "starting"
           /\ [d EXCEPT !.at = "starting", !.tries = @ + 1].tries = d.tries + 1
           /\ [d EXCEPT !.at = "starting", !.tries = @ + 1].stalls = d.stalls
           /\ [d EXCEPT !.at = "starting", !.tries = @ + 1].lapses = d.lapses
<1> DEFINE t == d.tries + 1
           e == [d EXCEPT !.at = "starting", !.tries = t]
<1>1. t \in 0..NoticeAttempts
  BY NoticesAssumption, DispatchFields
<1> HIDE DEF t
<1>2. /\ e \in Dispatches /\ e.at = "starting" /\ e.tries = t /\ e.stalls = d.stalls
      /\ e.lapses = d.lapses
  BY <1>1 DEF Dispatches
<1>3. [d EXCEPT !.at = "starting", !.tries = @ + 1] = e
  BY DEF t
<1> HIDE DEF e
<1> QED
  BY <1>2, <1>3 DEF t

LEMMA LapsedIs ==
    ASSUME NEW d \in Dispatches, d.lapses < NoticeAttempts + NoticeStalls
    PROVE  /\ [d EXCEPT !.lapses = @ + 1] \in Dispatches
           /\ [d EXCEPT !.lapses = @ + 1].at = d.at
           /\ [d EXCEPT !.lapses = @ + 1].tries = d.tries
           /\ [d EXCEPT !.lapses = @ + 1].stalls = d.stalls
           /\ [d EXCEPT !.lapses = @ + 1].lapses = d.lapses + 1
           /\ [d EXCEPT !.lapses = @ + 1].known = d.known
<1> DEFINE l == d.lapses + 1
           e == [d EXCEPT !.lapses = l]
<1>1. l \in 0..(NoticeAttempts + NoticeStalls)
  BY NoticesAssumption, DispatchFields
<1> HIDE DEF l
<1>2. /\ e \in Dispatches /\ e.at = d.at /\ e.tries = d.tries /\ e.stalls = d.stalls
      /\ e.lapses = l /\ e.known = d.known
  BY <1>1 DEF Dispatches
<1>3. [d EXCEPT !.lapses = @ + 1] = e
  BY DEF l
<1> HIDE DEF e
<1> QED
  BY <1>2, <1>3 DEF l

LEMMA StalledIs ==
    ASSUME NEW d \in Dispatches, d.tries > 0, d.stalls < NoticeStalls,
           d.lapses < NoticeAttempts + NoticeStalls
    PROVE  \E e \in Dispatches :
               /\ e = [d EXCEPT !.at = "waiting", !.tries = @ - 1, !.stalls = @ + 1,
                                !.lapses = IF d.at = "starting" THEN @ ELSE @ + 1]
               /\ e.at = "waiting" /\ e.tries = d.tries - 1 /\ e.stalls = d.stalls + 1
               /\ e.lapses = IF d.at = "starting" THEN d.lapses ELSE d.lapses + 1
<1> DEFINE t == d.tries - 1
           s == d.stalls + 1
           l == IF d.at = "starting" THEN d.lapses ELSE d.lapses + 1
           e == [d EXCEPT !.at = "waiting", !.tries = t, !.stalls = s, !.lapses = l]
<1>1. /\ t \in 0..NoticeAttempts /\ s \in 0..NoticeStalls
      /\ l \in 0..(NoticeAttempts + NoticeStalls)
  BY NoticesAssumption, DispatchFields
<1> HIDE DEF t, s, l
<1>2. /\ e \in Dispatches /\ e.at = "waiting" /\ e.tries = t /\ e.stalls = s
      /\ e.lapses = l
  BY <1>1 DEF Dispatches
<1>3. [d EXCEPT !.at = "waiting", !.tries = @ - 1, !.stalls = @ + 1,
                !.lapses = IF d.at = "starting" THEN @ ELSE @ + 1] = e
  BY DEF t, s, l
<1> HIDE DEF e
<1> QED
  BY <1>2, <1>3 DEF t, s, l

LEMMA UntoldIs ==
    /\ Untold \in Dispatches /\ Fits(Untold, 0)
    /\ Untold.at = "none" /\ Untold.tries = 0 /\ Untold.stalls = 0 /\ Untold.lapses = 0
    /\ Untold.known = {}
BY NoticesAssumption DEF Untold, Dispatches, Fits

LEMMA BegunIs ==
    ASSUME NEW b \in Begun
    PROVE  b \in Dispatches /\ b.at \in {"waiting", "starting", "failed"} /\ Fits(b, 0)
<1> DEFINE moved(s) == [Untold EXCEPT !.at = s]
<1>1. \A s \in Steps :
          /\ moved(s) \in Dispatches /\ moved(s).at = s /\ moved(s).tries = 0
          /\ moved(s).stalls = 0 /\ moved(s).lapses = 0
  BY UntoldIs, MovedIs
<1>2. CASE viaQueue
  <2>1. b = moved("waiting") \/ b = moved("failed")
    BY <1>2 DEF Begun, Refused
  <2> HIDE DEF moved
  <2>2. /\ b \in Dispatches /\ b.at \in {"waiting", "failed"} /\ b.tries = 0
        /\ b.stalls = 0 /\ b.lapses = 0
    BY <1>1, <2>1 DEF Steps
  <2> QED
    BY <2>2, NoticesAssumption DEF Fits, GivenUp
<1>3. CASE ~ viaQueue
  <2> DEFINE e == [Untold EXCEPT !.at = "starting", !.tries = 1]
  <2>1. b = e
    BY <1>3 DEF Begun
  <2>2. 1 \in 0..NoticeAttempts
    BY NoticesAssumption
  <2>3. /\ e \in Dispatches /\ e.at = "starting" /\ e.tries = 1 /\ e.stalls = 0
        /\ e.lapses = 0
    <3> DEFINE c == Untold
    <3>1. c \in Dispatches /\ c.stalls = 0 /\ c.lapses = 0
      BY UntoldIs
    <3>2. e = [c EXCEPT !.at = "starting", !.tries = 1]
      OBVIOUS
    <3> HIDE DEF c, e
    <3> QED
      BY <2>2, <3>1, <3>2 DEF Dispatches
  <2> HIDE DEF e
  <2> QED
    BY <2>1, <2>3 DEF Fits
<1> QED
  BY <1>2, <1>3

\* A row is stored in the first place that is free.
LEMMA WithRowIs ==
    ASSUME NEW rows \in [Copies -> Rows], NEW n \in Nat, n < NoticeAttempts + NoticeStalls,
           {c \in Copies : rows[c] # "none"} = 1..n
    PROVE  /\ WithRow(rows) \in [Copies -> Rows]
           /\ {c \in Copies : WithRow(rows)[c] # "none"} = 1..(n + 1)
<1> DEFINE P(c) == rows[c] = "none" /\ \A d \in 1..(c - 1) : rows[d] # "none"
           c0 == CHOOSE c \in Copies : P(c)
<1>1. Copies \subseteq Nat /\ n + 1 \in Copies /\ \A c \in Copies : c >= 1
  BY NoticesAssumption DEF Copies
<1>2. \A c \in Copies : rows[c] # "none" <=> c \in 1..n
  OBVIOUS
<1>3. P(n + 1)
  <2>1. rows[n + 1] = "none"
    BY <1>1, <1>2
  <2>2. ASSUME NEW d \in 1..n
        PROVE  rows[d] # "none"
    BY <1>2
  <2>3. (n + 1) - 1 = n
    OBVIOUS
  <2> QED
    BY <2>1, <2>2, <2>3
<1>4. c0 \in Copies /\ P(c0)
  BY <1>1, <1>3
<1>5. c0 = n + 1
  <2>1. ~ (c0 \in 1..n)
    BY <1>2, <1>4
  <2>2. n + 1 \in 1..(c0 - 1) => FALSE
    BY <1>1, <1>3, <1>4
  <2>3. c0 \in Nat /\ c0 >= 1
    BY <1>1, <1>4
  <2> HIDE DEF c0
  <2> QED
    BY <2>1, <2>2, <2>3
<1>6. WithRow(rows) = [rows EXCEPT ![c0] = "unread"]
  BY DEF WithRow
<1> HIDE DEF c0, P
<1>7. WithRow(rows) = [rows EXCEPT ![n + 1] = "unread"]
  BY <1>5, <1>6
<1>8. /\ WithRow(rows) \in [Copies -> Rows] /\ WithRow(rows)[n + 1] = "unread"
      /\ \A c \in Copies \ {n + 1} : WithRow(rows)[c] = rows[c]
  BY <1>1, <1>7 DEF Rows
<1> DEFINE w == WithRow(rows)
<1> HIDE DEF w
<1>9. \A c \in Copies : w[c] # "none" <=> c \in 1..(n + 1)
  <2> SUFFICES ASSUME NEW c \in Copies
               PROVE  w[c] # "none" <=> c \in 1..(n + 1)
    OBVIOUS
  <2>1. CASE c = n + 1
    BY <1>8, <2>1 DEF w
  <2>2. CASE c # n + 1
    <3>1. w[c] = rows[c] /\ c \in Nat
      BY <1>1, <1>8, <2>2 DEF w
    <3>2. c \in 1..(n + 1) <=> c \in 1..n
      BY <2>2, <3>1
    <3> QED
      BY <1>2, <3>1, <3>2
  <2> QED
    BY <2>1, <2>2
<1>10. 1..(n + 1) \subseteq Copies
  BY NoticesAssumption DEF Copies
<1>11. {c \in Copies : w[c] # "none"} = 1..(n + 1)
  BY <1>9, <1>10
<1> QED
  BY <1>8, <1>11 DEF w

NoticesTyped ==
    /\ viaQueue \in BOOLEAN
    /\ dispatch \in [Occasions -> [Readers -> Dispatches]]
    /\ notice \in [Occasions -> [Readers -> [Copies -> Rows]]]
    /\ aged \subseteq Occasions
    /\ token \subseteq Readers \X Devices /\ gone \subseteq Devices
    /\ online \subseteq Readers /\ active \subseteq Readers
    /\ announcement \in [Announcements -> Drafts] /\ announcing \subseteq Announcements
    /\ due \in [Occasions -> [Readers -> SUBSET Devices]]
    /\ pushed \in [Occasions -> [Readers -> SUBSET Devices]]
    /\ excused \subseteq Announcements \X Readers

\* The last part of the type invariant follows from the accounts.
LEMMA TypedNext ==
    ASSUME NoticesTyped', \A o \in Occasions, u \in Readers : NoticeOK(o, u)'
    PROVE  NoticesTypeOK'
<1>1. ASSUME NEW o \in Occasions, NEW u \in Readers,
             dispatch'[o][u].at \in {"sending", "removing", "done"}
      PROVE  Stored(o, u)' # {}
  <2>1. PICK n \in Nat :
            /\ Stored(o, u)' = 1..n
            /\ dispatch'[o][u].at \in {"sending", "removing", "done"} => n >= 1
    BY DEF NoticeOK, Accounted, Fits
  <2>2. n >= 1
    BY <1>1, <2>1
  <2>3. 1 \in 1..n
    BY <2>2
  <2> QED
    BY <2>1, <2>3
<1> QED
  BY <1>1 DEF NoticesTyped, NoticesTypeOK

LEMMA NoticesInitially == NoticesInit => NoticesInv
<1> SUFFICES ASSUME NoticesInit
             PROVE  NoticesInv
  OBVIOUS
<1>1. /\ \A o \in Occasions, u \in Readers :
            dispatch[o][u] = Untold /\ due[o][u] = {} /\ Stored(o, u) = {}
  BY DEF NoticesInit, Stored
<1>2. \A o \in Occasions, u \in Readers : NoticeOK(o, u)
  <2>1. 1..0 = {} /\ 0 \in Nat
    OBVIOUS
  <2> QED
    BY <1>1, <2>1, UntoldIs DEF NoticeOK, Accounted, DueWorks, Reaches, AtStep
<1>3. NoticesTypeOK
  <2>1. dispatch \in [Occasions -> [Readers -> Dispatches]]
    BY UntoldIs DEF NoticesInit
  <2>2. \A o \in Occasions, u \in Readers :
            ~ (dispatch[o][u].at \in {"sending", "removing", "done"})
    BY <1>1, UntoldIs
  <2> QED
    BY <2>1, <2>2 DEF NoticesInit, NoticesTypeOK, Rows, Drafts
<1>4. NobodyToldYet /\ ToldOrExcused
  BY <1>1, UntoldIs DEF NoticesInit, NobodyToldYet, ToldOrExcused, AtStep, Occasions
<1> QED
  BY <1>2, <1>3, <1>4 DEF NoticesInv

LEMMA InvTyped == NoticesInv => NoticesTyped
  BY DEF NoticesInv, NoticesTypeOK, NoticesTyped

LEMMA PairStays ==
    ASSUME NEW o \in Occasions, NEW u \in Readers, NoticeOK(o, u),
           dispatch'[o][u] = dispatch[o][u], Stored(o, u)' = Stored(o, u),
           pushed'[o][u] = pushed[o][u], due'[o][u] \subseteq due[o][u],
           DueWorks(o, u)', gone \subseteq gone', viaQueue' = viaQueue
    PROVE  NoticeOK(o, u)'
<1>1. Accounted(o, u)'
  BY DEF NoticeOK, Accounted, Fits, GivenUp
<1>2. Reaches(o, u)'
  BY DEF NoticeOK, Reaches, AtStep
<1> QED
  BY <1>1, <1>2 DEF NoticeOK

\* Users come and go, and read what they have been told.
LEMMA NoticesStay ==
    ASSUME NoticesInv, NoticesTyped', UNCHANGED <<viaQueue, dispatch, pushed>>,
           UNCHANGED <<announcement, announcing, excused>>,
           \A o \in Occasions, u \in Readers :
               Stored(o, u)' = Stored(o, u) /\ due'[o][u] \subseteq due[o][u] /\ DueWorks(o, u)',
           gone \subseteq gone'
    PROVE  NoticesInv'
<1>1. \A o \in Occasions, u \in Readers : NoticeOK(o, u)'
  <2> SUFFICES ASSUME NEW o \in Occasions, NEW u \in Readers
               PROVE  NoticeOK(o, u)'
    OBVIOUS
  <2> QED
    BY PairStays DEF NoticesInv
<1>2. NobodyToldYet' /\ ToldOrExcused'
  BY DEF NoticesInv, NobodyToldYet, ToldOrExcused, AtStep
<1> QED
  BY <1>1, <1>2, TypedNext DEF NoticesInv

\* The same with only the rows changed, and none stored or lost.
LEMMA RowsStay ==
    ASSUME NoticesInv, notice' \in [Occasions -> [Readers -> [Copies -> Rows]]],
           UNCHANGED <<viaQueue, dispatch, people, feed, due, pushed>>,
           \A o \in Occasions, u \in Readers, c \in Copies :
               notice'[o][u][c] = "none" <=> notice[o][u][c] = "none"
    PROVE  NoticesInv'
<1>1. NoticesTyped'
  BY InvTyped DEF NoticesTyped, people, feed
<1>2. \A o \in Occasions, u \in Readers : Stored(o, u)' = Stored(o, u)
  BY DEF Stored
<1>3. \A o \in Occasions, u \in Readers : DueWorks(o, u)'
  BY DEF NoticesInv, NoticeOK, DueWorks, people
<1> QED
  BY <1>1, <1>2, <1>3, NoticesStay DEF people, feed

\* The work on one notice goes a step further.
LEMMA GoingKeeps ==
    ASSUME NoticesInv, NEW o \in Occasions, NEW u \in Readers, NEW d \in Dispatches,
           dispatch' = [dispatch EXCEPT ![o][u] = d], d.at # "none",
           o \in Alerts \/ ~ AtStep(o, u, "none"),
           UNCHANGED <<viaQueue, gone, online, feed>>,
           token' \subseteq token,
           NoticesTyped',
           \A p \in Occasions, v \in Readers : p # o \/ v # u =>
               /\ Stored(p, v)' = Stored(p, v) /\ due'[p][v] = due[p][v]
               /\ pushed'[p][v] = pushed[p][v],
           \A p \in Occasions, v \in Readers : DueWorks(p, v)',
           Accounted(o, u)', Reaches(o, u)'
    PROVE  NoticesInv'
<1>1. NoticesTyped
  BY InvTyped
<1>2. /\ dispatch'[o][u] = d
      /\ \A p \in Occasions, v \in Readers : p # o \/ v # u => dispatch'[p][v] = dispatch[p][v]
  BY <1>1, TwoLevels DEF NoticesTyped
<1>3. \A p \in Occasions, v \in Readers : NoticeOK(p, v)'
  <2> SUFFICES ASSUME NEW p \in Occasions, NEW v \in Readers
               PROVE  NoticeOK(p, v)'
    OBVIOUS
  <2>1. CASE p = o /\ v = u
    BY <2>1 DEF NoticeOK
  <2>2. CASE p # o \/ v # u
    BY <1>2, <2>2, PairStays DEF NoticesInv
  <2> QED
    BY <2>1, <2>2
<1>4. \A p \in Occasions, v \in Readers : AtStep(p, v, "none")' => AtStep(p, v, "none")
  BY <1>2 DEF AtStep
<1>5. NobodyToldYet'
  <2> SUFFICES ASSUME NEW a \in Announcements, announcement[a] = "none" \/ a \in announcing
               PROVE  \A v \in Readers : AtStep(a, v, "none")'
    BY DEF NobodyToldYet, NoticesInv, feed
  <2>1. a \in Occasions /\ a \notin Alerts
    BY NoticesAssumption DEF Occasions
  <2>2. \A v \in Readers : AtStep(a, v, "none")
    BY DEF NoticesInv, NobodyToldYet
  <2>3. a # o
    BY <2>1, <2>2
  <2> QED
    BY <1>2, <2>1, <2>2, <2>3 DEF AtStep
<1>6. ToldOrExcused'
  BY <1>4 DEF NoticesInv, ToldOrExcused, feed, Occasions
<1> QED
  BY <1>3, <1>5, <1>6, TypedNext DEF NoticesInv

\* A notice that goes on is an alert's, or of an announcement broadcast.
LEMMA UnderWay ==
    ASSUME NoticesInv, NEW o \in Occasions, NEW u \in Readers, NEW step, AtStep(o, u, step)
    PROVE  dispatch[o][u] \in Dispatches /\ dispatch[o][u].at = step
BY InvTyped DEF NoticesTyped, AtStep

LEMMA CreateNoticeKeeps ==
    ASSUME NoticesInv, NEW o \in Occasions, NEW u \in Readers, CreateNotification(o, u)
    PROVE  NoticesInv'
<1>0. PICK d \in Begun : dispatch' = [dispatch EXCEPT ![o][u] = d]
  BY DEF CreateNotification, Going
<1>1. /\ o \in Alerts /\ AtStep(o, u, "none") /\ dispatch' = [dispatch EXCEPT ![o][u] = d]
      /\ UNCHANGED <<viaQueue, notice, token, gone, online, feed, due, pushed>>
      /\ NoticesTyped
  BY <1>0, InvTyped DEF CreateNotification, people
<1>2. d \in Dispatches /\ d.at \in {"waiting", "starting", "failed"} /\ Fits(d, 0)
  BY BegunIs
<1>3. /\ dispatch' \in [Occasions -> [Readers -> Dispatches]] /\ dispatch'[o][u] = d
  BY <1>1, <1>2, TwoLevels DEF NoticesTyped
<1>4. NoticesTyped'
  BY <1>1, <1>3 DEF NoticesTyped, feed
<1>5. Accounted(o, u)'
  <2>1. PICK n \in Nat : Stored(o, u) = 1..n /\ n = 0
    BY <1>1 DEF NoticesInv, NoticeOK, Accounted, Fits, AtStep
  <2>2. Stored(o, u)' = 1..0
    BY <1>1, <2>1 DEF Stored
  <2> QED
    BY <1>1, <1>2, <1>3, <2>2, AccountedNext
<1>6. Reaches(o, u)'
  BY <1>2, <1>3 DEF Reaches, AtStep
<1>7. \A p \in Occasions, v \in Readers :
          DueWorks(p, v)' /\ Stored(p, v)' = Stored(p, v)
  BY <1>1 DEF NoticesInv, NoticeOK, DueWorks, Stored
<1>8. d.at # "none"
  BY <1>2
<1> QED
  BY <1>1, <1>2, <1>4, <1>5, <1>6, <1>7, <1>8, GoingKeeps

\* A row more is stored, and the work on its notice goes on.
LEMMA RowStored ==
    ASSUME NoticesInv, NEW o \in Occasions, NEW u \in Readers, NEW d \in Dispatches,
           AtStep(o, u, "starting"), d.at \in {"stored", "waiting", "failed"},
           dispatch' = [dispatch EXCEPT ![o][u] = d],
           notice' = [notice EXCEPT ![o][u] = WithRow(notice[o][u])],
           due' \in [Occasions -> [Readers -> SUBSET Devices]],
           \A p \in Occasions, v \in Readers : p # o \/ v # u => due'[p][v] = due[p][v],
           \A x \in due'[o][u] : u \notin online /\ <<u, x>> \in token /\ x \notin gone,
           UNCHANGED <<viaQueue, token, gone, online, feed, pushed>>,
           \A n \in Nat : Fits(dispatch[o][u], n) => Fits(d, n + 1)
    PROVE  NoticesInv'
<1> DEFINE c == dispatch[o][u]
<1>1. NoticesTyped
  BY InvTyped
<1>2. c \in Dispatches /\ c.at = "starting"
  BY <1>1 DEF NoticesTyped, AtStep
<1>3. /\ c.tries \in Nat /\ c.stalls \in Nat /\ c.lapses \in Nat
      /\ c.tries <= NoticeAttempts /\ c.stalls <= NoticeStalls
  BY <1>2, DispatchFields
<1>4. PICK n \in Nat : Stored(o, u) = 1..n /\ Fits(c, n)
  BY DEF NoticesInv, NoticeOK, Accounted
<1> HIDE DEF c
<1>6. n <= c.lapses /\ 1 + c.lapses <= c.tries + c.stalls
  BY <1>2, <1>4 DEF Fits
<1>7. Fits(d, n + 1) /\ n + 1 \in Nat
  BY <1>4 DEF c
<1>9. /\ dispatch' \in [Occasions -> [Readers -> Dispatches]] /\ dispatch'[o][u] = d
  BY <1>1, TwoLevels DEF NoticesTyped
<1>10. n < NoticeAttempts + NoticeStalls
  BY <1>3, <1>6, NoticesAssumption
<1> DEFINE rows == notice[o][u]
           w == WithRow(rows)
<1>11. rows \in [Copies -> Rows] /\ {i \in Copies : rows[i] # "none"} = 1..n
  BY <1>1, <1>4 DEF NoticesTyped, Stored
<1>12. w \in [Copies -> Rows] /\ {i \in Copies : w[i] # "none"} = 1..(n + 1)
  BY <1>10, <1>11, WithRowIs
<1> HIDE DEF w
<1>13. /\ notice' \in [Occasions -> [Readers -> [Copies -> Rows]]] /\ notice'[o][u] = w
       /\ \A p \in Occasions, v \in Readers : p # o \/ v # u => notice'[p][v] = notice[p][v]
  BY <1>1, <1>12, TwoLevels DEF NoticesTyped, w
<1>16. NoticesTyped'
  BY <1>1, <1>9, <1>13 DEF NoticesTyped, feed
<1>17. \A p \in Occasions, v \in Readers : DueWorks(p, v)'
  <2> SUFFICES ASSUME NEW p \in Occasions, NEW v \in Readers
               PROVE  DueWorks(p, v)'
    OBVIOUS
  <2>1. CASE p = o /\ v = u
    BY <2>1 DEF DueWorks
  <2>2. CASE p # o \/ v # u
    BY <2>2 DEF NoticesInv, NoticeOK, DueWorks
  <2> QED
    BY <2>1, <2>2
<1>18. Accounted(o, u)'
  <2>1. Stored(o, u)' = 1..(n + 1)
    BY <1>12, <1>13 DEF Stored
  <2> QED
    BY <1>7, <1>9, <2>1, AccountedNext
<1>19. Reaches(o, u)'
  BY <1>9 DEF Reaches, AtStep
<1>20. \A p \in Occasions, v \in Readers : p # o \/ v # u => Stored(p, v)' = Stored(p, v)
  BY <1>13 DEF Stored
<1>21. ~ AtStep(o, u, "none") /\ d.at # "none" /\ token' \subseteq token
  BY <1>2 DEF AtStep, c
<1>22. \A p \in Occasions, v \in Readers : p # o \/ v # u =>
           /\ Stored(p, v)' = Stored(p, v) /\ due'[p][v] = due[p][v]
           /\ pushed'[p][v] = pushed[p][v]
  BY <1>20
<1> QED
  BY <1>16, <1>17, <1>18, <1>19, <1>21, <1>22, GoingKeeps

LEMMA StoreNoticeKeeps ==
    ASSUME NoticesInv, NEW o \in Occasions, NEW u \in Readers, StoreNotice(o, u)
    PROVE  NoticesInv'
<1> DEFINE c == dispatch[o][u]
           d == [c EXCEPT !.at = "stored"]
           e == DueTo(u)
<1>1. /\ AtStep(o, u, "starting")
      /\ notice' = [notice EXCEPT ![o][u] = WithRow(notice[o][u])]
      /\ due' = [due EXCEPT ![o][u] = e]
      /\ UNCHANGED <<viaQueue, token, gone, online, feed, pushed>>
      /\ c \in Dispatches /\ c.at = "starting" /\ NoticesTyped
  BY UnderWay, InvTyped DEF StoreNotice, people, NoticesTyped
<1>2. dispatch' = [dispatch EXCEPT ![o][u] = d]
  BY InvTyped DEF StoreNotice, GoingTo, NoticesTyped
<1>3. /\ d \in Dispatches /\ d.at = "stored" /\ d.tries = c.tries /\ d.stalls = c.stalls
      /\ d.lapses = c.lapses
  BY <1>1, MovedIs DEF Steps
<1> HIDE DEF d
<1>4. e \in SUBSET Devices /\ \A x \in e : u \notin online /\ <<u, x>> \in token /\ x \notin gone
  BY DEF DueTo
<1> HIDE DEF e
<1>5. /\ due' \in [Occasions -> [Readers -> SUBSET Devices]] /\ due'[o][u] = e
      /\ \A p \in Occasions, v \in Readers : p # o \/ v # u => due'[p][v] = due[p][v]
  BY <1>1, <1>4, TwoLevels DEF NoticesTyped
<1>6. ASSUME NEW n \in Nat, Fits(c, n)
      PROVE  Fits(d, n + 1)
  <2>1. /\ c.tries \in Nat /\ c.stalls \in Nat /\ c.lapses \in Nat
    BY <1>1, DispatchFields
  <2>2. n <= c.lapses /\ 1 + c.lapses <= c.tries + c.stalls /\ c.tries > 0
    BY <1>1, <1>6 DEF Fits
  <2> QED
    BY <1>3, <2>1, <2>2 DEF Fits
<1> QED
  BY <1>1, <1>2, <1>3, <1>4, <1>5, <1>6, RowStored

\* What comes after the row is stored: nothing more is stored, and what has been
\* pushed is not taken back.
LEMMA AfterStored ==
    ASSUME NoticesInv, NEW o \in Occasions, NEW u \in Readers, NEW d \in Dispatches,
           dispatch' = [dispatch EXCEPT ![o][u] = d], d.at # "none",
           ~ AtStep(o, u, "none"),
           UNCHANGED <<viaQueue, notice, gone, online, feed, due>>, token' \subseteq token,
           pushed' \in [Occasions -> [Readers -> SUBSET Devices]],
           \A p \in Occasions, v \in Readers : p # o \/ v # u => pushed'[p][v] = pushed[p][v],
           \A p \in Occasions, v \in Readers : \A e \in due[p][v] : <<v, e>> \in token',
           \A n \in Nat : Fits(dispatch[o][u], n) => Fits(d, n),
           d.at = "sending" => due[o][u] \subseteq d.known,
           d.at \in {"removing", "done"} => due[o][u] \subseteq pushed'[o][u],
           d.at = "removing" => d.known \subseteq gone
    PROVE  NoticesInv'
<1>1. NoticesTyped
  BY InvTyped
<1>2. /\ dispatch' \in [Occasions -> [Readers -> Dispatches]] /\ dispatch'[o][u] = d
  BY <1>1, TwoLevels DEF NoticesTyped
<1>3. NoticesTyped'
  BY <1>1, <1>2 DEF NoticesTyped, feed
<1>4. \A p \in Occasions, v \in Readers : Stored(p, v)' = Stored(p, v) /\ due'[p][v] = due[p][v]
  BY DEF Stored
<1>5. \A p \in Occasions, v \in Readers : DueWorks(p, v)'
  BY DEF NoticesInv, NoticeOK, DueWorks
<1>6. Accounted(o, u)'
  <2>1. PICK n \in Nat : Stored(o, u) = 1..n /\ Fits(dispatch[o][u], n)
    BY DEF NoticesInv, NoticeOK, Accounted
  <2>2. Fits(d, n)
    BY <2>1
  <2> QED
    BY <1>2, <1>4, <2>1, <2>2, AccountedNext
<1>7. Reaches(o, u)'
  BY <1>2 DEF Reaches, AtStep
<1> QED
  BY <1>3, <1>4, <1>5, <1>6, <1>7, GoingKeeps

\* The same with no token removed.
LEMMA AfterStoredStill ==
    ASSUME NoticesInv, NEW o \in Occasions, NEW u \in Readers, NEW d \in Dispatches,
           dispatch' = [dispatch EXCEPT ![o][u] = d], d.at # "none",
           ~ AtStep(o, u, "none"),
           UNCHANGED <<viaQueue, notice, token, gone, online, feed, due, pushed>>,
           \A n \in Nat : Fits(dispatch[o][u], n) => Fits(d, n),
           d.at = "sending" => due[o][u] \subseteq d.known,
           d.at \in {"removing", "done"} => due[o][u] \subseteq pushed[o][u],
           d.at = "removing" => d.known \subseteq gone
    PROVE  NoticesInv'
<1>1. pushed' \in [Occasions -> [Readers -> SUBSET Devices]]
  BY InvTyped DEF NoticesTyped
<1>2. \A p \in Occasions, v \in Readers : \A e \in due[p][v] : <<v, e>> \in token'
  BY DEF NoticesInv, NoticeOK, DueWorks
<1> QED
  BY <1>1, <1>2, AfterStored

LEMMA DeliverKeeps ==
    ASSUME NoticesInv, NEW o \in Occasions, NEW u \in Readers, Deliver(o, u)
    PROVE  NoticesInv'
<1> DEFINE c == dispatch[o][u]
<1>1. /\ AtStep(o, u, "stored")
      /\ UNCHANGED <<viaQueue, notice, token, gone, online, feed, due, pushed>>
      /\ c \in Dispatches /\ c.at = "stored"
  BY UnderWay DEF Deliver, people
<1>2. DueWorks(o, u)
  BY DEF NoticesInv, NoticeOK
<1>3. CASE u \in online
  <2> DEFINE d == [c EXCEPT !.at = "done"]
  <2>1. dispatch' = [dispatch EXCEPT ![o][u] = d]
    BY <1>3 DEF Deliver, Going, IsUserConnected
  <2>2. /\ d \in Dispatches /\ d.at = "done" /\ d.tries = c.tries /\ d.stalls = c.stalls
        /\ d.lapses = c.lapses
    BY <1>1, MovedIs DEF Steps
  <2> HIDE DEF d
  <2>3. \A n \in Nat : Fits(c, n) => Fits(d, n)
    BY <1>1, <2>2 DEF Fits
  <2>4. due[o][u] = {}
    BY <1>2, <1>3 DEF DueWorks
  <2> QED
    BY <1>1, <2>1, <2>2, <2>3, <2>4, AfterStoredStill DEF AtStep
<1>4. CASE u \notin online
  <2> DEFINE k == TokensOf(u)
             d == [c EXCEPT !.at = "sending", !.known = k]
  <2>1. dispatch' = [dispatch EXCEPT ![o][u] = d]
    BY <1>4 DEF Deliver, Going, IsUserConnected
  <2>2. k \in SUBSET Devices /\ due[o][u] \subseteq k
    BY <1>2, InvTyped DEF TokensOf, DueWorks, NoticesTyped
  <2>3. /\ d \in Dispatches /\ d.at = "sending" /\ d.tries = c.tries
        /\ d.stalls = c.stalls /\ d.lapses = c.lapses /\ d.known = k
    <3>1. c \in Dispatches /\ k \in SUBSET Devices /\ "sending" \in Steps
      BY <1>1, <2>2 DEF Steps
    <3>2. d = [c EXCEPT !.at = "sending", !.known = k]
      OBVIOUS
    <3> HIDE DEF c, k, d
    <3> QED
      BY <3>1, <3>2 DEF Dispatches
  <2> HIDE DEF d, k
  <2>4. \A n \in Nat : Fits(c, n) => Fits(d, n)
    BY <1>1, <2>3 DEF Fits
  <2> QED
    BY <1>1, <2>1, <2>2, <2>3, <2>4, AfterStoredStill DEF AtStep
<1> QED
  BY <1>3, <1>4

LEMMA LosePushKeeps ==
    ASSUME NoticesInv, NEW o \in Occasions, NEW u \in Readers, LosePush(o, u)
    PROVE  NoticesInv'
<1> DEFINE c == dispatch[o][u]
           d == [c EXCEPT !.at = "failed"]
<1>1. /\ AtStep(o, u, "sending")
      /\ UNCHANGED <<viaQueue, notice, token, gone, online, feed, due, pushed>>
      /\ c \in Dispatches /\ c.at = "sending"
  BY UnderWay DEF LosePush, people
<1>2. dispatch' = [dispatch EXCEPT ![o][u] = d]
  BY InvTyped DEF LosePush, GoingTo, NoticesTyped
<1>3. /\ d \in Dispatches /\ d.at = "failed" /\ d.tries = c.tries /\ d.stalls = c.stalls
      /\ d.lapses = c.lapses
  BY <1>1, MovedIs DEF Steps
<1> HIDE DEF d
<1>4. \A n \in Nat : Fits(c, n) => Fits(d, n)
  BY <1>1, <1>3 DEF Fits
<1> QED
  BY <1>1, <1>2, <1>3, <1>4, AfterStoredStill DEF AtStep

\* What a job that throws becomes.
LEMMA AgainIs ==
    ASSUME viaQueue \in BOOLEAN, NEW d \in Dispatches
    PROVE  /\ Again(d) \in Dispatches /\ Again(d).at \in {"waiting", "failed"}
           /\ Again(d).at = "waiting" => d.tries < NoticeAttempts
           /\ Again(d).at = "failed" => GivenUp(Again(d))
           /\ Again(d).tries = d.tries /\ Again(d).stalls = d.stalls
           /\ Again(d).lapses = d.lapses /\ Again(d).known = d.known
<1> DEFINE step == IF viaQueue /\ d.tries < NoticeAttempts THEN "waiting" ELSE "failed"
<1>1. /\ step \in Steps /\ step \in {"waiting", "failed"}
      /\ step = "waiting" => d.tries < NoticeAttempts
      /\ step = "failed" /\ viaQueue => ~ (d.tries < NoticeAttempts)
  BY DEF Steps
<1>2. Again(d) = [d EXCEPT !.at = step]
  <2>1. CASE viaQueue
    BY <2>1 DEF Again
  <2>2. CASE ~ viaQueue
    BY <2>2 DEF Again
  <2> QED
    BY <2>1, <2>2
<1> HIDE DEF step
<1> DEFINE e == [d EXCEPT !.at = step]
<1>3. /\ e \in Dispatches /\ e.at = step /\ e.tries = d.tries /\ e.stalls = d.stalls
      /\ e.lapses = d.lapses /\ e.known = d.known
  BY <1>1, MovedIs
<1>4. e.at = "failed" => GivenUp(e)
  BY <1>1, <1>3, DispatchFields, NoticesAssumption DEF GivenUp
<1> HIDE DEF e
<1> QED
  BY <1>1, <1>2, <1>3, <1>4 DEF e

LEMMA TakeUpKeeps ==
    ASSUME NoticesInv, NEW o \in Occasions, NEW u \in Readers, TakeUp(o, u)
    PROVE  NoticesInv'
<1> DEFINE c == dispatch[o][u]
           d == [c EXCEPT !.at = "starting", !.tries = @ + 1]
<1>1. /\ AtStep(o, u, "waiting")
      /\ UNCHANGED <<viaQueue, notice, token, gone, online, feed, due, pushed>>
      /\ c \in Dispatches /\ c.at = "waiting"
      /\ dispatch' = [dispatch EXCEPT ![o][u] = d]
  BY UnderWay DEF TakeUp, Going, people
<1>2. PICK m \in Nat : Fits(c, m)
  BY DEF NoticesInv, NoticeOK, Accounted
<1>3. c.tries < NoticeAttempts /\ c.tries \in Nat /\ c.stalls \in Nat /\ c.lapses \in Nat
  BY <1>1, <1>2, DispatchFields DEF Fits
<1>4. /\ d \in Dispatches /\ d.at = "starting" /\ d.tries = c.tries + 1
      /\ d.stalls = c.stalls /\ d.lapses = c.lapses
  <2> HIDE DEF c
  <2> QED
    BY <1>1, <1>3, TriedIs
<1> HIDE DEF d
<1>5. ASSUME NEW n \in Nat, Fits(c, n)
      PROVE  Fits(d, n)
  <2>1. n <= c.lapses /\ c.lapses <= c.tries + c.stalls
    BY <1>1, <1>5 DEF Fits
  <2> QED
    BY <1>3, <1>4, <2>1 DEF Fits
<1> QED
  BY <1>1, <1>4, <1>5, AfterStoredStill DEF AtStep

LEMMA LoseNoticeKeeps ==
    ASSUME NoticesInv, NEW o \in Occasions, NEW u \in Readers, LoseNotice(o, u)
    PROVE  NoticesInv'
<1> DEFINE c == dispatch[o][u]
           d == Again(c)
<1>1. /\ AtStep(o, u, "starting")
      /\ UNCHANGED <<viaQueue, notice, token, gone, online, feed, due, pushed>>
      /\ c \in Dispatches /\ c.at = "starting" /\ viaQueue \in BOOLEAN
      /\ dispatch' = [dispatch EXCEPT ![o][u] = d]
  BY UnderWay, InvTyped DEF LoseNotice, Going, people, NoticesTyped
<1>2. c.tries \in Nat /\ c.stalls \in Nat /\ c.lapses \in Nat
  BY <1>1, DispatchFields
<1>3. /\ d \in Dispatches /\ d.at \in {"waiting", "failed"}
      /\ d.at = "waiting" => c.tries < NoticeAttempts
      /\ d.at = "failed" => GivenUp(d)
      /\ d.tries = c.tries /\ d.stalls = c.stalls /\ d.lapses = c.lapses
  <2> HIDE DEF c
  <2> QED
    BY <1>1, AgainIs
<1> HIDE DEF d
<1>4. ASSUME NEW n \in Nat, Fits(c, n)
      PROVE  Fits(d, n)
  <2>1. n <= c.lapses /\ 1 + c.lapses <= c.tries + c.stalls
    BY <1>1, <1>4 DEF Fits
  <2> QED
    BY <1>2, <1>3, <2>1 DEF Fits
<1> QED
  BY <1>1, <1>3, <1>4, AfterStoredStill DEF AtStep

LEMMA LoseStoredKeeps ==
    ASSUME NoticesInv, NEW o \in Occasions, NEW u \in Readers, LoseStored(o, u)
    PROVE  NoticesInv'
<1> DEFINE c == dispatch[o][u]
           g == Again(c)
           d == [g EXCEPT !.lapses = @ + 1]
<1>1. /\ AtStep(o, u, "starting")
      /\ notice' = [notice EXCEPT ![o][u] = WithRow(notice[o][u])]
      /\ UNCHANGED <<viaQueue, token, gone, online, feed, due, pushed>>
      /\ c \in Dispatches /\ c.at = "starting" /\ viaQueue \in BOOLEAN /\ NoticesTyped
  BY UnderWay, InvTyped DEF LoseStored, people, NoticesTyped
<1>2. dispatch' = [dispatch EXCEPT ![o][u] = d]
  BY DEF LoseStored, Going
<1>3. PICK m \in Nat : Fits(c, m)
  BY DEF NoticesInv, NoticeOK, Accounted
<1>4. /\ c.tries \in Nat /\ c.stalls \in Nat /\ c.lapses \in Nat
      /\ c.tries <= NoticeAttempts /\ c.stalls <= NoticeStalls
  BY <1>1, DispatchFields
<1>5. /\ g \in Dispatches /\ g.at \in {"waiting", "failed"}
      /\ g.at = "waiting" => c.tries < NoticeAttempts
      /\ g.tries = c.tries /\ g.stalls = c.stalls /\ g.lapses = c.lapses
  <2> HIDE DEF c
  <2> QED
    BY <1>1, AgainIs
<1> HIDE DEF c, g
<1>6. 1 + c.lapses <= c.tries + c.stalls
  BY <1>1, <1>3 DEF Fits
<1>7. g.lapses < NoticeAttempts + NoticeStalls
  BY <1>4, <1>5, <1>6, NoticesAssumption
<1>8. /\ d \in Dispatches /\ d.at = g.at /\ d.tries = g.tries /\ d.stalls = g.stalls
      /\ d.lapses = g.lapses + 1
  BY <1>5, <1>7, LapsedIs
<1> HIDE DEF d
<1>9. ASSUME NEW n \in Nat, Fits(c, n)
      PROVE  Fits(d, n + 1)
  <2>1. n <= c.lapses
    BY <1>1, <1>9 DEF Fits
  <2> QED
    BY <1>4, <1>5, <1>6, <1>8, <2>1 DEF Fits
<1>10. \A x \in due'[o][u] : u \notin online /\ <<u, x>> \in token /\ x \notin gone
  BY <1>1 DEF NoticesInv, NoticeOK, DueWorks
<1>11. /\ due' \in [Occasions -> [Readers -> SUBSET Devices]]
       /\ \A p \in Occasions, v \in Readers : p # o \/ v # u => due'[p][v] = due[p][v]
  BY <1>1 DEF NoticesTyped
<1>12. d.at \in {"stored", "waiting", "failed"}
  BY <1>5, <1>8
<1> QED
  BY <1>1, <1>2, <1>8, <1>9, <1>10, <1>11, <1>12, RowStored DEF c

LEMMA LoseTokensKeeps ==
    ASSUME NoticesInv, NEW o \in Occasions, NEW u \in Readers, LoseTokens(o, u)
    PROVE  NoticesInv'
<1> DEFINE c == dispatch[o][u]
           g == Again(c)
           d == [g EXCEPT !.lapses = @ + 1]
<1>1. /\ AtStep(o, u, "stored")
      /\ UNCHANGED <<viaQueue, notice, token, gone, online, feed, due, pushed>>
      /\ c \in Dispatches /\ c.at = "stored" /\ viaQueue \in BOOLEAN
  BY UnderWay, InvTyped DEF LoseTokens, people, NoticesTyped
<1>2. dispatch' = [dispatch EXCEPT ![o][u] = d]
  BY DEF LoseTokens, Going
<1>3. PICK m \in Nat : Fits(c, m)
  BY DEF NoticesInv, NoticeOK, Accounted
<1>4. /\ c.tries \in Nat /\ c.stalls \in Nat /\ c.lapses \in Nat
      /\ c.tries <= NoticeAttempts /\ c.stalls <= NoticeStalls
  BY <1>1, DispatchFields
<1>5. /\ g \in Dispatches /\ g.at \in {"waiting", "failed"}
      /\ g.at = "waiting" => c.tries < NoticeAttempts
      /\ g.tries = c.tries /\ g.stalls = c.stalls /\ g.lapses = c.lapses
  <2> HIDE DEF c
  <2> QED
    BY <1>1, AgainIs
<1> HIDE DEF c, g
<1>6. c.tries > 0 /\ 1 + c.lapses <= c.tries + c.stalls
  BY <1>1, <1>3 DEF Fits
<1>7. g.lapses < NoticeAttempts + NoticeStalls
  BY <1>4, <1>5, <1>6, NoticesAssumption
<1>8. /\ d \in Dispatches /\ d.at = g.at /\ d.tries = g.tries /\ d.stalls = g.stalls
      /\ d.lapses = g.lapses + 1
  BY <1>5, <1>7, LapsedIs
<1> HIDE DEF d
<1>9. ASSUME NEW n \in Nat, Fits(c, n)
      PROVE  Fits(d, n)
  <2>1. n <= 1 + c.lapses /\ n >= 1
    BY <1>1, <1>9 DEF Fits
  <2> QED
    BY <1>4, <1>5, <1>6, <1>8, <2>1 DEF Fits
<1>10. ~ AtStep(o, u, "none")
  BY <1>1 DEF AtStep
<1> QED
  BY <1>1, <1>2, <1>5, <1>8, <1>9, <1>10, AfterStoredStill DEF c

LEMMA SendPushKeeps ==
    ASSUME NoticesInv, NEW o \in Occasions, NEW u \in Readers, SendPush(o, u)
    PROVE  NoticesInv'
<1> DEFINE c == dispatch[o][u]
<1>1. /\ AtStep(o, u, "sending") /\ ~ AtStep(o, u, "none")
      /\ UNCHANGED <<viaQueue, notice, token, gone, online, feed, due>>
      /\ c \in Dispatches /\ c.at = "sending" /\ NoticesTyped
  BY UnderWay, InvTyped DEF SendPush, people, AtStep
<1>2. DueWorks(o, u) /\ due[o][u] \subseteq c.known
  BY <1>1 DEF NoticesInv, NoticeOK, Reaches
<1> DEFINE e == [c EXCEPT !.at = "done"]
<1>3. /\ e \in Dispatches /\ e.at = "done" /\ e.tries = c.tries
      /\ e.stalls = c.stalls /\ e.lapses = c.lapses
  BY <1>1, MovedIs DEF Steps
<1>4. GoingTo(o, u, "done") => dispatch' = [dispatch EXCEPT ![o][u] = e]
  BY <1>1 DEF GoingTo, NoticesTyped
<1> HIDE DEF e
<1>5. \A n \in Nat : Fits(c, n) => Fits(e, n)
  BY <1>1, <1>3 DEF Fits
<1>6. CASE IsBroadcast(o, u) /\ IsUserConnected(u)
  <2>1. GoingTo(o, u, "done") /\ UNCHANGED pushed
    BY <1>6 DEF SendPush
  <2>2. due[o][u] = {}
    BY <1>2, <1>6 DEF DueWorks, IsUserConnected
  <2>3. /\ e.at # "none" /\ e.at # "sending" /\ e.at # "removing"
        /\ due[o][u] \subseteq pushed[o][u]
        /\ dispatch' = [dispatch EXCEPT ![o][u] = e]
    BY <1>3, <1>4, <2>1, <2>2
  <2>4. /\ UNCHANGED <<viaQueue, notice, token, gone, online, feed, due, pushed>>
        /\ e \in Dispatches
    BY <1>1, <1>3, <2>1
  <2> QED
    BY <1>1, <1>5, <2>3, <2>4, AfterStoredStill
<1>7. CASE ~ (IsBroadcast(o, u) /\ IsUserConnected(u))
  <2> DEFINE p == pushed[o][u] \cup (c.known \ gone)
  <2>1. pushed' = [pushed EXCEPT ![o][u] = p]
    BY <1>1, <1>7 DEF SendPush, NoticesTyped
  <2>2. p \in SUBSET Devices /\ due[o][u] \subseteq p
    <3>1. pushed[o][u] \in SUBSET Devices /\ c.known \in SUBSET Devices
      BY <1>1, DispatchFields DEF NoticesTyped
    <3>2. \A x \in due[o][u] : x \in c.known /\ x \notin gone
      BY <1>2 DEF DueWorks
    <3> QED
      BY <3>1, <3>2
  <2> HIDE DEF p
  <2>3. /\ pushed' \in [Occasions -> [Readers -> SUBSET Devices]] /\ pushed'[o][u] = p
        /\ \A q \in Occasions, v \in Readers : q # o \/ v # u => pushed'[q][v] = pushed[q][v]
    BY <1>1, <2>1, <2>2, TwoLevels DEF NoticesTyped
  <2>4. \A q \in Occasions, v \in Readers : \A x \in due[q][v] : <<v, x>> \in token'
    BY <1>1 DEF NoticesInv, NoticeOK, DueWorks
  <2>5. CASE viaQueue \/ IsBroadcast(o, u)
    <3>1. GoingTo(o, u, "done")
      BY <1>7, <2>5 DEF SendPush
    <3>2. /\ e.at # "none" /\ e.at # "sending" /\ e.at # "removing"
          /\ due[o][u] \subseteq pushed'[o][u] /\ token' \subseteq token
          /\ dispatch' = [dispatch EXCEPT ![o][u] = e]
      BY <1>1, <1>3, <1>4, <2>2, <2>3, <3>1
    <3>3. UNCHANGED <<viaQueue, notice, gone, online, feed, due>> /\ e \in Dispatches
      BY <1>1, <1>3
    <3> QED
      BY <1>1, <1>5, <2>3, <2>4, <3>2, <3>3, AfterStored, Zenon
  <2>6. CASE ~ (viaQueue \/ IsBroadcast(o, u))
    <3> DEFINE k == c.known \cap gone
               d == [c EXCEPT !.at = "removing", !.known = k]
    <3>1. dispatch' = [dispatch EXCEPT ![o][u] = d]
      BY <1>7, <2>6 DEF SendPush, Going
    <3>2. k \in SUBSET Devices /\ k \subseteq gone
      BY <1>1, DispatchFields
    <3>3. /\ d \in Dispatches /\ d.at = "removing" /\ d.tries = c.tries
          /\ d.stalls = c.stalls /\ d.lapses = c.lapses /\ d.known = k
      <4>1. c \in Dispatches /\ d = [c EXCEPT !.at = "removing", !.known = k]
        BY <1>1
      <4> HIDE DEF c, k, d
      <4> QED
        BY <3>2, <4>1 DEF Dispatches
    <3> HIDE DEF d, k
    <3>4. \A n \in Nat : Fits(c, n) => Fits(d, n)
      BY <1>1, <3>3 DEF Fits
    <3>5. /\ d.at # "none" /\ d.at # "sending" /\ d.known \subseteq gone
          /\ due[o][u] \subseteq pushed'[o][u]
      BY <2>2, <2>3, <3>2, <3>3
    <3> QED
      BY <1>1, <2>3, <2>4, <3>1, <3>3, <3>4, <3>5, AfterStored
  <2> QED
    BY <2>5, <2>6
<1> QED
  BY <1>6, <1>7

LEMMA RemoveStaleTokensKeeps ==
    ASSUME NoticesInv, NEW o \in Occasions, NEW u \in Readers, RemoveStaleTokens(o, u)
    PROVE  NoticesInv'
<1> DEFINE c == dispatch[o][u]
           d == [c EXCEPT !.at = "done"]
<1>1. /\ AtStep(o, u, "removing") /\ ~ AtStep(o, u, "none")
      /\ UNCHANGED <<viaQueue, notice, gone, online, feed, due, pushed>>
      /\ c \in Dispatches /\ c.at = "removing" /\ NoticesTyped
      /\ token' = token \ (Readers \X c.known)
  BY UnderWay, InvTyped DEF RemoveStaleTokens, StaleTokens, AtStep
<1>2. dispatch' = [dispatch EXCEPT ![o][u] = d]
  BY <1>1 DEF RemoveStaleTokens, GoingTo, NoticesTyped
<1>3. /\ d \in Dispatches /\ d.at = "done" /\ d.tries = c.tries /\ d.stalls = c.stalls
      /\ d.lapses = c.lapses
  BY <1>1, MovedIs DEF Steps
<1>4. c.known \subseteq gone /\ due[o][u] \subseteq pushed[o][u]
  BY <1>1 DEF NoticesInv, NoticeOK, Reaches
<1>5. \A p \in Occasions, v \in Readers : \A x \in due[p][v] : <<v, x>> \in token'
  BY <1>1, <1>4 DEF NoticesInv, NoticeOK, DueWorks
<1> HIDE DEF d
<1>6. \A n \in Nat : Fits(c, n) => Fits(d, n)
  BY <1>1, <1>3 DEF Fits
<1>7. token' \subseteq token /\ pushed' \in [Occasions -> [Readers -> SUBSET Devices]]
  BY <1>1 DEF NoticesTyped
<1> QED
  BY <1>1, <1>2, <1>3, <1>4, <1>5, <1>6, <1>7, AfterStored

LEMMA MarkAsReadKeeps ==
    ASSUME NoticesInv, NEW o \in Occasions, NEW u \in Readers, NEW c \in Copies,
           MarkAsRead(o, u, c) \/ DeleteNotification(o, u, c)
    PROVE  NoticesInv'
<1>1. PICK row \in {"read", "deleted"} :
          notice' = [notice EXCEPT ![o][u][c] = row]
  BY DEF MarkAsRead, DeleteNotification
<1>2. /\ UNCHANGED <<viaQueue, dispatch, people, feed, due, pushed>>
      /\ notice[o][u][c] # "none" /\ NoticesTyped
  BY InvTyped DEF MarkAsRead, DeleteNotification
<1> DEFINE rows == [notice[o][u] EXCEPT ![c] = row]
<1>3. notice[o][u] \in [Copies -> Rows]
  BY <1>2 DEF NoticesTyped
<1>4. /\ rows \in [Copies -> Rows] /\ rows[c] = row
      /\ \A x \in Copies : x # c => rows[x] = notice[o][u][x]
  BY <1>3 DEF Rows
<1>5. notice' = [notice EXCEPT ![o][u] = rows]
  BY <1>1, <1>2 DEF NoticesTyped
<1> HIDE DEF rows
<1>6. /\ notice' \in [Occasions -> [Readers -> [Copies -> Rows]]] /\ notice'[o][u] = rows
      /\ \A p \in Occasions, v \in Readers : p # o \/ v # u => notice'[p][v] = notice[p][v]
  BY <1>2, <1>4, <1>5, TwoLevels DEF NoticesTyped
<1>7. \A p \in Occasions, v \in Readers, x \in Copies :
          notice'[p][v][x] = "none" <=> notice[p][v][x] = "none"
  <2> SUFFICES ASSUME NEW p \in Occasions, NEW v \in Readers, NEW x \in Copies
               PROVE  notice'[p][v][x] = "none" <=> notice[p][v][x] = "none"
    OBVIOUS
  <2>1. CASE p = o /\ v = u
    BY <1>2, <1>4, <1>6, <2>1
  <2>2. CASE p # o \/ v # u
    BY <1>6, <2>2
  <2> QED
    BY <2>1, <2>2
<1> QED
  BY <1>2, <1>6, <1>7, RowsStay

LEMMA MarkAllAsReadKeeps ==
    ASSUME NoticesInv, NEW u \in Readers, MarkAllAsRead(u)
    PROVE  NoticesInv'
<1> DEFINE rows(o) == [c \in Copies |-> IF notice[o][u][c] = "unread" THEN "read"
                                        ELSE notice[o][u][c]]
<1>1. /\ notice' = [o \in Occasions |-> [notice[o] EXCEPT ![u] = rows(o)]]
      /\ UNCHANGED <<viaQueue, dispatch, people, feed, due, pushed>> /\ NoticesTyped
  BY InvTyped DEF MarkAllAsRead
<1>2. ASSUME NEW o \in Occasions
      PROVE  /\ rows(o) \in [Copies -> Rows]
             /\ \A c \in Copies : rows(o)[c] = "none" <=> notice[o][u][c] = "none"
  <2>1. \A c \in Copies : notice[o][u][c] \in Rows
    BY <1>1 DEF NoticesTyped
  <2> QED
    BY <2>1 DEF Rows
<1> HIDE DEF rows
<1>3. /\ notice' \in [Occasions -> [Readers -> [Copies -> Rows]]]
      /\ \A o \in Occasions : notice'[o][u] = rows(o)
      /\ \A o \in Occasions, v \in Readers : v # u => notice'[o][v] = notice[o][v]
  BY <1>1, <1>2 DEF NoticesTyped
<1>4. \A o \in Occasions, v \in Readers, c \in Copies :
          notice'[o][v][c] = "none" <=> notice[o][v][c] = "none"
  BY <1>2, <1>3
<1> QED
  BY <1>1, <1>3, <1>4, RowsStay

LEMMA CleanupKeeps ==
    ASSUME NoticesInv, CleanupOldNotifications
    PROVE  NoticesInv'
<1>1. /\ notice' = [o \in Occasions |-> [u \in Readers |-> [c \in Copies |->
            IF ExpiredNotice(o, notice[o][u][c]) THEN "deleted" ELSE notice[o][u][c]]]]
      /\ UNCHANGED <<viaQueue, dispatch, people, feed, due, pushed>> /\ NoticesTyped
  BY InvTyped DEF CleanupOldNotifications
<1>2. \A o \in Occasions, v \in Readers, c \in Copies :
          notice[o][v][c] \in Rows
  BY <1>1 DEF NoticesTyped
<1>3. notice' \in [Occasions -> [Readers -> [Copies -> Rows]]]
  BY <1>1, <1>2 DEF Rows
<1>4. \A o \in Occasions, v \in Readers, c \in Copies :
          notice'[o][v][c] = "none" <=> notice[o][v][c] = "none"
  BY <1>1 DEF ExpiredNotice
<1> QED
  BY <1>1, <1>3, <1>4, RowsStay

LEMMA HandleConnectKeeps ==
    ASSUME NoticesInv, NEW u \in Readers, HandleConnect(u)
    PROVE  NoticesInv'
<1>1. /\ online' = online \cup {u} /\ NoticesTyped
      /\ UNCHANGED <<viaQueue, dispatch, notice, token, gone, feed, pushed>>
      /\ due' = [o \in Occasions |-> [v \in Readers |-> {d \in due[o][v] : ~ (v = u)}]]
  BY InvTyped DEF HandleConnect, NoMore
<1>2. /\ due' \in [Occasions -> [Readers -> SUBSET Devices]]
      /\ \A o \in Occasions, v \in Readers :
             due'[o][v] \subseteq due[o][v] /\ \A d \in due'[o][v] : v # u
  BY <1>1 DEF NoticesTyped
<1>3. NoticesTyped'
  BY <1>1, <1>2 DEF NoticesTyped, feed
<1>4. \A o \in Occasions, v \in Readers : DueWorks(o, v)' /\ Stored(o, v)' = Stored(o, v)
  BY <1>1, <1>2 DEF NoticesInv, NoticeOK, DueWorks, Stored
<1> QED
  BY <1>1, <1>2, <1>3, <1>4, NoticesStay DEF feed

LEMMA HandleCloseKeeps ==
    ASSUME NoticesInv, NEW u \in Readers, HandleClose(u)
    PROVE  NoticesInv'
<1>1. /\ online' = online \ {u} /\ NoticesTyped
      /\ UNCHANGED <<viaQueue, dispatch, notice, token, gone, feed, due, pushed>>
  BY InvTyped DEF HandleClose
<1>2. NoticesTyped'
  BY <1>1 DEF NoticesTyped, feed
<1>3. \A o \in Occasions, v \in Readers : DueWorks(o, v)' /\ Stored(o, v)' = Stored(o, v)
  BY <1>1 DEF NoticesInv, NoticeOK, DueWorks, Stored
<1> QED
  BY <1>1, <1>2, <1>3, NoticesStay DEF feed

LEMMA SaveTokenKeeps ==
    ASSUME NoticesInv, NEW u \in Readers, NEW d \in Devices, SaveDeviceToken(u, d)
    PROVE  NoticesInv'
<1>1. /\ token' = token \cup {<<u, d>>} /\ NoticesTyped
      /\ UNCHANGED <<viaQueue, dispatch, notice, gone, online, feed, due, pushed>>
  BY InvTyped DEF SaveDeviceToken
<1>2. NoticesTyped'
  BY <1>1 DEF NoticesTyped, feed
<1>3. \A o \in Occasions, v \in Readers : DueWorks(o, v)' /\ Stored(o, v)' = Stored(o, v)
  BY <1>1 DEF NoticesInv, NoticeOK, DueWorks, Stored
<1> QED
  BY <1>1, <1>2, <1>3, NoticesStay DEF feed

LEMMA RemoveTokenKeeps ==
    ASSUME NoticesInv, NEW u \in Readers, NEW d \in Devices, RemoveDeviceToken(u, d)
    PROVE  NoticesInv'
<1>1. /\ token' = token \ {<<u, d>>} /\ NoticesTyped
      /\ UNCHANGED <<viaQueue, dispatch, notice, gone, online, feed, pushed>>
      /\ due' = [o \in Occasions |-> [v \in Readers |->
                     {e \in due[o][v] : ~ (v = u /\ e = d)}]]
  BY InvTyped DEF RemoveDeviceToken, NoMore
<1>2. /\ due' \in [Occasions -> [Readers -> SUBSET Devices]]
      /\ \A o \in Occasions, v \in Readers :
             due'[o][v] \subseteq due[o][v] /\ \A e \in due'[o][v] : ~ (v = u /\ e = d)
  BY <1>1 DEF NoticesTyped
<1>3. NoticesTyped'
  BY <1>1, <1>2 DEF NoticesTyped, feed
<1>4. \A o \in Occasions, v \in Readers : DueWorks(o, v)' /\ Stored(o, v)' = Stored(o, v)
  BY <1>1, <1>2 DEF NoticesInv, NoticeOK, DueWorks, Stored
<1> QED
  BY <1>1, <1>2, <1>3, <1>4, NoticesStay DEF feed

LEMMA UnregisterKeeps ==
    ASSUME NoticesInv, NEW d \in Devices, Unregister(d)
    PROVE  NoticesInv'
<1>1. /\ gone' = gone \cup {d} /\ NoticesTyped
      /\ UNCHANGED <<viaQueue, dispatch, notice, token, online, feed, pushed>>
      /\ due' = [o \in Occasions |-> [v \in Readers |-> {e \in due[o][v] : ~ (e = d)}]]
  BY InvTyped DEF Unregister, NoMore
<1>2. /\ due' \in [Occasions -> [Readers -> SUBSET Devices]]
      /\ \A o \in Occasions, v \in Readers :
             due'[o][v] \subseteq due[o][v] /\ \A e \in due'[o][v] : e # d
  BY <1>1 DEF NoticesTyped
<1>3. NoticesTyped'
  BY <1>1, <1>2 DEF NoticesTyped, feed
<1>4. \A o \in Occasions, v \in Readers : DueWorks(o, v)' /\ Stored(o, v)' = Stored(o, v)
  BY <1>1, <1>2 DEF NoticesInv, NoticeOK, DueWorks, Stored
<1> QED
  BY <1>1, <1>2, <1>3, <1>4, NoticesStay DEF feed

LEMMA AgeKeeps ==
    ASSUME NoticesInv, NEW o \in Occasions, Age(o)
    PROVE  NoticesInv'
<1>1. /\ aged' = aged \cup {o} /\ NoticesTyped
      /\ UNCHANGED <<viaQueue, dispatch, notice, people, active, announcement, announcing,
                     excused, due, pushed>>
  BY InvTyped DEF Age
<1>2. NoticesTyped'
  BY <1>1 DEF NoticesTyped, people
<1>3. \A p \in Occasions, v \in Readers : DueWorks(p, v)' /\ Stored(p, v)' = Stored(p, v)
  BY <1>1 DEF NoticesInv, NoticeOK, DueWorks, Stored, people
<1> QED
  BY <1>1, <1>2, <1>3, NoticesStay DEF people

LEMMA EnrollKeeps ==
    ASSUME NoticesInv, NEW u \in Readers, Enroll(u) \/ EndEnrollment(u)
    PROVE  NoticesInv'
<1>1. /\ active' \subseteq Readers /\ NoticesTyped
      /\ UNCHANGED <<viaQueue, dispatch, notice, aged, people, announcement, announcing, due,
                     pushed, excused>>
  BY InvTyped DEF Enroll, EndEnrollment, NoticesTyped
<1>2. NoticesTyped'
  BY <1>1 DEF NoticesTyped, people
<1>3. \A p \in Occasions, v \in Readers : DueWorks(p, v)' /\ Stored(p, v)' = Stored(p, v)
  BY <1>1 DEF NoticesInv, NoticeOK, DueWorks, Stored, people
<1> QED
  BY <1>1, <1>2, <1>3, NoticesStay DEF people

\* Nothing is told of an occasion to anyone: no row is stored for it.
LEMMA NothingStored ==
    ASSUME NoticesInv, NEW o \in Occasions, NEW u \in Readers, AtStep(o, u, "none")
    PROVE  Stored(o, u) = 1..0
BY DEF NoticesInv, NoticeOK, Accounted, Fits, AtStep

LEMMA BroadcastKeeps ==
    ASSUME NoticesInv, NEW o \in Occasions, NEW users \in SUBSET Readers, Broadcast(o, users)
    PROVE  NoticesInv'
<1> DEFINE d == [Untold EXCEPT !.at = "listed"]
           told(u) == IF u \in users THEN d ELSE dispatch[o][u]
           rows(u) == IF u \in users THEN WithRow(notice[o][u]) ELSE notice[o][u]
           dueNow(u) == IF u \in users THEN DueTo(u) ELSE {}
<1>1. /\ o \in Alerts /\ \A u \in Readers : AtStep(o, u, "none")
      /\ dispatch' = [dispatch EXCEPT ![o] = [u \in Readers |-> told(u)]]
      /\ notice' = [notice EXCEPT ![o] = [u \in Readers |-> rows(u)]]
      /\ due' = [due EXCEPT ![o] = [u \in Readers |-> dueNow(u)]]
      /\ UNCHANGED <<viaQueue, people, feed, pushed>> /\ NoticesTyped
  BY InvTyped DEF Broadcast, NoticesTyped
<1>2. /\ d \in Dispatches /\ d.at = "listed" /\ d.tries = 0 /\ d.stalls = 0 /\ d.lapses = 0
  BY UntoldIs, MovedIs DEF Steps
<1> HIDE DEF d
<1>3. \A u \in Readers : /\ dispatch[o][u] \in Dispatches /\ dispatch[o][u].at = "none"
                         /\ notice[o][u] \in [Copies -> Rows] /\ Stored(o, u) = 1..0
  BY <1>1, NothingStored DEF NoticesTyped, AtStep
<1>4. ASSUME NEW u \in Readers
      PROVE  /\ told(u) \in Dispatches
             /\ rows(u) \in [Copies -> Rows]
             /\ u \in users => told(u) = d /\ {c \in Copies : rows(u)[c] # "none"} = 1..1
             /\ u \notin users => told(u) = dispatch[o][u] /\ rows(u) = notice[o][u]
  <2> DEFINE r == notice[o][u]
  <2>1. r \in [Copies -> Rows] /\ {c \in Copies : r[c] # "none"} = 1..0
    BY <1>3 DEF Stored
  <2>2. 0 \in Nat /\ 0 < NoticeAttempts + NoticeStalls /\ 0 + 1 = 1
    BY NoticesAssumption
  <2> HIDE DEF r
  <2>3. /\ WithRow(r) \in [Copies -> Rows]
        /\ {c \in Copies : WithRow(r)[c] # "none"} = 1..(0 + 1)
    BY <2>1, <2>2, WithRowIs
  <2>4. CASE u \in users
    <3>1. told(u) = d /\ rows(u) = WithRow(r)
      BY <2>4 DEF r
    <3> QED
      BY <1>2, <2>2, <2>3, <2>4, <3>1
  <2>5. CASE u \notin users
    <3>1. told(u) = dispatch[o][u] /\ rows(u) = r
      BY <2>5 DEF r
    <3> QED
      BY <1>3, <2>1, <2>5, <3>1 DEF r
  <2> QED
    BY <2>4, <2>5
<1>5. ASSUME NEW u \in Readers
      PROVE  dueNow(u) \in SUBSET Devices
             /\ \A x \in dueNow(u) : u \notin online /\ <<u, x>> \in token /\ x \notin gone
  BY DEF DueTo
<1> HIDE DEF told, rows, dueNow
<1>6. /\ dispatch' \in [Occasions -> [Readers -> Dispatches]]
      /\ notice' \in [Occasions -> [Readers -> [Copies -> Rows]]]
      /\ due' \in [Occasions -> [Readers -> SUBSET Devices]]
  BY <1>1, <1>4, <1>5 DEF NoticesTyped
<1>7. \A u \in Readers : /\ dispatch'[o][u] = told(u) /\ notice'[o][u] = rows(u)
                         /\ due'[o][u] = dueNow(u)
  BY <1>1 DEF NoticesTyped
<1>8. \A p \in Occasions, v \in Readers : p # o => 
          /\ dispatch'[p][v] = dispatch[p][v] /\ notice'[p][v] = notice[p][v]
          /\ due'[p][v] = due[p][v]
  BY <1>1 DEF NoticesTyped
<1>9. NoticesTyped'
  BY <1>1, <1>6 DEF NoticesTyped, people, feed
<1>10. \A p \in Occasions, v \in Readers : DueWorks(p, v)'
  <2> SUFFICES ASSUME NEW p \in Occasions, NEW v \in Readers
               PROVE  DueWorks(p, v)'
    OBVIOUS
  <2>1. CASE p = o
    BY <1>1, <1>5, <1>7, <2>1 DEF DueWorks, people
  <2>2. CASE p # o
    BY <1>1, <1>8, <2>2 DEF NoticesInv, NoticeOK, DueWorks, people
  <2> QED
    BY <2>1, <2>2
<1>11. \A p \in Occasions, v \in Readers : NoticeOK(p, v)'
  <2> SUFFICES ASSUME NEW p \in Occasions, NEW v \in Readers
               PROVE  NoticeOK(p, v)'
    OBVIOUS
  <2>1. CASE p # o
    <3>1. Stored(p, v)' = Stored(p, v)
      BY <1>8, <2>1 DEF Stored
    <3> QED
      BY <1>1, <1>8, <1>10, <2>1, <3>1, PairStays DEF NoticesInv, people
  <2>2. CASE p = o /\ v \notin users
    <3>1. dispatch'[o][v] = dispatch[o][v] /\ notice'[o][v] = notice[o][v]
      BY <1>4, <1>7, <2>2
    <3>2. Stored(o, v)' = 1..0 /\ dispatch'[o][v].at = "none"
      BY <1>3, <3>1 DEF Stored
    <3>3. Accounted(o, v)
      BY DEF NoticesInv, NoticeOK
    <3>4. Accounted(o, v)'
      BY <1>1, <1>3, <3>1, <3>2, <3>3, AccountedNext DEF Accounted, Fits
    <3> QED
      BY <1>10, <2>2, <3>2, <3>4 DEF NoticeOK, Reaches, AtStep
  <2>3. CASE p = o /\ v \in users
    <3>1. dispatch'[o][v] = d /\ Stored(o, v)' = 1..1
      BY <1>4, <1>7, <2>3 DEF Stored
    <3>2. Fits(d, 1)
      BY <1>2 DEF Fits
    <3>3. Accounted(o, v)'
      BY <1>1, <3>1, <3>2, AccountedNext
    <3>4. Reaches(o, v)'
      BY <1>2, <3>1 DEF Reaches, AtStep
    <3> QED
      BY <1>10, <2>3, <3>3, <3>4 DEF NoticeOK
  <2> QED
    BY <2>1, <2>2, <2>3
<1>12. \A a \in Announcements, v \in Readers : a # o /\ a \in Occasions
  BY <1>1, NoticesAssumption DEF Occasions
<1>13. NobodyToldYet' /\ ToldOrExcused'
  BY <1>1, <1>8, <1>12 DEF NoticesInv, NobodyToldYet, ToldOrExcused, AtStep, feed
<1> QED
  BY <1>9, <1>11, <1>13, TypedNext DEF NoticesInv

\* What becomes of the users of a broadcast whose rows are stored.
LEMMA ListedKeeps ==
    ASSUME NoticesInv, NEW o \in Occasions, NEW f \in [Readers -> Dispatches],
           dispatch' = [dispatch EXCEPT ![o] = f],
           UNCHANGED <<viaQueue, notice, people, feed, due, pushed>>,
           \A u \in Readers :
               /\ dispatch[o][u].at # "listed" => f[u] = dispatch[o][u]
               /\ dispatch[o][u].at = "listed" =>
                      /\ f[u].at \in {"sending", "failed"}
                      /\ f[u].tries = dispatch[o][u].tries
                      /\ f[u].stalls = dispatch[o][u].stalls
                      /\ f[u].lapses = dispatch[o][u].lapses
                      /\ f[u].at = "sending" => f[u].known = TokensOf(u)
    PROVE  NoticesInv'
<1>1. NoticesTyped
  BY InvTyped
<1>3. /\ dispatch' \in [Occasions -> [Readers -> Dispatches]]
      /\ \A u \in Readers : dispatch'[o][u] = f[u]
      /\ \A p \in Occasions, v \in Readers : p # o => dispatch'[p][v] = dispatch[p][v]
  BY <1>1 DEF NoticesTyped
<1>4. NoticesTyped'
  BY <1>1, <1>3 DEF NoticesTyped, people, feed
<1>5. \A p \in Occasions, v \in Readers : DueWorks(p, v)' /\ Stored(p, v)' = Stored(p, v)
  BY DEF NoticesInv, NoticeOK, DueWorks, Stored, people
<1>6. \A p \in Occasions, v \in Readers : NoticeOK(p, v)'
  <2> SUFFICES ASSUME NEW p \in Occasions, NEW v \in Readers
               PROVE  NoticeOK(p, v)'
    OBVIOUS
  <2>1. CASE dispatch'[p][v] = dispatch[p][v]
    BY <1>5, <2>1, PairStays DEF NoticesInv, people
  <2>2. CASE p = o /\ dispatch[o][v].at = "listed"
    <3> DEFINE c == dispatch[o][v]
               e == f[v]
    <3>1. /\ e.at \in {"sending", "failed"} /\ e.tries = c.tries /\ e.stalls = c.stalls
          /\ e.lapses = c.lapses /\ e.at = "sending" => e.known = TokensOf(v)
      BY <2>2
    <3>2. PICK n \in Nat : Stored(o, v) = 1..n /\ Fits(c, n)
      BY DEF NoticesInv, NoticeOK, Accounted
    <3>3. Fits(e, n)
      BY <2>2, <3>1, <3>2 DEF Fits
    <3>4. Accounted(o, v)'
      BY <1>3, <1>5, <3>2, <3>3, AccountedNext
    <3>5. due[o][v] \subseteq TokensOf(v)
      BY <1>1 DEF NoticesInv, NoticeOK, DueWorks, TokensOf, NoticesTyped
    <3>6. Reaches(o, v)'
      BY <1>3, <3>1, <3>5 DEF Reaches, AtStep
    <3> QED
      BY <1>5, <2>2, <3>4, <3>6 DEF NoticeOK
  <2> QED
    BY <1>3, <2>1, <2>2
<1>7. \A p \in Occasions, v \in Readers : AtStep(p, v, "none")' <=> AtStep(p, v, "none")
  <2> SUFFICES ASSUME NEW p \in Occasions, NEW v \in Readers
               PROVE  dispatch'[p][v].at = "none" <=> dispatch[p][v].at = "none"
    BY DEF AtStep
  <2>1. CASE p # o
    BY <1>3, <2>1
  <2>2. CASE p = o /\ dispatch[o][v].at = "listed"
    BY <1>3, <2>2
  <2>3. CASE p = o /\ dispatch[o][v].at # "listed"
    BY <1>3, <2>3
  <2> QED
    BY <2>1, <2>2, <2>3
<1>8. NobodyToldYet' /\ ToldOrExcused'
  BY <1>7 DEF NoticesInv, NobodyToldYet, ToldOrExcused, feed, Occasions
<1> QED
  BY <1>4, <1>6, <1>8, TypedNext DEF NoticesInv

LEMMA ReadAllTokensKeeps ==
    ASSUME NoticesInv, NEW o \in Occasions, ReadAllTokens(o) \/ LoseAllTokens(o)
    PROVE  NoticesInv'
<1> DEFINE sent(u) == [dispatch[o][u] EXCEPT !.at = "sending", !.known = TokensOf(u)]
           lost(u) == [dispatch[o][u] EXCEPT !.at = "failed"]
           f == [u \in Readers |-> IF dispatch[o][u].at = "listed" THEN sent(u)
                                                                  ELSE dispatch[o][u]]
           g == [u \in Readers |-> IF dispatch[o][u].at = "listed" THEN lost(u)
                                                                  ELSE dispatch[o][u]]
<1>1. /\ UNCHANGED <<viaQueue, notice, people, feed, due, pushed>> /\ NoticesTyped
      /\ dispatch' = [dispatch EXCEPT ![o] = f] \/ dispatch' = [dispatch EXCEPT ![o] = g]
  BY InvTyped DEF ReadAllTokens, LoseAllTokens, NoticesTyped
<1>2. ASSUME NEW u \in Readers
      PROVE  /\ dispatch[o][u] \in Dispatches
             /\ sent(u) \in Dispatches /\ sent(u).at = "sending"
             /\ sent(u).tries = dispatch[o][u].tries /\ sent(u).stalls = dispatch[o][u].stalls
             /\ sent(u).lapses = dispatch[o][u].lapses /\ sent(u).known = TokensOf(u)
             /\ lost(u) \in Dispatches /\ lost(u).at = "failed"
             /\ lost(u).tries = dispatch[o][u].tries /\ lost(u).stalls = dispatch[o][u].stalls
             /\ lost(u).lapses = dispatch[o][u].lapses
  <2> DEFINE c == dispatch[o][u]
             k == TokensOf(u)
             e == [c EXCEPT !.at = "sending", !.known = k]
  <2>1. c \in Dispatches /\ k \in SUBSET Devices
    BY <1>1 DEF NoticesTyped, TokensOf
  <2>2. /\ e \in Dispatches /\ e.at = "sending" /\ e.tries = c.tries /\ e.stalls = c.stalls
        /\ e.lapses = c.lapses /\ e.known = k
    <3>1. e = [c EXCEPT !.at = "sending", !.known = k]
      OBVIOUS
    <3> HIDE DEF c, k, e
    <3> QED
      BY <2>1, <3>1 DEF Dispatches
  <2> HIDE DEF e
  <2>3. /\ lost(u) \in Dispatches /\ lost(u).at = "failed" /\ lost(u).tries = c.tries
        /\ lost(u).stalls = c.stalls /\ lost(u).lapses = c.lapses
    BY <2>1, MovedIs DEF Steps
  <2>4. sent(u) = e
    BY DEF e
  <2> HIDE DEF sent, lost
  <2> QED
    BY <2>1, <2>2, <2>3, <2>4
<1> HIDE DEF sent, lost
<1>3. f \in [Readers -> Dispatches] /\ g \in [Readers -> Dispatches]
  BY <1>2
<1>4. ASSUME NEW u \in Readers
      PROVE  /\ f[u] = IF dispatch[o][u].at = "listed" THEN sent(u) ELSE dispatch[o][u]
             /\ g[u] = IF dispatch[o][u].at = "listed" THEN lost(u) ELSE dispatch[o][u]
  OBVIOUS
<1> HIDE DEF f, g
<1> DEFINE Handled(h) ==
               \A u \in Readers :
                   /\ dispatch[o][u].at # "listed" => h[u] = dispatch[o][u]
                   /\ dispatch[o][u].at = "listed" =>
                          /\ h[u].at \in {"sending", "failed"}
                          /\ h[u].tries = dispatch[o][u].tries
                          /\ h[u].stalls = dispatch[o][u].stalls
                          /\ h[u].lapses = dispatch[o][u].lapses
                          /\ h[u].at = "sending" => h[u].known = TokensOf(u)
<1>5. Handled(f) /\ Handled(g)
  BY <1>2, <1>4
<1>6. ASSUME NEW h \in [Readers -> Dispatches], dispatch' = [dispatch EXCEPT ![o] = h],
             Handled(h)
      PROVE  NoticesInv'
  <2>1. UNCHANGED <<viaQueue, notice, people, feed, due, pushed>>
    BY <1>1
  <2> QED
    BY <1>6, <2>1, ListedKeeps
<1> HIDE DEF Handled
<1> QED
  BY <1>1, <1>3, <1>5, <1>6

LEMMA BroadcastToEnrolledKeeps ==
    ASSUME NoticesInv, NEW a \in Announcements, BroadcastToEnrolledStudents(a)
    PROVE  NoticesInv'
<1>0. PICK begun \in [active -> Begun] :
          dispatch' = [dispatch EXCEPT ![a] =
                          [u \in Readers |-> IF u \in active THEN begun[u] ELSE @[u]]]
  BY DEF BroadcastToEnrolledStudents, Students
<1> DEFINE d(u) == IF u \in active THEN begun[u] ELSE dispatch[a][u]
<1>1. /\ a \in announcing /\ announcing' = announcing \ {a} /\ NoticesTyped
      /\ dispatch' = [dispatch EXCEPT ![a] = [u \in Readers |-> d(u)]]
      /\ excused' = excused \cup ({a} \X (Readers \ active))
      /\ UNCHANGED <<viaQueue, notice, aged, people, active, announcement, due, pushed>>
      /\ a \in Occasions
  BY <1>0, InvTyped DEF BroadcastToEnrolledStudents, NoticesTyped, Occasions
<1>2. \A u \in Readers : AtStep(a, u, "none") /\ Stored(a, u) = 1..0
  BY <1>1, NothingStored DEF NoticesInv, NobodyToldYet
<1>3. \A u \in Readers : dispatch[a][u] \in Dispatches
  BY <1>1 DEF NoticesTyped
<1>4. \A u \in active : /\ begun[u] \in Dispatches /\ Fits(begun[u], 0)
                        /\ begun[u].at \in {"waiting", "starting", "failed"}
  BY BegunIs
<1>15. \A u \in Readers : d(u) = IF u \in active THEN begun[u] ELSE dispatch[a][u]
  OBVIOUS
<1> HIDE DEF d
<1>5. \A u \in Readers : /\ d(u) \in Dispatches
                         /\ u \in active => d(u) = begun[u]
                         /\ u \notin active => d(u) = dispatch[a][u]
  BY <1>3, <1>4, <1>15
<1>6. /\ dispatch' \in [Occasions -> [Readers -> Dispatches]]
      /\ \A u \in Readers : dispatch'[a][u] = d(u)
      /\ \A p \in Occasions, v \in Readers : p # a => dispatch'[p][v] = dispatch[p][v]
  BY <1>1, <1>5 DEF NoticesTyped
<1>7. NoticesTyped'
  BY <1>1, <1>6 DEF NoticesTyped, people
<1>8. \A p \in Occasions, v \in Readers : DueWorks(p, v)' /\ Stored(p, v)' = Stored(p, v)
  BY <1>1 DEF NoticesInv, NoticeOK, DueWorks, Stored, people
<1>9. \A p \in Occasions, v \in Readers : NoticeOK(p, v)'
  <2> SUFFICES ASSUME NEW p \in Occasions, NEW v \in Readers
               PROVE  NoticeOK(p, v)'
    OBVIOUS
  <2>1. CASE dispatch'[p][v] = dispatch[p][v]
    BY <1>1, <1>8, <2>1, PairStays DEF NoticesInv, people
  <2>2. CASE p = a /\ v \in active
    <3>1. dispatch'[a][v] = begun[v]
      BY <1>5, <1>6, <2>2
    <3>2. Stored(a, v)' = 1..0
      BY <1>2, <1>8, <1>1
    <3>3. Accounted(a, v)'
      BY <1>1, <1>4, <2>2, <3>1, <3>2, AccountedNext
    <3>4. Reaches(a, v)'
      BY <1>4, <2>2, <3>1 DEF Reaches, AtStep
    <3> QED
      BY <1>8, <2>2, <3>3, <3>4 DEF NoticeOK
  <2> QED
    BY <1>5, <1>6, <2>1, <2>2
<1>10. \A p \in Occasions, v \in Readers : p # a => (AtStep(p, v, "none")' <=> AtStep(p, v, "none"))
  BY <1>6 DEF AtStep
<1>11. \A v \in active : ~ AtStep(a, v, "none")'
  <2> SUFFICES ASSUME NEW v \in active
               PROVE  dispatch'[a][v].at # "none"
    BY DEF AtStep
  <2>1. v \in Readers
    BY <1>1 DEF NoticesTyped
  <2>2. dispatch'[a][v] = begun[v]
    BY <1>5, <1>6, <2>1
  <2> QED
    BY <1>4, <2>2
<1>12. NobodyToldYet'
  <2>1. announcement[a] # "none"
    BY <1>1 DEF NoticesInv, NobodyToldYet
  <2> QED
    BY <1>1, <1>10, <2>1 DEF NoticesInv, NobodyToldYet, Occasions
<1>13. ToldOrExcused'
  <2> SUFFICES ASSUME NEW p \in Announcements, NEW v \in Readers,
                      announcement[p] \in {"hidden", "published"}
               PROVE  \/ <<p, v>> \in excused' \/ p \in announcing'
                      \/ ~ AtStep(p, v, "none")'
    BY <1>1 DEF ToldOrExcused
  <2>1. CASE p # a
    BY <1>1, <1>10, <2>1 DEF NoticesInv, ToldOrExcused, Occasions
  <2>2. CASE p = a
    BY <1>1, <1>11, <2>2
  <2> QED
    BY <2>1, <2>2
<1> QED
  BY <1>7, <1>9, <1>12, <1>13, TypedNext DEF NoticesInv

LEMMA LoseBroadcastKeeps ==
    ASSUME NoticesInv, NEW a \in Announcements, LoseBroadcast(a)
    PROVE  NoticesInv'
<1>1. /\ a \in announcing /\ announcing' = announcing \ {a} /\ NoticesTyped
      /\ excused' = excused \cup ({a} \X Readers)
      /\ UNCHANGED <<viaQueue, dispatch, notice, aged, people, active, announcement, due,
                     pushed>>
  BY InvTyped DEF LoseBroadcast
<1>2. NoticesTyped'
  BY <1>1 DEF NoticesTyped, people
<1>3. \A p \in Occasions, v \in Readers :
          DueWorks(p, v)' /\ Stored(p, v)' = Stored(p, v)
  BY <1>1 DEF NoticesInv, NoticeOK, DueWorks, Stored, people
<1>4. \A p \in Occasions, v \in Readers : NoticeOK(p, v)'
  <2> SUFFICES ASSUME NEW p \in Occasions, NEW v \in Readers
               PROVE  NoticeOK(p, v)'
    OBVIOUS
  <2> QED
    BY <1>1, <1>3, PairStays DEF NoticesInv, people
<1>5. NobodyToldYet' /\ ToldOrExcused'
  BY <1>1 DEF NoticesInv, NobodyToldYet, ToldOrExcused, AtStep
<1> QED
  BY <1>2, <1>4, <1>5, TypedNext DEF NoticesInv

\* Nobody's work goes on, and announcements are written, changed or deleted.
LEMMA AnnouncementKeeps ==
    ASSUME NoticesInv, NEW a \in Announcements, NEW row \in Drafts, row # "none",
           announcement' = [announcement EXCEPT ![a] = row],
           UNCHANGED <<viaQueue, dispatch, notice, aged, people, active, due, pushed>>,
           announcing \subseteq announcing', announcing' \subseteq announcing \cup {a},
           announcing' # announcing => announcement[a] = "none",
           excused \subseteq excused', excused' \subseteq Announcements \X Readers,
           announcement[a] = "none" =>
               a \in announcing' \/ \A u \in Readers : <<a, u>> \in excused',
           announcement[a] \in {"none", "hidden", "published"}
    PROVE  NoticesInv'
<1>1. NoticesTyped
  BY InvTyped
<1>2. /\ announcement' \in [Announcements -> Drafts] /\ announcement'[a] = row
      /\ \A b \in Announcements : b # a => announcement'[b] = announcement[b]
  BY <1>1 DEF NoticesTyped
<1>3. NoticesTyped'
  BY <1>1, <1>2 DEF NoticesTyped, people
<1>4. \A p \in Occasions, v \in Readers :
          DueWorks(p, v)' /\ Stored(p, v)' = Stored(p, v)
  BY DEF NoticesInv, NoticeOK, DueWorks, Stored, people
<1>5. \A p \in Occasions, v \in Readers : NoticeOK(p, v)'
  BY <1>4, PairStays DEF NoticesInv, people
<1>6. NobodyToldYet'
  BY <1>2 DEF NoticesInv, NobodyToldYet, AtStep
<1>7. ToldOrExcused'
  BY <1>2 DEF NoticesInv, ToldOrExcused, AtStep
<1> QED
  BY <1>3, <1>5, <1>6, <1>7, TypedNext DEF NoticesInv

LEMMA CreateAnnouncementKeeps ==
    ASSUME NoticesInv, NEW a \in Announcements, NEW published \in BOOLEAN,
           CreateAnnouncement(a, published)
    PROVE  NoticesInv'
<1> DEFINE row == Visible(published)
<1>1. row \in Drafts /\ row # "none"
  BY DEF Visible, Drafts
<1> HIDE DEF row
<1>2. /\ announcement[a] = "none" /\ announcement' = [announcement EXCEPT ![a] = row]
      /\ UNCHANGED <<viaQueue, dispatch, notice, aged, people, active, due, pushed>>
      /\ NoticesTyped
  BY InvTyped DEF CreateAnnouncement, row
<1>3. CASE published
  <2>1. announcing' = announcing \cup {a} /\ excused' = excused
    BY <1>3 DEF CreateAnnouncement
  <2>2. excused \subseteq Announcements \X Readers
    BY <1>2 DEF NoticesTyped
  <2> QED
    BY <1>1, <1>2, <2>1, <2>2, AnnouncementKeeps
<1>4. CASE ~ published
  <2>1. announcing' = announcing /\ excused' = excused \cup ({a} \X Readers)
    BY <1>4 DEF CreateAnnouncement
  <2>2. excused' \subseteq Announcements \X Readers
    BY <1>2, <2>1 DEF NoticesTyped
  <2> QED
    BY <1>1, <1>2, <2>1, <2>2, AnnouncementKeeps
<1> QED
  BY <1>3, <1>4

LEMMA UpdateAnnouncementKeeps ==
    ASSUME NoticesInv, NEW a \in Announcements, NEW published \in BOOLEAN,
           UpdateAnnouncement(a, published) \/ DeleteAnnouncement(a)
    PROVE  NoticesInv'
<1>1. PICK row \in Drafts : row # "none" /\ announcement' = [announcement EXCEPT ![a] = row]
  BY DEF UpdateAnnouncement, DeleteAnnouncement, Visible, Drafts
<1>2. /\ UNCHANGED <<viaQueue, dispatch, notice, aged, people, active, due, pushed>>
      /\ UNCHANGED <<announcing, excused>> /\ announcement[a] \in {"hidden", "published"}
      /\ excused \subseteq Announcements \X Readers
  BY InvTyped DEF UpdateAnnouncement, DeleteAnnouncement, NoticesTyped
<1> QED
  BY <1>1, <1>2, AnnouncementKeeps

\* What the end of the process makes of the work on a notice.
LEMMA StalledFits ==
    ASSUME NEW d \in Dispatches, NEW n \in Nat, Fits(d, n)
    PROVE  /\ Stalled(d) \in Dispatches /\ Fits(Stalled(d), n)
           /\ Stalled(d).at \in {"none", "waiting", "done", "failed"}
           /\ Stalled(d).at \in {"none", "done"} <=> d.at \in {"none", "done"}
           /\ Stalled(d).at = "none" <=> d.at = "none"
<1>1. /\ d.tries \in Nat /\ d.tries <= NoticeAttempts /\ d.stalls \in Nat
      /\ d.stalls <= NoticeStalls /\ d.lapses \in Nat /\ d.at \in Steps
  BY DispatchFields
<1>2. CASE d.at \in {"none", "waiting", "done", "failed"}
  BY <1>2 DEF Stalled
<1>3. CASE ~ (d.at \in {"none", "waiting", "done", "failed"})
  <2>1. d.at \in {"starting", "stored", "listed", "sending", "removing"}
    BY <1>1, <1>3 DEF Steps
  <2>2. CASE viaQueue /\ d.tries > 0 /\ d.stalls < NoticeStalls
    <3>1. 1 + d.lapses <= d.tries + d.stalls
      BY <2>1, <2>2 DEF Fits
    <3>2. d.lapses < NoticeAttempts + NoticeStalls
      BY <1>1, <3>1, NoticesAssumption
    <3>3. PICK e \in Dispatches :
              /\ e = [d EXCEPT !.at = "waiting", !.tries = @ - 1, !.stalls = @ + 1,
                               !.lapses = IF d.at = "starting" THEN @ ELSE @ + 1]
              /\ e.at = "waiting" /\ e.tries = d.tries - 1 /\ e.stalls = d.stalls + 1
              /\ e.lapses = IF d.at = "starting" THEN d.lapses ELSE d.lapses + 1
      BY <2>2, <3>2, StalledIs
    <3>4. Stalled(d) = e
      BY <1>3, <2>2, <3>3 DEF Stalled
    <3>5. n <= e.lapses
      BY <1>1, <3>3 DEF Fits
    <3>6. Fits(e, n)
      BY <1>1, <2>2, <3>1, <3>3, <3>5, NoticesAssumption DEF Fits
    <3> QED
      BY <2>1, <3>3, <3>4, <3>6
  <2>3. CASE ~ (viaQueue /\ d.tries > 0 /\ d.stalls < NoticeStalls)
    <3> DEFINE e == [d EXCEPT !.at = "failed"]
    <3>1. Stalled(d) = e
      BY <1>3, <2>3 DEF Stalled
    <3>2. /\ e \in Dispatches /\ e.at = "failed" /\ e.lapses = d.lapses
          /\ e.tries = d.tries /\ e.stalls = d.stalls
      BY MovedIs DEF Steps
    <3> HIDE DEF e
    <3>3. GivenUp(e)
      BY <1>1, <2>3, <3>2, NoticesAssumption DEF GivenUp
    <3>4. Fits(e, n)
      BY <3>2, <3>3 DEF Fits
    <3> QED
      BY <2>1, <3>1, <3>2, <3>4
  <2> QED
    BY <2>2, <2>3
<1> QED
  BY <1>2, <1>3

LEMMA NoticesCrashKeeps ==
    ASSUME NoticesInv, NoticesCrash
    PROVE  NoticesInv'
<1>1. /\ dispatch' = [o \in Occasions |-> [u \in Readers |-> Stalled(dispatch[o][u])]]
      /\ online' = {} /\ announcing' = {} /\ excused' = excused \cup (announcing \X Readers)
      /\ UNCHANGED <<viaQueue, notice, aged, token, gone, active, announcement, due, pushed>>
      /\ NoticesTyped
  BY InvTyped DEF NoticesCrash
<1>2. ASSUME NEW o \in Occasions, NEW u \in Readers
      PROVE  /\ dispatch'[o][u] \in Dispatches
             /\ Accounted(o, u)' /\ DueWorks(o, u)' /\ Reaches(o, u)'
             /\ AtStep(o, u, "none")' <=> AtStep(o, u, "none")
  <2> DEFINE c == dispatch[o][u]
             d == Stalled(c)
  <2>1. c \in Dispatches /\ dispatch'[o][u] = d
    BY <1>1 DEF NoticesTyped
  <2>2. PICK n \in Nat : Stored(o, u) = 1..n /\ Fits(c, n)
    BY DEF NoticesInv, NoticeOK, Accounted
  <2>3. /\ d \in Dispatches /\ Fits(d, n)
        /\ d.at \in {"none", "waiting", "done", "failed"}
        /\ d.at \in {"none", "done"} <=> c.at \in {"none", "done"}
        /\ d.at = "none" <=> c.at = "none"
    <3> HIDE DEF c
    <3> QED
      BY <2>1, <2>2, StalledFits
  <2> HIDE DEF d
  <2>4. Stored(o, u)' = Stored(o, u)
    BY <1>1 DEF Stored
  <2>5. Accounted(o, u)'
    BY <1>1, <2>1, <2>2, <2>3, <2>4, AccountedNext
  <2>6. DueWorks(o, u)'
    BY <1>1 DEF NoticesInv, NoticeOK, DueWorks
  <2>7. d.at = "done" => c.at = "done"
    BY <2>3
  <2>8. Reaches(o, u)'
    BY <1>1, <2>1, <2>3, <2>7 DEF NoticesInv, NoticeOK, Reaches, AtStep
  <2> QED
    BY <2>1, <2>3, <2>5, <2>6, <2>8 DEF AtStep
<1>3. NoticesTyped'
  BY <1>1, <1>2 DEF NoticesTyped
<1>4. NobodyToldYet'
  BY <1>1, <1>2 DEF NoticesInv, NobodyToldYet, Occasions
<1>5. ToldOrExcused'
  BY <1>1, <1>2 DEF NoticesInv, ToldOrExcused, Occasions
<1> QED
  BY <1>2, <1>3, <1>4, <1>5, TypedNext DEF NoticesInv, NoticeOK

LEMMA OneNoticeKeeps ==
    ASSUME NoticesInv, NEW o \in Occasions,
           \/ \E users \in SUBSET Readers : Broadcast(o, users)
           \/ ReadAllTokens(o) \/ LoseAllTokens(o) \/ Age(o)
           \/ \E u \in Readers :
                  \/ CreateNotification(o, u) \/ TakeUp(o, u) \/ StoreNotice(o, u)
                  \/ LoseNotice(o, u) \/ LoseStored(o, u) \/ Deliver(o, u)
                  \/ LoseTokens(o, u) \/ SendPush(o, u) \/ LosePush(o, u)
                  \/ RemoveStaleTokens(o, u)
                  \/ \E c \in Copies : MarkAsRead(o, u, c) \/ DeleteNotification(o, u, c)
    PROVE  NoticesInv'
<1>1. CASE \E users \in SUBSET Readers : Broadcast(o, users)
  BY <1>1, BroadcastKeeps
<1>2. CASE ReadAllTokens(o) \/ LoseAllTokens(o)
  BY <1>2, ReadAllTokensKeeps
<1>3. CASE Age(o)
  BY <1>3, AgeKeeps
<1>4. ASSUME NEW u \in Readers,
             \/ CreateNotification(o, u) \/ TakeUp(o, u) \/ StoreNotice(o, u)
             \/ LoseNotice(o, u) \/ LoseStored(o, u) \/ Deliver(o, u)
             \/ LoseTokens(o, u) \/ SendPush(o, u) \/ LosePush(o, u)
             \/ RemoveStaleTokens(o, u)
             \/ \E c \in Copies : MarkAsRead(o, u, c) \/ DeleteNotification(o, u, c)
      PROVE  NoticesInv'
  <2>1. CASE CreateNotification(o, u)
    BY <2>1, CreateNoticeKeeps
  <2>2. CASE StoreNotice(o, u)
    BY <2>2, StoreNoticeKeeps
  <2>3. CASE Deliver(o, u)
    BY <2>3, DeliverKeeps
  <2>4. CASE LoseTokens(o, u)
    BY <2>4, LoseTokensKeeps
  <2>5. CASE SendPush(o, u)
    BY <2>5, SendPushKeeps
  <2>6. CASE LosePush(o, u)
    BY <2>6, LosePushKeeps
  <2>7. CASE RemoveStaleTokens(o, u)
    BY <2>7, RemoveStaleTokensKeeps
  <2>8. CASE \E c \in Copies : MarkAsRead(o, u, c) \/ DeleteNotification(o, u, c)
    BY <2>8, MarkAsReadKeeps
  <2>9. CASE TakeUp(o, u)
    BY <2>9, TakeUpKeeps
  <2>10. CASE LoseNotice(o, u)
    BY <2>10, LoseNoticeKeeps
  <2>11. CASE LoseStored(o, u)
    BY <2>11, LoseStoredKeeps
  <2> QED
    BY <1>4, <2>1, <2>2, <2>3, <2>4, <2>5, <2>6, <2>7, <2>8, <2>9, <2>10, <2>11
<1> QED
  BY <1>1, <1>2, <1>3, <1>4

LEMMA NoticesStep == NoticesInv /\ [NoticesNext]_noticesVars => NoticesInv'
<1> SUFFICES ASSUME NoticesInv, [NoticesNext]_noticesVars
             PROVE  NoticesInv'
  OBVIOUS
<1>1. CASE UNCHANGED noticesVars
  <2>1. /\ UNCHANGED <<viaQueue, dispatch, people, feed, due, pushed>>
        /\ notice' = notice /\ notice \in [Occasions -> [Readers -> [Copies -> Rows]]]
    BY <1>1, InvTyped DEF noticesVars, people, feed, NoticesTyped
  <2> QED
    BY <2>1, RowsStay
<1>2. ASSUME NEW o \in Occasions,
           \/ \E users \in SUBSET Readers : Broadcast(o, users)
           \/ ReadAllTokens(o) \/ LoseAllTokens(o) \/ Age(o)
           \/ \E u \in Readers :
                  \/ CreateNotification(o, u) \/ TakeUp(o, u) \/ StoreNotice(o, u)
                  \/ LoseNotice(o, u) \/ LoseStored(o, u) \/ Deliver(o, u)
                  \/ LoseTokens(o, u) \/ SendPush(o, u) \/ LosePush(o, u)
                  \/ RemoveStaleTokens(o, u)
                  \/ \E c \in Copies : MarkAsRead(o, u, c) \/ DeleteNotification(o, u, c)
      PROVE  NoticesInv'
  BY <1>2, OneNoticeKeeps
<1>3. ASSUME NEW a \in Announcements, NEW published \in BOOLEAN,
             CreateAnnouncement(a, published)
      PROVE  NoticesInv'
  BY <1>3, CreateAnnouncementKeeps
<1>4. ASSUME NEW a \in Announcements, NEW published \in BOOLEAN,
             UpdateAnnouncement(a, published)
      PROVE  NoticesInv'
  BY <1>4, UpdateAnnouncementKeeps
<1>5. ASSUME NEW a \in Announcements, DeleteAnnouncement(a)
      PROVE  NoticesInv'
  <2>1. TRUE \in BOOLEAN
    OBVIOUS
  <2> QED
    BY <1>5, <2>1, UpdateAnnouncementKeeps
<1>6. ASSUME NEW a \in Announcements, BroadcastToEnrolledStudents(a) \/ LoseBroadcast(a)
      PROVE  NoticesInv'
  BY <1>6, BroadcastToEnrolledKeeps, LoseBroadcastKeeps
<1>7. ASSUME NEW u \in Readers,
             \/ Enroll(u) \/ EndEnrollment(u)
             \/ HandleConnect(u) \/ HandleClose(u) \/ MarkAllAsRead(u)
             \/ \E d \in Devices : SaveDeviceToken(u, d) \/ RemoveDeviceToken(u, d)
      PROVE  NoticesInv'
  <2>1. CASE Enroll(u) \/ EndEnrollment(u)
    BY <2>1, EnrollKeeps
  <2>2. CASE HandleConnect(u)
    BY <2>2, HandleConnectKeeps
  <2>3. CASE HandleClose(u)
    BY <2>3, HandleCloseKeeps
  <2>4. CASE MarkAllAsRead(u)
    BY <2>4, MarkAllAsReadKeeps
  <2>5. CASE \E d \in Devices : SaveDeviceToken(u, d) \/ RemoveDeviceToken(u, d)
    BY <2>5, SaveTokenKeeps, RemoveTokenKeeps
  <2> QED
    BY <1>7, <2>1, <2>2, <2>3, <2>4, <2>5
<1>8. ASSUME NEW d \in Devices, Unregister(d)
      PROVE  NoticesInv'
  BY <1>8, UnregisterKeeps
<1>9. CASE CleanupOldNotifications
  BY <1>9, CleanupKeeps
<1>10. CASE NoticesCrash
  BY <1>10, NoticesCrashKeeps
<1> QED
  BY <1>1, <1>2, <1>3, <1>4, <1>5, <1>6, <1>7, <1>8, <1>9, <1>10 DEF NoticesNext

LEMMA NoticesAlways == NoticesSpec => []NoticesInv
BY NoticesInitially, NoticesStep, PTL DEF NoticesSpec

\* Every variable keeps its type; nothing is pushed or removed before a row of
\* the notice is stored.
THEOREM NoticesTypes == NoticesSpec => []NoticesTypeOK
<1>1. NoticesInv => NoticesTypeOK
  BY DEF NoticesInv
<1> QED
  BY <1>1, NoticesAlways, PTL

LEMMA NoticesInvSound ==
    NoticesInv => RepeatedOnlyByLapses /\ AbsentAreReached /\ WhoMayReadWasTold
<1> SUFFICES ASSUME NoticesInv
             PROVE  RepeatedOnlyByLapses /\ AbsentAreReached /\ WhoMayReadWasTold
  OBVIOUS
<1>1. RepeatedOnlyByLapses
  <2> SUFFICES ASSUME NEW o \in Occasions, NEW u \in Readers
               PROVE  Cardinality(Stored(o, u)) <= 1 + dispatch[o][u].lapses
    BY DEF RepeatedOnlyByLapses
  <2>1. PICK n \in Nat : Stored(o, u) = 1..n /\ Fits(dispatch[o][u], n)
    BY DEF NoticesInv, NoticeOK, Accounted
  <2>2. Cardinality(1..n) = n
    <3>1. n \in Int /\ 1 \in Int
      OBVIOUS
    <3>2. Cardinality(1..n) = IF 1 > n THEN 0 ELSE n - 1 + 1
      BY <3>1, FS_Interval
    <3> QED
      BY <3>2
  <2> QED
    BY <2>1, <2>2 DEF Fits
<1>2. AbsentAreReached
  BY DEF NoticesInv, NoticeOK, Reaches, AbsentAreReached
<1>3. WhoMayReadWasTold
  <2> SUFFICES ASSUME NEW a \in Announcements, NEW u \in active,
                      announcement[a] = "published", <<a, u>> \notin excused,
                      a \notin announcing
               PROVE  \/ dispatch[a][u].at \in {"waiting", "starting"}
                      \/ Stored(a, u) # {} \/ GivenUp(dispatch[a][u])
    BY DEF WhoMayReadWasTold, AtStep
  <2>1. u \in Readers /\ a \in Occasions /\ dispatch[a][u] \in Dispatches
    BY InvTyped DEF NoticesTyped, Occasions
  <2>2. dispatch[a][u].at # "none"
    BY <2>1 DEF NoticesInv, ToldOrExcused, AtStep
  <2>3. PICK n \in Nat : Stored(a, u) = 1..n /\ Fits(dispatch[a][u], n)
    BY <2>1 DEF NoticesInv, NoticeOK, Accounted
  <2>4. dispatch[a][u].at \in Steps
    BY <2>1, DispatchFields
  <2>5. \/ dispatch[a][u].at \in {"waiting", "starting"}
        \/ n >= 1 \/ GivenUp(dispatch[a][u])
    BY <2>2, <2>3, <2>4 DEF Fits, Steps
  <2>6. n >= 1 => 1 \in 1..n
    OBVIOUS
  <2> QED
    BY <2>3, <2>5, <2>6
<1> QED
  BY <1>1, <1>2, <1>3

\* Only the user, or a push that found it unregistered, removes a token.
LEMMA TokenRemoved ==
    ASSUME NoticesInv, [NoticesNext]_noticesVars,
           NEW u \in Readers, NEW d \in Devices, <<u, d>> \in token, <<u, d>> \notin token'
    PROVE  d \in gone \/ RemoveDeviceToken(u, d)
<1> DEFINE Stay == token \subseteq token'
<1>11. ASSUME NEW o \in Occasions, NEW users \in SUBSET Readers, Broadcast(o, users)
       PROVE  Stay
  <2>1. UNCHANGED people
    BY <1>11, Zenon DEF Broadcast
  <2> QED
    BY <2>1 DEF people
<1>12. ASSUME NEW o \in Occasions, ReadAllTokens(o) \/ LoseAllTokens(o) \/ Age(o)
       PROVE  Stay
  BY <1>12 DEF ReadAllTokens, LoseAllTokens, Age, people
<1>13. ASSUME NEW o \in Occasions, NEW v \in Readers,
              \/ CreateNotification(o, v) \/ TakeUp(o, v) \/ StoreNotice(o, v)
              \/ LoseNotice(o, v) \/ LoseStored(o, v) \/ Deliver(o, v)
              \/ LoseTokens(o, v) \/ SendPush(o, v) \/ LosePush(o, v)
              \/ \E c \in Copies : MarkAsRead(o, v, c) \/ DeleteNotification(o, v, c)
       PROVE  Stay
  BY <1>13 DEF CreateNotification, TakeUp, StoreNotice, LoseNotice, LoseStored, Deliver,
               LoseTokens, SendPush, LosePush, MarkAsRead, DeleteNotification, people
<1>14. ASSUME NEW a \in Announcements,
              \/ \E published \in BOOLEAN :
                     CreateAnnouncement(a, published) \/ UpdateAnnouncement(a, published)
              \/ BroadcastToEnrolledStudents(a) \/ LoseBroadcast(a) \/ DeleteAnnouncement(a)
       PROVE  Stay
  BY <1>14 DEF CreateAnnouncement, UpdateAnnouncement, BroadcastToEnrolledStudents,
               LoseBroadcast, DeleteAnnouncement, people
<1>15. ASSUME NEW v \in Readers,
              \/ Enroll(v) \/ EndEnrollment(v)
              \/ HandleConnect(v) \/ HandleClose(v) \/ MarkAllAsRead(v)
              \/ \E e \in Devices : SaveDeviceToken(v, e)
       PROVE  Stay
  BY <1>15 DEF Enroll, EndEnrollment, HandleConnect, HandleClose, MarkAllAsRead,
               SaveDeviceToken, people
<1>16. ASSUME \/ \E e \in Devices : Unregister(e)
              \/ CleanupOldNotifications \/ NoticesCrash \/ UNCHANGED noticesVars
       PROVE  Stay
  BY <1>16 DEF Unregister, CleanupOldNotifications, NoticesCrash, noticesVars, people
<1>17. ~ Stay
  OBVIOUS
<1> HIDE DEF Stay
<1>1. \/ \E o \in Occasions, v \in Readers : RemoveStaleTokens(o, v)
      \/ \E v \in Readers, e \in Devices : RemoveDeviceToken(v, e)
  BY <1>11, <1>12, <1>13, <1>14, <1>15, <1>16, <1>17 DEF NoticesNext
<1>2. ASSUME NEW o \in Occasions, NEW v \in Readers, RemoveStaleTokens(o, v)
      PROVE  d \in gone
  <2>1. d \in dispatch[o][v].known
    BY <1>2 DEF RemoveStaleTokens, StaleTokens
  <2>2. dispatch[o][v].known \subseteq gone
    BY <1>2 DEF RemoveStaleTokens, NoticesInv, NoticeOK, Reaches
  <2> QED
    BY <2>1, <2>2
<1>3. ASSUME NEW v \in Readers, NEW e \in Devices, RemoveDeviceToken(v, e)
      PROVE  RemoveDeviceToken(u, d)
  <2>1. v = u /\ e = d
    BY <1>3 DEF RemoveDeviceToken
  <2> QED
    BY <1>3, <2>1
<1> QED
  BY <1>1, <1>2, <1>3

\* A notice is told to everyone it is meant for, once, on all their devices:
\* stored again only after a lapse, pushed to every device that was due it,
\* whatever came between; and no token that works is removed but by its user.
THEOREM NoticesSound == NoticesSpec => NoticesArrive
<1> DEFINE TokensKept == \A u \in Readers, d \in Devices :
                      <<u, d>> \in token /\ <<u, d>> \notin token' =>
                          d \in gone \/ RemoveDeviceToken(u, d)
<1>1. NoticesInv /\ [NoticesNext]_noticesVars => [TokensKept]_noticesVars
  BY TokenRemoved
<1>2. NoticesSpec => [][TokensKept]_noticesVars
  BY <1>1, NoticesAlways, PTL DEF NoticesSpec
<1>3. NoticesSpec => WorkingTokensStay
  BY <1>2 DEF WorkingTokensStay
<1>4. NoticesSpec => [](RepeatedOnlyByLapses /\ AbsentAreReached /\ WhoMayReadWasTold)
  BY NoticesAlways, NoticesInvSound, PTL
<1> QED
  BY <1>3, <1>4 DEF NoticesArrive

-----------------------------------------------------------------------------
(***************************************************************************)
(* All together                                                            *)
(***************************************************************************)


\* The modules share no variable: a behaviour of MCCommunity is one of each of
\* them, and what is proved of each holds of the whole.
THEOREM CommunityTogether ==
    Spec => /\ ChatSpec /\ NoticesSpec /\ QuizSpec /\ ReviewsSpec
            /\ CouponsSpec /\ SlotsSpec /\ CurriculumSpec
<1>1. Init => /\ ChatInit /\ NoticesInit /\ QuizInit /\ ReviewsInit
              /\ CouponsInit /\ SlotsInit /\ CurriculumInit
  BY DEF Init
<1>2. [Next]_vars => /\ [ChatNext]_chatVars /\ [NoticesNext]_noticesVars
                     /\ [QuizNext]_quizVars /\ [ReviewsNext]_reviewVars
                     /\ [CouponsNext]_couponVars /\ [SlotsNext]_slotsVars
                     /\ [CurriculumNext]_curriculumVars
  BY DEF Next, vars, ChatMoves, NoticesMove, QuizMoves
<1> QED
  BY <1>1, <1>2, PTL DEF Spec, ChatSpec, NoticesSpec, QuizSpec, ReviewsSpec,
     CouponsSpec, SlotsSpec, CurriculumSpec

\* Every variable of the seven modules keeps its type.
THEOREM CommunityTypes == Spec => []TypeOK
BY CommunityTogether, ChatTypes, NoticesTypes, QuizTypes, ReviewsTypes,
   CouponsTypes, SlotsTypes, CurriculumTypes, PTL DEF TypeOK
================================================================================
