-------------------------- MODULE MapRosterProofs ---------------------------
(***************************************************************************)
(* For any number of slots and any maps, the guess about the layout does   *)
(* no harm to a map whose id is not 0: no map is ever in the list twice    *)
(* and the hook implements the bounded set of PrivateStages.  Map 0 is the *)
(* one map the guess can lose, as the run over it shows; where no map has  *)
(* that id, no call loses any.                                             *)
(***************************************************************************)
EXTENDS MapRoster, TLAPS, FiniteSetTheorems, WellFoundedInduction

NoMapZero == 0 \notin MapIds

(* No id is in two slots. *)
Distinct(b) == \A j, k \in NewSlots : b[j] = b[k] /\ b[j] # kU16Sentinel => j = k

(* A block of 16-bit slots. *)
Packed(b) == b \in [NewSlots -> MapIds \cup {kU16Sentinel}] /\ Distinct(b)

(* A block of 32-bit slots. *)
Vanilla(b) ==
    /\ \A i \in OldSlots : \/ Low(b, i) = kU16Sentinel /\ High(b, i) = kU16Sentinel
                           \/ Low(b, i) \in MapIds /\ High(b, i) = 0
    /\ \A i, j \in OldSlots : Low(b, i) = Low(b, j) /\ Low(b, i) # kU16Sentinel => i = j

(* The shape of the block follows from whether the hook has run.           *)
IInv == TypeOK /\ IF installed THEN Packed(body) ELSE Vanilla(body)

-----------------------------------------------------------------------------
(* Slot numbers: both halves of an old slot are slots of the block, and    *)
(* every slot of the block is such a half.                                 *)
LEMMA SlotNumbers ==
    /\ OldSlotCount \in Nat /\ OldSlotCount > 0 /\ kNewSlotCount \in Nat
    /\ \A i \in OldSlots : i \in Nat /\ 2 * i \in NewSlots /\ 2 * i + 1 \in NewSlots
    /\ \A k \in NewSlots : k \in Nat
    /\ OldSlots \subseteq NewSlots
    /\ kU16Sentinel \notin MapIds
<1>1. OldSlotCount \in Nat /\ OldSlotCount > 0
      BY MapAssumption
<1>2. kNewSlotCount \in Nat /\ kNewSlotCount = OldSlotCount + OldSlotCount
      BY <1>1 DEF kNewSlotCount
<1>3. \A k \in NewSlots : k \in Nat
      BY <1>2 DEF NewSlots
<1>4. ASSUME NEW i \in OldSlots
      PROVE  i \in Nat /\ i \in NewSlots /\ 2 * i \in NewSlots /\ 2 * i + 1 \in NewSlots
  <2>1. i \in Nat /\ i + 1 <= OldSlotCount
        BY <1>1 DEF OldSlots
  <2>2. 2 * i = i + i
        BY <2>1
  <2> QED BY <2>1, <2>2, <1>1, <1>2 DEF NewSlots
<1>5. kU16Sentinel \notin MapIds
      BY MapAssumption DEF kU16Sentinel
<1> QED BY <1>1, <1>2, <1>3, <1>4, <1>5

(* The cursor of the migration stays inside the block and gives no slot    *)
(* of the new layout to two live slots of the old one.                     *)
LEMMA CursorInjective ==
    ASSUME NEW b
    PROVE  /\ \A i \in Live(b) : cursor(b, i) \in NewSlots
           /\ \A i, j \in Live(b) : cursor(b, i) = cursor(b, j) => i = j
<1> DEFINE Before(i) == {l \in Live(b) : l < i}
<1>1. ASSUME NEW i \in Live(b)
      PROVE  IsFiniteSet(Before(i)) /\ cursor(b, i) \in Nat /\ cursor(b, i) <= i
  <2>1. i \in Nat /\ Before(i) \subseteq 0 .. (i - 1)
        BY SlotNumbers DEF Live, OldSlots
  <2>2. IsFiniteSet(0 .. (i - 1)) /\ Cardinality(0 .. (i - 1)) = i
        BY <2>1, FS_Interval
  <2>3. IsFiniteSet(Before(i)) /\ Cardinality(Before(i)) <= i
        BY <2>1, <2>2, FS_Subset
  <2>4. Cardinality(Before(i)) \in Nat
        BY <2>3, FS_CardinalityType
  <2> QED BY <2>3, <2>4 DEF cursor
<1>2. ASSUME NEW i \in Live(b), NEW j \in Live(b), i < j
      PROVE  cursor(b, i) # cursor(b, j)
  <2>1. i \in Nat /\ j \in Nat
        BY SlotNumbers DEF Live
  <2>2. \A l \in Live(b) : l \in Nat
        BY SlotNumbers DEF Live
  <2>3. Before(i) \subseteq Before(j)
    <3>1. ASSUME NEW l \in Live(b), l < i PROVE l < j
      <4>1. l \in Nat
            BY <2>2
      <4> QED BY <1>2, <2>1, <3>1, <4>1
    <3> QED BY <3>1
  <2>4. i \in Before(j) /\ i \notin Before(i)
        BY <1>2, <2>1
  <2>5. IsFiniteSet(Before(j))
        BY <1>1
  <2>6. Cardinality(Before(j)) = Cardinality(Before(i)) => Before(j) = Before(i)
        BY <2>3, <2>5, FS_Subset
  <2> QED BY <2>4, <2>6 DEF cursor
<1>3. \A i \in Live(b) : i \in OldSlots /\ i \in Nat
      BY SlotNumbers DEF Live
<1>4. ASSUME NEW i \in Live(b) PROVE cursor(b, i) \in NewSlots
  <2>1. cursor(b, i) \in Nat /\ cursor(b, i) <= i
        BY <1>1
  <2>2. i \in Nat /\ i \in 0 .. (kNewSlotCount - 1) /\ kNewSlotCount \in Nat
        BY SlotNumbers DEF Live, NewSlots
  <2> QED BY <2>1, <2>2 DEF NewSlots
<1>5. ASSUME NEW i \in Live(b), NEW j \in Live(b), cursor(b, i) = cursor(b, j)
      PROVE  i = j
      BY <1>2, <1>3, <1>5
<1> QED BY <1>4, <1>5

(* What the migration writes: the live slots at their cursors, sentinels   *)
(* everywhere else.                                                        *)
LEMMA Migrated ==
    ASSUME NEW b
    PROVE  /\ \A i \in Live(b) : migrateU32ToU16(b)[cursor(b, i)] = Low(b, i)
           /\ \A k \in NewSlots :
                \/ migrateU32ToU16(b)[k] = kU16Sentinel
                \/ \E i \in Live(b) : cursor(b, i) = k /\ migrateU32ToU16(b)[k] = Low(b, i)
<1>1. ASSUME NEW i \in Live(b) PROVE migrateU32ToU16(b)[cursor(b, i)] = Low(b, i)
  <2> DEFINE c == CHOOSE j \in Live(b) : cursor(b, j) = cursor(b, i)
  <2>1. c \in Live(b) /\ cursor(b, c) = cursor(b, i)
        OBVIOUS
  <2>2. c = i
        BY <2>1, CursorInjective
  <2>3. cursor(b, i) \in NewSlots
        BY CursorInjective
  <2> QED BY <2>2, <2>3 DEF migrateU32ToU16
<1>2. ASSUME NEW k \in NewSlots, \A i \in Live(b) : cursor(b, i) # k
      PROVE  migrateU32ToU16(b)[k] = kU16Sentinel
      BY <1>2 DEF migrateU32ToU16
<1> QED BY <1>1, <1>2

(* The migration makes a 16-bit block of any block whose live slots hold   *)
(* distinct ids, some perhaps with an empty low half, and it keeps the list.*)
LEMMA MigrationKeeps ==
    ASSUME NEW b,
           \A i \in Live(b) : Low(b, i) \in MapIds \cup {kU16Sentinel},
           \A i, j \in Live(b) :
             Low(b, i) = Low(b, j) /\ Low(b, i) # kU16Sentinel => i = j
    PROVE  /\ Packed(migrateU32ToU16(b))
           /\ Listed(migrateU32ToU16(b)) = OldListed(b) \ {kU16Sentinel}
<1> DEFINE n == migrateU32ToU16(b)
<1>1. \A k \in NewSlots : \/ n[k] = kU16Sentinel
                          \/ \E i \in Live(b) : cursor(b, i) = k /\ n[k] = Low(b, i)
      BY Migrated
<1>2. \A i \in Live(b) : n[cursor(b, i)] = Low(b, i) /\ cursor(b, i) \in NewSlots
      BY Migrated, CursorInjective
<1>3. n \in [NewSlots -> MapIds \cup {kU16Sentinel}]
  <2>1. n = [k \in NewSlots |-> n[k]]
        BY DEF migrateU32ToU16
  <2>2. \A k \in NewSlots : n[k] \in MapIds \cup {kU16Sentinel}
        BY <1>1
  <2> HIDE DEF n
  <2> QED BY <2>1, <2>2
<1> HIDE DEF n
<1>4. Distinct(n)
      BY <1>1 DEF Distinct
<1>5. Listed(n) = OldListed(b) \ {kU16Sentinel}
  <2>1. ASSUME NEW x \in Listed(n) PROVE x \in OldListed(b) \ {kU16Sentinel}
        BY <1>1 DEF Listed, OldListed
  <2>2. ASSUME NEW x \in OldListed(b) \ {kU16Sentinel} PROVE x \in Listed(n)
        BY <1>2 DEF Listed, OldListed
  <2> QED BY <2>1, <2>2
<1>6. n = migrateU32ToU16(b)
      BY DEF n
<1> QED BY <1>3, <1>4, <1>5, <1>6 DEF Packed

(* A 16-bit block that is taken for a 32-bit one has nothing but map 0 and *)
(* empty slots in its odd places.  Its even places keep their maps, so     *)
(* that only a map 0 is lost.                                              *)
LEMMA MigratedAgain ==
    ASSUME Packed(body), isOldU32Format(body)
    PROVE  /\ Packed(migrateU32ToU16(body))
           /\ \E lost \in SUBSET (MapIds \cap {0}) :
                Listed(migrateU32ToU16(body)) = Listed(body) \ lost
<1>1. \A k \in NewSlots : body[k] \in MapIds \cup {kU16Sentinel}
      BY DEF Packed
<1>2. ASSUME NEW i \in OldSlots
      PROVE  /\ Low(body, i) \in MapIds \cup {kU16Sentinel}
             /\ Low(body, i) = body[2 * i] /\ 2 * i \in NewSlots
             /\ High(body, i) \in (MapIds \cap {0}) \cup {kU16Sentinel}
             /\ i \in Nat
      BY <1>1, SlotNumbers DEF Low, High, isOldU32Format
<1>3. \A i, j \in Live(body) :
        Low(body, i) = Low(body, j) /\ Low(body, i) # kU16Sentinel => i = j
  <2> SUFFICES ASSUME NEW i \in Live(body), NEW j \in Live(body),
                      Low(body, i) = Low(body, j), Low(body, i) # kU16Sentinel
               PROVE  i = j
      OBVIOUS
  <2>1. i \in OldSlots /\ j \in OldSlots
        BY DEF Live
  <2>2. 2 * i = 2 * j
        BY <1>2, <2>1 DEF Packed, Distinct
  <2> QED BY <1>2, <2>1, <2>2
<1>4. /\ Packed(migrateU32ToU16(body))
      /\ Listed(migrateU32ToU16(body)) = OldListed(body) \ {kU16Sentinel}
      BY <1>2, <1>3, MigrationKeeps DEF Live
<1>5. OldListed(body) \ {kU16Sentinel} \subseteq Listed(body)
      BY <1>2 DEF OldListed, Live, Listed
<1>6. ASSUME NEW x \in Listed(body), x \notin MapIds \cap {0}
      PROVE  x \in OldListed(body) \ {kU16Sentinel}
  <2>1. PICK k \in NewSlots : x = body[k] /\ x # kU16Sentinel
        BY DEF Listed
  <2>2. PICK i \in OldSlots : k = 2 * i \/ k = 2 * i + 1
    <3>1. k \div 2 \in OldSlots /\ (k = 2 * (k \div 2) \/ k = 2 * (k \div 2) + 1)
          BY MapAssumption DEF NewSlots, OldSlots, kNewSlotCount
    <3> QED BY <3>1
  <2>3. x = Low(body, i)
        BY <1>2, <1>6, <2>1, <2>2 DEF Low, High
  <2>4. i \in Live(body)
        BY <2>1, <2>3 DEF Live
  <2> QED BY <2>1, <2>3, <2>4 DEF OldListed
<1> DEFINE lost == Listed(body) \ (OldListed(body) \ {kU16Sentinel})
<1>7. lost \in SUBSET (MapIds \cap {0})
      BY <1>6
<1>8. Listed(migrateU32ToU16(body)) = Listed(body) \ lost
      BY <1>4, <1>5
<1> QED BY <1>4, <1>7, <1>8

(* Whatever layout the block is in, the hook goes on with a 16-bit block   *)
(* that lists the same maps, but perhaps without map 0.                    *)
LEMMA MigrateIfNeededKeeps ==
    ASSUME IInv
    PROVE  /\ Packed(migrateIfNeeded(body))
           /\ \E lost \in SUBSET (MapIds \cap {0}) :
                Listed(migrateIfNeeded(body)) = Roster \ lost
<1>1. CASE installed
  <2>1. Packed(body) /\ Roster = Listed(body)
        BY <1>1 DEF IInv, Roster
  <2>2. CASE ~isOldU32Format(body)
    <3>1. {} \in SUBSET (MapIds \cap {0}) /\ Roster = Roster \ {}
          OBVIOUS
    <3> QED BY <2>1, <2>2, <3>1 DEF migrateIfNeeded
  <2>3. CASE isOldU32Format(body)
        BY <2>1, <2>3, MigratedAgain DEF migrateIfNeeded
  <2> QED BY <2>2, <2>3
<1>2. CASE ~installed
  <2>1. Vanilla(body) /\ Roster = OldListed(body)
        BY <1>2 DEF IInv, Roster
  <2>2. isOldU32Format(body)
        BY <2>1 DEF Vanilla, isOldU32Format
  <2>3. \A i \in Live(body) : Low(body, i) \in MapIds
        BY <2>1 DEF Vanilla, Live
  <2>4. \A i, j \in Live(body) :
          Low(body, i) = Low(body, j) /\ Low(body, i) # kU16Sentinel => i = j
        BY <2>1 DEF Vanilla, Live
  <2>5. /\ Packed(migrateIfNeeded(body))
        /\ Listed(migrateIfNeeded(body)) = OldListed(body) \ {kU16Sentinel}
        BY <2>2, <2>3, <2>4, MigrationKeeps DEF migrateIfNeeded
  <2>6. OldListed(body) \ {kU16Sentinel} = Roster \ {}
        BY <2>1, <2>3, SlotNumbers DEF OldListed
  <2>7. {} \in SUBSET (MapIds \cap {0})
        OBVIOUS
  <2> QED BY <2>5, <2>6, <2>7
<1> QED BY <1>1, <1>2

-----------------------------------------------------------------------------
(* The searches of the hook find the first slot that holds a value.        *)
LEMMA FirstSlotFound ==
    ASSUME NEW b, NEW value, Has(b, value)
    PROVE  FirstSlot(b, value) \in NewSlots /\ b[FirstSlot(b, value)] = value
<1> DEFINE Found(k) == b[k] = value /\ \A j \in NewSlots : b[j] = value => k <= j
<1>1. \E k \in NewSlots : Found(k)
  <2> DEFINE M == {k \in NewSlots : b[k] = value}
             R == OpToRel(<, Nat)
  <2>1. M \subseteq Nat /\ M # {}
        BY SlotNumbers DEF Has
  <2>2. IsWellFoundedOn(R, Nat)
        BY NatLessThanWellFounded
  <2>3. \A x, y \in Nat : <<y, x>> \in R <=> y < x
        BY DEF OpToRel
  <2> HIDE DEF R, M
  <2>4. PICK k \in M : \A j \in M : ~(<<j, k>> \in R)
        BY <2>1, <2>2, WFMin
  <2>5. ASSUME NEW j \in M PROVE k <= j
    <3>1. j \in Nat /\ k \in Nat
          BY <2>1
    <3>2. ~(j < k)
          BY <2>3, <2>4, <3>1
    <3> QED BY <3>1, <3>2
  <2> QED BY <2>4, <2>5 DEF M
<1>2. Found(CHOOSE k \in NewSlots : Found(k)) /\ (CHOOSE k \in NewSlots : Found(k)) \in NewSlots
      BY <1>1
<1> QED BY <1>2 DEF FirstSlot

(* A 16-bit block without a free slot lists as many maps as it has slots.  *)
LEMMA FullBlock ==
    ASSUME NEW b, Packed(b), ~Has(b, kU16Sentinel)
    PROVE  Cardinality(Listed(b)) = kNewSlotCount
<1>1. \A k \in NewSlots : b[k] \in Listed(b)
      BY DEF Has, Listed
<1>2. b \in [NewSlots -> Listed(b)]
  <2>1. b = [k \in NewSlots |-> b[k]]
        BY DEF Packed
  <2> QED BY <1>1, <2>1
<1>3. \A j, k \in NewSlots : b[j] = b[k] => j = k
      BY DEF Packed, Distinct, Has
<1>4. \A x \in Listed(b) : \E k \in NewSlots : b[k] = x
      BY DEF Listed
<1>5. b \in Bijection(NewSlots, Listed(b))
  <2>1. b \in Injection(NewSlots, Listed(b))
        BY <1>2, <1>3 DEF Injection, IsInjective
  <2>2. b \in Surjection(NewSlots, Listed(b))
        BY <1>2, <1>4 DEF Surjection
  <2> QED BY <2>1, <2>2 DEF Bijection
<1>6. IsFiniteSet(NewSlots) /\ Cardinality(NewSlots) = kNewSlotCount
  <2>1. kNewSlotCount \in Nat
        BY SlotNumbers
  <2>2. IsFiniteSet(0 .. (kNewSlotCount - 1))
        /\ Cardinality(0 .. (kNewSlotCount - 1)) = IF 0 > kNewSlotCount - 1 THEN 0
                                                   ELSE (kNewSlotCount - 1) - 0 + 1
        BY <2>1, FS_Interval
  <2> QED BY <2>1, <2>2 DEF NewSlots
<1>7. ExistsBijection(NewSlots, Listed(b))
      BY <1>5 DEF ExistsBijection
<1> QED BY <1>6, <1>7, FS_Bijection

(* Adding a map to a 16-bit block leaves a 16-bit block; the list gains    *)
(* the map, or stays as it was because the block is full.                  *)
LEMMA AddKeeps ==
    ASSUME NEW b, Packed(b), NEW m \in MapIds
    PROVE  /\ Packed(add(b, m))
           /\ \/ Listed(add(b, m)) = Listed(b) \cup {m}
              \/ Listed(add(b, m)) = Listed(b) /\ Cardinality(Listed(b)) = kNewSlotCount
<1>1. CASE Has(b, m)
  <2>1. add(b, m) = b
        BY <1>1 DEF add
  <2>2. m \in Listed(b)
        BY <1>1, SlotNumbers DEF Has, Listed
  <2> QED BY <2>1, <2>2
<1>2. CASE ~Has(b, m) /\ ~Has(b, kU16Sentinel)
  <2>1. add(b, m) = b
        BY <1>2 DEF add
  <2> QED BY <2>1, <1>2, FullBlock
<1>3. CASE ~Has(b, m) /\ Has(b, kU16Sentinel)
  <2> DEFINE f == FirstSlot(b, kU16Sentinel)
             n == add(b, m)
  <2>1. f \in NewSlots /\ b[f] = kU16Sentinel
        BY <1>3, FirstSlotFound
  <2>2. n = [b EXCEPT ![f] = m]
        BY <1>3 DEF add
  <2>3. b \in [NewSlots -> MapIds \cup {kU16Sentinel}] /\ Distinct(b)
        BY DEF Packed
  <2> HIDE DEF f, n
  <2>4. n \in [NewSlots -> MapIds \cup {kU16Sentinel}]
        BY <2>1, <2>2, <2>3
  <2>5. n[f] = m /\ \A k \in NewSlots : k # f => n[k] = b[k]
        BY <2>1, <2>2, <2>3
  <2>6. \A k \in NewSlots : b[k] # m
        BY <1>3 DEF Has
  <2>7. Distinct(n)
        BY <2>3, <2>5, <2>6 DEF Distinct
  <2>8. Listed(n) = Listed(b) \cup {m}
    <3>1. ASSUME NEW x \in Listed(n) PROVE x \in Listed(b) \cup {m}
          BY <2>5 DEF Listed
    <3>2. ASSUME NEW x \in Listed(b) PROVE x \in Listed(n)
      <4>1. PICK k \in NewSlots : b[k] = x /\ x # kU16Sentinel
            BY DEF Listed
      <4>2. k # f
            BY <4>1, <2>1
      <4> QED BY <4>1, <4>2, <2>5 DEF Listed
    <3>3. m \in Listed(n)
          BY <2>1, <2>5, SlotNumbers DEF Listed
    <3> QED BY <3>1, <3>2, <3>3
  <2> QED BY <2>4, <2>7, <2>8 DEF n, Packed
<1> QED BY <1>1, <1>2, <1>3

(* Removing a map from a 16-bit block leaves a 16-bit block without it.    *)
LEMMA RemoveKeeps ==
    ASSUME NEW b, Packed(b), NEW m \in MapIds
    PROVE  Packed(remove(b, m)) /\ Listed(remove(b, m)) = Listed(b) \ {m}
<1>1. CASE ~Has(b, m)
  <2>1. remove(b, m) = b /\ m \notin Listed(b)
        BY <1>1 DEF remove, Has, Listed
  <2> QED BY <2>1
<1>2. CASE Has(b, m)
  <2> DEFINE f == FirstSlot(b, m)
             n == remove(b, m)
  <2>1. f \in NewSlots /\ b[f] = m
        BY <1>2, FirstSlotFound
  <2>2. n = [b EXCEPT ![f] = kU16Sentinel]
        BY <1>2 DEF remove
  <2>3. b \in [NewSlots -> MapIds \cup {kU16Sentinel}] /\ Distinct(b)
        BY DEF Packed
  <2> HIDE DEF f, n
  <2>4. n \in [NewSlots -> MapIds \cup {kU16Sentinel}]
        BY <2>1, <2>2, <2>3
  <2>5. n[f] = kU16Sentinel /\ \A k \in NewSlots : k # f => n[k] = b[k]
        BY <2>1, <2>2, <2>3
  <2>6. \A k \in NewSlots : b[k] = m => k = f
        BY <2>1, <2>3, SlotNumbers DEF Distinct
  <2>7. Distinct(n)
        BY <2>3, <2>5 DEF Distinct
  <2>8. Listed(n) = Listed(b) \ {m}
    <3>1. ASSUME NEW x \in Listed(n) PROVE x \in Listed(b) \ {m}
      <4>1. PICK k \in NewSlots : n[k] = x /\ x # kU16Sentinel
            BY DEF Listed
      <4>2. k # f /\ b[k] = x
            BY <4>1, <2>5
      <4> QED BY <4>1, <4>2, <2>6 DEF Listed
    <3>2. ASSUME NEW x \in Listed(b) \ {m} PROVE x \in Listed(n)
      <4>1. PICK k \in NewSlots : b[k] = x /\ x # kU16Sentinel
            BY DEF Listed
      <4>2. k # f
            BY <4>1, <2>1
      <4> QED BY <4>1, <4>2, <2>5 DEF Listed
    <3> QED BY <3>1, <3>2
  <2> QED BY <2>4, <2>7, <2>8 DEF n, Packed
<1> QED BY <1>1, <1>2

-----------------------------------------------------------------------------
(* A save file of the unmodified game has the 32-bit shape.                *)
LEMMA InitInvariant == Init => IInv
<1> SUFFICES ASSUME Init PROVE IInv
    OBVIOUS
<1>1. installed = FALSE
      BY DEF Init
<1>2. PICK f \in [OldSlots -> MapIds \cup {kU16Sentinel}] :
        /\ \A i, j \in OldSlots : f[i] = f[j] /\ f[i] # kU16Sentinel => i = j
        /\ body = [k \in NewSlots |->
                     IF k % 2 = 0 \/ f[k \div 2] = kU16Sentinel
                     THEN f[k \div 2] ELSE 0]
      BY DEF Init
<1>3. ASSUME NEW i \in OldSlots
      PROVE  /\ Low(body, i) = f[i]
             /\ High(body, i) = IF f[i] = kU16Sentinel THEN f[i] ELSE 0
  <2>1. 2 * i \in NewSlots /\ 2 * i + 1 \in NewSlots /\ i \in Nat
        BY SlotNumbers
  <2>2. (2 * i) % 2 = 0 /\ (2 * i + 1) % 2 = 1 /\ (2 * i) \div 2 = i /\ (2 * i + 1) \div 2 = i
        BY <2>1
  <2> QED BY <1>2, <2>1, <2>2 DEF Low, High
<1>4. Vanilla(body)
      BY <1>2, <1>3 DEF Vanilla
<1>5. body \in [NewSlots -> Half]
  <2>1. \A k \in NewSlots : k \div 2 \in OldSlots
        BY MapAssumption DEF NewSlots, OldSlots, kNewSlotCount
  <2>2. ASSUME NEW k \in NewSlots
        PROVE  (IF k % 2 = 0 \/ f[k \div 2] = kU16Sentinel
                THEN f[k \div 2] ELSE 0) \in Half
        BY <1>2, <2>1 DEF Half
  <2> QED BY <1>2, <2>2
<1> QED BY <1>1, <1>4, <1>5 DEF IInv, TypeOK

(* A block full of sentinels has both shapes and lists nothing.            *)
LEMMA ResetKeeps ==
    ASSUME IInv, reset
    PROVE  IInv' /\ Roster' = {}
<1>1. body' = [k \in NewSlots |-> kU16Sentinel] /\ installed' = installed
      BY DEF reset
<1>2. \A i \in OldSlots : Low(body', i) = kU16Sentinel /\ High(body', i) = kU16Sentinel
      BY <1>1, SlotNumbers DEF Low, High
<1>3. TypeOK'
      BY <1>1 DEF IInv, TypeOK, Half
<1>4. Packed(body') /\ Listed(body') = {}
      BY <1>1 DEF Packed, Distinct, Listed
<1>5. Vanilla(body') /\ OldListed(body') = {}
  <2>1. Vanilla(body')
        BY <1>2 DEF Vanilla
  <2>2. Live(body') = {}
        BY <1>2 DEF Live
  <2> QED BY <2>1, <2>2 DEF OldListed
<1> QED BY <1>3, <1>4, <1>5 DEF IInv, Roster

(* A call of the hook keeps the shape and is a step of the bounded set.    *)
LEMMA CallKeeps ==
    ASSUME IInv, NEW m \in MapIds, NEW haveValue \in BOOLEAN,
           setHavePrivateStage(m, haveValue)
    PROVE  IInv' /\ (Stages!Add(m) \/ Stages!Remove(m))
<1> DEFINE b == migrateIfNeeded(body)
<1>1. Packed(b) /\ \E lost \in SUBSET (MapIds \cap {0}) : Listed(b) = Roster \ lost
      BY MigrateIfNeededKeeps
<1>a. PICK lost \in SUBSET (MapIds \cap {0}) : Listed(b) = Roster \ lost
      BY <1>1
<1>2. installed' = TRUE /\ body' = IF haveValue THEN add(b, m) ELSE remove(b, m)
      BY DEF setHavePrivateStage
<1> HIDE DEF b
<1>3. ASSUME Packed(body') PROVE IInv'
  <2>1. body' \in [NewSlots -> Half]
        BY <1>3 DEF Packed, Half
  <2> QED BY <1>2, <1>3, <2>1 DEF IInv, TypeOK
<1>4. Roster' = Listed(body')
      BY <1>2 DEF Roster
<1>5. CASE haveValue
  <2>1. body' = add(b, m)
        BY <1>2, <1>5
  <2>2. Packed(body')
        BY <1>1, <2>1, AddKeeps
  <2>3. LET kept == Roster \ lost
        IN  \/ Roster' = kept \cup {m}
            \/ Roster' = kept /\ Cardinality(kept) = kNewSlotCount
        BY <1>1, <1>a, <1>4, <2>1, AddKeeps
  <2>4. kNewSlotCount >= kNewSlotCount
        BY SlotNumbers
  <2>5. Stages!Add(m)
        BY <2>3, <2>4 DEF Stages!Add, Stages!Cardinality, Cardinality
  <2> QED BY <1>3, <2>2, <2>5
<1>6. CASE ~haveValue
  <2>1. body' = remove(b, m)
        BY <1>2, <1>6
  <2>2. Packed(body') /\ Roster' = (Roster \ lost) \ {m}
        BY <1>1, <1>a, <1>4, <2>1, RemoveKeeps
  <2> QED BY <1>3, <2>2 DEF Stages!Remove
<1> QED BY <1>5, <1>6

(* A step keeps the shape, and it is a step of the bounded set or changes  *)
(* nothing that the set shows.                                             *)
LEMMA StepKeeps ==
    ASSUME IInv, [Next]_vars
    PROVE  IInv' /\ [Stages!Next]_Roster
<1>1. ASSUME NEW m \in MapIds, NEW haveValue \in BOOLEAN,
             setHavePrivateStage(m, haveValue)
      PROVE  IInv' /\ [Stages!Next]_Roster
      BY <1>1, CallKeeps DEF Stages!Next
<1>2. ASSUME UNCHANGED vars PROVE IInv' /\ [Stages!Next]_Roster
  <2>1. body' = body /\ installed' = installed
        BY <1>2 DEF vars
  <2>2. IInv' /\ Roster' = Roster
        BY <2>1 DEF IInv, TypeOK, Packed, Distinct, Vanilla, Low, High, Roster,
                    Listed, OldListed, Live
  <2> QED BY <2>2
<1>3. ASSUME NEW m \in (MapIds \cup UnknownIds), NEW haveValue \in BOOLEAN,
             setHavePrivateStage(m, haveValue), m \notin MapIds
      PROVE  IInv' /\ [Stages!Next]_Roster
      BY <1>2, <1>3 DEF setHavePrivateStage
<1>4. CASE reset
      BY <1>4, ResetKeeps DEF Stages!Next, Stages!Reset
<1> QED BY <1>1, <1>2, <1>3, <1>4 DEF Next

(* The list only ever holds maps the game knows.                           *)
LEMMA RosterOfMaps == IInv => Roster \subseteq MapIds
<1> SUFFICES ASSUME IInv PROVE Roster \subseteq MapIds
    OBVIOUS
<1>1. CASE installed
      BY <1>1 DEF IInv, Packed, Roster, Listed
<1>2. CASE ~installed
      BY <1>2 DEF IInv, Vanilla, Roster, OldListed, Live
<1> QED BY <1>1, <1>2

-----------------------------------------------------------------------------
(* The shape of the block is an invariant of the hook                      *)
(* (source/SaveDataLocalMapList.cpp:180-235).                              *)
THEOREM Invariance == Spec => []IInv
<1>1. Init => IInv
      BY InitInvariant
<1>2. IInv /\ [Next]_vars => IInv'
      BY StepKeeps
<1> QED BY <1>1, <1>2, PTL DEF Spec

(* The block keeps its length and nothing is written past it.              *)
THEOREM TypeCorrect == Spec => []TypeOK
<1>1. IInv => TypeOK
      BY DEF IInv
<1> QED BY <1>1, Invariance, PTL

(* However many slots there are, no map is in the block twice, so that     *)
(* removing the first copy (source/SaveDataLocalMapList.cpp:223-232)       *)
(* removes the map.                                                        *)
THEOREM NeverTwice == Spec => []NoDuplicates
<1>1. IInv => NoDuplicates
      BY DEF IInv, Packed, Distinct, NoDuplicates
<1> QED BY <1>1, Invariance, PTL

(* The hook implements a bounded set of maps, whichever layout the block   *)
(* is in when a call finds it and however the guess goes: no map but map 0 *)
(* is lost by a call about another, and map 0 stays lost or comes back by  *)
(* a call of its own.                                                      *)
THEOREM Refinement == Spec => ImplementsPrivateStages
<1>1. Init => Stages!Init
      BY InitInvariant, RosterOfMaps DEF Stages!Init, Stages!TypeOK
<1>2. IInv /\ [Next]_vars => [Stages!Next]_Roster
      BY StepKeeps
<1> QED BY <1>1, <1>2, Invariance, PTL DEF Spec, ImplementsPrivateStages, Stages!Spec

(* A call leaves every other map in the list and brings none in, in a      *)
(* block of either layout (source/SaveDataLocalMapList.cpp:180-235).  With *)
(* a map 0 it does not.                                                    *)
THEOREM OthersKept == ASSUME NoMapZero PROVE Spec => RosterKept
<1> DEFINE Call(m) == setHavePrivateStage(m, TRUE) \/ setHavePrivateStage(m, FALSE)
<1>1. ASSUME IInv, NEW m \in MapIds, Call(m) PROVE Roster' \ {m} = Roster \ {m}
  <2>1. Stages!Add(m) \/ Stages!Remove(m)
        BY <1>1, CallKeeps
  <2>2. \A lost \in SUBSET (MapIds \cap {0}) : Roster \ lost = Roster
        BY DEF NoMapZero
  <2> QED BY <2>1, <2>2 DEF Stages!Add, Stages!Remove
<1>2. IInv => [\A m \in MapIds : Call(m) => Roster' \ {m} = Roster \ {m}]_vars
      BY <1>1
<1> QED BY <1>2, Invariance, PTL DEF RosterKept
=============================================================================
