----------------------------- MODULE MapRoster ------------------------------
(***************************************************************************)
(* The map list of local private matches in the save file                  *)
(* (source/SaveDataLocalMapList.cpp): a block of memory that the game       *)
(* wrote as OldSlotCount 32-bit slots and the mod reads as twice as many   *)
(* 16-bit slots.  Every call first guesses from the contents which of the  *)
(* two layouts it sees.                                                    *)
(***************************************************************************)
EXTENDS Integers, FiniteSets

CONSTANTS OldSlotCount,   \* kOldSlotCount, 64 in the code
          MapIds,         \* the ids MushMapInfo::search finds
          UnknownIds      \* ids it does not find

kU16Sentinel == 65535

ASSUME MapAssumption ==
    /\ OldSlotCount \in Nat \ {0}
    /\ \A m \in MapIds : m \in Nat /\ m < kU16Sentinel

VARIABLES body,       \* the block, halfword by halfword
          installed   \* history: the hook has seen the block before

vars == <<body, installed>>

kNewSlotCount == 2 * OldSlotCount
OldSlots == 0 .. (OldSlotCount - 1)
NewSlots == 0 .. (kNewSlotCount - 1)
Half == MapIds \cup {0, kU16Sentinel}

(* The two halves of old slot i; the block is little-endian. *)
Low(b, i) == b[2 * i]
High(b, i) == b[2 * i + 1]

-----------------------------------------------------------------------------
isOldU32Format(b) == \A i \in OldSlots : High(b, i) \in {0, kU16Sentinel}

(* The old slots that do not read 0xFFFFFFFF. *)
Live(b) == {i \in OldSlots : ~(Low(b, i) = kU16Sentinel /\ High(b, i) = kU16Sentinel)}

(* The cursor when the loop comes to slot i. *)
cursor(b, i) == Cardinality({j \in Live(b) : j < i})

(* Both halves are carried over, as if the block were new already. *)
migrateBothHalves(b) == b

(* The low halves of the live slots, packed to the front. *)
migrateU32ToU16(b) ==
    [k \in NewSlots |->
       IF \E i \in Live(b) : cursor(b, i) = k
       THEN Low(b, CHOOSE i \in Live(b) : cursor(b, i) = k)
       ELSE kU16Sentinel]

migrateIfNeeded(b) == IF isOldU32Format(b) THEN migrateU32ToU16(b) ELSE b

FirstSlot(b, value) ==
    CHOOSE k \in NewSlots : b[k] = value /\ \A j \in NewSlots : b[j] = value => k <= j

Has(b, value) == \E k \in NewSlots : b[k] = value

(* The search for the id is left out. *)
addAgain(b, m) ==
    IF Has(b, kU16Sentinel)
    THEN [b EXCEPT ![FirstSlot(b, kU16Sentinel)] = m]
    ELSE b

(* The last loop runs one slot too far. *)
addPastEnd(b, m) ==
    IF Has(b, m) THEN b
    ELSE IF Has(b, kU16Sentinel)
    THEN [b EXCEPT ![FirstSlot(b, kU16Sentinel)] = m]
    ELSE [k \in 0 .. kNewSlotCount |-> IF k = kNewSlotCount THEN m ELSE b[k]]

add(b, m) ==
    IF ~Has(b, m) /\ Has(b, kU16Sentinel)
    THEN [b EXCEPT ![FirstSlot(b, kU16Sentinel)] = m]
    ELSE b

remove(b, m) ==
    IF Has(b, m) THEN [b EXCEPT ![FirstSlot(b, m)] = kU16Sentinel] ELSE b

-----------------------------------------------------------------------------
(* A save file of the unmodified game: every slot empty or one map, with   *)
(* no map twice.                                                           *)
Init ==
    /\ installed = FALSE
    /\ \E f \in [OldSlots -> MapIds \cup {kU16Sentinel}] :
         /\ \A i, j \in OldSlots : f[i] = f[j] /\ f[i] # kU16Sentinel => i = j
         /\ body = [k \in NewSlots |->
                      IF k % 2 = 0 \/ f[k \div 2] = kU16Sentinel
                      THEN f[k \div 2] ELSE 0]

(* saveDataLocalSetHavePrivateStageHook *)
setHavePrivateStage(m, haveValue) ==
    IF m \in MapIds
    THEN /\ installed' = TRUE
         /\ body' = IF haveValue THEN add(migrateIfNeeded(body), m)
                    ELSE remove(migrateIfNeeded(body), m)
    ELSE UNCHANGED vars

(* Cmn::SaveDataLocal::reset fills the block with 0xFF. *)
reset ==
    /\ body' = [k \in NewSlots |-> kU16Sentinel]
    /\ UNCHANGED installed

Next ==
    \/ \E m \in MapIds \cup UnknownIds, haveValue \in BOOLEAN :
         setHavePrivateStage(m, haveValue)
    \/ reset

Spec == Init /\ [][Next]_vars

-----------------------------------------------------------------------------
(* The block is 2 * OldSlotCount halfwords and nothing is written past it. *)
TypeOK == body \in [NewSlots -> Half] /\ installed \in BOOLEAN

(* What the patched reader, makeStageList, lists of a 16-bit block, and    *)
(* what the unmodified game listed.                                        *)
Listed(b) == {b[k] : k \in NewSlots} \ {kU16Sentinel}
OldListed(b) == {Low(b, i) : i \in Live(b)}

Roster == IF installed THEN Listed(body) ELSE OldListed(body)

(* No map is in the block twice: the hook removes one copy only.           *)
NoDuplicates ==
    installed => \A j, k \in NewSlots :
                   body[j] = body[k] /\ body[j] # kU16Sentinel => j = k

(* A call concerns its own map and leaves every other map in the list,     *)
(* whichever layout the block was taken for: "we explicitly preserve"      *)
(* mapId 0 and the migration "only does work the first time after install" *)
(* (source/SaveDataLocalMapList.cpp:129, 199).                             *)
RosterKept ==
    [][\A m \in MapIds : setHavePrivateStage(m, TRUE) \/ setHavePrivateStage(m, FALSE)
         => Roster' \ {m} = Roster \ {m}]_vars

(* The hook implements a bounded set of maps, from which only map 0 may be *)
(* lost by a call about another: no other map ever is, in a block of       *)
(* either layout and with or without a map 0 beside it.                    *)
Stages == INSTANCE PrivateStages WITH
            Stages <- MapIds, Capacity <- kNewSlotCount,
            Shaky <- MapIds \cap {0}, have <- Roster
ImplementsPrivateStages == Stages!Spec
=============================================================================
