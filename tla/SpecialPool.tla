----------------------------- MODULE SpecialPool -----------------------------
(***************************************************************************)
(* The specials of a Salmon Run shift (source/CoopSpecialDbg.cpp): the     *)
(* game hands out the first entries of a pool, and the hook shuffles the   *)
(* pool in place before it does.  The consoles of a team run the same      *)
(* shift with the same random numbers but have other shifts behind them.   *)
(***************************************************************************)
EXTENDS Integers, SequencesExt

CONSTANTS Consoles,
          Loaded,     \* the pool as the game loads it: [0 .. -> entries]
          Stored,     \* the count the game keeps of it, "specials per shift"
          MaxScan,    \* MAX_SCAN
          SnapSize,   \* the size of sOriginalPool
          Words,      \* 2^32, the number of values getU32 can return
          NoShift     \* no shift yet

PoolSize == Cardinality(DOMAIN Loaded)

SmallerOf(a, b) == IF a < b THEN a ELSE b
LargerOf(a, b) == IF a < b THEN b ELSE a

(* scanPoolSize stops at the first entry that is none, or after MaxScan.   *)
scanned == SmallerOf(PoolSize, MaxScan)
n == SmallerOf(LargerOf(scanned, Stored), SnapSize)

VARIABLES pool,           \* RuleConfig + 0x160, per console
          sOriginalPool,  \* the first order seen, per console
          sPoolSaved,
          shift           \* history: the random numbers of the last shift

poolVars == <<pool, sOriginalPool, sPoolSaved, shift>>

Snapped == 0 .. (n - 1)
Entries == {Loaded[i] : i \in DOMAIN Loaded}
Snapshot(p) == [i \in Snapped |-> p[i]]

(* One random word for every i from n - 1 down to 1. *)
Draws == [1 .. (n - 1) -> 0 .. (Words - 1)]

ASSUME PoolAssumption ==
    /\ PoolSize \in Nat /\ Loaded \in [0 .. (PoolSize - 1) -> Entries]
    /\ Stored \in Nat /\ MaxScan \in Nat /\ SnapSize \in Nat /\ Words \in Nat \ {0}
    /\ Stored <= PoolSize
    /\ IsInjective(Loaded)
    /\ NoShift \notin Draws

(* From the back, each place with one not behind it. *)
Swaps(draws) ==
    [k \in 1 .. (n - 1) |-> [i |-> n - k, j |-> (draws[n - k] * (n - k + 1)) \div Words]]

Swapped(p, s) == [p EXCEPT ![s.i] = p[s.j], ![s.j] = p[s.i]]

(* Fisher-Yates; nothing is shuffled for four or fewer.  No entry outside  *)
(* the first n is read or written.                                         *)
Shuffle(p, draws) ==
    IF n <= 4 THEN p
    ELSE FoldLeft(Swapped, p, Swaps(draws))

(* The shuffle starts from what the last one left. *)
RestoredNothing(original, p) == Snapshot(p)

(* The front of the pool before a shuffle. *)
Restored(original, p) == original

Over(front, p) == [i \in DOMAIN p |-> IF i \in Snapped THEN front[i] ELSE p[i]]

coopSpecialShufflerHook(c, draws) ==
    LET original == IF sPoolSaved[c] THEN sOriginalPool[c] ELSE Snapshot(pool[c])
    IN  /\ pool' = [pool EXCEPT ![c] = Over(Shuffle(Restored(original, @), draws), @)]
        /\ sOriginalPool' = [sOriginalPool EXCEPT ![c] = original]
        /\ sPoolSaved' = [sPoolSaved EXCEPT ![c] = n > 0]
        /\ shift' = [shift EXCEPT ![c] = draws]

(* The game is started again: the pool is loaded, the statics are empty;   *)
(* sOriginalPool is not read before it is filled.                          *)
Restart(c) ==
    /\ pool' = [pool EXCEPT ![c] = Loaded]
    /\ sOriginalPool' = [sOriginalPool EXCEPT ![c] = Snapshot(Loaded)]
    /\ sPoolSaved' = [sPoolSaved EXCEPT ![c] = FALSE]
    /\ shift' = [shift EXCEPT ![c] = NoShift]

PoolInit ==
    /\ pool = [c \in Consoles |-> Loaded]
    /\ sOriginalPool = [c \in Consoles |-> Snapshot(Loaded)]
    /\ sPoolSaved = [c \in Consoles |-> FALSE]
    /\ shift = [c \in Consoles |-> NoShift]

PoolNext ==
    \E c \in Consoles :
        Restart(c) \/ \E draws \in Draws : coopSpecialShufflerHook(c, draws)

PoolSpec == PoolInit /\ [][PoolNext]_poolVars

-----------------------------------------------------------------------------
(* The pool stays a permutation of the loaded one, so that the picks are   *)
(* different entries of it.                                                *)
PoolTypeOK ==
    /\ pool \in [Consoles -> [DOMAIN Loaded -> Entries]]
    /\ \A c \in Consoles : IsInjective(pool[c])
    /\ sOriginalPool \in [Consoles -> [Snapped -> Entries]]
    /\ sPoolSaved \in [Consoles -> BOOLEAN]
    /\ shift \in [Consoles -> Draws \cup {NoShift}]

(* The entries the game hands out. *)
Picks(c) == [i \in 0 .. (Stored - 1) |-> pool[c][i]]

(* Consoles that ran their last shift with the same random numbers hand    *)
(* out the same specials, whatever either has played before: "the output   *)
(* is purely a function of the rng state" (source/CoopSpecialDbg.cpp:49).  *)
SameShiftSamePicks ==
    \A c, d \in Consoles : shift[c] = shift[d] => Picks(c) = Picks(d)
=============================================================================
