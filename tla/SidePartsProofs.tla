--------------------------- MODULE SidePartsProofs --------------------------
(***************************************************************************)
(* The parts of module SideParts, for any sizes, and all of them together. *)
(*                                                                         *)
(* Music.  The list is made again in every match, so the argument is about *)
(* the place of the tune that plays: what was heard in this round lies     *)
(* before it in the list of the stored seed, and all that lies before it   *)
(* was heard, if the round was begun at the top.                           *)
(*                                                                         *)
(* King squids.  A ball in use was given to a king, and no two of them to  *)
(* the same one, also while they wait for the end of the frame to fall     *)
(* asleep; a king who asks for a ball has none, so one of the balls, which *)
(* are as many as the kings, sleeps.                                       *)
(*                                                                         *)
(* Salmon Run.  A pool is what the random numbers of the last shift make   *)
(* of the loaded one, and that is an arrangement of the loaded one.        *)
(***************************************************************************)
EXTENDS SideParts, MapRosterProofs, SequenceTheorems

-----------------------------------------------------------------------------
(* Music. *)
(* What bgmfuncthign returns for the tunes S. *)
Order(L, S) ==
    /\ L \in Seq(S)
    /\ \A t \in S : \E i \in 1 .. Len(L) : L[i] = t
    /\ \A i, j \in 1 .. Len(L) : L[i] = L[j] => i = j

InList(L, t) == \E i \in 1 .. Len(L) : L[i] = t

(* nextIdx, by the list and the tune it depends on *)
Follower(L, t) ==
    IF InList(L, t) THEN 1 + CHOOSE i \in 1 .. Len(L) : L[i] = t ELSE 2

Walked(L, t, h) == \A u \in h : \E j \in 1 .. Len(L) : j < Follower(L, t) /\ L[j] = u
AllWalked(L, t, h) ==
    /\ InList(L, t)
    /\ \A j \in 1 .. Len(L) : j < Follower(L, t) => L[j] \in h

MusicInv ==
    /\ BgmTypeOK
    /\ heard \subseteq selection
    /\ seed = NoSeed => heard \subseteq {curBgm} /\ ~whole
    /\ seed # NoSeed =>
         /\ Walked(List(seed), curBgm, heard)
         /\ whole => AllWalked(List(seed), curBgm, heard)

-----------------------------------------------------------------------------
LEMMA ListsAreOrders ==
    ASSUME NEW s \in Seeds, NEW S \in Selections
    PROVE  Order(Shuffled[s][S], S)
  BY BgmAssumption DEF Order

LEMMA FollowerOf ==
    ASSUME NEW S, NEW L, Order(L, S), NEW t
    PROVE  /\ Len(L) \in Nat
           /\ Follower(L, t) \in Nat /\ Follower(L, t) >= 2
           /\ InList(L, t) => /\ Follower(L, t) - 1 \in 1 .. Len(L)
                              /\ L[Follower(L, t) - 1] = t
           /\ \A i \in 1 .. Len(L) : L[i] = t => Follower(L, t) = i + 1
           /\ t \in S => InList(L, t)
           /\ \A i \in 1 .. Len(L) : L[i] \in S
<1>1. Len(L) \in Nat /\ \A i \in 1 .. Len(L) : L[i] \in S
      BY DEF Order
<1>2. CASE InList(L, t)
  <2> DEFINE c == CHOOSE i \in 1 .. Len(L) : L[i] = t
  <2>1. c \in 1 .. Len(L) /\ L[c] = t
        BY <1>2 DEF InList
  <2>2. Follower(L, t) = 1 + c
        BY <1>2 DEF Follower
  <2> HIDE DEF c
  <2>3. \A i \in 1 .. Len(L) : L[i] = t => i = c
        BY <2>1 DEF Order
  <2> QED BY <1>1, <1>2, <2>1, <2>2, <2>3
<1>3. CASE ~InList(L, t)
  <2>1. Follower(L, t) = 2
        BY <1>3 DEF Follower
  <2>2. t \notin S
        BY <1>3 DEF InList, Order
  <2> QED BY <1>1, <1>3, <2>1, <2>2 DEF InList
<1> QED BY <1>2, <1>3

LEMMA NextIdx ==
    ASSUME NEW s
    PROVE  nextIdx(s) = Follower(List(s), curBgm)
  BY DEF nextIdx, Follower, InList

(* The tune after the one that plays was not heard, and is another one.    *)
LEMMA WalkOn ==
    ASSUME NEW S, NEW L, Order(L, S), NEW t, NEW h, NEW u,
           Walked(L, t, h), Follower(L, t) <= Len(L), u = L[Follower(L, t)]
    PROVE  /\ u \in S \ h /\ u # t
           /\ Walked(L, u, h \cup {u})
           /\ AllWalked(L, t, h) => AllWalked(L, u, h \cup {u})
<1> DEFINE k == Follower(L, t)
<1>1. /\ Len(L) \in Nat /\ k \in Nat /\ k >= 2 /\ k \in 1 .. Len(L)
      /\ InList(L, t) => k - 1 \in 1 .. Len(L) /\ L[k - 1] = t
      /\ \A i \in 1 .. Len(L) : L[i] = t => k = i + 1
      BY FollowerOf
<1>2. u \in S
      BY <1>1, FollowerOf
<1>3. InList(L, u) /\ Follower(L, u) = k + 1
      BY <1>1, FollowerOf DEF InList
<1> HIDE DEF k
<1>4. u = L[k]
      BY DEF k
<1>5. u # t
  <2>1. SUFFICES ASSUME u = t PROVE FALSE
        OBVIOUS
  <2>2. k = k + 1
        BY <1>1, <1>4, <2>1
  <2> QED BY <1>1, <2>2
<1>6. \A v \in h : \E j \in 1 .. Len(L) : j < k /\ L[j] = v
      BY DEF Walked, k
<1>7. u \notin h
  <2>1. SUFFICES ASSUME u \in h PROVE FALSE
        OBVIOUS
  <2>2. PICK j \in 1 .. Len(L) : j < k /\ L[j] = u
        BY <1>6, <2>1
  <2>3. j = k
        BY <1>1, <1>4, <2>2 DEF Order
  <2> QED BY <1>1, <2>2, <2>3
<1>8. Walked(L, u, h \cup {u})
  <2>1. SUFFICES ASSUME NEW v \in h \cup {u}
                 PROVE  \E j \in 1 .. Len(L) : j < k + 1 /\ L[j] = v
        BY <1>3 DEF Walked
  <2>2. CASE v = u
        BY <1>1, <1>4, <2>2
  <2>3. CASE v \in h
    <3>1. PICK j \in 1 .. Len(L) : j < k /\ L[j] = v
          BY <1>6, <2>3
    <3>2. j < k + 1
          BY <1>1, <3>1
    <3> QED BY <3>1, <3>2
  <2> QED BY <2>1, <2>2, <2>3
<1>9. ASSUME AllWalked(L, t, h) PROVE AllWalked(L, u, h \cup {u})
  <2>1. SUFFICES ASSUME NEW j \in 1 .. Len(L), j < k + 1 PROVE L[j] \in h \cup {u}
        BY <1>3 DEF AllWalked
  <2>2. CASE j = k
        BY <1>4, <2>2
  <2>3. CASE j # k
    <3>1. j < k
          BY <1>1, <2>1, <2>3
    <3> QED BY <1>9, <3>1 DEF AllWalked, k
  <2> QED BY <2>2, <2>3
<1> QED BY <1>2, <1>5, <1>7, <1>8, <1>9

(* A list begun at the top. *)
LEMMA TopOfList ==
    ASSUME NEW S, S # {}, NEW L, Order(L, S)
    PROVE  /\ L[1] \in S /\ 1 \in 1 .. Len(L)
           /\ Walked(L, L[1], {L[1]}) /\ AllWalked(L, L[1], {L[1]})
           /\ Len(L) = 1 => S = {L[1]}
<1>1. PICK t \in S : TRUE
      OBVIOUS
<1>2. InList(L, t) /\ Len(L) \in Nat
      BY FollowerOf
<1>3. 1 \in 1 .. Len(L)
      BY <1>2 DEF InList
<1>4. L[1] \in S /\ Follower(L, L[1]) = 2 /\ InList(L, L[1])
      BY <1>3, FollowerOf DEF InList
<1>5. Walked(L, L[1], {L[1]})
      BY <1>3, <1>4 DEF Walked
<1>6. AllWalked(L, L[1], {L[1]})
      BY <1>2, <1>4 DEF AllWalked
<1>7. Len(L) = 1 => S = {L[1]}
      BY <1>4 DEF Order
<1> QED BY <1>3, <1>4, <1>5, <1>6, <1>7

(* The end of the list: a round begun at the top has heard everything.     *)
LEMMA EndOfList ==
    ASSUME NEW S, NEW L, Order(L, S), NEW t, NEW h, h \subseteq S,
           AllWalked(L, t, h), Follower(L, t) > Len(L)
    PROVE  h = S
<1>1. Len(L) \in Nat /\ Follower(L, t) \in Nat
      BY FollowerOf
<1>2. \A j \in 1 .. Len(L) : L[j] \in h
      BY <1>1 DEF AllWalked
<1>3. \A u \in S : u \in h
      BY <1>2 DEF Order
<1> QED BY <1>3

-----------------------------------------------------------------------------
(* What a match does, as a step of the playlist. *)
LEMMA WalkStep ==
    ASSUME MusicInv, NEW s \in SeedsNow, walk(s)
    PROVE  MusicInv' /\ Music!Next
<1>1. s \in Seeds /\ selection \in Selections /\ heard \subseteq selection
      BY DEF SeedsNow, MusicInv, BgmTypeOK
<1> DEFINE L == List(s)
<1>2. Order(L, selection)
      BY <1>1, ListsAreOrders DEF List
<1>3. /\ nextIdx(s) = Follower(L, curBgm) /\ Follower(L, curBgm) <= Len(L)
      /\ curBgm' = L[Follower(L, curBgm)]
      BY NextIdx DEF walk
<1>4. /\ seed' = s /\ heard' = heard \cup {curBgm'}
      /\ selection' = selection /\ whole' = whole
      BY DEF walk
<1>5. L' = L
      BY <1>4 DEF List
<1> HIDE DEF L
<1>6. Walked(L, curBgm, heard) /\ (whole => AllWalked(L, curBgm, heard))
  <2>1. CASE seed = NoSeed
    <3>1. heard \subseteq {curBgm} /\ ~whole
          BY <2>1 DEF MusicInv
    <3>2. ASSUME curBgm \in heard
          PROVE  \E j \in 1 .. Len(L) : j < Follower(L, curBgm) /\ L[j] = curBgm
      <4>1. InList(L, curBgm)
            BY <1>1, <1>2, <3>2, FollowerOf
      <4> DEFINE j == Follower(L, curBgm) - 1
      <4>2. j \in 1 .. Len(L) /\ j < Follower(L, curBgm) /\ L[j] = curBgm
            BY <1>2, <4>1, FollowerOf
      <4> QED BY <4>2
    <3> QED BY <3>1, <3>2 DEF Walked
  <2>2. CASE seed # NoSeed
        BY <2>2 DEF MusicInv, SeedsNow, L
  <2> QED BY <2>1, <2>2
<1>7. /\ curBgm' \in selection \ heard /\ curBgm' # curBgm
      /\ Walked(L, curBgm', heard')
      /\ whole => AllWalked(L, curBgm', heard')
  <2>1. /\ curBgm' \in selection \ heard /\ curBgm' # curBgm
        /\ Walked(L, curBgm', heard \cup {curBgm'})
        /\ AllWalked(L, curBgm, heard) => AllWalked(L, curBgm', heard \cup {curBgm'})
    <3>1. \A u : u = L[Follower(L, curBgm)] =>
            /\ u \in selection \ heard /\ u # curBgm
            /\ Walked(L, u, heard \cup {u})
            /\ AllWalked(L, curBgm, heard) => AllWalked(L, u, heard \cup {u})
          BY <1>2, <1>3, <1>6, WalkOn
    <3> QED BY <1>3, <3>1
  <2> QED BY <1>4, <1>6, <2>1
<1>8. selection \subseteq Tunes /\ s # NoSeed
      BY <1>1, BgmAssumption DEF Selections
<1>9. MusicInv'
  <2>1. BgmTypeOK'
        BY <1>1, <1>4, <1>7, <1>8 DEF MusicInv, BgmTypeOK
  <2>2. List(seed)' = L
        BY <1>4 DEF List, L
  <2> QED BY <1>1, <1>4, <1>7, <1>8, <2>1, <2>2 DEF MusicInv
<1>10. Music!Play(curBgm')
      BY <1>4, <1>7 DEF Music!Play, Music!Continue
<1> QED BY <1>7, <1>8, <1>9, <1>10 DEF Music!Next

LEMMA ReshuffleStep ==
    ASSUME MusicInv, NEW s \in SeedsNow, reshuffle(s)
    PROVE  MusicInv' /\ Music!Next
<1>1. s \in Seeds /\ selection \in Selections /\ heard \subseteq selection
      BY DEF SeedsNow, MusicInv, BgmTypeOK
<1>2. PICK drawn \in Seeds :
        /\ List(drawn)[1] # curBgm \/ Len(List(drawn)) = 1
        /\ curBgm' = List(drawn)[1]
        /\ seed' = drawn
      BY DEF reshuffle
<1>3. heard' = {curBgm'} /\ whole' = TRUE /\ selection' = selection
      BY DEF reshuffle
<1> DEFINE L == List(drawn)
<1>4. Order(L, selection) /\ Order(List(s), selection)
      BY <1>1, ListsAreOrders DEF List
<1>5. /\ L[1] \in selection /\ Walked(L, L[1], {L[1]}) /\ AllWalked(L, L[1], {L[1]})
      /\ Len(L) = 1 => selection = {L[1]}
      BY <1>1, <1>4, TopOfList DEF Selections
<1>6. whole => heard = selection
  <2>1. SUFFICES ASSUME whole PROVE heard = selection
        OBVIOUS
  <2>2. seed = s /\ AllWalked(List(s), curBgm, heard)
        BY <2>1 DEF MusicInv, SeedsNow
  <2>3. Follower(List(s), curBgm) > Len(List(s))
        BY NextIdx DEF reshuffle
  <2> QED BY <1>1, <1>4, <2>2, <2>3, EndOfList
<1>7. selection \subseteq Tunes /\ drawn # NoSeed
      BY <1>1, BgmAssumption DEF Selections
<1>8. List(seed)' = L
      BY <1>2, <1>3 DEF List
<1> HIDE DEF L
<1>9. curBgm' = L[1] /\ (L[1] # curBgm \/ Len(L) = 1)
      BY <1>2 DEF L
<1>10. MusicInv'
  <2>1. BgmTypeOK'
        BY <1>1, <1>2, <1>3, <1>5, <1>7, <1>9 DEF MusicInv, BgmTypeOK
  <2> QED BY <1>2, <1>3, <1>5, <1>7, <1>8, <1>9, <2>1 DEF MusicInv
<1>11. Music!Play(curBgm')
      BY <1>3, <1>5, <1>6, <1>9 DEF Music!Play, Music!BeginRound
<1> QED BY <1>5, <1>7, <1>9, <1>10, <1>11 DEF Music!Next

(* Another choice of tunes. *)
LEMMA SelectStep ==
    ASSUME MusicInv, NEW S \in Selections, selectBgm(S)
    PROVE  MusicInv' /\ Music!Next
<1>1. /\ selection' = S /\ heard' = {curBgm} \cap S /\ whole' = FALSE
      /\ curBgm' = curBgm /\ seed' = seed
      BY DEF selectBgm
<1>2. BgmTypeOK' /\ heard' \subseteq selection'
      BY <1>1 DEF MusicInv, BgmTypeOK, Selections
<1>3. ASSUME seed # NoSeed
      PROVE  Walked(List(seed), curBgm, heard)'
  <2> DEFINE L == Shuffled[seed][S]
  <2>1. List(seed)' = L
        BY <1>1 DEF List
  <2>2. seed \in Seeds
        BY <1>3 DEF MusicInv, BgmTypeOK
  <2>3. Order(L, S)
        BY <2>2, ListsAreOrders
  <2> HIDE DEF L
  <2>4. ASSUME curBgm \in S
        PROVE  \E j \in 1 .. Len(L) : j < Follower(L, curBgm) /\ L[j] = curBgm
    <3>1. InList(L, curBgm)
          BY <2>3, <2>4, FollowerOf
    <3> DEFINE j == Follower(L, curBgm) - 1
    <3>2. j \in 1 .. Len(L) /\ j < Follower(L, curBgm) /\ L[j] = curBgm
          BY <2>3, <3>1, FollowerOf
    <3> QED BY <3>2
  <2>5. Walked(L, curBgm, {curBgm} \cap S)
        BY <2>4 DEF Walked
  <2> QED BY <1>1, <2>1, <2>5
<1>4. MusicInv'
      BY <1>1, <1>2, <1>3 DEF MusicInv
<1>5. Music!Choose(S)
      BY <1>1 DEF Music!Choose, Selections
<1>6. S \in SUBSET Tunes
      BY DEF Selections
<1> QED BY <1>4, <1>5, <1>6 DEF Music!Next

(* What was heard of the chosen tunes is what the list of the stored seed  *)
(* has before the tune that plays (BgmExtend.cpp:105-185).                 *)
THEOREM MusicInvariance == BgmSpec => []MusicInv
<1>1. BgmInit => MusicInv
      BY DEF BgmInit, MusicInv, BgmTypeOK, Selections
<1>2. MusicInv /\ [BgmNext]_bgmVars => MusicInv'
  <2>1. ASSUME MusicInv, BgmNext PROVE MusicInv'
        BY <2>1, WalkStep, ReshuffleStep, SelectStep DEF BgmNext, choiceBgmHook
  <2>2. ASSUME MusicInv, UNCHANGED bgmVars PROVE MusicInv'
        BY <2>2 DEF bgmVars, MusicInv, BgmTypeOK, List
  <2> QED BY <2>1, <2>2
<1> QED BY <1>1, <1>2, PTL DEF BgmSpec

(* The walk plays the tunes as the shuffled playlist of module Playlist,   *)
(* whatever the choice and the stored words were before (BgmExtend.cpp     *)
(* 105-185).                                                               *)
THEOREM MusicRefines == BgmSpec => ImplementsPlaylist
<1>1. BgmInit => Music!Init
      BY DEF BgmInit, Selections, Music!Init
<1>2. MusicInv /\ [BgmNext]_bgmVars =>
        [Music!Next]_<<selection, curBgm, heard, whole>>
  <2>1. ASSUME MusicInv, BgmNext PROVE Music!Next
        BY <2>1, WalkStep, ReshuffleStep, SelectStep DEF BgmNext, choiceBgmHook
  <2>2. ASSUME UNCHANGED bgmVars
        PROVE  UNCHANGED <<selection, curBgm, heard, whole>>
        BY <2>2 DEF bgmVars
  <2> QED BY <2>1, <2>2
<1> QED BY <1>1, <1>2, MusicInvariance, PTL DEF BgmSpec, ImplementsPlaylist, Music!Spec

-----------------------------------------------------------------------------
(* King squids. *)
InUse == {b \in Balls : balls[b].state # "asleep"}

(* A ball that waits to sleep was given up in this frame. *)
LeavingInv ==
    \A b \in Balls : balls[b].state = "leaving" =>
      balls[b].sender \in ran /\ king[balls[b].sender].mBullet = NoBall

OnePerKing ==
    \A b, c \in InUse : balls[b].sender = balls[c].sender => b = c

NoSceneInv == kingScene = "none" => InUse = {}

(* What a king was last seen to do. *)
RushInv ==
    \A p \in Kings :
      /\ king[p].airborne = king[p].mAerialFrm
      /\ king[p].mIsRush => king[p].body = "king" /\ king[p].mAerialFrm > RushFrames

KingInv ==
    /\ KingTypeOK /\ RushInv /\ BallHasOneOwner
    /\ LeavingInv /\ OnePerKing /\ NoSceneInv

-----------------------------------------------------------------------------
(* A king without a ball, whose turn it is, finds one asleep.              *)
LEMMA OneIsFree ==
    ASSUME KingInv, NEW p \in Kings, p \notin ran, king[p].mBullet = NoBall,
           kingScene # "none", Balls # {}
    PROVE  Free # {}
<1>1. SUFFICES ASSUME Free = {} PROVE FALSE
      OBVIOUS
<1>2. InUse = Balls
      BY <1>1 DEF Free, InUse
<1> DEFINE Others == Kings \ {p}
<1> DEFINE f == [b \in Balls |-> balls[b].sender]
<1>3. \A b \in Balls : balls[b].sender \in Others
  <2>1. TAKE b \in Balls
  <2>2. balls[b] \in Ball
        BY DEF KingInv, KingTypeOK
  <2>3. CASE balls[b].state = "awake"
        BY <2>2, <2>3, KingAssumption DEF KingInv, BallHasOneOwner, Ball
  <2>4. CASE balls[b].state = "leaving"
        BY <2>2, <2>4 DEF KingInv, LeavingInv, Ball
  <2> QED BY <1>2, <2>2, <2>3, <2>4 DEF InUse, Ball
<1>4. IsFiniteSet(Kings) /\ IsFiniteSet(Balls)
      /\ Cardinality(Balls) >= Cardinality(Kings)
      BY KingAssumption
<1>5. /\ IsFiniteSet(Others) /\ Cardinality(Others) = Cardinality(Kings) - 1
      /\ Cardinality(Kings) \in Nat /\ Cardinality(Balls) \in Nat
      BY <1>4, FS_RemoveElement, FS_CardinalityType
<1>6. Cardinality(Others) < Cardinality(Balls)
      BY <1>4, <1>5
<1>7. f \in [Balls -> Others]
      BY <1>3
<1> HIDE DEF f, Others
<1>8. \E b, c \in Balls : b # c /\ f[b] = f[c]
      BY <1>4, <1>5, <1>6, <1>7, FS_PigeonHole
<1> QED BY <1>2, <1>8 DEF f, KingInv, OnePerKing

LEMMA Counted ==
    ASSUME NEW k \in King, NEW rush \in BOOLEAN,
           NEW frm \in 0 .. AirCap, NEW air \in 0 .. AirCap
    PROVE  [k EXCEPT !.mIsRush = rush, !.mAerialFrm = frm, !.airborne = air] \in King
<1> DEFINE q == [k EXCEPT !.mIsRush = rush]
           r == [q EXCEPT !.mAerialFrm = frm]
<1>1. q \in King
      BY DEF King
<1> HIDE DEF q
<1>2. r \in King
      BY <1>1 DEF King
<1> HIDE DEF r
<1>3. [r EXCEPT !.airborne = air] \in King
      BY <1>2 DEF King
<1>4. [r EXCEPT !.airborne = air]
        = [k EXCEPT !.mIsRush = rush, !.mAerialFrm = frm, !.airborne = air]
      BY DEF King, q, r
<1> QED BY <1>3, <1>4

LEMMA KingRecords ==
    ASSUME NEW k \in King
    PROVE  /\ Reset(k) \in King /\ AfterFrame(k) \in King
           /\ \A b \in Balls \cup {NoBall} : [k EXCEPT !.mBullet = b] \in King
           /\ \A f \in {"squid", "king"} : [k EXCEPT !.body = f] \in King
<1>1. AirCap \in Nat /\ RushFrames \in Nat
      BY KingAssumption
<1>2. CapAir(k.mAerialFrm + 1) \in 0 .. AirCap /\ CapAir(k.airborne + 1) \in 0 .. AirCap
      BY <1>1 DEF CapAir, King
<1>3. AfterFrame(k) \in King
  <2> DEFINE frm == IF k.aerial THEN CapAir(k.mAerialFrm + 1) ELSE 0
             air == IF k.aerial THEN CapAir(k.airborne + 1) ELSE 0
             rush == frm > RushFrames
  <2>1. frm \in 0 .. AirCap /\ air \in 0 .. AirCap /\ rush \in BOOLEAN
        BY <1>1, <1>2
  <2>2. AfterFrame(k) = [k EXCEPT !.mIsRush = rush, !.mAerialFrm = frm, !.airborne = air]
        BY DEF AfterFrame, King
  <2>3. \A x \in BOOLEAN, y, z \in 0 .. AirCap :
          [k EXCEPT !.mIsRush = x, !.mAerialFrm = y, !.airborne = z] \in King
        BY Counted
  <2> HIDE DEF frm, air, rush
  <2> QED BY <2>1, <2>2, <2>3, Zenon
<1>4. Reset(k) \in King
  <2>1. 0 \in 0 .. AirCap
        BY <1>1
  <2>2. [k EXCEPT !.mIsRush = FALSE, !.mAerialFrm = 0, !.airborne = 0] \in King
        BY <2>1, Counted
  <2> QED BY <2>2 DEF Reset
<1>5. /\ \A b \in Balls \cup {NoBall} : [k EXCEPT !.mBullet = b] \in King
      /\ \A f \in {"squid", "king"} : [k EXCEPT !.body = f] \in King
      BY DEF King
<1> QED BY <1>3, <1>4, <1>5

(* The turn of one king that gives up its ball, or keeps what it has. *)
Dropped(p, k) == \* k: the king after the turn
    /\ p \notin ran /\ ran' = ran \cup {p}
    /\ king' = [king EXCEPT ![p] = k]
    /\ k \in King /\ k.mBullet = NoBall
    /\ balls' = reserveSleepAll(king[p].mBullet)

LEMMA DroppedKeeps ==
    ASSUME KingInv, NEW p \in Kings, NEW k, Dropped(p, k),
           kingScene' = kingScene, kingScene # "none"
    PROVE  KingTypeOK' /\ BallHasOneOwner' /\ LeavingInv' /\ OnePerKing' /\ NoSceneInv'
<1> USE DEF KingInv
<1>0. NoBall \notin Balls
      BY KingAssumption
<1>1. /\ king \in [Kings -> King] /\ balls \in [Balls -> Ball]
      /\ ran \subseteq Kings /\ king[p] \in King
      BY DEF KingTypeOK
<1>2. CASE king[p].mBullet = NoBall
  <2>1. balls' = balls
        BY <1>2 DEF Dropped, reserveSleepAll
  <2>2. \A b \in Balls : balls[b].state = "awake" => balls[b].sender # p
        BY <1>0, <1>2 DEF BallHasOneOwner
  <2>3. KingTypeOK'
        BY <1>1, <2>1 DEF KingTypeOK, Dropped
  <2>4. BallHasOneOwner'
        BY <1>1, <1>2, <2>1, <2>2 DEF BallHasOneOwner, Dropped, Ball
  <2>5. LeavingInv'
        BY <1>1, <1>2, <2>1 DEF LeavingInv, Dropped, Ball
  <2>6. OnePerKing' /\ NoSceneInv'
        BY <2>1 DEF OnePerKing, NoSceneInv, InUse
  <2> QED BY <2>3, <2>4, <2>5, <2>6
<1>3. CASE king[p].mBullet # NoBall
  <2> DEFINE d == king[p].mBullet
  <2>1. d \in Balls /\ balls[d] = [state |-> "awake", sender |-> p]
        BY <1>1, <1>3 DEF BallHasOneOwner, King
  <2>2. balls' = [balls EXCEPT ![d].state = "leaving"]
        BY <1>3 DEF Dropped, reserveSleepAll
  <2>3. /\ \A b \in Balls \ {d} : balls'[b] = balls[b]
        /\ balls'[d] = [state |-> "leaving", sender |-> p]
        /\ balls' \in [Balls -> Ball]
        BY <1>1, <2>1, <2>2 DEF Ball
  <2>4. \A b \in Balls \ {d} : balls[b].state = "awake" => balls[b].sender # p
        BY DEF BallHasOneOwner
  <2> HIDE DEF d
  <2>5. \A q \in Kings \ {p} : king[q].mBullet # d
    <3>1. TAKE q \in Kings \ {p}
    <3>2. SUFFICES ASSUME king[q].mBullet = d PROVE FALSE
          OBVIOUS
    <3>3. balls[d] = [state |-> "awake", sender |-> q]
          BY <1>0, <2>1, <3>2 DEF BallHasOneOwner
    <3>4. balls[d].sender = q /\ balls[d].sender = p
          BY <2>1, <3>3
    <3> QED BY <3>4
  <2>6. KingTypeOK'
        BY <1>1, <2>3 DEF KingTypeOK, Dropped
  <2>7. BallHasOneOwner'
    <3>1. \A q \in Kings : king'[q].mBullet # NoBall => q # p /\ king'[q] = king[q]
          BY <1>1 DEF Dropped
    <3>2. \A q \in Kings : king'[q].mBullet # NoBall =>
            balls'[king'[q].mBullet] = [state |-> "awake", sender |-> q]
          BY <1>1, <2>3, <2>5, <3>1 DEF BallHasOneOwner, King
    <3>3. \A b \in Balls : balls'[b].state = "awake" =>
            king'[balls'[b].sender].mBullet = b
          BY <1>1, <2>3, <2>4 DEF BallHasOneOwner, Dropped, Ball
    <3> QED BY <3>2, <3>3 DEF BallHasOneOwner
  <2>8. LeavingInv'
        BY <1>1, <2>1, <2>3 DEF LeavingInv, Dropped, Ball
  <2>9. OnePerKing' /\ NoSceneInv'
        BY <1>1, <2>1, <2>3 DEF OnePerKing, NoSceneInv, InUse
  <2> QED BY <2>6, <2>7, <2>8, <2>9
<1> QED BY <1>2, <1>3

(* The fields the counters and the ball do not share. *)
LEMMA Fields ==
    ASSUME NEW k \in King
    PROVE  /\ Reset(k).airborne = Reset(k).mAerialFrm /\ ~Reset(k).mIsRush
           /\ AfterFrame(k).mBullet = k.mBullet
           /\ AfterFrame(k).body = k.body
           /\ AfterFrame(k).mIsRush => AfterFrame(k).mAerialFrm > RushFrames
           /\ k.airborne = k.mAerialFrm =>
                AfterFrame(k).airborne = AfterFrame(k).mAerialFrm
           /\ \A b \in Balls \cup {NoBall} :
                LET d == [k EXCEPT !.mBullet = b]
                IN  d.mBullet = b /\ d.mIsRush = k.mIsRush /\ d.body = k.body
                    /\ d.airborne = k.airborne /\ d.mAerialFrm = k.mAerialFrm
           /\ \A f \in {"squid", "king"} :
                LET d == [k EXCEPT !.body = f]
                IN  d.mBullet = k.mBullet /\ d.mIsRush = k.mIsRush /\ d.body = f
                    /\ d.airborne = k.airborne /\ d.mAerialFrm = k.mAerialFrm
                    /\ d.aerial = k.aerial /\ d.mIsRemote = k.mIsRemote
<1>1. Reset(k).airborne = Reset(k).mAerialFrm /\ ~Reset(k).mIsRush
      BY DEF Reset, King
<1>2. /\ AfterFrame(k).mBullet = k.mBullet /\ AfterFrame(k).body = k.body
      /\ AfterFrame(k).mIsRush => AfterFrame(k).mAerialFrm > RushFrames
      BY DEF AfterFrame, King
<1>3. k.airborne = k.mAerialFrm =>
        AfterFrame(k).airborne = AfterFrame(k).mAerialFrm
      BY DEF AfterFrame, King
<1>4. \A b \in Balls \cup {NoBall} :
        LET d == [k EXCEPT !.mBullet = b]
        IN  d.mBullet = b /\ d.mIsRush = k.mIsRush /\ d.body = k.body
            /\ d.airborne = k.airborne /\ d.mAerialFrm = k.mAerialFrm
      BY DEF King
<1>5. \A f \in {"squid", "king"} :
        LET d == [k EXCEPT !.body = f]
        IN  d.mBullet = k.mBullet /\ d.mIsRush = k.mIsRush /\ d.body = f
            /\ d.airborne = k.airborne /\ d.mAerialFrm = k.mAerialFrm
            /\ d.aerial = k.aerial /\ d.mIsRemote = k.mIsRemote
      BY DEF King
<1> QED BY <1>1, <1>2, <1>3, <1>4, <1>5

(* A king after an early return. *)
LEMMA Emptied ==
    ASSUME NEW k \in King
    PROVE  LET r == [Reset(k) EXCEPT !.mBullet = NoBall]
           IN  /\ r \in King /\ r.mBullet = NoBall
               /\ r.airborne = r.mAerialFrm /\ ~r.mIsRush
<1> DEFINE q == Reset(k)
<1>1. q \in King /\ q.airborne = q.mAerialFrm /\ ~q.mIsRush
      BY KingRecords, Fields
<1> HIDE DEF q
<1>2. [q EXCEPT !.mBullet = NoBall] \in King
      BY <1>1, KingRecords
<1>3. LET r == [q EXCEPT !.mBullet = NoBall]
      IN  r.mBullet = NoBall /\ r.airborne = r.mAerialFrm /\ ~r.mIsRush
      BY <1>1 DEF King
<1> QED BY <1>2, <1>3 DEF q

(* The counters of one king change. *)
LEMMA RushOf ==
    ASSUME KingInv, NEW p \in Kings, NEW k \in King,
           king' = [king EXCEPT ![p] = k],
           k.airborne = k.mAerialFrm,
           k.mIsRush => k.body = "king" /\ k.mAerialFrm > RushFrames
    PROVE  RushInv'
  BY DEF KingInv, KingTypeOK, RushInv

(* The early returns of a scene that is there. *)
LEMMA EndRushKeeps ==
    ASSUME KingInv, NEW p \in Kings, kingScene # "none", Turn(p),
           NEW f \in {"squid", "king"}, NEW k \in {king[p], [king[p] EXCEPT !.body = f]},
           EndRush(p, k)
    PROVE  KingInv'
<1>1. king[p] \in King
      BY DEF KingInv, KingTypeOK
<1>2. k \in King /\ k.mBullet = king[p].mBullet
  <2>1. CASE k = king[p]
        BY <1>1, <2>1
  <2>2. CASE k = [king[p] EXCEPT !.body = f]
        BY <1>1, <2>2 DEF King
  <2> QED BY <2>1, <2>2
<1> DEFINE r == [Reset(k) EXCEPT !.mBullet = NoBall]
<1>3. /\ r \in King /\ r.mBullet = NoBall
      /\ r.airborne = r.mAerialFrm /\ ~r.mIsRush
      BY <1>2, Emptied
<1>4. Dropped(p, r) /\ kingScene' = kingScene
      BY <1>2, <1>3 DEF Dropped, EndRush, Turn
<1>5. king' = [king EXCEPT ![p] = r]
      BY DEF EndRush
<1> HIDE DEF r
<1>6. RushInv'
      BY <1>3, <1>5, RushOf
<1> QED BY <1>4, <1>6, DroppedKeeps DEF KingInv

(* Without a scene no ball is in use. *)
LEMMA NoManagerKeeps ==
    ASSUME KingInv, NEW p \in Kings, CalcNoManager(p)
    PROVE  KingInv'
<1> DEFINE r == [Reset(king[p]) EXCEPT !.mBullet = NoBall]
<1>1. /\ king \in [Kings -> King] /\ king[p] \in King /\ r \in King
      /\ r.airborne = r.mAerialFrm /\ ~r.mIsRush
      BY Emptied DEF KingInv, KingTypeOK
<1>2. /\ king' = [king EXCEPT ![p] = r] /\ balls' = balls
      /\ kingScene = "none" /\ kingScene' = "none" /\ ran' = ran \cup {p}
      BY DEF CalcNoManager, Turn
<1> HIDE DEF r
<1>3. RushInv'
      BY <1>1, <1>2, RushOf
<1>4. InUse = {} /\ InUse' = {}
      BY <1>2 DEF KingInv, NoSceneInv, InUse
<1>5. KingTypeOK'
      BY <1>1, <1>2 DEF KingInv, KingTypeOK
<1>6. BallHasOneOwner' /\ LeavingInv' /\ OnePerKing' /\ NoSceneInv'
      BY <1>2, <1>4 DEF BallHasOneOwner, LeavingInv, OnePerKing, NoSceneInv, InUse
<1> QED BY <1>3, <1>5, <1>6 DEF KingInv

(* A king takes a ball, if there are balls. *)
LEMMA TakesKeeps ==
    ASSUME KingInv, NEW p \in Kings, p \notin ran, ran' = ran \cup {p},
           kingScene # "none", kingScene' = kingScene,
           king[p].mBullet = NoBall, NEW d \in Offered,
           balls' = [balls EXCEPT ![d] = [state |-> "awake", sender |-> p]],
           NEW k \in King, king' = [king EXCEPT ![p] = k], k.mBullet = d
    PROVE  KingTypeOK' /\ BallHasOneOwner' /\ LeavingInv' /\ OnePerKing' /\ NoSceneInv'
<1>0. NoBall \notin Balls
      BY KingAssumption
<1>1. /\ king \in [Kings -> King] /\ balls \in [Balls -> Ball]
      /\ ran \subseteq Kings /\ king[p] \in King
      BY DEF KingInv, KingTypeOK
<1>2. CASE Balls = {}
  <2>1. d = NoBall /\ balls' = balls /\ \A q \in Kings : king[q].mBullet = NoBall
        BY <1>1, <1>2 DEF Offered, Free, King
  <2>2. \A q \in Kings : king'[q].mBullet = NoBall
        BY <1>1, <2>1
  <2>3. KingTypeOK'
        BY <1>1, <2>1 DEF KingInv, KingTypeOK
  <2> QED BY <1>2, <2>1, <2>2, <2>3
          DEF BallHasOneOwner, LeavingInv, OnePerKing, NoSceneInv, InUse
<1>3. CASE Balls # {}
  <2>1. d \in Balls /\ balls[d].state = "asleep"
        BY <1>3, OneIsFree DEF Offered, Free
  <2>2. /\ \A b \in Balls \ {d} : balls'[b] = balls[b]
        /\ balls'[d] = [state |-> "awake", sender |-> p]
        /\ balls' \in [Balls -> Ball]
        BY <1>1, <2>1 DEF Ball
  <2>3. \A b \in InUse : balls[b].sender # p
        BY <1>0, <1>1 DEF KingInv, BallHasOneOwner, LeavingInv, InUse, Ball
  <2>4. \A q \in Kings : king[q].mBullet # d
    <3>1. TAKE q \in Kings
    <3>2. SUFFICES ASSUME king[q].mBullet = d PROVE FALSE
          OBVIOUS
    <3>3. balls[d] = [state |-> "awake", sender |-> q]
          BY <1>0, <2>1, <3>2 DEF KingInv, BallHasOneOwner
    <3> QED BY <2>1, <3>3
  <2>5. KingTypeOK'
        BY <1>1, <2>2 DEF KingInv, KingTypeOK
  <2>6. BallHasOneOwner'
    <3>1. \A q \in Kings \ {p} : king'[q] = king[q]
          BY <1>1
    <3>2. king'[p] = k
          BY <1>1
    <3>3. \A q \in Kings : king'[q].mBullet # NoBall =>
            balls'[king'[q].mBullet] = [state |-> "awake", sender |-> q]
          BY <1>1, <2>1, <2>2, <2>4, <3>1, <3>2 DEF KingInv, BallHasOneOwner, King
    <3>4. \A b \in Balls \ {d} : balls'[b].state = "awake" =>
            /\ balls[b].sender \in Kings \ {p}
            /\ king[balls[b].sender].mBullet = b
          BY <1>1, <2>2, <2>3 DEF KingInv, BallHasOneOwner, InUse, Ball
    <3>5. \A b \in Balls : balls'[b].state = "awake" =>
            king'[balls'[b].sender].mBullet = b
          BY <2>2, <3>1, <3>2, <3>4
    <3> QED BY <3>3, <3>5 DEF BallHasOneOwner
  <2>7. LeavingInv'
    <3>1. \A b \in Balls : balls'[b].state = "leaving" =>
            /\ b # d /\ balls[b].state = "leaving" /\ balls'[b].sender = balls[b].sender
            /\ balls[b].sender \in Kings \ {p}
          BY <1>1, <2>2, <2>3 DEF InUse, Ball
    <3> QED BY <1>1, <3>1 DEF KingInv, LeavingInv
  <2>8. OnePerKing' /\ NoSceneInv'
    <3>1. \A b \in InUse' : b # d => b \in InUse /\ balls'[b].sender = balls[b].sender
                                     /\ balls'[b].sender # p
          BY <2>2, <2>3 DEF InUse
    <3>2. balls'[d].sender = p
          BY <2>2
    <3> QED BY <3>1, <3>2 DEF KingInv, OnePerKing, NoSceneInv
  <2> QED BY <2>5, <2>6, <2>7, <2>8
<1> QED BY <1>2, <1>3

(* What a ball and its king say of each other does not change. *)
LEMMA StaysKeeps ==
    ASSUME KingInv, NEW p \in Kings, NEW k \in King,
           king' = [king EXCEPT ![p] = k], k.mBullet = king[p].mBullet,
           balls' = balls, ran \subseteq ran', ran' \subseteq Kings,
           kingScene' = kingScene
    PROVE  KingTypeOK' /\ BallHasOneOwner' /\ LeavingInv' /\ OnePerKing' /\ NoSceneInv'
<1>1. /\ king \in [Kings -> King] /\ balls \in [Balls -> Ball]
      /\ king' \in [Kings -> King] /\ \A q \in Kings : king'[q].mBullet = king[q].mBullet
      BY DEF KingInv, KingTypeOK
<1>2. KingTypeOK'
      BY <1>1 DEF KingInv, KingTypeOK
<1>3. BallHasOneOwner'
      BY <1>1 DEF KingInv, BallHasOneOwner, Ball
<1>4. LeavingInv'
      BY <1>1 DEF KingInv, LeavingInv, Ball
<1>5. OnePerKing' /\ NoSceneInv'
      BY DEF KingInv, OnePerKing, NoSceneInv, InUse
<1> QED BY <1>2, <1>3, <1>4, <1>5

(* A frame as a king: a ball is taken, kept or given up. *)
LEMMA CalcKingKeeps ==
    ASSUME KingInv, NEW p \in Kings, CalcKing(p)
    PROVE  KingInv'
<1> DEFINE k == [king[p] EXCEPT !.body = "king"]
<1>1. king[p] \in King /\ ran \subseteq Kings
      BY DEF KingInv, KingTypeOK
<1>2. /\ k \in King /\ k.body = "king" /\ k.mBullet = king[p].mBullet
      /\ k.airborne = k.mAerialFrm
  <2>1. k \in King
        BY <1>1, KingRecords
  <2>2. king[p].airborne = king[p].mAerialFrm
        BY DEF KingInv, RushInv
  <2>3. k.body = "king" /\ k.mBullet = king[p].mBullet /\ k.airborne = k.mAerialFrm
        BY <1>1, <2>2 DEF King
  <2> QED BY <2>1, <2>3
<1>3. /\ kingScene = "loaded" /\ kingScene' = kingScene
      /\ p \notin ran /\ ran' = ran \cup {p}
      BY DEF CalcKing, Turn
<1>4. \A d \in Balls \cup {NoBall} :
        LET r == AfterFrame([k EXCEPT !.mBullet = d])
        IN  /\ r \in King /\ r.mBullet = d /\ r.airborne = r.mAerialFrm
            /\ r.mIsRush => r.body = "king" /\ r.mAerialFrm > RushFrames
  <2>1. TAKE d \in Balls \cup {NoBall}
  <2> DEFINE q == [k EXCEPT !.mBullet = d]
  <2> HIDE DEF k
  <2>2. q \in King /\ q.mBullet = d /\ q.body = "king" /\ q.airborne = q.mAerialFrm
    <3>1. q \in King
          BY <1>2, KingRecords
    <3>2. q.mBullet = d /\ q.body = "king" /\ q.airborne = q.mAerialFrm
          BY <1>2 DEF King
    <3> QED BY <3>1, <3>2
  <2> HIDE DEF q
  <2>3. AfterFrame(q) \in King
        BY <2>2, KingRecords
  <2>4. /\ AfterFrame(q).mBullet = d
        /\ AfterFrame(q).airborne = AfterFrame(q).mAerialFrm
        /\ AfterFrame(q).mIsRush =>
             AfterFrame(q).body = "king" /\ AfterFrame(q).mAerialFrm > RushFrames
        BY <2>2, Fields
  <2> QED BY <2>3, <2>4 DEF q
<1>5. \/ /\ king[p].mBullet = NoBall
         /\ \E d \in Offered :
              /\ balls' = [balls EXCEPT ![d] = [state |-> "awake", sender |-> p]]
              /\ king' = [king EXCEPT ![p] = AfterFrame([k EXCEPT !.mBullet = d])]
      \/ /\ king' = [king EXCEPT ![p] = AfterFrame(k)]
         /\ balls' = balls
      \/ /\ king' = [king EXCEPT ![p] = AfterFrame([k EXCEPT !.mBullet = NoBall])]
         /\ balls' = reserveSleepAll(king[p].mBullet)
  <2> HIDE DEF k
  <2> QED BY <1>2 DEF CalcKing, k
<1> HIDE DEF k
<1>6. CASE /\ king[p].mBullet = NoBall
           /\ \E d \in Offered :
                /\ balls' = [balls EXCEPT ![d] = [state |-> "awake", sender |-> p]]
                /\ king' = [king EXCEPT ![p] = AfterFrame([k EXCEPT !.mBullet = d])]
  <2>1. PICK d \in Offered :
          /\ balls' = [balls EXCEPT ![d] = [state |-> "awake", sender |-> p]]
          /\ king' = [king EXCEPT ![p] = AfterFrame([k EXCEPT !.mBullet = d])]
        BY <1>6
  <2>2. d \in Balls \cup {NoBall}
        BY DEF Offered, Free
  <2> DEFINE r == AfterFrame([k EXCEPT !.mBullet = d])
  <2>3. /\ r \in King /\ r.mBullet = d /\ r.airborne = r.mAerialFrm
        /\ r.mIsRush => r.body = "king" /\ r.mAerialFrm > RushFrames
        BY <1>4, <2>2
  <2> HIDE DEF r
  <2>4. RushInv'
        BY <2>1, <2>3, RushOf DEF r
  <2>5. king' = [king EXCEPT ![p] = r]
        BY <2>1 DEF r
  <2>6. KingTypeOK' /\ BallHasOneOwner' /\ LeavingInv' /\ OnePerKing' /\ NoSceneInv'
        BY <1>3, <1>6, <2>1, <2>3, <2>5, TakesKeeps
  <2> QED BY <2>4, <2>6 DEF KingInv
<1>7. CASE /\ king' = [king EXCEPT ![p] = AfterFrame(k)]
           /\ balls' = balls
  <2> DEFINE r == AfterFrame(k)
  <2>1. /\ r \in King /\ r.mBullet = king[p].mBullet /\ r.airborne = r.mAerialFrm
        /\ r.mIsRush => r.body = "king" /\ r.mAerialFrm > RushFrames
        BY <1>2, KingRecords, Fields
  <2>2. king' = [king EXCEPT ![p] = r]
        BY <1>7
  <2> HIDE DEF r
  <2>3. RushInv'
        BY <2>1, <2>2, RushOf
  <2>4. ran \subseteq ran' /\ ran' \subseteq Kings
        BY <1>1, <1>3
  <2>5. KingTypeOK' /\ BallHasOneOwner' /\ LeavingInv' /\ OnePerKing' /\ NoSceneInv'
        BY <1>3, <1>7, <2>1, <2>2, <2>4, StaysKeeps
  <2> QED BY <2>3, <2>5 DEF KingInv
<1>8. CASE /\ king' = [king EXCEPT ![p] = AfterFrame([k EXCEPT !.mBullet = NoBall])]
           /\ balls' = reserveSleepAll(king[p].mBullet)
  <2> DEFINE r == AfterFrame([k EXCEPT !.mBullet = NoBall])
  <2>1. /\ r \in King /\ r.mBullet = NoBall /\ r.airborne = r.mAerialFrm
        /\ r.mIsRush => r.body = "king" /\ r.mAerialFrm > RushFrames
        BY <1>4
  <2>2. king' = [king EXCEPT ![p] = r]
        BY <1>8
  <2> HIDE DEF r
  <2>3. RushInv'
        BY <2>1, <2>2, RushOf
  <2>4. Dropped(p, r)
        BY <1>3, <1>8, <2>1, <2>2 DEF Dropped
  <2> QED BY <1>3, <2>3, <2>4, DroppedKeeps DEF KingInv
<1> QED BY <1>5, <1>6, <1>7, <1>8

-----------------------------------------------------------------------------
(* Before the first scene no king has a ball and all the balls sleep.      *)
THEOREM KingInvInit == KingInit => KingInv
<1> SUFFICES ASSUME KingInit PROVE KingInv
    OBVIOUS
<1>1. AirCap \in Nat /\ Kings # {}
      BY KingAssumption
<1>2. NewKing(FALSE) \in King /\ NewKing(FALSE).mIsRush = FALSE
      /\ NewKing(FALSE).airborne = NewKing(FALSE).mAerialFrm
      BY <1>1 DEF NewKing, King
<1>3. Asleep \in [Balls -> Ball] /\ \A b \in Balls : Asleep[b].state = "asleep"
      BY <1>1 DEF Asleep, Ball
<1>4. InUse = {}
      BY <1>3 DEF KingInit, InUse
<1>5. KingTypeOK
      BY <1>2, <1>3 DEF KingInit, KingTypeOK
<1>6. RushInv
      BY <1>2 DEF KingInit, RushInv
<1>7. BallHasOneOwner /\ LeavingInv /\ OnePerKing /\ NoSceneInv
      BY <1>4 DEF KingInit, BallHasOneOwner, LeavingInv, OnePerKing, NoSceneInv, InUse
<1> QED BY <1>5, <1>6, <1>7 DEF KingInv

(* The sleeps are carried out. *)
LEMMA EndFrameKeeps ==
    ASSUME KingInv, EndFrame
    PROVE  KingInv'
<1>1. /\ balls \in [Balls -> Ball] /\ king' = king /\ kingScene' = kingScene /\ ran' = {}
      BY DEF KingInv, KingTypeOK, EndFrame
<1>2. \A b \in Balls :
        balls'[b] = IF balls[b].state = "leaving"
                    THEN [balls[b] EXCEPT !.state = "asleep"] ELSE balls[b]
      BY DEF EndFrame
<1>3. balls' \in [Balls -> Ball]
      BY <1>1 DEF EndFrame, Ball
<1>4. \A b \in Balls : balls'[b].state # "leaving"
      BY <1>1, <1>2 DEF Ball
<1>5. \A b \in InUse' : balls[b].state = "awake" /\ balls'[b] = balls[b]
      BY <1>1, <1>2 DEF InUse, Ball
<1>6. \A b \in Balls : balls[b].state = "awake" => balls'[b] = balls[b]
      BY <1>2
<1>7. KingTypeOK'
      BY <1>1, <1>3 DEF KingInv, KingTypeOK
<1>8. RushInv'
      BY <1>1 DEF KingInv, RushInv
<1>9. BallHasOneOwner'
  <2>1. \A q \in Kings : king[q].mBullet \in Balls \cup {NoBall}
        BY DEF KingInv, KingTypeOK, King
  <2>2. \A q \in Kings : kingScene # "none" /\ king'[q].mBullet # NoBall =>
          balls'[king'[q].mBullet] = [state |-> "awake", sender |-> q]
        BY <1>1, <1>6, <2>1 DEF KingInv, BallHasOneOwner
  <2>3. \A b \in Balls : kingScene # "none" /\ balls'[b].state = "awake" =>
          king'[balls'[b].sender].mBullet = b
        BY <1>1, <1>5 DEF KingInv, BallHasOneOwner, InUse
  <2> QED BY <1>1, <2>2, <2>3 DEF BallHasOneOwner
<1>10. LeavingInv'
      BY <1>4 DEF LeavingInv
<1>11. OnePerKing' /\ NoSceneInv'
      BY <1>1, <1>5 DEF KingInv, OnePerKing, NoSceneInv, InUse
<1> QED BY <1>7, <1>8, <1>9, <1>10, <1>11 DEF KingInv

(* The engine changes what the code reads of a player, and nothing else.   *)
LEMMA PlayerMovesKeeps ==
    ASSUME KingInv, NEW p \in Kings, Engine(p) \/ kingSquidAnimSetControllerHook(p)
    PROVE  KingInv'
<1>1. king[p] \in King /\ ran \subseteq Kings
      BY DEF KingInv, KingTypeOK
<1>2. PICK k : /\ k \in {[king[p] EXCEPT !.aerial = ~@], [king[p] EXCEPT !.special = ~@],
                         [king[p] EXCEPT !.ink = ~@], [king[p] EXCEPT !.setUp = TRUE]}
               /\ king' = [king EXCEPT ![p] = k]
      BY <1>1 DEF Engine, kingSquidAnimSetControllerHook, KingInv, KingTypeOK
<1>3. k \in King
      BY <1>1, <1>2 DEF King
<1>4. /\ k.mBullet = king[p].mBullet /\ k.airborne = king[p].airborne
      /\ k.mAerialFrm = king[p].mAerialFrm /\ k.mIsRush = king[p].mIsRush
      /\ k.body = king[p].body
      BY <1>1, <1>2 DEF King
<1>5. balls' = balls /\ ran' = ran /\ kingScene' = kingScene
      BY DEF Engine, kingSquidAnimSetControllerHook
<1>6. RushInv'
      BY <1>2, <1>3, <1>4, RushOf DEF KingInv, RushInv
<1>7. KingTypeOK' /\ BallHasOneOwner' /\ LeavingInv' /\ OnePerKing' /\ NoSceneInv'
      BY <1>1, <1>2, <1>3, <1>4, <1>5, StaysKeeps
<1> QED BY <1>6, <1>7 DEF KingInv

LEMMA SceneKeeps ==
    ASSUME KingInv, SceneStep
    PROVE  KingInv'
<1>1. AirCap \in Nat /\ Kings # {}
      BY KingAssumption
<1>2. Asleep \in [Balls -> Ball] /\ \A b \in Balls : Asleep[b].state = "asleep"
      BY <1>1 DEF Asleep, Ball
<1>3. CASE /\ kingScene = "none" /\ kingScene' = "loading" /\ balls' = Asleep /\ ran' = ran
           /\ \E remote \in SUBSET Kings : king' = [p \in Kings |-> NewKing(p \in remote)]
  <2>1. \A r \in BOOLEAN : /\ NewKing(r) \in King /\ NewKing(r).mIsRush = FALSE
                           /\ NewKing(r).airborne = NewKing(r).mAerialFrm
                           /\ NewKing(r).mBullet = NoBall
        BY <1>1 DEF NewKing, King
  <2>2. PICK remote \in SUBSET Kings : king' = [p \in Kings |-> NewKing(p \in remote)]
        BY <1>3
  <2>3. \A p \in Kings : /\ king'[p] \in King /\ king'[p].mIsRush = FALSE
                         /\ king'[p].airborne = king'[p].mAerialFrm
                         /\ king'[p].mBullet = NoBall
    <3>1. TAKE p \in Kings
    <3>2. king'[p] = NewKing(p \in remote)
          BY <2>2
    <3>3. CASE p \in remote
      <4>1. NewKing(p \in remote) = NewKing(TRUE)
            BY <3>3 DEF NewKing
      <4> QED BY <2>1, <3>2, <4>1
    <3>4. CASE p \notin remote
      <4>0. (p \in remote) = FALSE
            BY <3>4
      <4>1. NewKing(p \in remote) = NewKing(FALSE)
            BY <4>0, Zenon DEF NewKing
      <4> QED BY <2>1, <3>2, <4>1
    <3> QED BY <3>3, <3>4
  <2>4. InUse' = {}
        BY <1>2, <1>3 DEF InUse
  <2>6. RushInv'
        BY <2>3 DEF RushInv
  <2>7. KingTypeOK'
    <3>1. king' \in [Kings -> King]
          BY <2>2, <2>3
    <3> QED BY <1>2, <1>3, <3>1 DEF KingInv, KingTypeOK
  <2>8. BallHasOneOwner' /\ LeavingInv' /\ OnePerKing' /\ NoSceneInv'
        BY <1>3, <2>3, <2>4 DEF BallHasOneOwner, LeavingInv, OnePerKing, NoSceneInv, InUse
  <2> QED BY <2>6, <2>7, <2>8 DEF KingInv
<1>4. CASE /\ kingScene \in {"loading", "loaded"} /\ kingScene' \in {"loading", "loaded"}
           /\ king' = king /\ balls' = balls /\ ran' = ran
      BY <1>4 DEF KingInv, KingTypeOK, RushInv, BallHasOneOwner, LeavingInv, OnePerKing,
                  NoSceneInv, InUse
<1>5. CASE kingScene' = "none" /\ king' = king /\ balls' = Asleep /\ ran' = ran
  <2>1. InUse' = {}
        BY <1>2, <1>5 DEF InUse
  <2>2. KingTypeOK' /\ RushInv'
        BY <1>2, <1>5 DEF KingInv, KingTypeOK, RushInv
  <2>3. BallHasOneOwner' /\ LeavingInv' /\ OnePerKing' /\ NoSceneInv'
        BY <1>5, <2>1 DEF BallHasOneOwner, LeavingInv, OnePerKing, NoSceneInv, InUse
  <2> QED BY <2>2, <2>3 DEF KingInv
<1> QED BY <1>3, <1>4, <1>5 DEF SceneStep

(* Every calc of a king, every move of the engine and every change of      *)
(* scene keeps the count of the balls and what is known of a rush.         *)
THEOREM KingInvStep == KingInv /\ [KingNext]_kingVars => KingInv'
<1> SUFFICES ASSUME KingInv, [KingNext]_kingVars PROVE KingInv'
    OBVIOUS
<1>1. ASSUME NEW p \in Kings, calc(p) PROVE KingInv'
  <2>1. CASE CalcNoManager(p)
        BY <2>1, NoManagerKeeps
  <2>2. CASE CalcNotReady(p)
        BY <2>2, EndRushKeeps DEF CalcNotReady
  <2>3. CASE CalcSquid(p)
        BY <2>3, EndRushKeeps DEF CalcSquid
  <2>4. CASE CalcNoInk(p)
        BY <2>4, EndRushKeeps DEF CalcNoInk
  <2>5. CASE CalcKing(p)
        BY <2>5, CalcKingKeeps
  <2> QED BY <1>1, <2>1, <2>2, <2>3, <2>4, <2>5 DEF calc
<1>2. ASSUME NEW p \in Kings, Engine(p) \/ kingSquidAnimSetControllerHook(p) PROVE KingInv'
      BY <1>2, PlayerMovesKeeps
<1>3. CASE EndFrame
      BY <1>3, EndFrameKeeps
<1>4. CASE SceneStep
      BY <1>4, SceneKeeps
<1>5. CASE UNCHANGED kingVars
      BY <1>5 DEF kingVars, KingInv, KingTypeOK, RushInv, BallHasOneOwner, LeavingInv,
                  OnePerKing, NoSceneInv, InUse
<1> QED BY <1>1, <1>2, <1>3, <1>4, <1>5 DEF KingNext

(* The invariant of the kings, for every number of them and of balls, any  *)
(* number of frames before a rush and any cap.                             *)
THEOREM KingInvariance == KingSpec => []KingInv
  BY KingInvInit, KingInvStep, PTL DEF KingSpec

(* The fields and the balls keep their types. *)
THEOREM KingTypeCorrect == KingSpec => []KingTypeOK
<1>1. KingInv => KingTypeOK
      BY DEF KingInv
<1> QED BY <1>1, KingInvariance, PTL

(* No ball has two kings and no king a ball that sleeps, although balls    *)
(* given up sleep only at the end of the frame (KingSquidMgr.cpp:163-173). *)
THEOREM BallsHaveOneOwner == KingSpec => []BallHasOneOwner
<1>1. KingInv => BallHasOneOwner
      BY DEF KingInv
<1> QED BY <1>1, KingInvariance, PTL

(* No counter of an earlier special, scene or flight leads to a dive       *)
(* (KingSquidMgr.cpp:183-191).                                             *)
THEOREM DivesAreEarned == KingSpec => []DiveEarned
<1>1. KingInv => DiveEarned
      BY DEF KingInv, RushInv, DiveEarned, krakenDive
<1> QED BY <1>1, KingInvariance, PTL

-----------------------------------------------------------------------------
(* Salmon Run.  A shuffle arranges the front of the pool anew: each swap   *)
(* of two of its places does.                                              *)
Shuffling == INSTANCE Folding WITH step <- Swapped

Arrangements ==
    {q \in [Snapped -> Entries] :
       /\ IsInjective(q)
       /\ {q[i] : i \in Snapped} = {Loaded[i] : i \in Snapped}}

LEMMA PoolNumbers ==
    /\ PoolSize \in Nat /\ DOMAIN Loaded = 0 .. (PoolSize - 1)
    /\ n \in Nat /\ n <= PoolSize
    /\ Snapped \subseteq DOMAIN Loaded
    /\ Words \in Nat /\ Words > 0
<1>1. /\ PoolSize \in Nat /\ DOMAIN Loaded = 0 .. (PoolSize - 1)
      /\ Stored \in Nat /\ MaxScan \in Nat /\ SnapSize \in Nat /\ Words \in Nat \ {0}
      /\ Stored <= PoolSize
      BY PoolAssumption
<1> HIDE DEF PoolSize
<1>2. n \in Nat /\ n <= PoolSize
      BY <1>1 DEF n, scanned, SmallerOf, LargerOf
<1> QED BY <1>1, <1>2 DEF Snapped

(* The place drawn for i is not behind it. *)
LEMMA DrawnPlace ==
    ASSUME NEW i \in Nat, NEW w \in 0 .. (Words - 1)
    PROVE  (w * (i + 1)) \div Words \in 0 .. i
<1> DEFINE j == (w * (i + 1)) \div Words
           t == w * (i + 1)
<1>1. Words \in Nat /\ Words > 0 /\ w \in Nat /\ w < Words
      BY PoolNumbers
<1>2. t \in Nat /\ t < Words * (i + 1)
      BY <1>1
<1>3. j \in Nat /\ j * Words <= t
      BY <1>1, <1>2
<1>4. j * Words < (i + 1) * Words
      BY <1>1, <1>2, <1>3
<1>5. j < i + 1
      BY <1>1, <1>3, <1>4
<1> QED BY <1>3, <1>5

LEMMA SwapsInside ==
    ASSUME NEW draws \in Draws, NEW k \in 1 .. (n - 1)
    PROVE  Swaps(draws)[k].i \in Snapped /\ Swaps(draws)[k].j \in Snapped
<1> DEFINE i == n - k
<1>1. i \in 1 .. (n - 1) /\ i \in Nat /\ n \in Nat
      BY PoolNumbers
<1>2. draws[i] \in 0 .. (Words - 1)
      BY <1>1 DEF Draws
<1>3. (draws[i] * (i + 1)) \div Words \in 0 .. i
      BY <1>1, <1>2, DrawnPlace
<1>4. Swaps(draws)[k] = [i |-> i, j |-> (draws[i] * (i + 1)) \div Words]
      BY DEF Swaps
<1>5. \A j \in 0 .. i : j \in Snapped
      BY <1>1 DEF Snapped
<1> QED BY <1>1, <1>3, <1>4, <1>5 DEF Snapped

LEMMA SwapArranges ==
    ASSUME NEW q \in Arrangements, NEW s, s.i \in Snapped, s.j \in Snapped
    PROVE  Swapped(q, s) \in Arrangements
<1> DEFINE r == Swapped(q, s)
<1>1. q \in [Snapped -> Entries] /\ IsInjective(q)
      /\ {q[i] : i \in Snapped} = {Loaded[i] : i \in Snapped}
      BY DEF Arrangements
<1>2. /\ r \in [Snapped -> Entries]
      /\ \A i \in Snapped : r[i] = IF i = s.j THEN q[s.i] ELSE IF i = s.i THEN q[s.j] ELSE q[i]
      BY <1>1 DEF Swapped
<1> HIDE DEF r
<1>3. IsInjective(r)
      BY <1>1, <1>2 DEF IsInjective
<1>4. {r[i] : i \in Snapped} = {q[i] : i \in Snapped}
  <2>1. \A i \in Snapped : \E j \in Snapped : r[i] = q[j]
        BY <1>2
  <2>2. \A i \in Snapped : \E j \in Snapped : q[i] = r[j]
        BY <1>2
  <2> QED BY <2>1, <2>2
<1> QED BY <1>1, <1>2, <1>3, <1>4 DEF Arrangements, r

LEMMA ShuffleArranges ==
    ASSUME NEW p \in Arrangements, NEW draws \in Draws
    PROVE  Shuffle(p, draws) \in Arrangements
<1>1. CASE n <= 4
      BY <1>1 DEF Shuffle
<1>2. CASE ~(n <= 4)
  <2> DEFINE seq == Swaps(draws)
             m == n - 1
             good == [k \in 0 .. m |-> Arrangements]
  <2>1. n \in Nat /\ m \in Nat
        BY <1>2, PoolNumbers
  <2>2. seq \in Seq({seq[k] : k \in 1 .. m}) /\ Len(seq) = m
    <3>1. seq = [k \in 1 .. m |-> seq[k]]
          BY DEF Swaps
    <3> HIDE DEF seq, m
    <3> QED BY <2>1, <3>1
  <2>3. \A k \in 0 .. m : good[k] = Arrangements
        OBVIOUS
  <2>4. \A k \in 1 .. m : seq[k].i \in Snapped /\ seq[k].j \in Snapped
        BY SwapsInside
  <2> HIDE DEF good, seq, m
  <2>5. ASSUME NEW k \in 1 .. m, NEW q \in good[k - 1]
        PROVE  Swapped(q, seq[k]) \in good[k]
    <3>1. k - 1 \in 0 .. m /\ k \in 0 .. m
          BY <2>1
    <3> QED BY <2>3, <2>4, <2>5, <3>1, SwapArranges
  <2>6. p \in good[0]
        BY <2>1, <2>3
  <2>7. Shuffling!Folded(p, seq) \in good[m]
        BY <2>1, <2>2, <2>5, <2>6, Shuffling!FoldKeeps
  <2>8. Shuffling!Folded(p, seq) = FoldLeft(Swapped, p, seq)
        BY DEF Shuffling!Folded, Shuffling!FoldLeft, FoldLeft, Shuffling!MapThenFoldSet,
               MapThenFoldSet, Shuffling!Max, Max
  <2>9. FoldLeft(Swapped, p, seq) \in Arrangements
        BY <2>1, <2>3, <2>7, <2>8
  <2> QED BY <1>2, <2>9 DEF Shuffle, seq
<1> QED BY <1>1, <1>2

(* The front of the loaded pool is an arrangement, and any other one in    *)
(* its place leaves a pool without double entries.                         *)
LEMMA FrontArranged == Snapshot(Loaded) \in Arrangements
<1>1. IsInjective(Loaded) /\ Snapped \subseteq DOMAIN Loaded
      BY PoolAssumption, PoolNumbers
<1>2. /\ Snapshot(Loaded) \in [Snapped -> Entries]
      /\ \A i \in Snapped : Snapshot(Loaded)[i] = Loaded[i]
      BY <1>1 DEF Snapshot, Entries
<1>3. IsInjective(Snapshot(Loaded))
      BY <1>1, <1>2 DEF IsInjective
<1>4. {Snapshot(Loaded)[i] : i \in Snapped} = {Loaded[i] : i \in Snapped}
      BY <1>2
<1> QED BY <1>2, <1>3, <1>4 DEF Arrangements

LEMMA FrontReplaced ==
    ASSUME NEW q \in Arrangements
    PROVE  Over(q, Loaded) \in [DOMAIN Loaded -> Entries] /\ IsInjective(Over(q, Loaded))
<1> DEFINE r == Over(q, Loaded)
           D == DOMAIN Loaded
<1>1. q \in [Snapped -> Entries] /\ IsInjective(q)
      /\ {q[i] : i \in Snapped} = {Loaded[i] : i \in Snapped}
      BY DEF Arrangements
<1>2. IsInjective(Loaded) /\ Snapped \subseteq D
      BY PoolAssumption, PoolNumbers
<1>3. DOMAIN r = D /\ \A i \in D : r[i] = IF i \in Snapped THEN q[i] ELSE Loaded[i]
      BY DEF Over
<1>4. r = [i \in D |-> r[i]]
      BY DEF Over
<1> HIDE DEF r
<1>5. r \in [D -> Entries]
      BY <1>1, <1>3, <1>4 DEF Entries
<1>6. ASSUME NEW i \in D, NEW j \in D, r[i] = r[j] PROVE i = j
  <2>1. ASSUME NEW k \in Snapped, NEW l \in D \ Snapped PROVE q[k] # Loaded[l]
    <3>1. PICK m \in Snapped : q[k] = Loaded[m]
          BY <1>1
    <3> QED BY <1>2, <3>1 DEF IsInjective
  <2>2. \A k, l \in Snapped : q[k] = q[l] => k = l
        BY <1>1 DEF IsInjective
  <2>3. \A k, l \in D : Loaded[k] = Loaded[l] => k = l
        BY <1>2 DEF IsInjective
  <2> QED BY <1>3, <1>6, <2>1, <2>2, <2>3
<1>7. IsInjective(r)
      BY <1>3, <1>6 DEF IsInjective
<1> QED BY <1>5, <1>7 DEF r

-----------------------------------------------------------------------------
(* The pool of a console is a function of the last shift alone: the first  *)
(* snapshot is of the loaded pool, also when it is taken late.             *)
PoolOf(s) ==
    IF s = NoShift THEN Loaded ELSE Over(Shuffle(Snapshot(Loaded), s), Loaded)

PoolInv ==
    /\ DOMAIN pool = Consoles /\ pool = [c \in Consoles |-> pool[c]]
    /\ sOriginalPool = [c \in Consoles |-> Snapshot(Loaded)]
    /\ sPoolSaved \in [Consoles -> BOOLEAN]
    /\ shift \in [Consoles -> Draws \cup {NoShift}]
    /\ \A c \in Consoles :
         /\ pool[c] = PoolOf(shift[c])
         /\ sPoolSaved[c] \/ Snapshot(pool[c]) = Snapshot(Loaded)

(* Writing the front of a pool leaves no trace of the front before.        *)
LEMMA OverOver ==
    ASSUME NEW f, NEW g
    PROVE  Over(f, Over(g, Loaded)) = Over(f, Loaded)
  BY DEF Over

LEMMA ShuffledPool ==
    ASSUME NEW s, NEW draws \in Draws
    PROVE  Over(Shuffle(Snapshot(Loaded), draws), PoolOf(s)) = PoolOf(draws)
<1>1. draws # NoShift
      BY PoolAssumption
<1>2. PoolOf(draws) = Over(Shuffle(Snapshot(Loaded), draws), Loaded)
      BY <1>1 DEF PoolOf
<1>3. CASE s = NoShift
  <2>1. PoolOf(s) = Loaded
        BY <1>3 DEF PoolOf
  <2> QED BY <1>2, <2>1
<1>4. CASE s # NoShift
  <2>1. PoolOf(s) = Over(Shuffle(Snapshot(Loaded), s), Loaded)
        BY <1>4 DEF PoolOf
  <2> QED BY <1>2, <2>1, OverOver
<1> QED BY <1>3, <1>4

LEMMA EmptyFront == n > 0 \/ \A p : Snapshot(p) = Snapshot(Loaded)
<1>1. PoolSize \in Nat /\ Stored \in Nat /\ MaxScan \in Nat /\ SnapSize \in Nat
      BY PoolAssumption
<1> HIDE DEF PoolSize
<1>2. n \in Nat
      BY <1>1 DEF n, scanned, SmallerOf, LargerOf
<1>3. n = 0 => Snapped = {}
      BY DEF Snapped
<1> QED BY <1>2, <1>3 DEF Snapshot

LEMMA ShuffleKeeps ==
    ASSUME PoolInv, NEW c \in Consoles, NEW draws \in Draws,
           coopSpecialShufflerHook(c, draws)
    PROVE  PoolInv'
<1> DEFINE original == IF sPoolSaved[c] THEN sOriginalPool[c] ELSE Snapshot(pool[c])
<1>1. original = Snapshot(Loaded)
      BY DEF PoolInv
<1>2. /\ pool' = [pool EXCEPT ![c] = Over(Shuffle(original, draws), pool[c])]
      /\ sOriginalPool' = [sOriginalPool EXCEPT ![c] = original]
      /\ sPoolSaved' = [sPoolSaved EXCEPT ![c] = n > 0]
      /\ shift' = [shift EXCEPT ![c] = draws]
      BY DEF coopSpecialShufflerHook, Restored
<1> HIDE DEF original
<1>3. pool' = [pool EXCEPT ![c] = PoolOf(draws)]
  <2>1. pool[c] = PoolOf(shift[c])
        BY DEF PoolInv
  <2>2. Over(Shuffle(Snapshot(Loaded), draws), PoolOf(shift[c])) = PoolOf(draws)
        BY ShuffledPool
  <2>3. Over(Shuffle(original, draws), pool[c]) = PoolOf(draws)
        BY <1>1, <2>1, <2>2
  <2> QED BY <1>2, <2>3
<1>4. /\ DOMAIN pool' = Consoles /\ pool' = [d \in Consoles |-> pool'[d]]
      /\ sOriginalPool' = [d \in Consoles |-> Snapshot(Loaded)]
      /\ shift' \in [Consoles -> Draws \cup {NoShift}]
      BY <1>1, <1>2, <1>3 DEF PoolInv
<1>5. sPoolSaved' \in [Consoles -> BOOLEAN]
      BY <1>2 DEF PoolInv
<1>6. ASSUME NEW d \in Consoles
      PROVE  /\ pool'[d] = PoolOf(shift'[d])
             /\ sPoolSaved'[d] \/ Snapshot(pool'[d]) = Snapshot(Loaded)
  <2>1. CASE d = c
    <3>1. pool'[d] = PoolOf(shift'[d])
          BY <1>2, <1>3, <2>1 DEF PoolInv
    <3>2. sPoolSaved'[d] \/ Snapshot(pool'[d]) = Snapshot(Loaded)
      <4>1. sPoolSaved'[d] = (n > 0)
            BY <1>2, <2>1 DEF PoolInv
      <4> QED BY <4>1, EmptyFront
    <3> QED BY <3>1, <3>2
  <2>2. CASE d # c
    <3>1. /\ pool'[d] = pool[d] /\ shift'[d] = shift[d]
          /\ sPoolSaved'[d] = sPoolSaved[d]
          BY <1>2, <1>3, <2>2 DEF PoolInv
    <3> QED BY <3>1 DEF PoolInv
  <2> QED BY <2>1, <2>2
<1> QED BY <1>4, <1>5, <1>6 DEF PoolInv

LEMMA RestartKeeps ==
    ASSUME PoolInv, NEW c \in Consoles, Restart(c)
    PROVE  PoolInv'
<1>1. PoolOf(NoShift) = Loaded
      BY DEF PoolOf
<1>2. /\ DOMAIN pool' = Consoles /\ pool' = [d \in Consoles |-> pool'[d]]
      /\ sOriginalPool' = [d \in Consoles |-> Snapshot(Loaded)]
      /\ sPoolSaved' \in [Consoles -> BOOLEAN]
      /\ shift' \in [Consoles -> Draws \cup {NoShift}]
      BY DEF Restart, PoolInv
<1>3. ASSUME NEW d \in Consoles
      PROVE  /\ pool'[d] = PoolOf(shift'[d])
             /\ sPoolSaved'[d] \/ Snapshot(pool'[d]) = Snapshot(Loaded)
  <2>1. CASE d = c
    <3>1. /\ pool'[d] = Loaded /\ shift'[d] = NoShift
          /\ sPoolSaved'[d] = FALSE
          BY <2>1 DEF Restart, PoolInv
    <3> QED BY <1>1, <3>1
  <2>2. CASE d # c
    <3>1. /\ pool'[d] = pool[d] /\ shift'[d] = shift[d]
          /\ sPoolSaved'[d] = sPoolSaved[d]
          BY <2>2 DEF Restart, PoolInv
    <3> QED BY <3>1 DEF PoolInv
  <2> QED BY <2>1, <2>2
<1> QED BY <1>2, <1>3 DEF PoolInv

(* Whatever shifts a console has behind it, its pool is what the random    *)
(* numbers of the last one make of the loaded pool.                        *)
THEOREM PoolInvariance == PoolSpec => []PoolInv
<1>1. PoolInit => PoolInv
  <2>1. PoolOf(NoShift) = Loaded
        BY DEF PoolOf
  <2> QED BY <2>1 DEF PoolInit, PoolInv
<1>2. PoolInv /\ [PoolNext]_poolVars => PoolInv'
  <2>1. ASSUME PoolInv, PoolNext PROVE PoolInv'
        BY <2>1, ShuffleKeeps, RestartKeeps DEF PoolNext
  <2>2. ASSUME PoolInv, UNCHANGED poolVars PROVE PoolInv'
        BY <2>2 DEF PoolInv, poolVars
  <2> QED BY <2>1, <2>2
<1> QED BY <1>1, <1>2, PTL DEF PoolSpec

(* The specials of a shift depend on its random numbers only, for any      *)
(* number of consoles, any pool and any history: what the comment at       *)
(* CoopSpecialDbg.cpp:47-52 asks of the snapshot.                          *)
THEOREM ShiftDecidesPicks == PoolSpec => []SameShiftSamePicks
<1>1. PoolInv => SameShiftSamePicks
      BY DEF PoolInv, SameShiftSamePicks, Picks
<1> QED BY <1>1, PoolInvariance, PTL

(* The shuffle loses no entry of the pool and doubles none, also when the  *)
(* pool is longer than what it shuffles (CoopSpecialDbg.cpp:107-132).      *)
THEOREM PoolTypeCorrect == PoolSpec => []PoolTypeOK
<1>1. PoolInv => PoolTypeOK
  <2>1. ASSUME NEW s \in Draws \cup {NoShift}
        PROVE  PoolOf(s) \in [DOMAIN Loaded -> Entries] /\ IsInjective(PoolOf(s))
    <3>1. CASE s = NoShift
      <4>1. PoolOf(s) = Loaded
            BY <3>1 DEF PoolOf
      <4>2. IsInjective(Loaded) /\ Loaded = [i \in DOMAIN Loaded |-> Loaded[i]]
            BY PoolAssumption
      <4> QED BY <4>1, <4>2 DEF Entries
    <3>2. CASE s # NoShift
      <4>1. PoolOf(s) = Over(Shuffle(Snapshot(Loaded), s), Loaded)
            BY <3>2 DEF PoolOf
      <4>2. Shuffle(Snapshot(Loaded), s) \in Arrangements
            BY <2>1, <3>2, FrontArranged, ShuffleArranges
      <4> QED BY <4>1, <4>2, FrontReplaced
    <3> QED BY <3>1, <3>2
  <2>2. Snapshot(Loaded) \in [Snapped -> Entries]
        BY FrontArranged DEF Arrangements
  <2> QED BY <2>1, <2>2 DEF PoolInv, PoolTypeOK
<1> QED BY <1>1, PoolInvariance, PTL

-----------------------------------------------------------------------------
(* All the parts together.  A part that rests is in one of its initial     *)
(* states, and a step of another part leaves it there, so that every       *)
(* behaviour of the whole is one of each part.                             *)
LEMMA RosterRestsInit == RosterRests => Init
<1> SUFFICES ASSUME RosterRests PROVE Init
    OBVIOUS
<1> DEFINE f == [i \in OldSlots |-> kU16Sentinel]
<1>1. f \in [OldSlots -> MapIds \cup {kU16Sentinel}]
      OBVIOUS
<1>2. \A i, j \in OldSlots : f[i] = f[j] /\ f[i] # kU16Sentinel => i = j
      OBVIOUS
<1>3. \A k \in NewSlots : k \div 2 \in OldSlots
      BY MapAssumption DEF NewSlots, OldSlots, kNewSlotCount
<1>4. body = [k \in NewSlots |->
                IF k % 2 = 0 \/ f[k \div 2] = kU16Sentinel THEN f[k \div 2] ELSE 0]
      BY <1>3 DEF RosterRests
<1> HIDE DEF f
<1> QED BY <1>1, <1>2, <1>4 DEF Init, RosterRests

LEMMA EveryPart ==
    ASSUME Tunes # {}
    PROVE  SideSpec => Spec /\ BgmSpec /\ PoolSpec /\ KingSpec
<1>1. SideInit => Init /\ BgmInit /\ PoolInit /\ KingInit
  <2>1. BgmRests => BgmInit
        BY DEF BgmRests, BgmInit, Selections
  <2> QED BY <2>1, RosterRestsInit DEF SideInit
<1>2. [SideNext]_sideVars =>
        [Next]_vars /\ [BgmNext]_bgmVars /\ [PoolNext]_poolVars /\ [KingNext]_kingVars
      BY DEF SideNext, RosterStep, MusicStep, PoolStep, KingStep, sideVars
<1> QED BY <1>1, <1>2, PTL DEF SideSpec, Spec, BgmSpec, PoolSpec, KingSpec

(* The parts that share no state keep their types side by side             *)
(* (source/SaveDataLocalMapList.cpp, BgmExtend.cpp, CoopSpecialDbg.cpp,    *)
(* KingSquidMgr.cpp).                                                      *)
THEOREM SidePartsTypeCorrect ==
    ASSUME Tunes # {} PROVE SideSpec => []SideTypeOK
<1>1. MusicInv => BgmTypeOK
      BY DEF MusicInv
<1>2. TypeOK /\ BgmTypeOK /\ PoolTypeOK /\ KingTypeOK => SideTypeOK
      BY DEF SideTypeOK
<1> QED BY <1>1, <1>2, EveryPart, TypeCorrect, MusicInvariance, PoolTypeCorrect,
           KingTypeCorrect, PTL

(* And what each promises on its own it promises beside the others.        *)
THEOREM SidePartsKeepPromises ==
    ASSUME Tunes # {}
    PROVE  SideSpec => /\ [](SameShiftSamePicks /\ BallHasOneOwner /\ DiveEarned)
                       /\ ImplementsPrivateStages /\ ImplementsPlaylist
  BY EveryPart, ShiftDecidesPicks, BallsHaveOneOwner, DivesAreEarned, Refinement,
     MusicRefines, PTL
=============================================================================
