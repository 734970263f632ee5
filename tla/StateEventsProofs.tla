-------------------------- MODULE StateEventsProofs --------------------------
(***************************************************************************)
(* How far a barrier can run away from its owner's, for any number of      *)
(* consoles: an event carries what is left of the owner's barrier, which   *)
(* never ends earlier afterwards, so a clone gains at most the delay.      *)
(***************************************************************************)
EXTENDS StateEvents, TLAPS

(* An event under way is not overdue, and tells of a barrier its player    *)
(* still has or had longer.                                                *)
EventFits(m) ==
    /\ m.to # m.player
    /\ m.sent <= now /\ now <= m.sent + MaxDelay
    /\ m.duration <= Duration
    /\ m.type = PACKET_START_BARRIER => m.sent + m.duration <= endFrm[m.player][m.player]

NetFits == \A m \in net : EventFits(m)

(* A barrier of one's own is only ever replaced by a longer one.           *)
GrantedKept == \A p \in Players : granted[p] <= endFrm[p][p]

IInv == TypeOK /\ NetFits /\ GrantedKept /\ NeverLonger
        /\ CloneOutlastsByDelay /\ NoEchoOutlasts

-----------------------------------------------------------------------------
(* The player's own console starts a longer barrier e for it.              *)
LEMMA StartOwn ==
    ASSUME IInv, NEW c \in Players, NEW e \in Nat, NEW s \in Players,
           e > now, e <= now + Duration, endFrm[c][c] <= e,
           startBarrier_Common(c, e, s),
           UNCHANGED <<match, online, now, mode>>,
           granted' \in [Players -> Nat],
           granted'[c] <= e, \A p \in Others(c) : granted'[p] = granted[p],
           granted'[c] = e => \A p \in Others(c) : source[c][p] = c => endFrm[c][p] <= e
    PROVE  IInv'
<1> USE StateEventsAssumption
<1>1. /\ endFrm' = [endFrm EXCEPT ![c][c] = e]
      /\ source' = [source EXCEPT ![c][c] = s]
      BY DEF startBarrier_Common, SetBarrier
<1>2. /\ endFrm' \in [Players -> [Players -> Nat]]
      /\ source' \in [Players -> [Players -> Players]]
      BY <1>1 DEF IInv, TypeOK
<1>3. /\ endFrm'[c][c] = e
      /\ \A d, p \in Players : d # c \/ p # c => endFrm'[d][p] = endFrm[d][p]
      /\ \A d, p \in Players : d # c \/ p # c => source'[d][p] = source[d][p]
      BY <1>1 DEF IInv, TypeOK
<1>4. \A p \in Players : endFrm'[p][p] >= endFrm[p][p]
      BY <1>3 DEF IInv, TypeOK
<1>5. \A m \in BarrierPacket(c, e, s) :
        /\ m \in Event /\ m.type = PACKET_START_BARRIER
        /\ m.player = c /\ m.to # c /\ m.duration = e - now /\ m.sent = now
  <2>1. now \in Nat /\ e - now \in Nat
        BY DEF IInv, TypeOK
  <2> QED BY <2>1 DEF BarrierPacket, Packet, Others, Event
<1>6. /\ lastSeen' \in [Players -> Nat] /\ sentExpiry' \in [Players -> Nat]
      /\ announced' \subseteq Players
      /\ net' \subseteq net \cup BarrierPacket(c, e, s)
  <2>1. lastSeen' = [lastSeen EXCEPT ![c] = now]
        BY DEF startBarrier_Common, sendEvent_StartBarrier
  <2>2. CASE Throttled(c)
        BY <2>1, <2>2 DEF IInv, TypeOK, startBarrier_Common, sendEvent_StartBarrier
  <2>3. CASE ~Throttled(c)
    <3>1. /\ sentExpiry' = [sentExpiry EXCEPT ![c] = e]
          /\ announced' = announced \cup {c}
          /\ net' = net \cup IF online THEN BarrierPacket(c, e, s) ELSE {}
          BY <2>3 DEF startBarrier_Common, sendEvent_StartBarrier, pushPlayerStateEvent
    <3>2. net' \subseteq net \cup BarrierPacket(c, e, s)
          BY <3>1
    <3>3. lastSeen' \in [Players -> Nat] /\ sentExpiry' \in [Players -> Nat]
          BY <2>1, <3>1 DEF IInv, TypeOK
    <3> QED BY <3>1, <3>2, <3>3 DEF IInv, TypeOK
  <2> QED BY <2>2, <2>3
<1>7. TypeOK'
      BY <1>2, <1>5, <1>6 DEF IInv, TypeOK
<1>8. NetFits'
  <2> SUFFICES ASSUME NEW m \in net' PROVE EventFits(m)'
      BY DEF NetFits
  <2>1. CASE m \in net
    <3>1. EventFits(m) /\ m \in Event
          BY <2>1 DEF IInv, NetFits, TypeOK
    <3>2. endFrm'[m.player][m.player] >= endFrm[m.player][m.player]
          BY <1>4, <3>1 DEF Event
    <3>3. /\ endFrm'[m.player][m.player] \in Nat /\ endFrm[m.player][m.player] \in Nat
          /\ m.sent \in Nat /\ m.duration \in Nat
          BY <1>2, <3>1 DEF IInv, TypeOK, Event
    <3> QED BY <3>1, <3>2, <3>3 DEF EventFits
  <2>2. CASE m \in BarrierPacket(c, e, s)
        BY <2>2, <1>3, <1>5 DEF EventFits, IInv, TypeOK
  <2> QED BY <1>6, <2>1, <2>2
<1>9. GrantedKept'
      BY <1>3 DEF IInv, GrantedKept, Others
<1>10. NeverLonger'
       BY <1>3 DEF IInv, NeverLonger
<1>11. CloneOutlastsByDelay'
  <2> SUFFICES ASSUME NEW d \in Players, NEW p \in Players
               PROVE  endFrm'[d][p] <= endFrm'[p][p] + MaxDelay
      BY DEF CloneOutlastsByDelay
  <2>1. CASE d = c /\ p = c
        BY <2>1, <1>3
  <2>2. CASE d # c \/ p # c
    <3>1. endFrm'[d][p] = endFrm[d][p] /\ endFrm[d][p] <= endFrm[p][p] + MaxDelay
          BY <2>2, <1>3 DEF IInv, CloneOutlastsByDelay
    <3>2. endFrm[d][p] \in Nat /\ endFrm[p][p] \in Nat /\ endFrm'[p][p] \in Nat
          BY <1>2 DEF IInv, TypeOK
    <3> QED BY <3>1, <3>2, <1>4
  <2> QED BY <2>1, <2>2
<1>12. NoEchoOutlasts'
  <2> SUFFICES ASSUME NEW d \in Players, Active(d, d)', endFrm'[d][d] = granted'[d],
                      NEW p \in Players, source'[d][p] = d
               PROVE  endFrm'[d][p] <= endFrm'[d][d]
      BY DEF NoEchoOutlasts
  <2>1. CASE d = c
    <3>1. CASE p = c
          BY <2>1, <3>1, <1>3
    <3>2. CASE p # c
          BY <2>1, <3>2, <1>3 DEF Others
    <3> QED BY <3>1, <3>2
  <2>2. CASE d # c
        BY <2>2, <1>3 DEF IInv, NoEchoOutlasts, Active, Others
  <2> QED BY <2>1, <2>2
<1> QED BY <1>7, <1>8, <1>9, <1>10, <1>11, <1>12 DEF IInv

LEMMA ActivateStep ==
    ASSUME IInv, NEW p \in Players, Activate(p)
    PROVE  IInv'
<1> USE StateEventsAssumption
<1>1. now \in Nat /\ endFrm[p] \in [Players -> Nat]
      BY DEF IInv, TypeOK
<1>2. granted' = [granted EXCEPT ![p] = now + Duration]
      BY DEF Activate
<1>3. /\ granted' \in [Players -> Nat] /\ granted'[p] = now + Duration
      /\ \A q \in Others(p) : granted'[q] = granted[q]
      BY <1>1, <1>2 DEF IInv, TypeOK, Others
<1>4. \A q \in Players : endFrm[p][q] <= now + Duration
      BY DEF IInv, NeverLonger
<1> DEFINE e == now + Duration
<1>5. e \in Nat /\ e > now
      BY <1>1
<1>6. startBarrier_Common(p, e, p) /\ UNCHANGED <<match, online, now, mode>>
      BY DEF Activate
<1>7. granted'[p] = e /\ endFrm[p][p] <= e /\ \A q \in Players : endFrm[p][q] <= e
      BY <1>3, <1>4
<1>8. e <= now + Duration
      BY <1>1
<1> HIDE DEF e
<1> QED BY <1>3, <1>5, <1>6, <1>7, <1>8, StartOwn DEF Others

LEMMA CopyFromStep ==
    ASSUME IInv, NEW c \in Players, NEW p \in Players, CopyFrom(c, p)
    PROVE  IInv'
<1> DEFINE e == endFrm[c][p]
<1>1. /\ e \in Nat /\ source[c][p] \in Players /\ endFrm[c][c] \in Nat
      /\ granted \in [Players -> Nat] /\ now \in Nat
      BY DEF IInv, TypeOK
<1>2. e > now /\ e > endFrm[c][c] /\ e <= now + Duration
      BY DEF CopyFrom, Active, IInv, NeverLonger
<1>3. granted' = granted /\ granted[c] <= endFrm[c][c]
      BY DEF CopyFrom, IInv, GrantedKept
<1>4. granted'[c] < e
      BY <1>1, <1>2, <1>3
<1>5. startBarrier_Common(c, e, source[c][p]) /\ UNCHANGED <<match, online, now, mode>>
      BY DEF CopyFrom
<1> HIDE DEF e
<1>6. granted'[c] # e /\ granted'[c] <= e /\ endFrm[c][c] <= e
      BY <1>1, <1>2, <1>3, <1>4
<1> QED BY <1>1, <1>2, <1>3, <1>5, <1>6, StartOwn

LEMMA ReceiveBarrierStep ==
    ASSUME IInv, NEW m \in net, ReceiveBarrier(m)
    PROVE  IInv'
<1> USE StateEventsAssumption
<1> DEFINE c == m.to
           p == m.player
           e == CloneEnd(m.to, m.duration, m.source)
<1>1. /\ m \in Event /\ EventFits(m) /\ m.type = PACKET_START_BARRIER
      /\ UNCHANGED <<match, online, now, granted, mode, throttle>>
      /\ net' = net \ {m}
      BY DEF IInv, NetFits, TypeOK, ReceiveBarrier
<1>2. /\ c \in Players /\ p \in Players /\ c # p /\ m.source \in Players
      /\ m.duration \in Nat /\ m.sent \in Nat /\ now \in Nat
      BY <1>1 DEF Event, EventFits, IInv, TypeOK
<1>3. /\ \A d, q \in Players : endFrm[d][q] \in Nat
      /\ endFrm \in [Players -> [Players -> Nat]]
      /\ source \in [Players -> [Players -> Players]]
      BY DEF IInv, TypeOK
<1>4. /\ e \in Nat /\ e <= now + m.duration
      /\ Active(c, c) /\ m.source = c => e <= endFrm[c][c]
  <2>1. endFrm[c][c] \in Nat /\ now + m.duration \in Nat
        BY <1>2, <1>3
  <2>2. CASE Active(c, c) /\ m.source = c /\ now + m.duration > endFrm[c][c]
    <3>1. e = endFrm[c][c]
          BY <2>2 DEF CloneEnd
    <3> QED BY <2>1, <2>2, <3>1
  <2>3. CASE ~(Active(c, c) /\ m.source = c /\ now + m.duration > endFrm[c][c])
    <3>1. e = now + m.duration
          BY <2>3 DEF CloneEnd
    <3> HIDE DEF c, p, e
    <3> QED BY <2>1, <2>3, <3>1
  <2> QED BY <2>2, <2>3
<1>5. \/ UNCHANGED <<endFrm, source>>
      \/ /\ endFrm' = [endFrm EXCEPT ![c][p] = e]
         /\ source' = [source EXCEPT ![c][p] = m.source]
      BY DEF ReceiveBarrier, SetBarrier
<1>6. e <= now + Duration /\ e <= endFrm[p][p] + MaxDelay
      BY <1>1, <1>2, <1>3, <1>4 DEF EventFits
<1> HIDE DEF e, c, p
<1>7. /\ endFrm' \in [Players -> [Players -> Nat]]
      /\ source' \in [Players -> [Players -> Players]]
  <2>1. CASE UNCHANGED <<endFrm, source>>
        BY <1>3, <2>1
  <2>2. CASE /\ endFrm' = [endFrm EXCEPT ![c][p] = e]
             /\ source' = [source EXCEPT ![c][p] = m.source]
    <3>1. endFrm' \in [Players -> [Players -> Nat]]
          BY <1>2, <1>3, <1>4, <2>2
    <3>2. source' \in [Players -> [Players -> Players]]
          BY <1>2, <1>3, <2>2
    <3> QED BY <3>1, <3>2
  <2> QED BY <1>5, <2>1, <2>2
<1>8. /\ \A d, q \in Players : d # c \/ q # p => endFrm'[d][q] = endFrm[d][q]
      /\ \A d, q \in Players : d # c \/ q # p => source'[d][q] = source[d][q]
      /\ \/ endFrm'[c][p] = endFrm[c][p] /\ source'[c][p] = source[c][p]
         \/ endFrm'[c][p] = e /\ source'[c][p] = m.source
      BY <1>2, <1>3, <1>5
<1>9. \A q \in Players : endFrm'[q][q] = endFrm[q][q]
      BY <1>2, <1>8
<1>10. TypeOK'
       BY <1>1, <1>7 DEF IInv, TypeOK, throttle
<1>11. NetFits'
  <2> SUFFICES ASSUME NEW n \in net' PROVE EventFits(n)'
      BY DEF NetFits
  <2>1. n \in net /\ EventFits(n) /\ n \in Event
        BY <1>1 DEF IInv, NetFits, TypeOK
  <2>2. endFrm'[n.player][n.player] = endFrm[n.player][n.player]
        BY <1>9, <2>1 DEF Event
  <2> QED BY <1>1, <2>1, <2>2 DEF EventFits
<1>12. GrantedKept'
       BY <1>1, <1>9 DEF IInv, GrantedKept
<1>13. NeverLonger'
  <2> SUFFICES ASSUME NEW d \in Players, NEW q \in Players
               PROVE  endFrm'[d][q] <= now + Duration
      BY <1>1 DEF NeverLonger
  <2> QED BY <1>6, <1>8 DEF IInv, NeverLonger
<1>14. CloneOutlastsByDelay'
  <2> SUFFICES ASSUME NEW d \in Players, NEW q \in Players
               PROVE  endFrm'[d][q] <= endFrm[q][q] + MaxDelay
      BY <1>9 DEF CloneOutlastsByDelay
  <2> QED BY <1>6, <1>8 DEF IInv, CloneOutlastsByDelay
<1>15. NoEchoOutlasts'
  <2> SUFFICES ASSUME NEW d \in Players, Active(d, d), endFrm[d][d] = granted[d],
                      NEW q \in Players, source'[d][q] = d
               PROVE  endFrm'[d][q] <= endFrm[d][d]
      BY <1>1, <1>9 DEF NoEchoOutlasts, Active
  <2>1. source[d][q] = d => endFrm[d][q] <= endFrm[d][d]
        BY DEF IInv, NoEchoOutlasts
  <2>2. CASE d = c /\ q = p
        BY <2>1, <2>2, <1>4, <1>8
  <2>3. CASE d # c \/ q # p
        BY <2>1, <2>3, <1>8
  <2> QED BY <2>2, <2>3
<1> QED BY <1>10, <1>11, <1>12, <1>13, <1>14, <1>15 DEF IInv

LEMMA ReceiveOtherStep ==
    ASSUME IInv, NEW m \in net, ReceiveOther(m)
    PROVE  IInv'
<1>1. /\ UNCHANGED <<match, online, now, barriers, throttle>>
      /\ net' = net \ {m} /\ m \in Event
      /\ mode' = IF m.type = PACKET_BIGLASER_PC
                 THEN [mode EXCEPT ![m.to][m.player] = cPrincessCannon] ELSE mode
      BY DEF ReceiveOther, IInv, TypeOK
<1>2. mode' \in [Players -> [Players -> {cKillerWail, cPrincessCannon}]]
      BY <1>1 DEF IInv, TypeOK, Event
<1>3. TypeOK'
      BY <1>1, <1>2 DEF IInv, TypeOK, barriers, throttle
<1> QED BY <1>1, <1>3 DEF IInv, barriers, throttle, NetFits, EventFits, GrantedKept,
                          NeverLonger, CloneOutlastsByDelay, NoEchoOutlasts, Active

LEMMA PickupStep ==
    ASSUME IInv, NEW p \in Players, Pickup(p)
    PROVE  IInv'
<1>1. /\ UNCHANGED <<match, online, now, barriers, throttle>>
      /\ net' \subseteq net \cup PickupPacket(p)
      /\ mode' = [mode EXCEPT ![p][p] = cPrincessCannon]
      BY DEF Pickup, pushPlayerStateEvent
<1>2. now \in Nat /\ now <= now + MaxDelay /\ 0 <= Duration
      BY StateEventsAssumption DEF IInv, TypeOK
<1>3. \A m \in PickupPacket(p) :
        /\ m \in Event /\ m.type # PACKET_START_BARRIER
        /\ m.to # m.player /\ m.sent = now /\ m.duration = 0
      BY <1>2 DEF PickupPacket, Packet, Others, Event, cPickupPacket, PACKET_START_BARRIER
<1>4. mode' \in [Players -> [Players -> {cKillerWail, cPrincessCannon}]]
      BY <1>1 DEF IInv, TypeOK
<1>5. TypeOK'
      BY <1>1, <1>3, <1>4 DEF IInv, TypeOK, barriers, throttle
<1>6. NetFits'
  <2> SUFFICES ASSUME NEW m \in net' PROVE EventFits(m)'
      BY DEF NetFits
  <2>1. CASE m \in net
        BY <1>1, <2>1 DEF IInv, NetFits, EventFits, barriers
  <2>2. CASE m \in PickupPacket(p)
        BY <1>1, <1>2, <1>3, <2>2 DEF EventFits, barriers
  <2> QED BY <1>1, <2>1, <2>2
<1> QED BY <1>1, <1>5, <1>6 DEF IInv, barriers, GrantedKept, NeverLonger,
                                CloneOutlastsByDelay, NoEchoOutlasts, Active

LEMMA TickStep ==
    ASSUME IInv, Tick
    PROVE  IInv'
<1> USE StateEventsAssumption
<1>1. /\ now \in Nat /\ now' = now + 1 /\ now < LastFrame
      /\ UNCHANGED <<match, online, barriers, mode, throttle, net>>
      BY DEF Tick, IInv, TypeOK
<1>2. TypeOK'
      BY <1>1 DEF IInv, TypeOK, barriers, throttle
<1>3. NetFits'
  <2> SUFFICES ASSUME NEW m \in net PROVE EventFits(m)'
      BY <1>1 DEF NetFits
  <2>1. EventFits(m) /\ m.sent \in Nat /\ now < m.sent + MaxDelay
        BY DEF IInv, NetFits, TypeOK, Event, Tick
  <2> QED BY <1>1, <2>1 DEF EventFits, barriers
<1>4. NeverLonger'
  <2> SUFFICES ASSUME NEW c \in Players, NEW p \in Players
               PROVE  endFrm[c][p] <= now + 1 + Duration
      BY <1>1 DEF NeverLonger, barriers
  <2>1. endFrm[c][p] \in Nat /\ endFrm[c][p] <= now + Duration
        BY DEF IInv, TypeOK, NeverLonger
  <2> QED BY <1>1, <2>1
<1>5. NoEchoOutlasts'
  <2>1. \A c \in Players : Active(c, c)' => Active(c, c)
    <3> TAKE c \in Players
    <3>1. endFrm[c][c] \in Nat
          BY DEF IInv, TypeOK
    <3> QED BY <1>1, <3>1 DEF Active, barriers
  <2> QED BY <1>1, <2>1 DEF IInv, NoEchoOutlasts, barriers
<1> QED BY <1>1, <1>2, <1>3, <1>4, <1>5 DEF IInv, barriers, GrantedKept, CloneOutlastsByDelay

(* A match begins without barriers and without events, whatever the        *)
(* throttle still holds.                                                   *)
LEMMA MatchBegins ==
    ASSUME match \in 1..Matches, online \in BOOLEAN, now = 0,
           endFrm = [c \in Players |-> [p \in Players |-> 0]],
           source = [c \in Players |-> [p \in Players |-> p]],
           granted = [p \in Players |-> 0],
           mode = [c \in Players |-> [p \in Players |-> cKillerWail]],
           sentExpiry \in [Players -> Nat], lastSeen \in [Players -> Nat],
           announced = {}, net = {}
    PROVE  IInv
<1> USE StateEventsAssumption
<1>1. TypeOK
      BY DEF TypeOK
<1>2. NetFits /\ GrantedKept
      BY DEF NetFits, GrantedKept
<1>3. NeverLonger /\ CloneOutlastsByDelay /\ NoEchoOutlasts
      BY DEF NeverLonger, CloneOutlastsByDelay, NoEchoOutlasts
<1> QED BY <1>1, <1>2, <1>3 DEF IInv

LEMMA InitIInv == Init => IInv
<1> SUFFICES ASSUME Init PROVE IInv
    OBVIOUS
<1> QED BY MatchBegins, StateEventsAssumption DEF Init

LEMMA NextMatchStep ==
    ASSUME IInv, NextMatch
    PROVE  IInv'
<1> USE StateEventsAssumption
<1>1. /\ match' \in 1..Matches /\ online' \in BOOLEAN /\ now' = 0
      /\ endFrm' = [c \in Players |-> [p \in Players |-> 0]]
      /\ source' = [c \in Players |-> [p \in Players |-> p]]
      /\ granted' = [p \in Players |-> 0]
      /\ mode' = [c \in Players |-> [p \in Players |-> cKillerWail]]
      /\ sentExpiry' \in [Players -> Nat] /\ lastSeen' \in [Players -> Nat]
      /\ announced' = {} /\ net' = {}
      BY DEF NextMatch, IInv, TypeOK
<1>2. TypeOK'
      BY <1>1 DEF TypeOK
<1>3. NetFits' /\ GrantedKept'
      BY <1>1 DEF NetFits, GrantedKept
<1>4. NeverLonger' /\ CloneOutlastsByDelay' /\ NoEchoOutlasts'
      BY <1>1 DEF NeverLonger, CloneOutlastsByDelay, NoEchoOutlasts
<1> QED BY <1>2, <1>3, <1>4 DEF IInv

LEMMA NextIInv == IInv /\ [Next]_vars => IInv'
<1> SUFFICES ASSUME IInv, [Next]_vars PROVE IInv'
    OBVIOUS
<1>1. CASE UNCHANGED vars
      BY <1>1 DEF vars, barriers, throttle, IInv, TypeOK, NetFits, EventFits, GrantedKept,
                  NeverLonger, CloneOutlastsByDelay, NoEchoOutlasts, Active
<1> QED BY <1>1, TickStep, NextMatchStep, ActivateStep, CopyFromStep, PickupStep,
           ReceiveBarrierStep, ReceiveOtherStep DEF Next

(* What the bounds rest on, for any number of consoles and any delay.      *)
THEOREM Invariance == Spec => []IInv
    BY InitIInv, NextIInv, PTL DEF Spec

(* Every packet is well-formed: a duration, then a player.                 *)
THEOREM TypeCorrect == Spec => []TypeOK
<1>1. IInv => TypeOK
      BY DEF IInv
<1> QED BY <1>1, Invariance, PTL

(* A clone's barrier outlasts its owner's by the delay at most             *)
(* (source/main.cpp:480-505, 546).                                         *)
THEOREM ClonesKeepUp == Spec => []CloneOutlastsByDelay
<1>1. IInv => CloneOutlastsByDelay
      BY DEF IInv
<1> QED BY <1>1, Invariance, PTL

(* A player's own barrier is never outlasted by an echo of it (483-498).   *)
THEOREM EchoClamped == Spec => []NoEchoOutlasts
<1>1. IInv => NoEchoOutlasts
      BY DEF IInv
<1> QED BY <1>1, Invariance, PTL

(* Handing a barrier on never makes it longer than a new one.              *)
THEOREM HandedOn == Spec => []NeverLonger
<1>1. IInv => NeverLonger
      BY DEF IInv
<1> QED BY <1>1, Invariance, PTL

-----------------------------------------------------------------------------
(* The throttle.  It begins clear, and in the first match it is set only   *)
(* by an event that goes out.                                              *)
ThrottleFresh ==
    match = 1 =>
      \A c \in Players :
        /\ c \notin announced => sentExpiry[c] = 0
        /\ Active(c, c) => c \in announced

LEMMA ThrottleStep ==
    ASSUME IInv, ThrottleFresh, [Next]_vars
    PROVE  ThrottleFresh'
<1> SUFFICES ASSUME match' = 1, NEW c \in Players
             PROVE  /\ c \notin announced' => sentExpiry'[c] = 0
                    /\ Active(c, c)' => c \in announced'
    BY DEF ThrottleFresh
<1>0. match \in Nat /\ match >= 1 /\ now \in Nat
      BY StateEventsAssumption DEF IInv, TypeOK
<1>1. ASSUME match = 1, UNCHANGED throttle, endFrm'[c][c] = endFrm[c][c], now' >= now, now' \in Nat
      PROVE  /\ c \notin announced' => sentExpiry'[c] = 0
             /\ Active(c, c)' => c \in announced'
  <2>1. endFrm[c][c] \in Nat
        BY DEF IInv, TypeOK
  <2>2. Active(c, c)' => Active(c, c)
        BY <1>0, <1>1, <2>1 DEF Active
  <2> QED BY <1>1, <2>2 DEF ThrottleFresh, throttle
<1>2. ASSUME NEW d \in Players, NEW e, NEW s, startBarrier_Common(d, e, s),
             UNCHANGED <<match, now>>
      PROVE  /\ c \notin announced' => sentExpiry'[c] = 0
             /\ Active(c, c)' => c \in announced'
  <2>1. CASE d = c
    <3>1. CASE Throttled(c)
      <4>1. sentExpiry[c] > now
            BY <3>1 DEF Throttled, IInv, TypeOK
      <4>2. c \in announced
            BY <1>0, <1>2, <4>1 DEF ThrottleFresh
      <4> QED BY <1>2, <2>1, <3>1, <4>2 DEF startBarrier_Common, sendEvent_StartBarrier
    <3>2. CASE ~Throttled(c)
          BY <1>2, <2>1, <3>2 DEF startBarrier_Common, sendEvent_StartBarrier
    <3> QED BY <3>1, <3>2
  <2>2. CASE d # c
    <3>1. endFrm'[c][c] = endFrm[c][c]
          BY <1>2, <2>2 DEF startBarrier_Common, SetBarrier, IInv, TypeOK
    <3>2. sentExpiry'[c] = sentExpiry[c] /\ (c \in announced => c \in announced')
      <4>1. CASE Throttled(d)
            BY <1>2, <4>1 DEF startBarrier_Common, sendEvent_StartBarrier
      <4>2. CASE ~Throttled(d)
            BY <1>2, <2>2, <4>2 DEF startBarrier_Common, sendEvent_StartBarrier, IInv, TypeOK
      <4> QED BY <4>1, <4>2
    <3> QED BY <1>2, <3>1, <3>2 DEF ThrottleFresh, Active
  <2> QED BY <2>1, <2>2
<1>3. CASE Tick
      BY <1>0, <1>1, <1>3 DEF Tick, barriers
<1>4. CASE NextMatch
      BY <1>0, <1>4 DEF NextMatch
<1>5. ASSUME NEW p \in Players, Activate(p)
      PROVE  /\ c \notin announced' => sentExpiry'[c] = 0
             /\ Active(c, c)' => c \in announced'
      BY <1>2, <1>5 DEF Activate
<1>6. ASSUME NEW p \in Players, NEW d \in Players, CopyFrom(d, p)
      PROVE  /\ c \notin announced' => sentExpiry'[c] = 0
             /\ Active(c, c)' => c \in announced'
      BY <1>2, <1>6 DEF CopyFrom
<1>7. ASSUME NEW m \in net, ReceiveBarrier(m)
      PROVE  /\ c \notin announced' => sentExpiry'[c] = 0
             /\ Active(c, c)' => c \in announced'
  <2>1. m.to # m.player
        BY DEF IInv, NetFits, EventFits
  <2>2. m.to \in Players /\ m.player \in Players /\ endFrm \in [Players -> [Players -> Nat]]
        BY DEF IInv, TypeOK, Event
  <2>3. \/ endFrm' = endFrm
        \/ \E e : endFrm' = [endFrm EXCEPT ![m.to][m.player] = e]
        BY <1>7 DEF ReceiveBarrier, SetBarrier
  <2>4. endFrm'[c][c] = endFrm[c][c]
        BY <2>1, <2>2, <2>3
  <2> QED BY <1>0, <1>1, <1>7, <2>4 DEF ReceiveBarrier
<1>8. CASE \/ \E p \in Players : Pickup(p)
           \/ \E m \in net : ReceiveOther(m)
           \/ UNCHANGED vars
  <2>1. UNCHANGED <<match, now, barriers, throttle>>
        BY <1>8 DEF Pickup, ReceiveOther, vars
  <2> QED BY <1>0, <1>1, <2>1 DEF barriers
<1> QED BY <1>3, <1>4, <1>5, <1>6, <1>7, <1>8 DEF Next

(* In the first match no barrier is silenced: what breaks                  *)
(* FirstBarrierAnnounced is only the throttle of an earlier match          *)
(* (main.cpp:516-530).                                                     *)
THEOREM FirstMatchAnnounced == Spec => [](match = 1 => FirstBarrierAnnounced)
<1>1. Init => ThrottleFresh
  <2> SUFFICES ASSUME Init, NEW c \in Players PROVE sentExpiry[c] = 0 /\ ~Active(c, c)
      BY DEF ThrottleFresh
  <2>1. now = 0 /\ endFrm[c][c] = 0 /\ sentExpiry[c] = 0
        BY DEF Init
  <2> QED BY <2>1 DEF Active
<1>2. ThrottleFresh => (match = 1 => FirstBarrierAnnounced)
      BY DEF ThrottleFresh, FirstBarrierAnnounced
<1> QED BY <1>1, <1>2, ThrottleStep, Invariance, PTL DEF Spec
-----------------------------------------------------------------------------
(* The mode of a clone.  An event under way is a barrier's or a pickup's   *)
(* as it is sent, and nothing but the type the receiver expects, which is  *)
(* neither, changes a clone's mode.                                        *)
ClonesStayKW == \A c, p \in Players : c # p => mode[c][p] = cKillerWail

NoneExpected == \A m \in net : m.type # PACKET_BIGLASER_PC

LEMMA PacketType ==
    ASSUME NEW type, NEW p, NEW d, NEW s, NEW m \in Packet(type, p, d, s)
    PROVE  m.type = type
BY DEF Packet

LEMMA BarrierUnexpected ==
    ASSUME NoneExpected, NEW c, NEW e, NEW s, sendEvent_StartBarrier(c, e, s)
    PROVE  NoneExpected'
<1>1. \A m \in BarrierPacket(c, e, s) : m.type # PACKET_BIGLASER_PC
      BY PacketType DEF BarrierPacket, PACKET_BIGLASER_PC, PACKET_START_BARRIER
<1>2. net' = net \/ net' = net \cup IF online THEN BarrierPacket(c, e, s) ELSE {}
      BY DEF sendEvent_StartBarrier, pushPlayerStateEvent
<1>3. net' \subseteq net \cup BarrierPacket(c, e, s)
      BY <1>2
<1> QED BY <1>1, <1>3 DEF NoneExpected

LEMMA CloneModeStep ==
    ASSUME IInv, NoneExpected, ClonesStayKW, [Next]_vars
    PROVE  NoneExpected' /\ ClonesStayKW'
<1>0. mode \in [Players -> [Players -> {cKillerWail, cPrincessCannon}]]
      BY DEF IInv, TypeOK
<1>1. ASSUME NEW p \in Players, Activate(p) PROVE NoneExpected' /\ ClonesStayKW'
      BY <1>1, BarrierUnexpected DEF Activate, startBarrier_Common, ClonesStayKW
<1>2. ASSUME NEW c \in Players, NEW p \in Players, CopyFrom(c, p)
      PROVE  NoneExpected' /\ ClonesStayKW'
      BY <1>2, BarrierUnexpected DEF CopyFrom, startBarrier_Common, ClonesStayKW
<1>3. ASSUME NEW p \in Players, Pickup(p) PROVE NoneExpected' /\ ClonesStayKW'
  <2>1. \A m \in PickupPacket(p) : m.type # PACKET_BIGLASER_PC
        BY PacketType DEF PickupPacket, PACKET_BIGLASER_PC, cPickupPacket
  <2>2. net' \subseteq net \cup PickupPacket(p)
        BY <1>3 DEF Pickup, pushPlayerStateEvent
  <2>3. \A c, q \in Players : c # q => mode'[c][q] = mode[c][q]
        BY <1>0, <1>3 DEF Pickup
  <2> QED BY <2>1, <2>2, <2>3 DEF NoneExpected, ClonesStayKW
<1>4. ASSUME NEW m \in net, ReceiveOther(m) PROVE NoneExpected' /\ ClonesStayKW'
      BY <1>4 DEF ReceiveOther, NoneExpected, ClonesStayKW
<1>5. ASSUME NEW m \in net, ReceiveBarrier(m) PROVE NoneExpected' /\ ClonesStayKW'
      BY <1>5 DEF ReceiveBarrier, NoneExpected, ClonesStayKW
<1>6. CASE Tick \/ UNCHANGED vars
      BY <1>6 DEF Tick, vars, NoneExpected, ClonesStayKW
<1>7. CASE NextMatch
      BY <1>7 DEF NextMatch, NoneExpected, ClonesStayKW
<1> QED BY <1>1, <1>2, <1>3, <1>4, <1>5, <1>6, <1>7 DEF Next

(* No clone ever follows a pickup, in any match and whatever the network   *)
(* does (source/BigLaserModeMgr.cpp:1017, main.cpp:422): PickupReachesClones*)
(* fails for every pickup, and the models of a shot may take the clones to *)
(* be in Killer Wail mode.                                                 *)
THEOREM PickupsUnnoticed == Spec => []ClonesStayKW
<1>1. Init => NoneExpected /\ ClonesStayKW
      BY DEF Init, NoneExpected, ClonesStayKW
<1> QED BY <1>1, CloneModeStep, Invariance, PTL DEF Spec
=============================================================================
