-------------------------- MODULE ClientView_proofs --------------------------
(***************************************************************************)
(* Type correctness of ClientView, and that no drawn player outlives its   *)
(* removal but through the window its history variable `lost` records: for *)
(* any set of ids and any amount of news.                                  *)
(***************************************************************************)
EXTENDS ClientView, TLAPS

(* While main is between RemoveObjects and CleanRemoveList, what it copied *)
(* is no longer drawn, and an id that was listed since is drawn only if it *)
(* was reported again or its removal is known to be lost: the fact that    *)
(* clearing the whole list needs.                                          *)
CleanInv == frame = "clean" =>
              /\ \A id \in listRemove : m_otherPlayers[id] = 0
              /\ \A id \in m_listRemove :
                   m_otherPlayers[id] = 0 \/ m_mapObject[id] # 0 \/ id \in lost

IInv == TypeOK /\ CleanInv /\ NoGhost

(* The constructors leave nothing listed and nothing drawn.                *)
LEMMA InitInv == Init => IInv
BY NewsAssumption DEF Init, IInv, TypeOK, CleanInv, NoGhost, Drawn

(* Every critical section of either thread keeps the invariant.            *)
LEMMA NextInv == IInv /\ [Next]_vars => IInv'
<1> SUFFICES ASSUME IInv, [Next]_vars PROVE IInv'
  OBVIOUS
<1> USE NewsAssumption DEF IInv, TypeOK, CleanInv, NoGhost, Drawn
<1>1. ASSUME NEW id \in Id, UpdateObjectMove(id) PROVE IInv'
  <2>1. news[id] + 1 \in 0..MaxNews /\ news[id] + 1 # 0
    BY <1>1 DEF UpdateObjectMove
  <2>2. m_mapObject' = [m_mapObject EXCEPT ![id] = news[id] + 1]
    BY <1>1 DEF UpdateObjectMove
  <2>3. TypeOK'
    BY <1>1, <2>1, <2>2 DEF UpdateObjectMove
  <2>4. CleanInv' /\ NoGhost'
    BY <1>1, <2>1, <2>2 DEF UpdateObjectMove
  <2> QED BY <2>3, <2>4
<1>2. ASSUME NEW id \in Id, RemovePlayer(id) PROVE IInv'
  <2>1. TypeOK'
    BY <1>2 DEF RemovePlayer
  <2>2. CleanInv'
    BY <1>2 DEF RemovePlayer
  <2>3. NoGhost'
    BY <1>2 DEF RemovePlayer
  <2> QED BY <2>1, <2>2, <2>3
<1>3. CASE UpdateObjects
  BY <1>3 DEF UpdateObjects, GetObjectList, linkVars
<1>4. CASE NoRemovals
  BY <1>4 DEF NoRemovals, linkVars
<1>5. CASE RemoveObjects
  <2>1. TypeOK' /\ CleanInv'
    BY <1>5 DEF RemoveObjects, linkVars
  <2>2. NoGhost'
    BY <1>5 DEF RemoveObjects, linkVars
  <2> QED BY <2>1, <2>2
<1>6. CASE CleanRemoveList
  BY <1>6 DEF CleanRemoveList
<1>7. CASE Finish
  BY <1>7 DEF Finish, linkVars
<1>8. CASE UNCHANGED vars
  BY <1>8 DEF vars, linkVars
<1> QED
  BY <1>1, <1>2, <1>3, <1>4, <1>5, <1>6, <1>7, <1>8 DEF Next, CalcActor

LEMMA InvHolds == Spec => []IInv
BY InitInv, NextInv, PTL DEF Spec

(* The variables stay in their types, and main's copy of m_listRemove is   *)
(* always part of it: only main takes ids off (NWApp.cpp:94).              *)
THEOREM TypeCorrect == Spec => []TypeOK
<1>1. IInv => TypeOK
  BY DEF IInv
<1> QED BY <1>1, InvHolds, PTL

(* A drawn player is known, or about to be removed, or its removal is one  *)
(* of those lost between GetRemoveList and CleanRemoveList.                *)
THEOREM NoGhostDrawn == Spec => []NoGhost
<1>1. IInv => NoGhost
  BY DEF IInv
<1> QED BY <1>1, InvHolds, PTL
=============================================================================
