----------------------------- MODULE ClientView -----------------------------
(***************************************************************************)
(* The client's picture of the other players, shared by its two threads:   *)
(*                                                                         *)
(*   io     ReadDataHandler (ClientSocket.cpp) turns SMSG_MOVE_UPDATE and  *)
(*          SMSG_Player_Remove into UpdateObjectMove and RemovePlayer of   *)
(*          CWorldLink, each a critical section of _ObjectLock;            *)
(*   main   GLApp::Run calls NWApp::CalcActor once per frame, which copies *)
(*          m_mapObject into m_otherPlayers, then erases the players of    *)
(*          m_listRemove and clears that list, in three critical sections  *)
(*          of the same lock.                                              *)
(*                                                                         *)
(* m_otherPlayers belongs to main alone, so a critical section and main's  *)
(* work on its result are one action.  A position is the number of the     *)
(* message that brought it; the lists are kept as sets, for only what is   *)
(* in them matters.                                                        *)
(***************************************************************************)
EXTENDS Naturals, FiniteSets

CONSTANTS Id,          \* session ids the server sends
          MaxNews      \* bound: positions received per id

ASSUME NewsAssumption == MaxNews \in Nat

VARIABLES
  m_mapObject,     \* id |-> position of its Object, 0: no such object
  m_listRemove,    \* ids removed since main last cleared the list
  m_otherPlayers,  \* id |-> position of the drawn Player, 0: not drawn
  listRemove,      \* main's copy of m_listRemove (NWApp.cpp:76)
  frame,           \* where main is in CalcActor, or "finished"
  news,            \* history: positions received per id
  lost             \* history: ids whose removal CleanRemoveList may drop unseen

linkVars == <<m_mapObject, m_listRemove, news, lost>>
vars == <<linkVars, m_otherPlayers, listRemove, frame>>

Drawn == [Id -> 0..MaxNews]

TypeOK == /\ m_mapObject \in Drawn
          /\ m_listRemove \in SUBSET Id
          /\ m_otherPlayers \in Drawn
          /\ listRemove \in SUBSET m_listRemove
          /\ frame \in {"objects", "removals", "clean", "finished"}
          /\ news \in Drawn
          /\ lost \in SUBSET Id

Init == /\ m_mapObject = [id \in Id |-> 0]
        /\ m_listRemove = {}
        /\ m_otherPlayers = [id \in Id |-> 0]
        /\ listRemove = {}
        /\ frame = "objects"
        /\ news = [id \in Id |-> 0]
        /\ lost = {}

-----------------------------------------------------------------------------
(* io thread.  exit() of main ends it (GLApp.cpp:110).                     *)

(* Fault: news of a player withdraws its pending removal.                  *)
UpdateObjectMoveRevives(id) ==
  /\ frame # "finished" /\ news[id] < MaxNews
  /\ news' = [news EXCEPT ![id] = @ + 1]
  /\ m_mapObject' = [m_mapObject EXCEPT ![id] = news'[id]]
  /\ m_listRemove' = m_listRemove \ {id}
  /\ lost' = lost \ {id}
  /\ UNCHANGED <<m_otherPlayers, listRemove, frame>>

UpdateObjectMove(id) ==
  /\ frame # "finished" /\ news[id] < MaxNews
  /\ news' = [news EXCEPT ![id] = @ + 1]
  /\ m_mapObject' = [m_mapObject EXCEPT ![id] = news'[id]]
  /\ lost' = lost \ {id}
  /\ UNCHANGED <<m_listRemove, m_otherPlayers, listRemove, frame>>

(* Fault: only the object goes, main is not told.                          *)
RemovePlayerUntold(id) ==
  /\ frame # "finished" /\ m_mapObject[id] # 0
  /\ m_mapObject' = [m_mapObject EXCEPT ![id] = 0]
  /\ UNCHANGED <<m_listRemove, m_otherPlayers, listRemove, frame, news, lost>>

(* A removal of an id that is not in the map changes nothing.              *)
RemovePlayer(id) ==
  /\ frame # "finished" /\ m_mapObject[id] # 0
  /\ m_mapObject' = [m_mapObject EXCEPT ![id] = 0]
  /\ m_listRemove' = m_listRemove \cup {id}
  /\ lost' = IF frame = "clean" /\ id \notin listRemove THEN lost \cup {id} ELSE lost
  /\ UNCHANGED <<m_otherPlayers, listRemove, frame, news>>

-----------------------------------------------------------------------------
(* main thread: NWApp::CalcActor.                                          *)

GetObjectList == {id \in Id : m_mapObject[id] # 0}

UpdateObjects ==
  /\ frame = "objects" /\ frame' = "removals"
  /\ m_otherPlayers' = [id \in Id |-> IF id \in GetObjectList THEN m_mapObject[id]
                                                              ELSE m_otherPlayers[id]]
  /\ UNCHANGED <<linkVars, listRemove>>

NoRemovals == /\ frame = "removals" /\ m_listRemove = {}
              /\ frame' = "objects"
              /\ UNCHANGED <<linkVars, m_otherPlayers, listRemove>>

(* Fault: the list is not cleared.                                         *)
RemoveObjectsOnly ==
  /\ frame = "removals" /\ m_listRemove # {}
  /\ frame' = "objects"
  /\ m_otherPlayers' = [id \in Id |-> IF id \in m_listRemove THEN 0 ELSE m_otherPlayers[id]]
  /\ UNCHANGED <<linkVars, listRemove>>

(* GetRemoveList and the loop of RemoveObjects.                            *)
RemoveObjects ==
  /\ frame = "removals" /\ m_listRemove # {}
  /\ frame' = "clean"
  /\ listRemove' = m_listRemove
  /\ m_otherPlayers' = [id \in Id |-> IF id \in m_listRemove THEN 0 ELSE m_otherPlayers[id]]
  /\ UNCHANGED linkVars

(* The whole list is cleared, not what was copied.                         *)
CleanRemoveList == /\ frame = "clean" /\ frame' = "objects"
                   /\ m_listRemove' = {}
                   /\ listRemove' = {}
                   /\ UNCHANGED <<m_mapObject, m_otherPlayers, news, lost>>

(* The window was closed: between two frames.                              *)
Finish == /\ frame = "objects" /\ frame' = "finished"
          /\ UNCHANGED <<linkVars, m_otherPlayers, listRemove>>

CalcActor == UpdateObjects \/ NoRemovals \/ RemoveObjects \/ CleanRemoveList

Next == \/ \E id \in Id : UpdateObjectMove(id) \/ RemovePlayer(id)
        \/ CalcActor \/ Finish

(* Fairness: the frame loop never blocks; nothing is assumed of the server.*)
Spec == Init /\ [][Next]_vars /\ WF_vars(CalcActor)

-----------------------------------------------------------------------------
(* No ghost: a drawn player that the server has removed is still on the    *)
(* list main will read, unless its removal came between GetRemoveList and  *)
(* CleanRemoveList of one frame (NWApp.cpp:76-94), in which case nothing   *)
(* takes it away until the server reports its id again.                    *)
NoGhost == \A id \in Id : m_otherPlayers[id] # 0 =>
             m_mapObject[id] # 0 \/ id \in m_listRemove \/ id \in lost

(* The picture settles: when the server falls silent, the players drawn    *)
(* are those it reported, where it reported them, frame after frame, a     *)
(* player removed and reported again between two frames included (its      *)
(* stale removal erases it once); again but for lost removals.             *)
Settles == <>[](\/ frame = "finished"
                \/ \A id \in Id \ lost : m_otherPlayers[id] = m_mapObject[id])
=============================================================================
