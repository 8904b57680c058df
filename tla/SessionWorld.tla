--------------------------- MODULE SessionWorld ---------------------------
(***************************************************************************)
(* The world of the server (World.cpp, WorldSession.cpp and the packet     *)
(* handler of WorldSocket.cpp) shared by its two threads:                  *)
(*                                                                         *)
(*   main   WorldUpdateLoop: World::Update drains addSessQueue into        *)
(*          m_session, rebroadcasts every position after each insertion    *)
(*          (UpdateAllMove) and erases at most one kicked session per tick;*)
(*   io     io_service::run: accepts, and handles LOGIN, MOVE_START and    *)
(*          LOGOUT packets one at a time; its handlers walk m_session to   *)
(*          send a position or a removal to every other session.           *)
(*                                                                         *)
(* No lock guards m_session or the Player of a session: every iteration of *)
(* a loop is a step of its own, so the threads interleave inside the       *)
(* loops, as they do in the program.                                       *)
(*                                                                         *)
(* A session is <<address of its WorldSocket, connection number>>: the id  *)
(* sent to the clients is the address alone (WorldSocket.cpp:178), and an  *)
(* address is used again by a later connection.  What a connection was     *)
(* last told about an id is all that is kept of the messages: one          *)
(* connection delivers in order.                                           *)
(***************************************************************************)
EXTENDS Integers, Sequences, FiniteSets

CONSTANTS Slot,      \* addresses the allocator hands out to WorldSocket objects
          MaxGen,    \* bound: connections per address
          MaxMove,   \* bound: moves per session
          NoSlot     \* "no session": main is between two sessions

ASSUME SlotAssumption == IsFiniteSet(Slot) /\ NoSlot \notin Slot
ASSUME GenAssumption == MaxGen \in Nat
ASSUME MoveAssumption == MaxMove \in Nat

Session == Slot \X (1..MaxGen)
Position == 0..MaxMove       \* the n-th position a player reports; 0 is the login position

Torn    == -1                \* a position copied while the other thread assigned it
Unknown == -2                \* nothing received about the id
Removed == -3                \* SMSG_Player_Remove was the last thing received
Shown == Position \cup {Torn}

VARIABLES
  up,            \* the process runs (FALSE: undefined behaviour killed it)
  sock,          \* the WorldSocket at an address: "open", "closed" or "free"
  gen,           \* number of the connection at an address
  phase,         \* where the io thread is with a session
  pos,           \* WorldSession::m_player
  addSessQueue,  \* sessions waiting for main
  m_session,     \* id |-> connection number of the registered session, 0: none
  ioTodo,        \* ids the io thread's loop over m_session has still to visit
  mainPc,        \* where World::UpdateSession is
  allTodo,       \* ids UpdateAllMove has still to visit
  mover,         \* the id UpdateAllMove is broadcasting
  snapshot,      \* main's copy of that player (World.cpp:80)
  moveTodo,      \* ids main's UpdateMove has still to visit
  view,          \* view[c][id]: what the client at c was last told about id
  overtaken      \* history: ids whose latest news main may have overwritten

ioVars   == <<phase, pos>>
netVars  == <<sock, gen>>
mainVars == <<mainPc, allTodo, mover, snapshot, moveTodo>>
vars == <<up, netVars, ioVars, addSessQueue, m_session, ioTodo, mainVars, view, overtaken>>

Phases == {"new", "ack", "setpos", "bcast", "in", "kick", "out", "lateset", "latecast"}

TypeOK == /\ up \in BOOLEAN
          /\ sock \in [Slot -> {"free", "open", "closed"}]
          /\ gen \in [Slot -> 0..MaxGen]
          /\ phase \in [Session -> Phases]
          /\ pos \in [Session -> Position]
          /\ addSessQueue \in Seq(Session)
          /\ m_session \in [Slot -> 0..MaxGen]
          /\ ioTodo \in SUBSET Slot
          /\ mainPc \in {"drain", "update", "scan"}
          /\ allTodo \in SUBSET Slot
          /\ mover \in Slot \cup {NoSlot}
          /\ snapshot \in Shown
          /\ moveTodo \in SUBSET Slot
          /\ view \in [Slot -> [Slot -> Shown \cup {Unknown, Removed}]]
          /\ overtaken \in SUBSET Slot

-----------------------------------------------------------------------------
Registered == {id \in Slot : m_session[id] # 0}
Cur(c) == <<c, gen[c]>>                      \* the session of the connection at c
IsMember(s) == m_session[s[1]] = s[2]
Queued(s) == \E i \in 1..Len(addSessQueue) : addSessQueue[i] = s

Iterating == {s \in Session : phase[s] \in {"bcast", "latecast", "kick"}}
IoIdle == \A s \in Session : phase[s] \in {"new", "in", "out"}
IsKicked(s) == phase[s] \in {"out", "lateset", "latecast"}
Leaving(s) == phase[s] = "kick" \/ IsKicked(s)

Init == /\ up = TRUE
        /\ sock = [c \in Slot |-> "free"]
        /\ gen = [c \in Slot |-> 0]
        /\ phase = [s \in Session |-> "new"]
        /\ pos = [s \in Session |-> 0]
        /\ addSessQueue = << >>
        /\ m_session = [id \in Slot |-> 0]
        /\ ioTodo = {}
        /\ mainPc = "drain"
        /\ allTodo = {}
        /\ mover = NoSlot
        /\ snapshot = 0
        /\ moveTodo = {}
        /\ view = [c \in Slot |-> [id \in Slot |-> Unknown]]
        /\ overtaken = {}

(* SendPacket on the _pSocket of the session registered as `to`, a raw     *)
(* pointer: nothing arrives when the socket is closed, or freed (Crash is  *)
(* the other outcome of that).                                             *)
Deliver(to, id, news) ==
  view' = IF sock[to] = "open" THEN [view EXCEPT ![to][id] = news] ELSE view

(* A connection that heard of id while an earlier session of its address   *)
(* was registered, and is not registered itself: no broadcast reaches it.  *)
Unreached(id) == \E c \in Slot \ Registered : sock[c] = "open" /\ view[c][id] # Unknown

(* The io thread turns to newer news about s: main may still be delivering *)
(* an older copy, or a client that holds older news is not walked.  What   *)
(* comes after its LOGOUT is no news.                                      *)
Publish(s) == overtaken' = IF mover = s[1] \/ Unreached(s[1]) \/ IsKicked(s)
                           THEN overtaken \cup {s[1]}
                           ELSE overtaken \ {s[1]}

(* main changes the hash map while the io thread may be walking it: the    *)
(* walk goes on over any part of the map (or Crash).                       *)
Disturb == IF Iterating = {}
           THEN UNCHANGED <<ioTodo, overtaken>>
           ELSE /\ ioTodo' \in SUBSET ((ioTodo \cup {id \in Slot : m_session'[id] # 0})
                                         \ {s[1] : s \in Iterating})
                /\ overtaken' = overtaken \cup {s[1] : s \in Iterating}

-----------------------------------------------------------------------------
(* The sockets: accept, end of the connection, and the network thread that *)
(* drops the last reference to a closed socket.                            *)

Accept(c) == /\ up /\ IoIdle
             /\ sock[c] = "free" /\ gen[c] < MaxGen
             /\ sock' = [sock EXCEPT ![c] = "open"]
             /\ gen' = [gen EXCEPT ![c] = @ + 1]
             /\ UNCHANGED <<up, ioVars, addSessQueue, m_session, ioTodo, mainVars, view, overtaken>>

(* A read error: nothing tells the world (Socket::OnClose is empty).  What *)
(* the client knew is gone with it.                                        *)
Close(c) == /\ up /\ IoIdle
            /\ sock[c] = "open"
            /\ sock' = [sock EXCEPT ![c] = "closed"]
            /\ view' = [view EXCEPT ![c] = [id \in Slot |-> Unknown]]
            /\ UNCHANGED <<up, gen, ioVars, addSessQueue, m_session, ioTodo, mainVars, overtaken>>

Free(c) == /\ up
           /\ sock[c] = "closed"
           /\ sock' = [sock EXCEPT ![c] = "free"]
           /\ UNCHANGED <<up, gen, ioVars, addSessQueue, m_session, ioTodo, mainVars, view, overtaken>>

-----------------------------------------------------------------------------
(* io thread: ReadDataHandler.  A client sends LOGIN once, then moves,     *)
(* then LOGOUT (CWorldLink and NWApp::Finish), and in two windows, as      *)
(* ClientLogin shows, a move before LOGIN or after LOGOUT.                 *)

Received(c, ph) == up /\ IoIdle /\ sock[c] = "open" /\ gen[c] > 0 /\ phase[Cur(c)] = ph

Login(c) == /\ Received(c, "new")
            /\ phase' = [phase EXCEPT ![Cur(c)] = "ack"]
            /\ addSessQueue' = Append(addSessQueue, Cur(c))
            /\ UNCHANGED <<up, netVars, pos, m_session, ioTodo, mainVars, view, overtaken>>

(* WriteLoginInfo, then SetPlayerPos of the default position.              *)
LoginAck(s) == /\ up
               /\ phase[s] = "ack"
               /\ phase' = [phase EXCEPT ![s] = "bcast"]
               /\ ioTodo' = Registered \ {s[1]}
               /\ Publish(s)
               /\ UNCHANGED <<up, netVars, pos, addSessQueue, m_session, mainVars, view>>

(* Nothing looks whether the session is logged out.                        *)
MoveStart(c) == /\ Received(c, "in") \/ Received(c, "out")
                /\ pos[Cur(c)] < MaxMove
                /\ phase' = [phase EXCEPT ![Cur(c)] = IF @ = "in" THEN "setpos" ELSE "lateset"]
                /\ UNCHANGED <<up, netVars, pos, addSessQueue, m_session, ioTodo, mainVars, view, overtaken>>

(* Fault: the position is assigned but not sent (no SendPostoSet).         *)
SetPlayerPosSilent(s) ==
  /\ up
  /\ phase[s] \in {"setpos", "lateset"}
  /\ phase' = [phase EXCEPT ![s] = IF @ = "setpos" THEN "bcast" ELSE "latecast"]
  /\ pos' = [pos EXCEPT ![s] = @ + 1]
  /\ ioTodo' = {}
  /\ Publish(s)
  /\ UNCHANGED <<up, netVars, addSessQueue, m_session, mainVars, view>>

SetPlayerPos(s) ==
  /\ up
  /\ phase[s] \in {"setpos", "lateset"}
  /\ phase' = [phase EXCEPT ![s] = IF @ = "setpos" THEN "bcast" ELSE "latecast"]
  /\ pos' = [pos EXCEPT ![s] = @ + 1]
  /\ ioTodo' = Registered \ {s[1]}
  /\ Publish(s)
  /\ UNCHANGED <<up, netVars, addSessQueue, m_session, mainVars, view>>

SendOtherPlayerPos(s, to) ==
  /\ up
  /\ phase[s] \in {"bcast", "latecast"} /\ to \in ioTodo
  /\ ioTodo' = ioTodo \ {to}
  /\ Deliver(to, s[1], pos[s])
  /\ UNCHANGED <<up, netVars, ioVars, addSessQueue, m_session, mainVars, overtaken>>

Moved(s) == /\ up
            /\ phase[s] \in {"bcast", "latecast"} /\ ioTodo = {}
            /\ phase' = [phase EXCEPT ![s] = IF @ = "bcast" THEN "in" ELSE "out"]
            /\ UNCHANGED <<up, netVars, pos, addSessQueue, m_session, ioTodo, mainVars, view, overtaken>>

(* Fault: the removal goes to the leaving session only (the call that      *)
(* WorldSocket.cpp:167 keeps in a comment).                                *)
LogoutTellsSelf(c) ==
  /\ Received(c, "in")
  /\ phase' = [phase EXCEPT ![Cur(c)] = "kick"]
  /\ ioTodo' = Registered \cap {c}
  /\ Publish(Cur(c))
  /\ UNCHANGED <<up, netVars, pos, addSessQueue, m_session, mainVars, view>>

Logout(c) == /\ Received(c, "in")
             /\ phase' = [phase EXCEPT ![Cur(c)] = "kick"]
             /\ ioTodo' = Registered \ {c}
             /\ Publish(Cur(c))
             /\ UNCHANGED <<up, netVars, pos, addSessQueue, m_session, mainVars, view>>

KickPlayer(s, to) ==
  /\ up
  /\ phase[s] = "kick" /\ to \in ioTodo
  /\ ioTodo' = ioTodo \ {to}
  /\ Deliver(to, s[1], Removed)
  /\ UNCHANGED <<up, netVars, ioVars, addSessQueue, m_session, mainVars, overtaken>>

PlayerKicked(s) == /\ up
                   /\ phase[s] = "kick" /\ ioTodo = {}
                   /\ phase' = [phase EXCEPT ![s] = "out"]
                   /\ UNCHANGED <<up, netVars, pos, addSessQueue, m_session, ioTodo, mainVars, view, overtaken>>

-----------------------------------------------------------------------------
(* main thread: World::UpdateSession.                                      *)

(* Fault: only the newcomer is broadcast (UpdateMove for UpdateAllMove).   *)
InsertOneMove(s) == /\ m_session[s[1]] = 0
                    /\ m_session' = [m_session EXCEPT ![s[1]] = s[2]]
                    /\ allTodo' = {s[1]}
                    /\ mainPc' = "update"
                    /\ Disturb

(* Fault: no look-up before the insertion.                                 *)
InsertOver(s) == /\ m_session' = [m_session EXCEPT ![s[1]] = s[2]]
                 /\ allTodo' = Registered \cup {s[1]}
                 /\ mainPc' = "update"
                 /\ Disturb

Insert(s) == /\ m_session[s[1]] = 0
             /\ m_session' = [m_session EXCEPT ![s[1]] = s[2]]
             /\ allTodo' = Registered \cup {s[1]}
             /\ mainPc' = "update"
             /\ Disturb

Ignore(s) == /\ m_session[s[1]] # 0
             /\ UNCHANGED <<m_session, allTodo, mainPc, ioTodo, overtaken>>

AddSession_ == /\ up
               /\ mainPc = "drain" /\ addSessQueue # << >>
               /\ addSessQueue' = Tail(addSessQueue)
               /\ \/ Insert(Head(addSessQueue))
                  \/ Ignore(Head(addSessQueue))
               /\ UNCHANGED <<up, netVars, ioVars, mover, snapshot, moveTodo, view>>

(* Fault: the session is queued before its player is constructed.          *)
CopiesUnbuilt(s) == IF phase[s] = "ack" THEN {Unknown} ELSE {pos[s]}

(* The copy of a Player that the io thread may be assigning.               *)
Copies(s) == IF phase[s] \in {"setpos", "lateset"} THEN {pos[s], pos[s] + 1, Torn} ELSE {pos[s]}

(* UpdateMove holds its copy of the player while it has ids to visit.      *)
Carry(id, copy, todo) == /\ moveTodo' = todo
                         /\ mover' = IF todo = {} THEN NoSlot ELSE id
                         /\ snapshot' = IF todo = {} THEN 0 ELSE copy

UpdateMove(id) ==
  LET s == <<id, m_session[id]>> IN
  /\ up
  /\ mainPc = "update" /\ mover = NoSlot /\ id \in allTodo
  /\ allTodo' = allTodo \ {id}
  /\ \E copy \in Copies(s) : Carry(id, copy, Registered \ {id})
  /\ overtaken' = IF s = Cur(id) /\ ~Leaving(s) THEN overtaken ELSE overtaken \cup {id}
  /\ UNCHANGED <<up, netVars, ioVars, addSessQueue, m_session, ioTodo, mainPc, view>>

SendSnapshot(to) ==
  /\ up
  /\ mover # NoSlot /\ to \in moveTodo
  /\ Carry(mover, snapshot, moveTodo \ {to})
  /\ Deliver(to, mover, snapshot)
  /\ UNCHANGED <<up, netVars, ioVars, addSessQueue, m_session, ioTodo, mainPc, allTodo, overtaken>>

AllMoved == /\ up
            /\ mainPc = "update" /\ mover = NoSlot /\ allTodo = {}
            /\ mainPc' = "drain"
            /\ UNCHANGED <<up, netVars, ioVars, addSessQueue, m_session, ioTodo, allTodo, mover, snapshot, moveTodo, view, overtaken>>

(* The io thread may keep the queue from being empty here: UpdateSession   *)
(* says who is served then.                                                *)
Drained == /\ up
           /\ mainPc = "drain" /\ addSessQueue = << >>
           /\ mainPc' = "scan"
           /\ UNCHANGED <<up, netVars, ioVars, addSessQueue, m_session, ioTodo, allTodo, mover, snapshot, moveTodo, view, overtaken>>

Kicked == {id \in Registered : IsKicked(<<id, m_session[id]>>)}

(* Scan m_session, erase the first kicked session met and stop.  The flags *)
(* are only ever set, so the scan may be taken as one step.                *)
EraseKicked == /\ up
               /\ mainPc = "scan"
               /\ mainPc' = "drain"
               /\ \E id \in Kicked :
                    /\ m_session' = [m_session EXCEPT ![id] = 0]
                    /\ Disturb
               /\ UNCHANGED <<up, netVars, ioVars, addSessQueue, allTodo, mover, snapshot, moveTodo, view>>

NoneKicked == /\ up
              /\ mainPc = "scan" /\ Kicked = {}
              /\ mainPc' = "drain"
              /\ UNCHANGED <<up, netVars, ioVars, addSessQueue, m_session, ioTodo, allTodo, mover, snapshot, moveTodo, view, overtaken>>

-----------------------------------------------------------------------------
(* Undefined behaviour that ends the process: a send on a freed socket, the*)
(* map changed under the io thread's loop, or a position (or a LOGOUT)     *)
(* before LOGIN, whose handler uses _session, which nothing has set.       *)
SendsToFreed == \E to \in Slot : sock[to] = "free"
                                 /\ (to \in moveTodo \/ (Iterating # {} /\ to \in ioTodo))
ChangesWalkedMap == Iterating # {} /\ \/ mainPc = "drain" /\ addSessQueue # << >>
                                         /\ m_session[Head(addSessQueue)[1]] = 0
                                      \/ mainPc = "scan" /\ Kicked # {}

MovesUnset == MaxMove > 0 /\ \E c \in Slot : Received(c, "new")

Crash == /\ up
         /\ SendsToFreed \/ ChangesWalkedMap \/ MovesUnset
         /\ up' = FALSE
         /\ UNCHANGED <<netVars, ioVars, addSessQueue, m_session, ioTodo, mainVars, view, overtaken>>

Net == \E c \in Slot : Accept(c) \/ Close(c) \/ Free(c)

Io == \/ \E c \in Slot : Login(c) \/ MoveStart(c) \/ Logout(c)
      \/ \E s \in Session : LoginAck(s) \/ SetPlayerPos(s) \/ Moved(s) \/ PlayerKicked(s)
      \/ \E s \in Session, to \in Slot : SendOtherPlayerPos(s, to) \/ KickPlayer(s, to)

Main == \/ AddSession_ \/ AllMoved \/ Drained \/ EraseKicked \/ NoneKicked
        \/ \E id \in Slot : UpdateMove(id) \/ SendSnapshot(id)

Next == Net \/ Io \/ Main \/ Crash

Spec == Init /\ [][Next]_vars

-----------------------------------------------------------------------------
(* A client that is connected and registered under its own session.        *)
Present(c) == sock[c] = "open" /\ gen[c] > 0 /\ IsMember(Cur(c))

(* Two registered players know of each other whenever main is not inside   *)
(* UpdateAllMove, however login, moves and the drain of the queue          *)
(* interleaved (World::AddSession_ rebroadcasts everybody).                *)
MutualView ==
  mainPc # "update" =>
    \A a, b \in Slot : a # b /\ Present(a) /\ gen[b] > 0 /\ IsMember(Cur(b)) /\ ~Leaving(Cur(b))
                         => view[a][b] \in Shown

(* Between two moves of b, a registered client shows b where it is, unless *)
(* main was sending an older copy of b, or changed the map under the       *)
(* io thread's loop, when b last moved (World.cpp:78-88).                  *)
FreshView ==
  \A a, b \in Slot : a # b /\ Present(a) /\ gen[b] > 0 /\ phase[Cur(b)] = "in" /\ b \notin overtaken
                       => view[a][b] \in {Unknown, pos[Cur(b)]}

(* After the LOGOUT of b no registered client shows b, unless main sent a  *)
(* copy of b after the LOGOUT began (b waits for the one erase per tick,   *)
(* or is still in addSessQueue), changed the map under the removal loop    *)
(* (World.cpp:25-39, 65-76), or b itself sent a position after it.         *)
NoGhost ==
  \A a, b \in Slot : a # b /\ Present(a) /\ gen[b] > 0 /\ phase[Cur(b)] = "out" /\ b \notin overtaken
                       => view[a][b] \in {Unknown, Removed}

-----------------------------------------------------------------------------
(* The life of a session, seen from outside.                               *)
Lifecycle == INSTANCE SessionLifecycle
               WITH known   <- {s \in Session : phase[s] # "new"},
                    queued  <- {s \in Session : Queued(s)},
                    members <- {s \in Session : IsMember(s)},
                    kicked  <- {s \in Session : IsKicked(s)}

(* A session joins once, never takes an id in use, and leaves only after   *)
(* its LOGOUT was handled (World::AddSession_, World::UpdateSession).      *)
ImplementsLifecycle == Lifecycle!Spec
=============================================================================
