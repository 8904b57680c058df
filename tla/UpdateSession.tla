---------------------------- MODULE UpdateSession ----------------------------
(***************************************************************************)
(* World::UpdateSession of the server over a run that never ends: logins   *)
(* go on for ever, and with them the question whom the world loop serves.  *)
(* SessionWorld has the rest of the world, with a bounded number of        *)
(* connections; here nothing is broadcast, and a LOGIN and a LOGOUT are    *)
(* one step each.                                                          *)
(*                                                                         *)
(* A WorldSession is never deleted.  One that nothing refers to any more   *)
(* is as good as one not made yet, so that a finite set of them serves an  *)
(* unbounded number of logins.  The process is one that stays up.          *)
(***************************************************************************)
EXTENDS Naturals, Sequences

CONSTANTS Slot,          \* addresses of the WorldSocket objects, the session ids
          WorldSession,  \* bound: sessions that are referred to at one time
          NoSession,     \* "_session is not set"
          NoSocket       \* "no connection"

ASSUME NoAssumption == {NoSession, NoSocket} \cap WorldSession = {} /\ NoSession # NoSocket

VARIABLES
  _session,      \* the session of the connection at an address
  SessoinID,     \* the id of a session
  kicked,        \* the sessions with PlayerKicked()
  addSessQueue,  \* sessions waiting for the world loop
  m_session,     \* the session registered under an id
  mainPc,        \* where UpdateSession is: "drain", "update" or "scan"
  allTodo        \* ids UpdateAllMove has still to visit

ioVars   == <<_session, SessoinID, kicked>>
mainVars == <<m_session, mainPc, allTodo>>
vars     == <<ioVars, addSessQueue, mainVars>>

Queued(s) == \E i \in DOMAIN addSessQueue : addSessQueue[i] = s
IsMember(s) == \E id \in Slot : m_session[id] = s
Registered == {id \in Slot : m_session[id] # NoSession}

Unreferenced(s) == ~Queued(s) /\ ~IsMember(s) /\ \A c \in Slot : _session[c] # s

Init == /\ _session = [c \in Slot |-> NoSocket]
        /\ SessoinID \in [WorldSession -> Slot] /\ kicked = {}
        /\ addSessQueue = << >>
        /\ m_session = [id \in Slot |-> NoSession]
        /\ mainPc = "drain" /\ allTodo = {}

-----------------------------------------------------------------------------
(* The io thread.                                                          *)

Accept(c) == /\ _session[c] = NoSocket
             /\ _session' = [_session EXCEPT ![c] = NoSession]
             /\ UNCHANGED <<SessoinID, kicked, addSessQueue, mainVars>>

(* A client sends LOGIN once.                                              *)
Login(c, s) == /\ _session[c] = NoSession /\ Unreferenced(s)
               /\ _session' = [_session EXCEPT ![c] = s]
               /\ SessoinID' = [SessoinID EXCEPT ![s] = c]
               /\ kicked' = kicked \ {s}
               /\ addSessQueue' = Append(addSessQueue, s)
               /\ UNCHANGED mainVars

Logout(c) == /\ _session[c] \in WorldSession \ kicked
             /\ kicked' = kicked \cup {_session[c]}
             /\ UNCHANGED <<_session, SessoinID, addSessQueue, mainVars>>

(* The address is free for another connection.                             *)
Close(c) == /\ _session[c] # NoSocket
            /\ _session' = [_session EXCEPT ![c] = NoSocket]
            /\ UNCHANGED <<SessoinID, kicked, addSessQueue, mainVars>>

-----------------------------------------------------------------------------
(* The world loop.                                                         *)

(* addSessQueue.next(sess), and AddSession_(sess).                         *)
AddSession_ ==
  LET s  == Head(addSessQueue)
      id == SessoinID[s]
  IN  /\ mainPc = "drain" /\ addSessQueue # << >>
      /\ addSessQueue' = Tail(addSessQueue)
      /\ \/ m_session[id] # NoSession /\ UNCHANGED mainVars
         \/ /\ m_session[id] = NoSession
            /\ m_session' = [m_session EXCEPT ![id] = s]
            /\ allTodo' = Registered \cup {id}
            /\ mainPc' = "update"
      /\ UNCHANGED ioVars

UpdateMove(id) == /\ mainPc = "update" /\ id \in allTodo
                  /\ allTodo' = allTodo \ {id}
                  /\ UNCHANGED <<ioVars, addSessQueue, m_session, mainPc>>

AllMoved == /\ mainPc = "update" /\ allTodo = {}
            /\ mainPc' = "drain"
            /\ UNCHANGED <<ioVars, addSessQueue, m_session, allTodo>>

(* The drain goes on for as long as the io thread adds sessions in time.   *)
Drained == /\ mainPc = "drain" /\ addSessQueue = << >>
           /\ mainPc' = "scan"
           /\ UNCHANGED <<ioVars, addSessQueue, m_session, allTodo>>

(* Fault: sessions of closed connections are passed over.                  *)
KickedConnected == {id \in Registered : m_session[id] \in kicked /\ _session[id] = m_session[id]}

Kicked == {id \in Registered : m_session[id] \in kicked}

(* The scan meets the ids in an order of the hash map, and erases the first*)
(* that is kicked.                                                         *)
EraseKicked == /\ mainPc = "scan"
               /\ mainPc' = "drain"
               /\ \E id \in Kicked : m_session' = [m_session EXCEPT ![id] = NoSession]
               /\ UNCHANGED <<ioVars, addSessQueue, allTodo>>

(* Fault: the scan waits for a kicked session.                             *)
NoneKickedWaits == /\ mainPc = "scan" /\ Kicked = {}
                   /\ UNCHANGED vars

NoneKicked == /\ mainPc = "scan" /\ Kicked = {}
              /\ mainPc' = "drain"
              /\ UNCHANGED <<ioVars, addSessQueue, m_session, allTodo>>

Io == \E c \in Slot : \/ Accept(c) \/ Logout(c) \/ Close(c)
                      \/ \E s \in WorldSession : Login(c, s)

Main == \/ AddSession_ \/ AllMoved \/ Drained \/ EraseKicked \/ NoneKicked
        \/ \E id \in Slot : UpdateMove(id)

Next == Io \/ Main

(* Fairness: the world loop never blocks; nothing is assumed of clients.   *)
Spec == Init /\ [][Next]_vars /\ WF_vars(Main)

-----------------------------------------------------------------------------
(* The drain of the queue ends again and again: at times, no login comes   *)
(* while it runs.                                                          *)
DrainEnds == []<>(mainPc = "scan")

(* From some time on, no LOGOUT comes.                                     *)
LogoutsEnd == <>[][kicked' \subseteq kicked]_kicked

(* Whom World::UpdateSession (World.cpp:25-39) serves, for ever:           *)
(* every login is taken off addSessQueue, whatever the clients do; and a   *)
(* registered session whose LOGOUT was handled is erased, though a tick    *)
(* erases one only and any kicked one, if the drain before the scan ends   *)
(* again and again and logouts end.  Without the first, the scan may not   *)
(* be reached again; without the second, others may always come first.     *)
Served ==
  \A s \in WorldSession :
    /\ Queued(s) ~> ~Queued(s)
    /\ DrainEnds /\ LogoutsEnd => (s \in kicked /\ IsMember(s) ~> ~IsMember(s))
=============================================================================
