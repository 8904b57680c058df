--------------------------- MODULE NetworkThread ---------------------------
(***************************************************************************)
(* The sockets of the server between accept and release, and the start and *)
(* the end of the server: AsyncAcceptor.h, SocketMgr.h, WorldSocketMgr.cpp,*)
(* NetworkThread.h and main of Server.cpp.  Three threads:                 *)
(*                                                                         *)
(*   io     the handler of async_accept makes a WorldSocket, starts it and *)
(*          gives it to the network thread (AddSocket), then accepts again;*)
(*          any other handler may close a socket, and that of a signal     *)
(*          stops the world loop;                                          *)
(*   net    NetworkThread::Run takes the new sockets over and drops those  *)
(*          that are no longer open, every ten milliseconds;               *)
(*   main   StartNetwork, the world loop, StopNetwork, and the return.     *)
(*                                                                         *)
(* AddSocket and AddNewSockets are critical sections of _newSocketsLock.   *)
(* Nobody waits for the io thread: what it does to objects that main has   *)
(* deleted is undefined, and so is AddSocket while Run clears _newSockets  *)
(* without the lock (Crash).                                               *)
(***************************************************************************)
EXTENDS Integers, FiniteSets

CONSTANTS Conn      \* bound: the connections that arrive

ASSUME ConnAssumption == IsFiniteSet(Conn)

VARIABLES
  up,            \* the process: "up", "crashed", or "ended" by std::terminate
  where,         \* a connection: "none", "started", in _newSockets: "new", in
                 \* _Sockets: "in", or "gone"
  open,          \* Socket::IsOpen
  _connections,
  accept,        \* async_accept: "posted", its handler "runs", or "none"
  m_stopEvent,   \* of World
  _acceptor,     \* "open", "closed", "deleted", or "null"
  net,           \* Run: at the "head" of its loop, "asleep", in the "scan", "exited"; or "none"
  todo,          \* sockets the scan has still to visit
  _stopped,
  main           \* in StartNetwork: at the "start", "threads", "created", "listen"; then
                 \* "run", "loop"; in StopNetwork: "stop", "wait", "delete"; "return"

ioVars   == <<accept, m_stopEvent>>
netVars  == <<net, todo>>
mainVars == <<_acceptor, _stopped, main>>
vars == <<up, where, open, _connections, ioVars, netVars, mainVars>>

At(place) == {c \in Conn : where[c] = place}

TypeOK == /\ up \in {"up", "crashed", "ended"}
          /\ where \in [Conn -> {"none", "started", "new", "in", "gone"}]
          /\ open \in [Conn -> BOOLEAN]
          /\ _connections \in Int
          /\ accept \in {"posted", "runs", "none"}
          /\ At("started") # {} => accept = "runs" /\ Cardinality(At("started")) = 1
          /\ _acceptor \in {"open", "closed", "deleted", "null"}
          /\ net \in {"head", "asleep", "scan", "exited", "none"}
          /\ todo \in SUBSET At("in")
          /\ _stopped \in BOOLEAN
          /\ main \in {"start", "threads", "created", "listen", "run", "loop", "stop", "wait",
                       "delete", "return"}
          /\ m_stopEvent \in BOOLEAN
          /\ net = "none" <=> main \in {"start", "threads", "created"} \/ _acceptor = "null"

Init == /\ up = "up"
        /\ where = [c \in Conn |-> "none"]
        /\ open = [c \in Conn |-> FALSE]
        /\ _connections = 0
        /\ accept = "none" /\ m_stopEvent = FALSE
        /\ _acceptor = "null" /\ net = "none"
        /\ todo = {}
        /\ _stopped = FALSE
        /\ main = "start"

-----------------------------------------------------------------------------
(* main thread, before the world loop                                      *)

(* The acceptor is made, or the port is taken: then main goes on all the   *)
(* same.                                                                   *)
NewAcceptor == /\ up = "up" /\ main = "start"
               /\ \/ _acceptor' = "open" /\ main' = "threads"
                  \/ _acceptor' = "null" /\ main' = "run"
               /\ UNCHANGED <<up, where, open, _connections, ioVars, netVars, _stopped>>

(* One thread, as _threadCount is 1.  A `new` or a start of a thread that  *)
(* fails would end the process, as nothing catches what it throws; that is *)
(* not followed.                                                           *)
CreateThreads == /\ up = "up" /\ main = "threads"
                 /\ main' = "created"
                 /\ _connections' = 0 /\ _stopped' = FALSE
                 /\ UNCHANGED <<up, where, open, ioVars, netVars, _acceptor>>

Start == /\ up = "up" /\ main = "created" /\ net = "none"
         /\ main' = "listen"
         /\ net' = "head"
         /\ UNCHANGED <<up, where, open, _connections, todo, ioVars, _acceptor, _stopped>>

(* The network runs before the first connection is accepted.               *)
StartNetwork == /\ up = "up" /\ main = "listen"
                /\ main' = "run"
                /\ accept' = "posted"
                /\ UNCHANGED <<up, where, open, _connections, m_stopEvent, netVars, _acceptor,
                               _stopped>>

(* The thread of threadPool runs the io service.                           *)
RunIo == /\ up = "up" /\ main = "run"
         /\ main' = "loop"
         /\ UNCHANGED <<up, where, open, _connections, ioVars, netVars, _acceptor, _stopped>>

-----------------------------------------------------------------------------
(* io thread                                                               *)

IoRuns == up = "up" /\ main \in {"loop", "stop", "wait", "delete", "return"}

(* The signals are waited for once.                                        *)
SignalHandler == /\ IoRuns /\ ~m_stopEvent
                 /\ m_stopEvent' = TRUE
                 /\ UNCHANGED <<up, where, open, _connections, accept, netVars, mainVars>>

(* The constructor and Start in OnSocketOpen.  When either throws, the     *)
(* peer being gone already, the socket is dropped and the handler goes on: *)
(* as if nobody had connected.  A handler that was due before Close still  *)
(* has its connection.                                                     *)
OnSocketOpen(c) ==
  /\ IoRuns /\ accept = "posted" /\ _acceptor # "deleted" /\ where[c] = "none"
  /\ accept' = "runs"
  /\ where' = [where EXCEPT ![c] = "started"]
  /\ open' = [open EXCEPT ![c] = TRUE]
  /\ UNCHANGED <<up, _connections, m_stopEvent, netVars, mainVars>>

AddSocket(c) ==
  /\ IoRuns /\ where[c] = "started" /\ _acceptor # "deleted"
  /\ _connections' = _connections + 1
  /\ where' = [where EXCEPT ![c] = "new"]
  /\ UNCHANGED <<up, open, ioVars, netVars, mainVars>>

(* The end of the handler, also of one that Close cancelled.  A handler    *)
(* that posts on an acceptor closed just now is cancelled and comes back.  *)
AsyncAcceptManaged ==
  /\ IoRuns /\ At("started") = {} /\ _acceptor # "deleted"
  /\ accept = "runs" \/ (accept = "posted" /\ _acceptor = "closed")
  /\ accept' = IF _acceptor = "open" THEN "posted" ELSE "none"
  /\ UNCHANGED <<up, where, open, _connections, m_stopEvent, netVars, mainVars>>

CloseSocket(c) == /\ up = "up" /\ open[c]
                  /\ open' = [open EXCEPT ![c] = FALSE]
                  /\ UNCHANGED <<up, where, _connections, ioVars, netVars, mainVars>>

-----------------------------------------------------------------------------
(* net thread: Run                                                         *)

SleepFor == /\ up = "up" /\ net = "head" /\ ~_stopped
            /\ net' = "asleep"
            /\ UNCHANGED <<up, where, open, _connections, todo, ioVars, mainVars>>

(* Fault: a socket that closed before it was taken over is still counted.  *)
AddNewSocketsUncounted ==
  /\ up = "up" /\ net = "asleep" /\ net' = "scan"
  /\ where' = [c \in Conn |-> IF where[c] # "new" THEN where[c]
                              ELSE IF open[c] THEN "in" ELSE "gone"]
  /\ todo' = {c \in Conn : where'[c] = "in"}
  /\ UNCHANGED <<up, open, _connections, ioVars, mainVars>>

AddNewSockets ==
  /\ up = "up" /\ net = "asleep" /\ net' = "scan"
  /\ where' = [c \in Conn |-> IF where[c] # "new" THEN where[c]
                              ELSE IF open[c] THEN "in" ELSE "gone"]
  /\ _connections' = _connections - Cardinality({c \in At("new") : ~open[c]})
  /\ todo' = {c \in Conn : where'[c] = "in"}
  /\ UNCHANGED <<up, open, ioVars, mainVars>>

(* Fault: the socket is erased, but stays to be visited.                   *)
UpdateLingers(c) ==
  /\ up = "up" /\ net = "scan" /\ c \in todo
  /\ \/ open[c] /\ todo' = todo \ {c} /\ UNCHANGED <<where, _connections>>
     \/ ~open[c] /\ where' = [where EXCEPT ![c] = "gone"]
                 /\ _connections' = _connections - 1 /\ UNCHANGED todo
  /\ UNCHANGED <<up, open, net, ioVars, mainVars>>

(* Fault: a socket that is not open is only passed over.                   *)
UpdateKeeps(c) ==
  /\ up = "up" /\ net = "scan" /\ c \in todo
  /\ todo' = todo \ {c}
  /\ UNCHANGED <<up, where, open, _connections, net, ioVars, mainVars>>

(* Update, false for a socket that is not open, and what Run does then.    *)
Update(c) ==
  /\ up = "up" /\ net = "scan" /\ c \in todo
  /\ todo' = todo \ {c}
  /\ \/ open[c] /\ UNCHANGED <<where, _connections>>
     \/ ~open[c] /\ where' = [where EXCEPT ![c] = "gone"]
                 /\ _connections' = _connections - 1
  /\ UNCHANGED <<up, open, net, ioVars, mainVars>>

ScanEnds == /\ up = "up" /\ net = "scan" /\ todo = {}
            /\ net' = "head"
            /\ UNCHANGED <<up, where, open, _connections, todo, ioVars, mainVars>>

(* Fault: the thread waits for its last socket to close.                   *)
RunEndsEmpty == /\ up = "up" /\ net = "head" /\ _stopped /\ At("in") = {}
                /\ net' = "exited"
                /\ UNCHANGED <<up, where, open, _connections, todo, ioVars, mainVars>>

(* Both sets are cleared, the counter is not.                              *)
RunEnds == /\ up = "up" /\ net = "head" /\ _stopped
           /\ net' = "exited"
           /\ where' = [c \in Conn |-> IF where[c] \in {"new", "in"} THEN "gone" ELSE where[c]]
           /\ UNCHANGED <<up, open, _connections, todo, ioVars, mainVars>>

-----------------------------------------------------------------------------
(* main thread, after the world loop                                       *)

(* The world loop ends, and StopNetwork closes the acceptor.               *)
CloseAcceptor == /\ up = "up" /\ main = "loop" /\ m_stopEvent /\ _acceptor = "open"
                 /\ main' = "stop"
                 /\ _acceptor' = "closed"
                 /\ UNCHANGED <<up, where, open, _connections, ioVars, netVars, _stopped>>

Stop == /\ up = "up" /\ main = "stop"
        /\ main' = "wait"
        /\ _stopped' = TRUE
        /\ UNCHANGED <<up, where, open, _connections, ioVars, netVars, _acceptor>>

join == net = "exited"

Wait == /\ up = "up" /\ main = "wait" /\ join
        /\ main' = "delete"
        /\ UNCHANGED <<up, where, open, _connections, ioVars, netVars, _acceptor, _stopped>>

(* ~NetworkThread, of a thread that was joined: what is left in            *)
(* _newSockets goes.                                                       *)
Destroyed == [c \in Conn |-> IF where[c] = "new" THEN "gone" ELSE where[c]]

(* delete _acceptor and delete[] _threads.                                 *)
Delete == /\ up = "up" /\ main = "delete"
          /\ main' = "return"
          /\ _acceptor' = "deleted"
          /\ where' = Destroyed
          /\ UNCHANGED <<up, open, _connections, ioVars, netVars, _stopped>>

(* main() returns: the thread of threadPool is destroyed without a join.   *)
Return == /\ up = "up" /\ main = "return"
          /\ up' = "ended"
          /\ UNCHANGED <<where, open, _connections, ioVars, netVars, mainVars>>

-----------------------------------------------------------------------------
(* StopNetwork without an acceptor, a handler on a deleted one, or a set   *)
(* changed by two threads.                                                 *)
Undefined == \/ main = "loop" /\ m_stopEvent /\ _acceptor = "null"
             \/ _acceptor = "deleted" /\ (accept # "none" \/ At("started") # {})
             \/ net = "head" /\ _stopped /\ At("started") # {}

Crash == /\ up = "up" /\ Undefined
         /\ up' = "crashed"
         /\ UNCHANGED <<where, open, _connections, ioVars, netVars, mainVars>>

Run == \/ SleepFor \/ AddNewSockets \/ ScanEnds \/ RunEnds
       \/ \E c \in Conn : Update(c)

StopNetwork == CloseAcceptor \/ Stop \/ Wait \/ Delete \/ Return

Next == \/ \E c \in Conn : OnSocketOpen(c) \/ AddSocket(c) \/ CloseSocket(c)
        \/ AsyncAcceptManaged \/ SignalHandler
        \/ NewAcceptor \/ CreateThreads \/ Start \/ StartNetwork \/ RunIo
        \/ Run \/ StopNetwork \/ Crash

(* Fairness: the loop of Run goes on, and main when the world loop has been*)
(* told to end.                                                            *)
Spec == Init /\ [][Next]_vars /\ WF_vars(Run) /\ WF_vars(StopNetwork)

-----------------------------------------------------------------------------
(* GetConnectionCount, by which OnSocketOpen chooses a thread, counts the  *)
(* sockets the thread holds, whenever they close (NetworkThread.h:63, 85,  *)
(* 119), as long as it runs.                                               *)
Counted == net # "exited" => _connections = Cardinality(At("new") \cup At("in"))

(* A socket that closes is released, wherever it is on its way from the    *)
(* acceptor, and also when the server stops.                               *)
Reclaimed == \A c \in Conn : (where[c] \in {"new", "in"} /\ ~open[c])
                                ~> (where[c] = "gone" \/ up # "up")

(* A signal ends the program, with connections open or about to be added,  *)
(* if StartNetwork had succeeded.                                          *)
Stops == m_stopEvent ~> up # "up" \/ _acceptor = "null"
=============================================================================
