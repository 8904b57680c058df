------------------------ MODULE NetworkThread_proofs ------------------------
(***************************************************************************)
(* Theorems about NetworkThread, for any number of connections: the sockets*)
(* have one owner each on their way from the acceptor to their release, and*)
(* the network thread's counter says how many it has, whatever order the   *)
(* three threads run in and whenever the server is stopped.                *)
(***************************************************************************)
EXTENDS NetworkThread, FiniteSetTheorems, TLAPS

BeforeLoop == {"start", "threads", "created", "listen", "run"}

(* The sockets _connections is to count.                                   *)
Held == At("new") \cup At("in")

Types == /\ up \in {"up", "crashed", "ended"}
         /\ where \in [Conn -> {"none", "started", "new", "in", "gone"}]
         /\ open \in [Conn -> BOOLEAN]
         /\ _connections \in Int
         /\ accept \in {"posted", "runs", "none"}
         /\ _acceptor \in {"open", "closed", "deleted", "null"}
         /\ net \in {"head", "asleep", "scan", "exited", "none"}
         /\ _stopped \in BOOLEAN
         /\ main \in BeforeLoop \cup {"loop", "stop", "wait", "delete", "return"}
         /\ m_stopEvent \in BOOLEAN

(* A socket is in the hands of the one accept handler that runs.           *)
AcceptInv == /\ \A c, d \in At("started") : c = d
             /\ At("started") # {} => accept = "runs"

(* Only the scan of Run has sockets to visit, and only its own.            *)
ScanInv == /\ todo \subseteq At("in")
           /\ net # "scan" => todo = {}

(* Where main is says which of its objects there are.                      *)
MainInv == /\ net = "none" <=> main \in {"start", "threads", "created"} \/ _acceptor = "null"
           /\ main \in {"threads", "created", "listen"} => _acceptor = "open"
           /\ main \in {"stop", "wait", "delete", "return"} => _acceptor # "null"
           /\ main \in {"delete", "return"} => net = "exited"
           /\ main \in {"start", "threads", "created", "listen"} => accept = "none"
           /\ main \in BeforeLoop => \A c \in Conn : where[c] = "none"

CountInv == net # "exited" => _connections = Cardinality(Held)

IInv == Types /\ AcceptInv /\ ScanInv /\ MainInv /\ CountInv

-----------------------------------------------------------------------------
LEMMA Difference ==
  ASSUME NEW S, IsFiniteSet(S), NEW T \in SUBSET S
  PROVE  Cardinality(S \ T) = Cardinality(S) - Cardinality(T)
  <1>1. IsFiniteSet(T) /\ IsFiniteSet(S \ T)
    BY FS_Subset
  <1>2. Cardinality((S \ T) \cup T) = Cardinality(S \ T) + Cardinality(T) - Cardinality((S \ T) \cap T)
    BY <1>1, FS_Union
  <1>3. (S \ T) \cup T = S /\ (S \ T) \cap T = {}
    OBVIOUS
  <1>4. Cardinality(S \ T) \in Nat /\ Cardinality(T) \in Nat /\ Cardinality(S) \in Nat
    BY <1>1, FS_CardinalityType
  <1> QED BY <1>2, <1>3, <1>4, FS_EmptySet

LEMMA HeldFinite == /\ IsFiniteSet(Held) /\ Cardinality(Held) \in Nat
                    /\ \A place : IsFiniteSet(At(place))
  <1>1. Held \in SUBSET Conn /\ \A place : At(place) \in SUBSET Conn
    BY DEF Held, At
  <1> QED BY <1>1, ConnAssumption, FS_Subset, FS_CardinalityType

LEMMA InitIInv == Init => IInv
  <1> SUFFICES ASSUME Init PROVE IInv
    OBVIOUS
  <1>1. At("started") = {} /\ At("in") = {} /\ Held = {}
    BY DEF Init, At, Held
  <1>2. Types
    <2>1. /\ where \in [Conn -> {"none", "started", "new", "in", "gone"}]
          /\ open \in [Conn -> BOOLEAN]
      BY DEF Init
    <2>2. /\ up \in {"up", "crashed", "ended"}
          /\ _connections \in Int
          /\ accept \in {"posted", "runs", "none"}
          /\ _acceptor \in {"open", "closed", "deleted", "null"}
          /\ net \in {"head", "asleep", "scan", "exited", "none"}
      BY DEF Init
    <2>3. /\ _stopped \in BOOLEAN
          /\ m_stopEvent \in BOOLEAN
      BY DEF Init
    <2>4. main \in BeforeLoop
      BY DEF Init, BeforeLoop
    <2> QED BY <2>1, <2>2, <2>3, <2>4 DEF Types
  <1>3. AcceptInv /\ ScanInv
    BY <1>1 DEF Init, AcceptInv, ScanInv
  <1>4. MainInv
    BY DEF Init, MainInv, BeforeLoop
  <1>5. CountInv
    BY <1>1, FS_EmptySet DEF Init, CountInv
  <1> QED BY <1>2, <1>3, <1>4, <1>5 DEF IInv

(* A step that moves no socket.                                            *)
LEMMA StayIInv ==
  ASSUME IInv, UNCHANGED <<where, todo>>, Types', MainInv',
         At("started") # {} => accept' = "runs",
         net' # "scan" => todo = {},
         net' # "exited" => net # "exited" /\ _connections' = _connections
  PROVE  IInv'
  BY DEF IInv, AcceptInv, ScanInv, CountInv, Held, At

LEMMA StartIInv ==
  ASSUME IInv, NewAcceptor \/ CreateThreads \/ Start \/ StartNetwork \/ RunIo
  PROVE  IInv'
  <1> USE DEF ioVars, netVars, BeforeLoop
  <1>1. At("started") = {} /\ Held = {}
    BY DEF IInv, MainInv, At, Held, NewAcceptor, CreateThreads, Start, StartNetwork, RunIo
  <1>2. CASE NewAcceptor
    BY <1>1, <1>2, StayIInv DEF NewAcceptor, IInv, Types, MainInv, ScanInv
  <1>3. CASE CreateThreads
    <2>1. _connections = _connections' \/ net = "exited"
      BY <1>1, <1>3, FS_EmptySet DEF CreateThreads, IInv, CountInv
    <2> QED BY <1>1, <1>3, <2>1, StayIInv DEF CreateThreads, IInv, Types, MainInv, ScanInv
  <1>4. CASE Start
    BY <1>1, <1>4, StayIInv DEF Start, IInv, Types, MainInv, ScanInv
  <1>5. CASE StartNetwork
    BY <1>1, <1>5, StayIInv DEF StartNetwork, IInv, Types, MainInv, ScanInv
  <1>6. CASE RunIo
    BY <1>1, <1>6, StayIInv DEF RunIo, IInv, Types, MainInv, ScanInv
  <1> QED BY <1>2, <1>3, <1>4, <1>5, <1>6

LEMMA AcceptIInv ==
  ASSUME IInv, NEW c \in Conn, OnSocketOpen(c) \/ AddSocket(c)
  PROVE  IInv'
  <1> USE DEF mainVars, netVars, ioVars, BeforeLoop
  <1>0. main \in {"loop", "stop", "wait", "delete", "return"} /\ where \in [Conn -> {"none", "started", "new", "in", "gone"}]
    BY DEF OnSocketOpen, AddSocket, IoRuns, IInv, Types
  <1>1. CASE OnSocketOpen(c)
    <2>1. /\ where[c] = "none" /\ where' = [where EXCEPT ![c] = "started"]
          /\ accept = "posted" /\ accept' = "runs"
          /\ UNCHANGED <<_connections, _acceptor, _stopped, main, net, todo>>
      BY <1>1 DEF OnSocketOpen
    <2>2. At("started") = {}
      BY <2>1 DEF IInv, AcceptInv
    <2>3. /\ At("started")' = {c} /\ At("new")' = At("new") /\ At("in")' = At("in")
      BY <1>0, <2>1, <2>2 DEF At
    <2>4. Types'
      BY <1>0, <1>1, <2>1 DEF OnSocketOpen, IInv, Types
    <2>5. AcceptInv' /\ ScanInv' /\ CountInv'
      BY <2>1, <2>3 DEF IInv, AcceptInv, ScanInv, CountInv, Held
    <2>6. MainInv'
      BY <1>0, <2>1 DEF IInv, MainInv
    <2> QED BY <2>4, <2>5, <2>6 DEF IInv
  <1>2. CASE AddSocket(c)
    <2>1. /\ where[c] = "started" /\ where' = [where EXCEPT ![c] = "new"]
          /\ _connections' = _connections + 1
          /\ UNCHANGED <<accept, _acceptor, _stopped, main, net, todo>>
      BY <1>2 DEF AddSocket
    <2>2. At("started")' = {}
      BY <1>0, <2>1 DEF IInv, AcceptInv, At
    <2>3. At("in")' = At("in") /\ At("new")' = At("new") \cup {c} /\ c \notin Held
      BY <1>0, <2>1 DEF At, Held
    <2>4. Held' = Held \cup {c}
      BY <2>3 DEF Held
    <2>5. Cardinality(Held') = Cardinality(Held) + 1
      BY <2>3, <2>4, HeldFinite, FS_AddElement
    <2>6. Types'
      BY <1>0, <1>2, <2>1 DEF AddSocket, IInv, Types
    <2>7. AcceptInv' /\ ScanInv'
      BY <2>1, <2>2, <2>3 DEF IInv, AcceptInv, ScanInv
    <2>8. CountInv'
      BY <2>1, <2>5 DEF IInv, CountInv
    <2>9. MainInv'
      BY <1>0, <2>1 DEF IInv, MainInv
    <2> QED BY <2>6, <2>7, <2>8, <2>9 DEF IInv
  <1> QED BY <1>1, <1>2

LEMMA CloseIInv == ASSUME IInv, NEW c \in Conn, CloseSocket(c) PROVE IInv'
  BY StayIInv DEF CloseSocket, mainVars, netVars, ioVars, IInv, Types, AcceptInv, ScanInv, MainInv

LEMMA IoIInv == ASSUME IInv, AsyncAcceptManaged \/ SignalHandler PROVE IInv'
  <1> USE DEF mainVars, netVars, ioVars, BeforeLoop
  <1>1. CASE AsyncAcceptManaged
    BY <1>1, StayIInv DEF AsyncAcceptManaged, IoRuns, IInv, Types, AcceptInv, ScanInv, MainInv
  <1>2. CASE SignalHandler
    BY <1>2, StayIInv DEF SignalHandler, IInv, Types, AcceptInv, ScanInv, MainInv
  <1> QED BY <1>1, <1>2

(* Sockets that Run, or the destructor of its thread, let go.              *)
LEMMA ReleaseFacts ==
  ASSUME Types, where' \in [Conn -> {"none", "started", "new", "in", "gone"}],
         \A c \in Conn : where'[c] = where[c]
                         \/ (where[c] \in {"new", "in"} /\ where'[c] \in {"in", "gone"})
  PROVE  /\ At("started")' = At("started")
         /\ \A c \in Conn : where[c] = "none" => where'[c] = "none"
         /\ At("new")' \subseteq At("new")
  BY DEF At, Types

LEMMA RunIInv == ASSUME IInv, Run PROVE IInv'
  <1> USE DEF mainVars, ioVars, BeforeLoop
  <1>0. Types /\ where \in [Conn -> {"none", "started", "new", "in", "gone"}]
    BY DEF IInv, Types
  <1>1. CASE SleepFor
    BY <1>1, StayIInv DEF SleepFor, IInv, Types, AcceptInv, ScanInv, MainInv
  <1>2. CASE ScanEnds
    BY <1>2, StayIInv DEF ScanEnds, IInv, Types, AcceptInv, ScanInv, MainInv
  <1>3. CASE AddNewSockets
    <2> DEFINE closed == {c \in At("new") : ~open[c]}
    <2>1. /\ net = "asleep" /\ net' = "scan"
          /\ \A c \in Conn : where'[c] = IF where[c] # "new" THEN where[c]
                                         ELSE IF open[c] THEN "in" ELSE "gone"
          /\ _connections' = _connections - Cardinality(closed)
          /\ todo' = {c \in Conn : where'[c] = "in"}
          /\ UNCHANGED <<up, open, accept, m_stopEvent, _acceptor, _stopped, main>>
      BY <1>3 DEF AddNewSockets
    <2>2. where' \in [Conn -> {"none", "started", "new", "in", "gone"}]
      BY <1>0, <1>3 DEF AddNewSockets
    <2>3. At("started")' = At("started") /\ \A c \in Conn : where[c] = "none" => where'[c] = "none"
      BY <1>0, <2>1, <2>2, ReleaseFacts
    <2>4. Held' = Held \ closed /\ closed \in SUBSET Held /\ todo' \subseteq At("in")'
      BY <1>0, <2>1, <2>2 DEF Held, At
    <2>5. Cardinality(Held') = Cardinality(Held) - Cardinality(closed)
      BY <2>4, HeldFinite, Difference
    <2>6. Cardinality(closed) \in Nat
      BY <2>4, HeldFinite, FS_Subset, FS_CardinalityType
    <2>7. Types'
      BY <1>0, <2>1, <2>2, <2>6 DEF Types
    <2>8. AcceptInv' /\ ScanInv' /\ CountInv'
      BY <2>1, <2>3, <2>4, <2>5 DEF IInv, AcceptInv, ScanInv, CountInv
    <2>9. MainInv'
      BY <2>1, <2>3 DEF IInv, MainInv
    <2> QED BY <2>7, <2>8, <2>9 DEF IInv
  <1>4. ASSUME NEW c \in Conn, Update(c) PROVE IInv'
    <2>1. /\ net = "scan" /\ net' = "scan" /\ c \in todo /\ todo' = todo \ {c}
          /\ UNCHANGED <<up, open, accept, m_stopEvent, _acceptor, _stopped, main>>
      BY <1>4 DEF Update
    <2>2. CASE UNCHANGED <<where, _connections>>
      BY <2>1, <2>2 DEF IInv, Types, AcceptInv, ScanInv, MainInv, CountInv, Held, At
    <2>3. CASE where' = [where EXCEPT ![c] = "gone"] /\ _connections' = _connections - 1
      <3>1. c \in At("in") /\ where[c] = "in"
        BY <2>1 DEF IInv, ScanInv, At
      <3>2. where' \in [Conn -> {"none", "started", "new", "in", "gone"}]
        BY <1>0, <2>3
      <3>3. At("started")' = At("started") /\ \A d \in Conn : where[d] = "none" => where'[d] = "none"
        BY <1>0, <2>3, <3>1, <3>2, ReleaseFacts
      <3>4. Held' = Held \ {c} /\ c \in Held /\ At("in")' = At("in") \ {c}
        BY <1>0, <2>3, <3>1 DEF Held, At
      <3>5. Cardinality(Held') = Cardinality(Held) - 1
        BY <3>4, HeldFinite, FS_RemoveElement
      <3>6. Types'
        BY <1>0, <2>1, <2>3, <3>2 DEF Types
      <3>7. AcceptInv' /\ ScanInv' /\ CountInv'
        BY <2>1, <2>3, <3>3, <3>4, <3>5 DEF IInv, AcceptInv, ScanInv, CountInv
      <3>8. MainInv'
        BY <2>1, <3>3 DEF IInv, MainInv
      <3> QED BY <3>6, <3>7, <3>8 DEF IInv
    <2> QED BY <1>4, <2>2, <2>3 DEF Update
  <1>5. CASE RunEnds
    <2>1. /\ net = "head" /\ net' = "exited"
          /\ \A c \in Conn : where'[c] = IF where[c] \in {"new", "in"} THEN "gone" ELSE where[c]
          /\ UNCHANGED <<up, open, _connections, todo, accept, m_stopEvent, _acceptor, _stopped, main>>
      BY <1>5 DEF RunEnds
    <2>2. where' \in [Conn -> {"none", "started", "new", "in", "gone"}]
      BY <1>0, <1>5 DEF RunEnds
    <2>3. At("started")' = At("started") /\ \A c \in Conn : where[c] = "none" => where'[c] = "none"
      BY <1>0, <2>1, <2>2, ReleaseFacts
    <2>4. Types'
      BY <1>0, <2>1, <2>2 DEF Types
    <2>5. AcceptInv' /\ ScanInv' /\ CountInv'
      BY <2>1, <2>3 DEF IInv, AcceptInv, ScanInv, CountInv
    <2>6. MainInv'
      BY <2>1, <2>3 DEF IInv, MainInv
    <2> QED BY <2>4, <2>5, <2>6 DEF IInv
  <1> QED BY <1>1, <1>2, <1>3, <1>4, <1>5 DEF Run

LEMMA StopIInv == ASSUME IInv, StopNetwork PROVE IInv'
  <1> USE DEF ioVars, netVars, BeforeLoop
  <1>1. CASE CloseAcceptor
    BY <1>1, StayIInv DEF CloseAcceptor, IInv, Types, AcceptInv, ScanInv, MainInv
  <1>2. CASE Stop
    BY <1>2, StayIInv DEF Stop, IInv, Types, AcceptInv, ScanInv, MainInv
  <1>3. CASE Wait
    BY <1>3, StayIInv DEF Wait, join, IInv, Types, AcceptInv, ScanInv, MainInv
  <1>4. CASE Delete
    <2>1. /\ main = "delete" /\ main' = "return" /\ _acceptor' = "deleted"
          /\ \A c \in Conn : where'[c] = IF where[c] = "new" THEN "gone" ELSE where[c]
          /\ UNCHANGED <<up, open, _connections, accept, m_stopEvent, net, todo, _stopped>>
      BY <1>4 DEF Delete, Destroyed
    <2>2. where' \in [Conn -> {"none", "started", "new", "in", "gone"}] /\ Types
      BY <1>4 DEF Delete, Destroyed, IInv, Types
    <2>3. At("started")' = At("started") /\ \A c \in Conn : where[c] = "none" => where'[c] = "none"
      BY <2>1, <2>2, ReleaseFacts
    <2>4. Types'
      BY <2>1, <2>2 DEF Types
    <2>5. net = "exited" /\ todo = {}
      BY <2>1 DEF IInv, MainInv, ScanInv
    <2>6. AcceptInv' /\ ScanInv' /\ CountInv'
      BY <2>1, <2>3, <2>5 DEF IInv, AcceptInv, ScanInv, CountInv
    <2>7. MainInv'
      BY <2>1, <2>3, <2>5 DEF IInv, MainInv
    <2> QED BY <2>4, <2>6, <2>7 DEF IInv
  <1>5. CASE Return
    BY <1>5, StayIInv DEF Return, mainVars, IInv, Types, AcceptInv, ScanInv, MainInv
  <1> QED BY <1>1, <1>2, <1>3, <1>4, <1>5 DEF StopNetwork

LEMMA NextIInv == ASSUME IInv, [Next]_vars PROVE IInv'
  <1>1. CASE Crash \/ UNCHANGED vars
    BY <1>1, StayIInv DEF Crash, vars, ioVars, netVars, mainVars, IInv, Types, AcceptInv, ScanInv, MainInv
  <1> QED BY <1>1, StartIInv, AcceptIInv, CloseIInv, IoIInv, RunIInv, StopIInv DEF Next

LEMMA Invariance == Spec => []IInv
  BY InitIInv, NextIInv, PTL DEF Spec

(* At most one socket is between its constructor and AddSocket, Run only   *)
(* visits sockets it holds, and the thread exists exactly from Start on.   *)
THEOREM TypeCorrect == Spec => []TypeOK
  <1>1. IInv => TypeOK
    <2> SUFFICES ASSUME IInv PROVE TypeOK
      OBVIOUS
    <2>1. At("started") # {} => accept = "runs" /\ Cardinality(At("started")) = 1
      <3> SUFFICES ASSUME NEW c \in At("started")
                   PROVE  accept = "runs" /\ Cardinality(At("started")) = 1
        OBVIOUS
      <3>1. At("started") = {c} /\ accept = "runs"
        BY DEF IInv, AcceptInv
      <3> QED BY <3>1, FS_Singleton
    <2> QED BY <2>1 DEF IInv, Types, ScanInv, MainInv, TypeOK, BeforeLoop
  <1> QED BY <1>1, Invariance, PTL

(* The counter by which OnSocketOpen chooses a thread is the number of     *)
(* sockets in _newSockets and _Sockets, though one thread counts up and    *)
(* another down and sockets close anywhere in between.                     *)
THEOREM ConnectionsCounted == Spec => []Counted
  <1>1. IInv => Counted
    BY DEF IInv, CountInv, Counted, Held
  <1> QED BY <1>1, Invariance, PTL
=============================================================================
