----------------------- MODULE SessionWorld_proofs ------------------------
(***************************************************************************)
(* Theorems about SessionWorld, for any set of addresses and any bounds:   *)
(* its types, the invariant that ties addSessQueue, m_session and the      *)
(* phases of the sessions together, the refinement of SessionLifecycle,    *)
(* and what registered clients know of each other: that they do (ToldInv), *)
(* where, and who has left (ViewInv).                                      *)
(***************************************************************************)
EXTENDS SessionWorld, SequenceTheorems, TLAPS

(* A move in progress is one the bound allows, and UpdateAllMove only      *)
(* visits registered ids: main is the only thread that changes m_session.  *)
LoopInv == /\ \A s \in Session : phase[s] \in {"setpos", "lateset"} => pos[s] < MaxMove
           /\ allTodo \subseteq Registered
           /\ mainPc # "update" => allTodo = {}

(* A session is queued at most once, after its LOGIN and before it is      *)
(* registered.                                                             *)
QueueInv == /\ \A i, j \in 1..Len(addSessQueue) : addSessQueue[i] = addSessQueue[j] => i = j
            /\ \A s \in Session : Queued(s) => phase[s] # "new" /\ ~IsMember(s)
            /\ \A s \in Session : IsMember(s) => phase[s] # "new"

IInv == TypeOK /\ LoopInv

-----------------------------------------------------------------------------
LEMMA SessionPair == \A s \in Session : s[1] \in Slot /\ s[2] \in 1..MaxGen /\ s = <<s[1], s[2]>>
  BY DEF Session

LEMMA InitIInv == Init => IInv
  BY SlotAssumption, GenAssumption, MoveAssumption, EmptySeq
     DEF Init, IInv, TypeOK, LoopInv, Phases, Session, Position, Shown, Unknown, Registered

LEMMA NetIInv == ASSUME IInv, Net PROVE IInv'
  <1> USE DEF IInv, ioVars, mainVars
  <1>1. ASSUME NEW c \in Slot, Accept(c) PROVE IInv'
    <2>1. gen' \in [Slot -> 0..MaxGen]
      BY <1>1, GenAssumption DEF Accept, TypeOK
    <2> QED BY <1>1, <2>1 DEF Accept, TypeOK, LoopInv, Registered
  <1>2. ASSUME NEW c \in Slot, Close(c) PROVE IInv'
    <2>1. view' \in [Slot -> [Slot -> Shown \cup {Unknown, Removed}]]
      BY <1>2 DEF Close, TypeOK
    <2> QED BY <1>2, <2>1 DEF Close, TypeOK, LoopInv, Registered
  <1>3. ASSUME NEW c \in Slot, Free(c) PROVE IInv'
    BY <1>3 DEF Free, TypeOK, LoopInv, Registered
  <1> QED BY <1>1, <1>2, <1>3 DEF Net

LEMMA CurSession == ASSUME TypeOK, NEW c \in Slot, gen[c] > 0 PROVE Cur(c) \in Session
  BY GenAssumption DEF TypeOK, Cur, Session

LEMMA IoIInv == ASSUME IInv, Io PROVE IInv'
  <1> USE SessionPair DEF IInv, netVars, ioVars, mainVars
  <1>1. ASSUME NEW c \in Slot, Login(c) PROVE IInv'
    <2>1. Cur(c) \in Session
      BY <1>1, CurSession DEF Login, Received
    <2>2. addSessQueue' \in Seq(Session)
      BY <1>1, <2>1, AppendProperties DEF Login, TypeOK
    <2>3. TypeOK'
      BY <1>1, <2>1, <2>2 DEF Login, TypeOK, Phases
    <2> QED BY <1>1, <2>1, <2>3 DEF Login, TypeOK, LoopInv, Registered
  <1>2. ASSUME NEW c \in Slot, MoveStart(c) PROVE IInv'
    <2>1. Cur(c) \in Session
      BY <1>2, CurSession DEF MoveStart, Received
    <2> QED BY <1>2, <2>1 DEF MoveStart, TypeOK, Phases, LoopInv, Registered
  <1>3. ASSUME NEW c \in Slot, Logout(c) PROVE IInv'
    <2>1. Cur(c) \in Session
      BY <1>3, CurSession DEF Logout, Received
    <2> QED BY <1>3, <2>1 DEF Logout, Publish, Cur, TypeOK, Phases, LoopInv, Registered
  <1>4. ASSUME NEW s \in Session, LoginAck(s) PROVE IInv'
    BY <1>4 DEF LoginAck, Publish, TypeOK, Phases, LoopInv, Registered
  <1>5. ASSUME NEW s \in Session, SetPlayerPos(s) PROVE IInv'
    <2>1. pos[s] + 1 \in Position
      BY <1>5, MoveAssumption DEF SetPlayerPos, LoopInv, TypeOK, Position
    <2> QED BY <1>5, <2>1 DEF SetPlayerPos, Publish, TypeOK, Phases, LoopInv, Registered
  <1>6. ASSUME NEW s \in Session, Moved(s) PROVE IInv'
    BY <1>6 DEF Moved, TypeOK, Phases, LoopInv, Registered
  <1>7. ASSUME NEW s \in Session, PlayerKicked(s) PROVE IInv'
    BY <1>7 DEF PlayerKicked, TypeOK, Phases, LoopInv, Registered
  <1>8. ASSUME NEW s \in Session, NEW to \in Slot, SendOtherPlayerPos(s, to) PROVE IInv'
    BY <1>8 DEF SendOtherPlayerPos, Deliver, TypeOK, Shown, LoopInv, Registered
  <1>9. ASSUME NEW s \in Session, NEW to \in Slot, KickPlayer(s, to) PROVE IInv'
    BY <1>9 DEF KickPlayer, Deliver, TypeOK, Shown, LoopInv, Registered
  <1> QED BY <1>1, <1>2, <1>3, <1>4, <1>5, <1>6, <1>7, <1>8, <1>9 DEF Io

LEMMA DisturbType == ASSUME TypeOK, m_session' \in [Slot -> 0..MaxGen], Disturb
                     PROVE ioTodo' \in SUBSET Slot /\ overtaken' \in SUBSET Slot
  BY SessionPair DEF Disturb, TypeOK, Iterating

LEMMA MainIInv == ASSUME IInv, Main PROVE IInv'
  <1> USE SessionPair DEF IInv, netVars, ioVars
  <1>1. CASE AddSession_
    <2>1. /\ Head(addSessQueue) \in Session
          /\ addSessQueue' \in Seq(Session)
      BY <1>1, HeadTailProperties DEF AddSession_, TypeOK
    <2>2. CASE Insert(Head(addSessQueue))
      <3>1. m_session' \in [Slot -> 0..MaxGen]
        BY <2>1, <2>2 DEF Insert, TypeOK
      <3>2. TypeOK'
        BY <1>1, <2>1, <2>2, <3>1, DisturbType DEF AddSession_, Insert, TypeOK, Registered
      <3> QED BY <1>1, <2>1, <2>2, <3>2 DEF AddSession_, Insert, TypeOK, LoopInv, Registered
    <2>3. CASE Ignore(Head(addSessQueue))
      BY <1>1, <2>1, <2>3 DEF AddSession_, Ignore, TypeOK, LoopInv, Registered
    <2> QED BY <1>1, <2>2, <2>3 DEF AddSession_
  <1>2. CASE AllMoved
    BY <1>2 DEF AllMoved, TypeOK, LoopInv, Registered
  <1>3. CASE Drained
    BY <1>3 DEF Drained, TypeOK, LoopInv, Registered
  <1>4. CASE EraseKicked
    <2>1. PICK id \in Kicked : /\ m_session' = [m_session EXCEPT ![id] = 0]
                               /\ Disturb
      BY <1>4 DEF EraseKicked
    <2>2. m_session' \in [Slot -> 0..MaxGen]
      BY <2>1, GenAssumption DEF Kicked, Registered, TypeOK
    <2>3. TypeOK'
      BY <1>4, <2>1, <2>2, DisturbType DEF EraseKicked, TypeOK
    <2> QED BY <1>4, <2>3 DEF EraseKicked, LoopInv
  <1>5. CASE NoneKicked
    BY <1>5 DEF NoneKicked, TypeOK, LoopInv, Registered
  <1>6. ASSUME NEW id \in Slot, UpdateMove(id) PROVE IInv'
    <2>1. <<id, m_session[id]>> \in Session
      BY <1>6, GenAssumption DEF UpdateMove, LoopInv, Registered, TypeOK, Session
    <2>2. PICK copy \in Copies(<<id, m_session[id]>>) : Carry(id, copy, Registered \ {id})
      BY <1>6 DEF UpdateMove
    <2>3. copy \in Shown
      BY <2>1, <2>2, MoveAssumption DEF Copies, TypeOK, LoopInv, Shown, Position
    <2>4. TypeOK'
      BY <1>6, <2>2, <2>3, MoveAssumption DEF UpdateMove, Carry, TypeOK, Registered, Shown, Position
    <2> QED BY <1>6, <2>4 DEF UpdateMove, LoopInv, Registered
  <1>7. ASSUME NEW to \in Slot, SendSnapshot(to) PROVE IInv'
    <2>1. TypeOK'
      BY <1>7, MoveAssumption DEF SendSnapshot, Carry, Deliver, TypeOK, Shown, Position
    <2> QED BY <1>7, <2>1 DEF SendSnapshot, LoopInv, Registered
  <1> QED BY <1>1, <1>2, <1>3, <1>4, <1>5, <1>6, <1>7 DEF Main

LEMMA NextIInv == ASSUME IInv, [Next]_vars PROVE IInv'
  <1>1. CASE Net BY <1>1, NetIInv
  <1>2. CASE Io BY <1>2, IoIInv
  <1>3. CASE Main BY <1>3, MainIInv
  <1>4. CASE Crash
    BY <1>4 DEF Crash, IInv, TypeOK, LoopInv, Registered, netVars, ioVars, mainVars
  <1>5. CASE UNCHANGED vars
    BY <1>5 DEF vars, IInv, TypeOK, LoopInv, Registered, netVars, ioVars, mainVars
  <1> QED BY <1>1, <1>2, <1>3, <1>4, <1>5 DEF Next

(* Every variable of the two threads keeps its type: in particular main    *)
(* only ever copies the player of a registered session.                    *)
THEOREM TypeCorrect == Spec => []TypeOK
  <1>1. Init => IInv BY InitIInv
  <1>2. IInv /\ [Next]_vars => IInv' BY NextIInv
  <1>3. IInv => TypeOK BY DEF IInv
  <1> QED BY <1>1, <1>2, <1>3, PTL DEF Spec
-----------------------------------------------------------------------------
(* The queue without its head holds every session but the head.            *)
LEMMA TailQueue ==
  ASSUME NEW S, NEW q \in Seq(S), q # << >>,
         \A i, j \in 1..Len(q) : q[i] = q[j] => i = j
  PROVE  /\ \A s : (\E i \in 1..Len(Tail(q)) : Tail(q)[i] = s)
                     <=> (s # Head(q) /\ \E i \in 1..Len(q) : q[i] = s)
         /\ \A i, j \in 1..Len(Tail(q)) : Tail(q)[i] = Tail(q)[j] => i = j
  <1>1. /\ Len(q) \in Nat \ {0}
        /\ Head(q) = q[1]
        /\ Len(Tail(q)) = Len(q) - 1
        /\ \A i \in 1..Len(Tail(q)) : Tail(q)[i] = q[i + 1]
    BY HeadTailProperties, LenProperties, EmptySeq
  <1>2. ASSUME NEW s, NEW i \in 1..Len(Tail(q)), Tail(q)[i] = s
        PROVE  s # Head(q) /\ \E j \in 1..Len(q) : q[j] = s
    <2>1. i + 1 \in 1..Len(q) /\ i + 1 # 1 /\ q[i + 1] = s
      BY <1>1, <1>2
    <2> QED BY <2>1, <1>1
  <1>3. ASSUME NEW s, s # Head(q), NEW i \in 1..Len(q), q[i] = s
        PROVE  \E j \in 1..Len(Tail(q)) : Tail(q)[j] = s
    <2>1. i - 1 \in 1..Len(Tail(q)) /\ Tail(q)[i - 1] = s
      BY <1>1, <1>3
    <2> QED BY <2>1
  <1>4. ASSUME NEW i \in 1..Len(Tail(q)), NEW j \in 1..Len(Tail(q)), Tail(q)[i] = Tail(q)[j]
        PROVE  i = j
    <2>1. /\ i + 1 \in 1..Len(q) /\ j + 1 \in 1..Len(q)
          /\ q[i + 1] = q[j + 1]
      BY <1>1, <1>4
    <2> QED BY <2>1
  <1> QED BY <1>2, <1>3, <1>4

(* Append adds one session at the end.                                     *)
LEMMA AppendQueue ==
  ASSUME NEW S, NEW q \in Seq(S), NEW e \in S,
         \A i, j \in 1..Len(q) : q[i] = q[j] => i = j,
         \A i \in 1..Len(q) : q[i] # e
  PROVE  /\ \A s : (\E i \in 1..Len(Append(q, e)) : Append(q, e)[i] = s)
                     <=> (s = e \/ \E i \in 1..Len(q) : q[i] = s)
         /\ \A i, j \in 1..Len(Append(q, e)) : Append(q, e)[i] = Append(q, e)[j] => i = j
  <1>1. /\ Len(q) \in Nat
        /\ Len(Append(q, e)) = Len(q) + 1
        /\ \A i \in 1..Len(q) : Append(q, e)[i] = q[i]
        /\ Append(q, e)[Len(q) + 1] = e
    BY AppendProperties, LenProperties
  <1>2. ASSUME NEW s, NEW i \in 1..Len(q), q[i] = s
        PROVE  \E j \in 1..Len(Append(q, e)) : Append(q, e)[j] = s
    BY <1>1, <1>2
  <1>3. Len(q) + 1 \in 1..Len(Append(q, e))
    BY <1>1
  <1>4. ASSUME NEW s, NEW i \in 1..Len(Append(q, e)), Append(q, e)[i] = s
        PROVE  s = e \/ \E j \in 1..Len(q) : q[j] = s
    BY <1>1, <1>4
  <1>5. ASSUME NEW i \in 1..Len(Append(q, e)), NEW j \in 1..Len(Append(q, e)),
               Append(q, e)[i] = Append(q, e)[j]
        PROVE  i = j
    BY <1>1, <1>5
  <1> QED BY <1>1, <1>2, <1>3, <1>4, <1>5

-----------------------------------------------------------------------------
(* Only the queue, the map, the phase "new" and the kicked sessions show   *)
(* through.                                                                *)
LEMMA Invisible ==
  ASSUME UNCHANGED <<addSessQueue, m_session>>,
         \A s \in Session : (phase'[s] = "new") <=> (phase[s] = "new"),
         \A s \in Session : IsKicked(s)' <=> IsKicked(s)
  PROVE  /\ QueueInv => QueueInv'
         /\ UNCHANGED Lifecycle!vars
  <1>1. \A s \in Session : (Queued(s)' <=> Queued(s)) /\ (IsMember(s)' <=> IsMember(s))
    BY DEF IsMember, Queued
  <1>2. UNCHANGED Lifecycle!vars
    BY <1>1 DEF Lifecycle!vars
  <1>3. QueueInv => QueueInv'
    BY DEF QueueInv, Queued, IsMember
  <1> QED BY <1>2, <1>3

LEMMA LoginRefines ==
  ASSUME IInv, QueueInv, NEW c \in Slot, Login(c)
  PROVE  QueueInv' /\ \E s \in Session : Lifecycle!Login(s)
  <1>1. PICK s \in Session : s = Cur(c)
    BY CurSession DEF Login, Received, IInv
  <1>2. /\ phase[s] = "new" /\ addSessQueue' = Append(addSessQueue, s)
        /\ phase' = [phase EXCEPT ![s] = "ack"] /\ phase \in [Session -> Phases]
        /\ m_session' = m_session /\ addSessQueue \in Seq(Session)
    BY <1>1 DEF Login, Received, IInv, TypeOK
  <1>3. ~Queued(s) /\ ~IsMember(s)
    BY <1>1, <1>2 DEF QueueInv
  <1>4. /\ \A t \in Session : Queued(t)' <=> (t = s \/ Queued(t))
        /\ \A i, j \in 1..Len(addSessQueue') : addSessQueue'[i] = addSessQueue'[j] => i = j
    BY <1>1, <1>2, <1>3, AppendQueue DEF Queued, QueueInv
  <1>5. /\ \A t \in Session : IsMember(t)' <=> IsMember(t)
        /\ \A t \in Session : t # s => phase'[t] = phase[t]
        /\ phase'[s] = "ack"
    BY <1>1, <1>2 DEF IsMember
  <1>6. QueueInv'
    BY <1>1, <1>3, <1>4, <1>5 DEF QueueInv
  <1>7. {t \in Session : phase[t] # "new"}' = {t \in Session : phase[t] # "new"} \cup {s}
    BY <1>1, <1>2, <1>5
  <1>8. \A t \in Session : IsKicked(t)' <=> IsKicked(t)
    BY <1>1, <1>2, <1>5 DEF IsKicked
  <1>9. Lifecycle!Login(s)
    BY <1>1, <1>2, <1>4, <1>5, <1>7, <1>8 DEF Lifecycle!Login
  <1> QED BY <1>6, <1>9

LEMMA KickRefines ==
  ASSUME IInv, QueueInv, NEW s \in Session, PlayerKicked(s)
  PROVE  /\ QueueInv'
         /\ s \in {t \in Session : phase[t] # "new"} \ {t \in Session : IsKicked(t)}
         /\ Lifecycle!Kick(s)
  <1>1. /\ phase[s] = "kick" /\ phase' = [phase EXCEPT ![s] = "out"]
        /\ phase \in [Session -> Phases] /\ UNCHANGED <<m_session, addSessQueue>>
    BY DEF PlayerKicked, IInv, TypeOK
  <1>2. \A t \in Session : /\ Queued(t)' <=> Queued(t)
                           /\ IsMember(t)' <=> IsMember(t)
                           /\ phase'[t] # "new" <=> phase[t] # "new"
    BY <1>1 DEF IsMember, Queued
  <1>3. QueueInv'
    BY <1>1 DEF QueueInv, Queued, IsMember
  <1>4. phase[s] # "new" /\ ~IsKicked(s)
    BY <1>1 DEF IsKicked
  <1>5. {t \in Session : IsKicked(t)}' = {t \in Session : IsKicked(t)} \cup {s}
    BY <1>1 DEF IsKicked
  <1> QED BY <1>2, <1>3, <1>4, <1>5 DEF Lifecycle!Kick

LEMMA HeadProperties ==
  ASSUME IInv, QueueInv, AddSession_
  PROVE  /\ Head(addSessQueue) \in Session
         /\ Queued(Head(addSessQueue))
         /\ \A t \in Session : Queued(t)' <=> (t # Head(addSessQueue) /\ Queued(t))
         /\ \A i, j \in 1..Len(addSessQueue') : addSessQueue'[i] = addSessQueue'[j] => i = j
  <1>1. addSessQueue \in Seq(Session) /\ addSessQueue # << >> /\ addSessQueue' = Tail(addSessQueue)
    BY DEF AddSession_, IInv, TypeOK
  <1>2. Head(addSessQueue) \in Session /\ Head(addSessQueue) = addSessQueue[1] /\ 1 \in 1..Len(addSessQueue)
    BY <1>1, HeadTailProperties, LenProperties, EmptySeq
  <1>3. \A i, j \in 1..Len(addSessQueue) : addSessQueue[i] = addSessQueue[j] => i = j
    BY DEF QueueInv
  <1>4. /\ \A t : (\E i \in 1..Len(Tail(addSessQueue)) : Tail(addSessQueue)[i] = t)
                    <=> (t # Head(addSessQueue)
                         /\ \E i \in 1..Len(addSessQueue) : addSessQueue[i] = t)
        /\ \A i, j \in 1..Len(Tail(addSessQueue)) :
             Tail(addSessQueue)[i] = Tail(addSessQueue)[j] => i = j
    BY <1>1, <1>3, TailQueue
  <1>5. Queued(Head(addSessQueue))
    BY <1>2 DEF Queued
  <1>6. \A t \in Session : Queued(t)' <=> (t # Head(addSessQueue) /\ Queued(t))
    BY <1>1, <1>4 DEF Queued
  <1>7. \A i, j \in 1..Len(addSessQueue') : addSessQueue'[i] = addSessQueue'[j] => i = j
    BY <1>1, <1>4
  <1> QED BY <1>2, <1>5, <1>6, <1>7

LEMMA InsertRefines ==
  ASSUME IInv, QueueInv, AddSession_, Insert(Head(addSessQueue))
  PROVE  QueueInv' /\ Lifecycle!Join(Head(addSessQueue))
  <1>0. PICK s \in Session : s = Head(addSessQueue)
    BY HeadProperties
  <1>1. /\ Queued(s)
        /\ \A t \in Session : Queued(t)' <=> (t # s /\ Queued(t))
        /\ \A i, j \in 1..Len(addSessQueue') : addSessQueue'[i] = addSessQueue'[j] => i = j
    BY <1>0, HeadProperties
  <1>2. /\ m_session[s[1]] = 0 /\ m_session' = [m_session EXCEPT ![s[1]] = s[2]]
        /\ m_session \in [Slot -> 0..MaxGen] /\ phase' = phase
    BY <1>0 DEF Insert, AddSession_, IInv, TypeOK, ioVars
  <1>3. \A t \in Session : t[1] = s[1] => ~IsMember(t)
    BY <1>2, SessionPair, GenAssumption DEF IsMember
  <1>4. \A t \in Session : IsMember(t)' <=> (t = s \/ IsMember(t))
    BY <1>1, <1>2, <1>3, SessionPair, GenAssumption DEF IsMember
  <1>5. QueueInv'
    BY <1>1, <1>2, <1>4 DEF QueueInv
  <1>6. \A t \in Session : IsKicked(t)' <=> IsKicked(t)
    BY <1>2 DEF IsKicked
  <1>7. Lifecycle!Join(s)
    BY <1>1, <1>2, <1>3, <1>4, <1>6 DEF Lifecycle!Join, Lifecycle!Taken
  <1> QED BY <1>0, <1>5, <1>7

LEMMA IgnoreRefines ==
  ASSUME IInv, QueueInv, AddSession_, Ignore(Head(addSessQueue))
  PROVE  QueueInv' /\ Lifecycle!Refuse(Head(addSessQueue))
  <1>0. PICK s \in Session : s = Head(addSessQueue)
    BY HeadProperties
  <1>1. /\ Queued(s)
        /\ \A u \in Session : Queued(u)' <=> (u # s /\ Queued(u))
        /\ \A i, j \in 1..Len(addSessQueue') : addSessQueue'[i] = addSessQueue'[j] => i = j
    BY <1>0, HeadProperties
  <1>2. /\ m_session[s[1]] # 0 /\ m_session' = m_session
        /\ m_session \in [Slot -> 0..MaxGen] /\ phase' = phase
    BY <1>0 DEF Ignore, AddSession_, IInv, TypeOK, ioVars
  <1>3. PICK t \in Session : t[1] = s[1] /\ IsMember(t)
    <2>1. <<s[1], m_session[s[1]]>> \in Session
      BY <1>2, SessionPair, GenAssumption DEF Session
    <2> QED BY <2>1, SessionPair DEF IsMember
  <1>4. \A u \in Session : IsMember(u)' <=> IsMember(u)
    BY <1>2 DEF IsMember
  <1>5. QueueInv'
    BY <1>1, <1>2, <1>4 DEF QueueInv
  <1>6. \A u \in Session : IsKicked(u)' <=> IsKicked(u)
    BY <1>2 DEF IsKicked
  <1>7. Lifecycle!Refuse(s)
    BY <1>1, <1>2, <1>3, <1>4, <1>6 DEF Lifecycle!Refuse, Lifecycle!Taken
  <1> QED BY <1>0, <1>5, <1>7

LEMMA EraseRefines ==
  ASSUME IInv, QueueInv, EraseKicked
  PROVE  /\ QueueInv'
         /\ \E s \in {t \in Session : IsMember(t)} \cap {t \in Session : IsKicked(t)} :
              Lifecycle!Leave(s)
  <1>1. PICK id \in Kicked : m_session' = [m_session EXCEPT ![id] = 0]
    BY DEF EraseKicked
  <1>2. /\ id \in Slot /\ m_session[id] # 0 /\ IsKicked(<<id, m_session[id]>>)
        /\ m_session \in [Slot -> 0..MaxGen] /\ UNCHANGED <<phase, addSessQueue>>
    BY DEF Kicked, Registered, EraseKicked, IInv, TypeOK, ioVars
  <1>3. PICK s \in Session : s = <<id, m_session[id]>> /\ IsMember(s) /\ IsKicked(s)
    BY <1>2, GenAssumption DEF Session, IsMember
  <1>4. \A t \in Session : IsMember(t)' <=> (t # s /\ IsMember(t))
    BY <1>1, <1>2, <1>3, SessionPair, GenAssumption DEF IsMember
  <1>5. \A t \in Session : Queued(t)' <=> Queued(t)
    BY <1>2 DEF Queued
  <1>6. QueueInv'
    BY <1>2, <1>4, <1>5 DEF QueueInv
  <1>7. \A t \in Session : IsKicked(t)' <=> IsKicked(t)
    BY <1>2 DEF IsKicked
  <1>8. Lifecycle!Leave(s)
    BY <1>2, <1>3, <1>4, <1>5, <1>7 DEF Lifecycle!Leave
  <1> QED BY <1>3, <1>6, <1>8

(* Every step of the server is a step of the abstract life of one session, *)
(* or invisible to it.                                                     *)
LEMMA NextRefines ==
  ASSUME IInv, QueueInv, [Next]_vars
  PROVE  QueueInv' /\ [Lifecycle!Next]_(Lifecycle!vars)
  <1>1. ASSUME NEW c \in Slot, Login(c)
        PROVE  QueueInv' /\ Lifecycle!Next
    BY <1>1, LoginRefines DEF Lifecycle!Next
  <1>2. ASSUME NEW s \in Session, PlayerKicked(s)
        PROVE  QueueInv' /\ Lifecycle!Next
    BY <1>2, KickRefines DEF Lifecycle!Next
  <1>3. CASE AddSession_
    BY <1>3, InsertRefines, IgnoreRefines, HeadProperties
       DEF AddSession_, Lifecycle!Next
  <1>4. CASE EraseKicked
    BY <1>4, EraseRefines DEF Lifecycle!Next
  <1>5. ASSUME NEW c \in Slot, MoveStart(c) \/ Logout(c)
        PROVE  QueueInv' /\ UNCHANGED Lifecycle!vars
    <2>1. Cur(c) \in Session
      BY <1>5, CurSession DEF MoveStart, Logout, Received, IInv
    <2> QED BY <1>5, <2>1, Invisible DEF MoveStart, Logout, Received, IsKicked, IInv, TypeOK
  <1>6. ASSUME NEW s \in Session, LoginAck(s) \/ SetPlayerPos(s) \/ Moved(s)
        PROVE  QueueInv' /\ UNCHANGED Lifecycle!vars
    BY <1>6, Invisible DEF LoginAck, SetPlayerPos, Moved, IsKicked, IInv, TypeOK
  <1>7. ASSUME UNCHANGED <<addSessQueue, m_session, phase>>
        PROVE  QueueInv' /\ UNCHANGED Lifecycle!vars
    BY <1>7, Invisible DEF IsKicked
  <1>8. ASSUME NEW s \in Session, NEW to \in Slot, SendOtherPlayerPos(s, to) \/ KickPlayer(s, to)
        PROVE  UNCHANGED <<addSessQueue, m_session, phase>>
    BY <1>8 DEF SendOtherPlayerPos, KickPlayer, ioVars
  <1>9. CASE Net \/ Crash \/ UNCHANGED vars
    BY <1>7, <1>9 DEF Net, Accept, Close, Free, Crash, vars, ioVars
  <1>10. ASSUME \/ AllMoved \/ Drained \/ NoneKicked
                \/ \E id \in Slot : UpdateMove(id) \/ SendSnapshot(id)
         PROVE  UNCHANGED <<addSessQueue, m_session, phase>>
    BY <1>10 DEF AllMoved, Drained, NoneKicked, UpdateMove, SendSnapshot, ioVars
  <1>11. CASE Io
    BY <1>1, <1>2, <1>5, <1>6, <1>7, <1>8, <1>11 DEF Io
  <1>12. CASE Main
    BY <1>3, <1>4, <1>7, <1>10, <1>12 DEF Main
  <1> QED BY <1>9, <1>11, <1>12 DEF Next

LEMMA InitRefines == Init => QueueInv /\ Lifecycle!Init
  <1> SUFFICES ASSUME Init PROVE QueueInv /\ Lifecycle!Init
    OBVIOUS
  <1>1. \A s \in Session : ~Queued(s) /\ ~IsMember(s) /\ phase[s] = "new"
    BY SessionPair, EmptySeq DEF Init, Queued, IsMember
  <1>2. Lifecycle!Init
    BY <1>1 DEF Lifecycle!Init, IsKicked
  <1>3. QueueInv
    BY <1>1, EmptySeq DEF QueueInv, Init
  <1> QED BY <1>2, <1>3

(* A session is queued, joins or is refused, and leaves once and only      *)
(* after its LOGOUT was handled, for any number of addresses, connections  *)
(* and moves and however the two threads interleave.                       *)
THEOREM LifecycleImplemented == Spec => ImplementsLifecycle
  <1>1. Init => IInv /\ QueueInv /\ Lifecycle!Init
    BY InitIInv, InitRefines
  <1>2. IInv /\ QueueInv /\ [Next]_vars => IInv' /\ QueueInv' /\ [Lifecycle!Next]_(Lifecycle!vars)
    BY NextIInv, NextRefines
  <1> QED BY <1>1, <1>2, PTL DEF Spec, ImplementsLifecycle, Lifecycle!Spec
-----------------------------------------------------------------------------
(* The session of the connection an address now has.                       *)
IsCur(s) == gen[s[1]] = s[2]

(* The io thread is inside a handler of s.                                 *)
Busy(s) == phase[s] \notin {"new", "in", "out"}

(* The io thread runs one handler at a time, and only for the connection   *)
(* an address has now.                                                     *)
BusyInv == /\ \A s, t \in Session : Busy(s) /\ Busy(t) => s = t
           /\ \A s \in Session : Busy(s) => IsCur(s)
           /\ \A s \in Session : phase[s] # "new" => s[2] <= gen[s[1]]

LEMMA CurFacts == ASSUME TypeOK, NEW c \in Slot, gen[c] > 0
                  PROVE  /\ Cur(c) \in Session /\ IsCur(Cur(c))
                         /\ Cur(c)[1] = c /\ Cur(c)[2] = gen[c]
  BY CurSession DEF Cur, IsCur

LEMMA CurUnique == \A s, t \in Session : IsCur(s) /\ IsCur(t) /\ s[1] = t[1] => s = t
  BY SessionPair DEF IsCur

(* A step of the io thread on the session it handles, or turns to.         *)
LEMMA BusyPhase ==
  ASSUME TypeOK, BusyInv, NEW s \in Session, IsCur(s), IoIdle \/ Busy(s),
         NEW p \in Phases, p # "new", phase' = [phase EXCEPT ![s] = p], gen' = gen
  PROVE  BusyInv'
  <1>1. /\ phase'[s] = p
        /\ \A t \in Session : t # s => phase'[t] = phase[t] /\ ~Busy(t)
    BY DEF TypeOK, BusyInv, IoIdle, Busy
  <1>2. s[2] <= gen[s[1]]
    BY SessionPair, GenAssumption DEF IsCur, TypeOK
  <1> QED BY <1>1, <1>2 DEF BusyInv, Busy, IsCur

LEMMA BusyStep == ASSUME IInv, BusyInv, [Next]_vars PROVE BusyInv'
  <1> USE DEF IInv, ioVars, netVars
  <1>1. ASSUME NEW c \in Slot, Accept(c) PROVE BusyInv'
    <2>1. /\ \A s \in Session : ~Busy(s)
          /\ phase' = phase /\ gen \in [Slot -> 0..MaxGen]
          /\ gen' = [gen EXCEPT ![c] = @ + 1]
      BY <1>1 DEF Accept, IoIdle, Busy, TypeOK
    <2>2. \A s \in Session : gen[s[1]] <= gen'[s[1]] /\ s[2] \in Nat /\ gen[s[1]] \in Nat /\ gen'[s[1]] \in Nat
      BY <2>1, SessionPair, GenAssumption
    <2> QED BY <2>1, <2>2 DEF BusyInv, Busy
  <1>2. ASSUME NEW c \in Slot, Login(c) \/ MoveStart(c) \/ Logout(c) PROVE BusyInv'
    <2>1. Cur(c) \in Session /\ IsCur(Cur(c)) /\ IoIdle /\ gen' = gen
      BY <1>2, CurFacts DEF Login, MoveStart, Logout, Received
    <2>2. PICK p \in Phases : p # "new" /\ phase' = [phase EXCEPT ![Cur(c)] = p]
      <3>1. CASE Login(c) BY <3>1 DEF Login, Phases
      <3>2. CASE MoveStart(c) BY <3>2 DEF MoveStart, Phases, TypeOK
      <3>3. CASE Logout(c) BY <3>3 DEF Logout, Phases
      <3> QED BY <1>2, <3>1, <3>2, <3>3
    <2> QED BY <2>1, <2>2, BusyPhase
  <1>3. ASSUME NEW s \in Session, LoginAck(s) \/ SetPlayerPos(s) \/ Moved(s) \/ PlayerKicked(s) PROVE BusyInv'
    <2>1. Busy(s) /\ IsCur(s) /\ gen' = gen
      BY <1>3 DEF LoginAck, SetPlayerPos, Moved, PlayerKicked, Busy, BusyInv
    <2>2. PICK p \in Phases : p # "new" /\ phase' = [phase EXCEPT ![s] = p]
      <3>1. CASE LoginAck(s) BY <3>1 DEF LoginAck, Phases
      <3>2. CASE SetPlayerPos(s) BY <3>2 DEF SetPlayerPos, Phases, TypeOK
      <3>3. CASE Moved(s) BY <3>3 DEF Moved, Phases, TypeOK
      <3>4. CASE PlayerKicked(s) BY <3>4 DEF PlayerKicked, Phases
      <3> QED BY <1>3, <3>1, <3>2, <3>3, <3>4
    <2> QED BY <2>1, <2>2, BusyPhase
  <1>4. ASSUME UNCHANGED <<phase, gen>> PROVE BusyInv'
    BY <1>4 DEF BusyInv, Busy, IsCur
  <1>5. ASSUME NEW c \in Slot, Close(c) \/ Free(c) PROVE UNCHANGED <<phase, gen>>
    BY <1>5 DEF Close, Free
  <1>6. ASSUME NEW s \in Session, NEW to \in Slot, SendOtherPlayerPos(s, to) \/ KickPlayer(s, to)
        PROVE  UNCHANGED <<phase, gen>>
    BY <1>6 DEF SendOtherPlayerPos, KickPlayer
  <1>7. CASE Main \/ Crash \/ UNCHANGED vars
    <2>1. UNCHANGED <<phase, gen>>
      BY <1>7 DEF Main, AddSession_, AllMoved, Drained, EraseKicked, NoneKicked, UpdateMove,
                  SendSnapshot, Crash, vars
    <2> QED BY <2>1, <1>4
  <1> QED BY <1>1, <1>2, <1>3, <1>4, <1>5, <1>6, <1>7 DEF Next, Net, Io

-----------------------------------------------------------------------------
(* Main holds a copy only while it updates.                                *)
MoverInv == mainPc # "update" => mover = NoSlot

(* A session that the others are to know.                                  *)
Known(s) == IsCur(s) /\ IsMember(s) /\ ~Leaving(s)

(* Who does not know of a registered player yet will be told of it by the  *)
(* UpdateAllMove in progress: that player's turn is still to come, or is   *)
(* now and this client is still to be visited.                             *)
ToldInv ==
  \A s \in Session, a \in Slot : a # s[1] /\ Present(a) /\ Known(s)
    => \/ view[a][s[1]] \in Shown
       \/ s[1] \in allTodo
       \/ mover = s[1] /\ a \in moveTodo

(* A step that introduces nobody, and takes no position from a client that *)
(* should have it.                                                         *)
LEMMA ToldFrame ==
  ASSUME ToldInv, UNCHANGED <<allTodo, mover, moveTodo>>,
         \A a \in Slot : Present(a)' => Present(a),
         \A s \in Session : Known(s)' => Known(s),
         \A s \in Session, a \in Slot : Present(a)' /\ Known(s)' /\ view[a][s[1]] \in Shown
                                           => view'[a][s[1]] \in Shown
  PROVE  ToldInv'
  BY DEF ToldInv, Shown, Position

LEMMA IoTold == ASSUME IInv, QueueInv, BusyInv, ToldInv, Io PROVE ToldInv'
  <1> USE DEF IInv, netVars, ioVars, mainVars
  <1>1. ASSUME NEW s \in Session, NEW p, phase' = [phase EXCEPT ![s] = p],
               UNCHANGED <<sock, gen, m_session, allTodo, mover, moveTodo, view>>,
               ~IsMember(s) \/ (Leaving(s) => p \in {"kick", "out", "lateset", "latecast"})
        PROVE  ToldInv'
    <2>1. /\ phase'[s] = p
          /\ \A t \in Session : t # s => phase'[t] = phase[t]
      BY <1>1 DEF TypeOK
    <2>2. \A t \in Session : Known(t)' => Known(t)
      BY <1>1, <2>1 DEF Known, IsCur, IsMember, Leaving, IsKicked
    <2>3. \A a \in Slot : Present(a)' => Present(a)
      BY <1>1 DEF Present, IsMember, Cur
    <2> QED BY <1>1, <2>2, <2>3, ToldFrame
  <1>2. ASSUME NEW c \in Slot, Login(c) PROVE ToldInv'
    <2>1. Cur(c) \in Session /\ ~IsMember(Cur(c))
      BY <1>2, CurFacts DEF Login, Received, QueueInv
    <2> QED BY <1>1, <1>2, <2>1 DEF Login
  <1>3. ASSUME NEW c \in Slot, MoveStart(c) PROVE ToldInv'
    <2>1. Cur(c) \in Session
      BY <1>3, CurFacts DEF MoveStart, Received
    <2>2. PICK p : /\ phase' = [phase EXCEPT ![Cur(c)] = p]
                   /\ phase[Cur(c)] = "in" \/ p = "lateset"
      BY <1>3, <2>1 DEF MoveStart, Received, TypeOK
    <2> QED BY <1>1, <1>3, <2>1, <2>2 DEF MoveStart, Leaving, IsKicked
  <1>4. ASSUME NEW c \in Slot, Logout(c) PROVE ToldInv'
    BY <1>1, <1>4, CurFacts DEF Logout, Received
  <1>5. ASSUME NEW s \in Session, LoginAck(s) PROVE ToldInv'
    BY <1>1, <1>5 DEF LoginAck, Leaving, IsKicked
  <1>6. ASSUME NEW s \in Session, SetPlayerPos(s) PROVE ToldInv'
    <2>1. PICK p : /\ phase' = [phase EXCEPT ![s] = p]
                   /\ phase[s] = "setpos" \/ p = "latecast"
      BY <1>6 DEF SetPlayerPos, TypeOK
    <2> QED BY <1>1, <1>6, <2>1 DEF SetPlayerPos, Leaving, IsKicked
  <1>7. ASSUME NEW s \in Session, Moved(s) PROVE ToldInv'
    <2>1. PICK p : /\ phase' = [phase EXCEPT ![s] = p]
                   /\ phase[s] = "bcast" \/ p = "out"
      BY <1>7 DEF Moved, TypeOK
    <2> QED BY <1>1, <1>7, <2>1 DEF Moved, Leaving, IsKicked
  <1>8. ASSUME NEW s \in Session, PlayerKicked(s) PROVE ToldInv'
    BY <1>1, <1>8 DEF PlayerKicked
  <1>9. ASSUME NEW s \in Session, NEW to \in Slot, SendOtherPlayerPos(s, to) PROVE ToldInv'
    <2>1. /\ UNCHANGED <<sock, gen, phase, m_session, allTodo, mover, moveTodo>>
          /\ pos[s] \in Shown
          /\ Deliver(to, s[1], pos[s])
      BY <1>9 DEF SendOtherPlayerPos, TypeOK, Shown
    <2>2. \A a, id \in Slot : view'[a][id] \in {view[a][id], pos[s]}
      BY <2>1, SessionPair DEF Deliver, TypeOK
    <2> QED BY <2>1, <2>2, SessionPair, ToldFrame
            DEF Present, Known, IsCur, IsMember, Cur, Leaving, IsKicked
  <1>10. ASSUME NEW s \in Session, NEW to \in Slot, KickPlayer(s, to) PROVE ToldInv'
    <2>1. /\ UNCHANGED <<sock, gen, phase, m_session, allTodo, mover, moveTodo>>
          /\ phase[s] = "kick" /\ IsCur(s)
          /\ Deliver(to, s[1], Removed)
      BY <1>10 DEF KickPlayer, BusyInv, Busy
    <2>2. \A a, id \in Slot : id # s[1] => view'[a][id] = view[a][id]
      BY <2>1, SessionPair DEF Deliver, TypeOK
    <2>3. \A t \in Session : Known(t) => t[1] # s[1]
      BY <2>1, CurUnique DEF Known, Leaving
    <2> QED BY <2>1, <2>2, <2>3, SessionPair, ToldFrame
            DEF Present, Known, IsCur, IsMember, Cur, Leaving, IsKicked
  <1> QED BY <1>2, <1>3, <1>4, <1>5, <1>6, <1>7, <1>8, <1>9, <1>10 DEF Io

(* Who is registered was accepted before: a new connection is not.         *)
LEMMA NetTold == ASSUME IInv, QueueInv, BusyInv, ToldInv, Net PROVE ToldInv'
  <1> USE DEF IInv, netVars, ioVars, mainVars
  <1>1. ASSUME NEW c \in Slot, Accept(c) PROVE ToldInv'
    <2>1. /\ gen' = [gen EXCEPT ![c] = @ + 1] /\ sock' = [sock EXCEPT ![c] = "open"]
          /\ gen \in [Slot -> 0..MaxGen] /\ gen[c] < MaxGen
          /\ sock \in [Slot -> {"free", "open", "closed"}]
          /\ UNCHANGED <<phase, m_session, allTodo, mover, moveTodo, view>>
      BY <1>1 DEF Accept, TypeOK
    <2>2. \A s \in Session : IsMember(s) => s[2] <= gen[s[1]]
      BY DEF QueueInv, BusyInv
    <2>3. <<c, gen[c] + 1>> \in Session
      BY <2>1, GenAssumption DEF Session
    <2>4. m_session[c] # gen[c] + 1
      BY <2>1, <2>2, <2>3, GenAssumption DEF IsMember
    <2>5. \A a \in Slot : Present(a)' => Present(a)
      BY <2>1, <2>4 DEF Present, IsMember, Cur
    <2>6. \A s \in Session : Known(s)' => Known(s)
      BY <2>1, <2>4, SessionPair DEF Known, IsCur, IsMember, Leaving, IsKicked
    <2> QED BY <2>1, <2>5, <2>6, ToldFrame
  <1>2. ASSUME NEW c \in Slot, Close(c) PROVE ToldInv'
    <2>1. /\ sock' = [sock EXCEPT ![c] = "closed"]
          /\ sock \in [Slot -> {"free", "open", "closed"}]
          /\ \A a \in Slot : a # c => view'[a] = view[a]
          /\ UNCHANGED <<gen, phase, m_session, allTodo, mover, moveTodo>>
      BY <1>2 DEF Close, TypeOK
    <2> QED BY <2>1, ToldFrame DEF Present, Known, IsCur, IsMember, Cur, Leaving, IsKicked
  <1>3. ASSUME NEW c \in Slot, Free(c) PROVE ToldInv'
    <2>1. /\ sock' = [sock EXCEPT ![c] = "free"]
          /\ sock \in [Slot -> {"free", "open", "closed"}]
          /\ UNCHANGED <<gen, phase, m_session, allTodo, mover, moveTodo, view>>
      BY <1>3 DEF Free, TypeOK
    <2> QED BY <2>1, ToldFrame DEF Present, Known, IsCur, IsMember, Cur, Leaving, IsKicked
  <1> QED BY <1>1, <1>2, <1>3 DEF Net

LEMMA MainTold == ASSUME IInv, MoverInv, ToldInv, Main PROVE MoverInv' /\ ToldInv'
  <1> USE DEF IInv, netVars, ioVars, MoverInv
  <1>0. ASSUME UNCHANGED <<sock, gen, phase, allTodo, mover, moveTodo, view>>,
               \A id \in Slot : m_session'[id] \in {m_session[id], 0}
        PROVE  ToldInv'
    <2>1. \A a \in Slot : Present(a)' => Present(a)
      BY <1>0 DEF Present, IsMember, Cur
    <2>2. \A s \in Session : Known(s)' => Known(s)
      BY <1>0, SessionPair DEF Known, IsCur, IsMember, Leaving, IsKicked
    <2> QED BY <1>0, <2>1, <2>2, ToldFrame
  <1>1. CASE AddSession_
    <2>1. CASE Insert(Head(addSessQueue))
      <3>1. \A id \in Slot : m_session'[id] # 0 => id \in allTodo'
        BY <2>1 DEF Insert, Registered, TypeOK
      <3> QED BY <1>1, <2>1, <3>1, SessionPair DEF AddSession_, Insert, ToldInv, Known, IsMember
    <2>2. CASE Ignore(Head(addSessQueue))
      BY <1>0, <1>1, <2>2 DEF AddSession_, Ignore
    <2> QED BY <1>1, <2>1, <2>2 DEF AddSession_
  <1>2. CASE AllMoved \/ Drained \/ NoneKicked
    BY <1>0, <1>2 DEF AllMoved, Drained, NoneKicked, mainVars
  <1>3. CASE EraseKicked
    <2>1. PICK id \in Slot : m_session' = [m_session EXCEPT ![id] = 0]
      BY <1>3 DEF EraseKicked, Kicked, Registered
    <2>2. \A i \in Slot : m_session'[i] \in {m_session[i], 0}
      BY <2>1 DEF TypeOK
    <2> QED BY <1>0, <1>3, <2>2 DEF EraseKicked
  <1>4. ASSUME NEW id \in Slot, UpdateMove(id) PROVE MoverInv' /\ ToldInv'
    <2>1. /\ mainPc = "update" /\ mainPc' = "update" /\ mover = NoSlot
          /\ allTodo' = allTodo \ {id} /\ moveTodo' = Registered \ {id}
          /\ mover' = IF moveTodo' = {} THEN NoSlot ELSE id
          /\ UNCHANGED <<sock, gen, phase, m_session, view>>
      BY <1>4 DEF UpdateMove, Carry
    <2>2. ASSUME NEW s \in Session, NEW a \in Slot, a # s[1], Present(a)', Known(s)'
          PROVE  view'[a][s[1]] \in Shown \/ s[1] \in allTodo' \/ (mover' = s[1] /\ a \in moveTodo')
      <3>1. Present(a) /\ Known(s)
        BY <2>1, <2>2 DEF Present, Known, IsCur, IsMember, Cur, Leaving, IsKicked
      <3>2. a \in Registered
        BY <3>1 DEF Present, IsMember, Cur, Registered
      <3>3. view[a][s[1]] \in Shown \/ s[1] \in allTodo
        BY <2>1, <2>2, <3>1, SlotAssumption, SessionPair DEF ToldInv
      <3> QED BY <2>1, <2>2, <3>2, <3>3
    <2>3. Shown' = Shown
      BY DEF Shown, Position
    <2> QED BY <2>1, <2>2, <2>3 DEF ToldInv
  <1>5. ASSUME NEW to \in Slot, SendSnapshot(to) PROVE MoverInv' /\ ToldInv'
    <2>1. /\ mainPc' = mainPc /\ mover # NoSlot /\ to \in moveTodo
          /\ moveTodo' = moveTodo \ {to}
          /\ mover' = IF moveTodo' = {} THEN NoSlot ELSE mover
          /\ Deliver(to, mover, snapshot)
          /\ UNCHANGED <<sock, gen, phase, m_session, allTodo>>
      BY <1>5 DEF SendSnapshot, Carry
    <2>2. /\ snapshot \in Shown /\ mover \in Slot
          /\ view \in [Slot -> [Slot -> Shown \cup {Unknown, Removed}]]
      BY <2>1 DEF TypeOK
    <2>3. /\ \A a, id \in Slot : view'[a][id] \in {view[a][id], snapshot}
          /\ sock[to] = "open" => view'[to][mover] = snapshot
      BY <2>1, <2>2 DEF Deliver
    <2>4. ASSUME NEW s \in Session, NEW a \in Slot, a # s[1], Present(a)', Known(s)'
          PROVE  view'[a][s[1]] \in Shown \/ s[1] \in allTodo' \/ (mover' = s[1] /\ a \in moveTodo')
      <3>1. Present(a) /\ Known(s) /\ sock[a] = "open"
        BY <2>1, <2>4 DEF Present, Known, IsCur, IsMember, Cur, Leaving, IsKicked
      <3>2. CASE view[a][s[1]] \in Shown
        BY <2>2, <2>3, <3>2, SessionPair
      <3>3. CASE s[1] \in allTodo
        BY <2>1, <3>3
      <3>4. CASE mover = s[1] /\ a \in moveTodo
        BY <2>1, <2>2, <2>3, <3>1, <3>4
      <3> QED BY <2>4, <3>1, <3>2, <3>3, <3>4 DEF ToldInv
    <2>5. Shown' = Shown
      BY DEF Shown, Position
    <2> QED BY <2>1, <2>4, <2>5 DEF ToldInv
  <1>6. AllMoved \/ Drained \/ NoneKicked \/ EraseKicked \/ AddSession_ => MoverInv'
    BY DEF AllMoved, Drained, NoneKicked, EraseKicked, AddSession_, Insert, Ignore
  <1> QED BY <1>1, <1>2, <1>3, <1>4, <1>5, <1>6 DEF Main

LEMMA ToldStep ==
  ASSUME IInv, QueueInv, BusyInv, MoverInv, ToldInv, [Next]_vars
  PROVE  MoverInv' /\ ToldInv'
  <1>1. ASSUME Net \/ Io PROVE MoverInv' /\ ToldInv'
    <2>1. ToldInv'
      BY <1>1, IoTold, NetTold
    <2>2. UNCHANGED mainVars
      BY <1>1 DEF Net, Io, Accept, Close, Free, Login, MoveStart, Logout, LoginAck, SetPlayerPos,
                  Moved, PlayerKicked, SendOtherPlayerPos, KickPlayer
    <2> QED BY <2>1, <2>2 DEF MoverInv, mainVars
  <1>2. CASE Crash \/ UNCHANGED vars
    <2>1. UNCHANGED <<sock, gen, phase, m_session, mainPc, allTodo, mover, moveTodo, view>>
      BY <1>2 DEF Crash, vars, netVars, ioVars, mainVars
    <2>2. ToldInv'
      BY <2>1, ToldFrame DEF Present, Known, IsCur, IsMember, Cur, Leaving, IsKicked
    <2> QED BY <2>1, <2>2 DEF MoverInv
  <1> QED BY <1>1, <1>2, MainTold DEF Next

SessionInv == IInv /\ QueueInv /\ BusyInv

LEMMA SessionInvariance == Spec => []SessionInv
  <1>1. Init => BusyInv
    BY DEF Init, BusyInv, Busy
  <1>2. SessionInv /\ [Next]_vars => SessionInv'
    BY NextIInv, NextRefines, BusyStep DEF SessionInv
  <1> QED BY <1>1, <1>2, InitIInv, InitRefines, PTL DEF Spec, SessionInv

(* Outside UpdateAllMove any two registered players that have not left     *)
(* know of each other, for any number of clients: whoever registers last   *)
(* makes main tell everybody of everybody (World.cpp:25-39), and neither a *)
(* move, a reused address nor the other thread's loops undo it.            *)
THEOREM PlayersKnowEachOther == Spec => []MutualView
  <1>1. Init => MoverInv /\ ToldInv
    BY SessionPair DEF Init, MoverInv, ToldInv, Present
  <1>2. SessionInv /\ MoverInv /\ ToldInv /\ [Next]_vars => MoverInv' /\ ToldInv'
    BY ToldStep DEF SessionInv
  <1>3. SessionInv /\ MoverInv /\ ToldInv => MutualView
    <2> SUFFICES ASSUME SessionInv, MoverInv, ToldInv, mainPc # "update",
                        NEW a \in Slot, NEW b \in Slot, a # b,
                        Present(a), gen[b] > 0, IsMember(Cur(b)), ~Leaving(Cur(b))
                 PROVE  view[a][b] \in Shown
      BY DEF MutualView
    <2>1. Cur(b) \in Session /\ Cur(b)[1] = b /\ Known(Cur(b))
      BY CurFacts DEF Known, SessionInv, IInv
    <2>2. allTodo = {} /\ mover # b
      BY SlotAssumption DEF SessionInv, IInv, LoopInv, MoverInv
    <2> QED BY <2>1, <2>2 DEF ToldInv
  <1> QED BY <1>1, <1>2, <1>3, SessionInvariance, PTL DEF Spec

-----------------------------------------------------------------------------
(* The latest news about a session.                                        *)
Latest(s) == IF Leaving(s) THEN Removed ELSE pos[s]

(* Whoever hears of a session heard its latest news, or is still to be     *)
(* visited by the io thread's loop over m_session.  Between "ack" or       *)
(* "setpos" and the broadcast the news is not out, after a LOGOUT a        *)
(* position is no news.                                                    *)
NewsInv(s) ==
  s[1] \notin overtaken /\ phase[s] \in {"bcast", "in", "kick", "out"} =>
    \A a \in Slot : a # s[1] /\ sock[a] = "open" =>
      \/ view[a][s[1]] \in {Unknown, Latest(s)}
      \/ Busy(s) /\ a \in ioTodo

(* A position sent after the LOGOUT counts as one main may have repeated.  *)
LateInv(s) == phase[s] = "latecast" => s[1] \in overtaken

(* The copy main is sending is the latest news, too.                       *)
CopyInv(s) ==
  mover = s[1] /\ s[1] \notin overtaken =>
    /\ ~Leaving(s)
    /\ phase[s] \in {"bcast", "in"} => snapshot = pos[s]

NewsOf(s) == NewsInv(s) /\ LateInv(s) /\ CopyInv(s)

(* A client hears nothing before its connection is accepted.               *)
DeafInv == \A c \in Slot : sock[c] # "open" => \A id \in Slot : view[c][id] = Unknown

ViewInv == DeafInv /\ \A s \in Session : IsCur(s) => NewsOf(s)

(* A step that is no news: a thread may only have got in the other's way.  *)
LEMMA NewsFrame ==
  ASSUME ViewInv, UNCHANGED <<gen, phase, pos, mover, snapshot, view>>,
         \A c \in Slot : sock'[c] = "open" <=> sock[c] = "open",
         overtaken \subseteq overtaken',
         ioTodo' = ioTodo \/ {s[1] : s \in Iterating} \subseteq overtaken'
  PROVE  ViewInv'
  <1>1. DeafInv'
    BY DEF ViewInv, DeafInv, Unknown
  <1>2. ASSUME NEW s \in Session, IsCur(s)' PROVE NewsOf(s)'
    <2>1. NewsInv(s) /\ LateInv(s) /\ CopyInv(s)
      BY <1>2 DEF ViewInv, NewsOf, IsCur
    <2>2. LateInv(s)'
      BY <2>1 DEF LateInv
    <2>3. CopyInv(s)'
      BY <2>1 DEF CopyInv, Leaving, IsKicked
    <2>4. Latest(s)' = Latest(s) /\ (Busy(s)' <=> Busy(s))
      BY DEF Latest, Leaving, IsKicked, Removed, Busy
    <2>5. phase[s] \in {"bcast", "kick"} /\ s[1] \notin overtaken' => ioTodo' = ioTodo
      BY DEF Iterating
    <2>6. phase[s] \in {"in", "out"} => ~Busy(s)
      BY DEF Busy
    <2>7. NewsInv(s)'
      BY <2>1, <2>4, <2>5, <2>6 DEF NewsInv, Unknown
    <2> QED BY <2>2, <2>3, <2>7 DEF NewsOf
  <1> QED BY <1>1, <1>2 DEF ViewInv

(* A step of the io thread on one session tells of no other.               *)
LEMMA NewsOfOne ==
  ASSUME TypeOK, BusyInv, ViewInv, NEW s \in Session, IsCur(s), IoIdle \/ Busy(s),
         UNCHANGED <<sock, gen, mover, snapshot, view>>,
         \A t \in Session : t # s => phase'[t] = phase[t] /\ pos'[t] = pos[t],
         \A id \in Slot : id # s[1] => (id \in overtaken' <=> id \in overtaken),
         NewsOf(s)'
  PROVE  ViewInv'
  <1>1. DeafInv'
    BY DEF ViewInv, DeafInv, Unknown
  <1>2. ASSUME NEW t \in Session, IsCur(t)', t # s PROVE NewsOf(t)'
    <2>1. /\ t[1] \in Slot /\ t[1] # s[1] /\ ~Busy(t)
          /\ NewsInv(t) /\ LateInv(t) /\ CopyInv(t)
      BY <1>2, CurUnique, SessionPair DEF ViewInv, NewsOf, IsCur, BusyInv, IoIdle, Busy
    <2>2. LateInv(t)'
      BY <1>2, <2>1 DEF LateInv
    <2>3. CopyInv(t)'
      BY <1>2, <2>1 DEF CopyInv, Leaving, IsKicked
    <2>4. Latest(t)' = Latest(t) /\ (Busy(t)' <=> Busy(t))
      BY <1>2 DEF Latest, Leaving, IsKicked, Removed, Busy
    <2>5. NewsInv(t)'
      BY <1>2, <2>1, <2>4 DEF NewsInv, Unknown
    <2> QED BY <2>2, <2>3, <2>5 DEF NewsOf
  <1> QED BY <1>1, <1>2 DEF ViewInv

(* The news goes to every registered session: the open connections that    *)
(* are not registered heard nothing of s, or s counts as overtaken.        *)
LEMMA PublishReaches ==
  ASSUME TypeOK, NEW s \in Session, Publish(s), ioTodo' = Registered \ {s[1]}, s[1] \notin overtaken'
  PROVE  /\ mover # s[1] /\ ~IsKicked(s)
         /\ \A a \in Slot : a # s[1] /\ sock[a] = "open" => view[a][s[1]] = Unknown \/ a \in ioTodo'
  BY SessionPair DEF Publish, Unreached

LEMMA PublishKeeps ==
  ASSUME NEW s, Publish(s) PROVE \A id : id # s[1] => (id \in overtaken' <=> id \in overtaken)
  BY DEF Publish

(* A handler that publishes news of s and starts its loop.                 *)
LEMMA PublishNews ==
  ASSUME TypeOK, NEW s \in Session, IsCur(s), Publish(s), UNCHANGED <<sock, gen, mover, snapshot, view>>,
         ioTodo' = Registered \ {s[1]},
         Busy(s)', phase'[s] = "latecast" => IsKicked(s)
  PROVE  NewsOf(s)'
  <1>1. CASE s[1] \in overtaken'
    BY <1>1 DEF NewsOf, NewsInv, LateInv, CopyInv
  <1>2. CASE s[1] \notin overtaken'
    <2>1. /\ mover # s[1] /\ ~IsKicked(s)
          /\ \A a \in Slot : a # s[1] /\ sock[a] = "open" => view[a][s[1]] = Unknown \/ a \in ioTodo'
      BY <1>2, PublishReaches
    <2>2. NewsInv(s)'
      BY <2>1 DEF NewsInv, Unknown
    <2>3. LateInv(s)' /\ CopyInv(s)'
      BY <2>1 DEF LateInv, CopyInv
    <2> QED BY <2>2, <2>3 DEF NewsOf
  <1> QED BY <1>1, <1>2

LEMMA IoNews == ASSUME IInv, BusyInv, ViewInv, Io PROVE ViewInv'
  <1> USE DEF IInv, netVars, ioVars, mainVars
  <1>1. ASSUME NEW c \in Slot, Login(c) \/ MoveStart(c), NEW s \in Session, s = Cur(c) PROVE ViewInv'
    <2>1. /\ IsCur(s) /\ IoIdle /\ phase[s] \in {"new", "in", "out"}
          /\ UNCHANGED <<sock, gen, pos, ioTodo, mover, snapshot, view, overtaken>>
      BY <1>1, CurFacts DEF Login, MoveStart, Received
    <2>2. /\ \A t \in Session : t # s => phase'[t] = phase[t]
          /\ \/ phase[s] = "new" /\ phase'[s] = "ack"
             \/ phase[s] = "in" /\ phase'[s] = "setpos"
             \/ phase[s] = "out" /\ phase'[s] = "lateset"
      BY <1>1, <2>1 DEF Login, MoveStart, Received, TypeOK
    <2>3. NewsInv(s) /\ LateInv(s) /\ CopyInv(s)
      BY <2>1 DEF ViewInv, NewsOf
    <2>4. NewsOf(s)'
      BY <2>1, <2>2, <2>3 DEF NewsOf, NewsInv, LateInv, CopyInv, Leaving, IsKicked
    <2> QED BY <2>1, <2>2, <2>4, NewsOfOne
  <1>2. ASSUME NEW c \in Slot, Logout(c), NEW s \in Session, s = Cur(c) PROVE ViewInv'
    <2>1. /\ IsCur(s) /\ s[1] = c /\ IoIdle /\ Publish(s) /\ ioTodo' = Registered \ {s[1]}
          /\ UNCHANGED <<sock, gen, pos, mover, snapshot, view>>
      BY <1>2, CurFacts DEF Logout, Received
    <2>2. /\ phase'[s] = "kick"
          /\ \A t \in Session : t # s => phase'[t] = phase[t]
      BY <1>2 DEF Logout, TypeOK
    <2>3. NewsOf(s)'
      BY <2>1, <2>2, PublishNews DEF Busy
    <2> QED BY <2>1, <2>2, <2>3, PublishKeeps, NewsOfOne
  <1>3. ASSUME NEW s \in Session, LoginAck(s) \/ SetPlayerPos(s) PROVE ViewInv'
    <2>1. /\ Busy(s) /\ IsCur(s) /\ Publish(s) /\ ioTodo' = Registered \ {s[1]}
          /\ UNCHANGED <<sock, gen, mover, snapshot, view>>
      BY <1>3 DEF LoginAck, SetPlayerPos, Busy, BusyInv
    <2>2. /\ \A t \in Session : t # s => phase'[t] = phase[t] /\ pos'[t] = pos[t]
          /\ phase'[s] = "bcast" \/ (phase'[s] = "latecast" /\ phase[s] = "lateset")
      BY <1>3 DEF LoginAck, SetPlayerPos, TypeOK
    <2>3. NewsOf(s)'
      BY <2>1, <2>2, PublishNews DEF Busy, IsKicked
    <2> QED BY <2>1, <2>2, <2>3, PublishKeeps, NewsOfOne
  <1>4. ASSUME NEW s \in Session, Moved(s) \/ PlayerKicked(s) PROVE ViewInv'
    <2>1. /\ Busy(s) /\ IsCur(s) /\ ioTodo = {}
          /\ UNCHANGED <<sock, gen, pos, ioTodo, mover, snapshot, view, overtaken>>
      BY <1>4 DEF Moved, PlayerKicked, Busy, BusyInv
    <2>2. /\ \A t \in Session : t # s => phase'[t] = phase[t]
          /\ \/ phase[s] = "bcast" /\ phase'[s] = "in"
             \/ phase[s] = "latecast" /\ phase'[s] = "out"
             \/ phase[s] = "kick" /\ phase'[s] = "out"
      BY <1>4 DEF Moved, PlayerKicked, TypeOK
    <2>3. NewsInv(s) /\ LateInv(s) /\ CopyInv(s)
      BY <2>1 DEF ViewInv, NewsOf
    <2>4. CopyInv(s)' /\ LateInv(s)'
      BY <2>1, <2>2, <2>3 DEF LateInv, CopyInv, Leaving, IsKicked
    <2>5. ASSUME s[1] \notin overtaken', NEW a \in Slot, a # s[1], sock[a] = "open"
          PROVE  view[a][s[1]] \in {Unknown, Latest(s)} /\ Latest(s)' = Latest(s)
      BY <2>1, <2>2, <2>3, <2>5 DEF NewsInv, LateInv, Latest, Leaving, IsKicked, Removed
    <2>6. NewsInv(s)'
      BY <2>1, <2>5 DEF NewsInv, Unknown
    <2> QED BY <2>1, <2>2, <2>4, <2>6, NewsOfOne DEF NewsOf
  <1>5. ASSUME NEW s \in Session, NEW to \in Slot, SendOtherPlayerPos(s, to) \/ KickPlayer(s, to)
        PROVE  ViewInv'
    <2>1. /\ Busy(s) /\ IsCur(s) /\ phase[s] \in {"bcast", "latecast", "kick"}
          /\ ioTodo' = ioTodo \ {to}
          /\ UNCHANGED <<sock, gen, phase, pos, mover, snapshot, overtaken>>
      BY <1>5 DEF SendOtherPlayerPos, KickPlayer, Busy, BusyInv
    <2>2. PICK news : /\ phase[s] # "latecast" => news = Latest(s)
                      /\ Deliver(to, s[1], news)
      BY <1>5 DEF SendOtherPlayerPos, KickPlayer, Latest, Leaving, IsKicked
    <2>3. /\ \A a, id \in Slot : a # to \/ id # s[1] \/ sock[a] # "open" => view'[a][id] = view[a][id]
          /\ sock[to] = "open" => view'[to][s[1]] = news
      BY <2>2, SessionPair DEF Deliver, TypeOK
    <2>4. DeafInv'
      BY <2>1, <2>3 DEF ViewInv, DeafInv, Unknown
    <2>5. ASSUME NEW t \in Session, IsCur(t)' PROVE NewsOf(t)'
      <3>1. NewsInv(t) /\ LateInv(t) /\ CopyInv(t)
        BY <2>1, <2>5 DEF ViewInv, NewsOf, IsCur
      <3>2. LateInv(t)' /\ CopyInv(t)'
        BY <2>1, <3>1 DEF LateInv, CopyInv, Leaving, IsKicked
      <3>3. Latest(t)' = Latest(t) /\ (Busy(t)' <=> Busy(t))
        BY <2>1 DEF Latest, Leaving, IsKicked, Removed, Busy
      <3>4. CASE t # s
        <4>1. t[1] # s[1] /\ ~Busy(t)
          BY <2>1, <2>5, <3>4, CurUnique DEF BusyInv, IsCur
        <4> QED BY <2>1, <2>3, <3>1, <3>2, <3>3, <4>1, SessionPair DEF NewsOf, NewsInv, Unknown
      <3>5. CASE t = s
        <4>1. ASSUME s[1] \notin overtaken', NEW a \in Slot, a # s[1], sock[a] = "open", phase[s] \in {"bcast", "kick"}
              PROVE  view'[a][s[1]] \in {Unknown, Latest(s)} \/ a \in ioTodo'
          BY <2>1, <2>2, <2>3, <3>1, <3>5, <4>1, SessionPair DEF NewsInv
        <4>2. NewsInv(s)'
          BY <2>1, <3>3, <3>5, <4>1 DEF NewsInv, Unknown
        <4> QED BY <3>2, <3>5, <4>2 DEF NewsOf
      <3> QED BY <3>4, <3>5
    <2> QED BY <2>4, <2>5 DEF ViewInv
  <1>6. \A c \in Slot : Login(c) \/ MoveStart(c) \/ Logout(c) => Cur(c) \in Session
    BY CurFacts DEF Login, MoveStart, Logout, Received
  <1> QED BY <1>1, <1>2, <1>3, <1>4, <1>5, <1>6 DEF Io

LEMMA NetNews == ASSUME IInv, BusyInv, ViewInv, Net PROVE ViewInv'
  <1> USE DEF IInv, netVars, ioVars, mainVars
  <1>1. ASSUME NEW c \in Slot, Accept(c) PROVE ViewInv'
    <2>1. /\ gen' = [gen EXCEPT ![c] = @ + 1] /\ gen \in [Slot -> 0..MaxGen]
          /\ sock' = [sock EXCEPT ![c] = "open"] /\ sock \in [Slot -> {"free", "open", "closed"}]
          /\ sock[c] # "open"
          /\ UNCHANGED <<phase, pos, ioTodo, mover, snapshot, view, overtaken>>
      BY <1>1 DEF Accept, TypeOK
    <2>2. DeafInv' /\ \A id \in Slot : view[c][id] = Unknown
      BY <2>1 DEF ViewInv, DeafInv, Unknown
    <2>3. ASSUME NEW s \in Session, IsCur(s)' PROVE NewsOf(s)'
      <3>1. CASE s[1] = c
        <4>1. phase'[s] = "new"
          <5>1. s[2] = gen[c] + 1 /\ gen[s[1]] = gen[c] /\ gen[c] \in Nat
            BY <2>1, <2>3, <3>1, GenAssumption DEF IsCur
          <5>2. ~(s[2] <= gen[s[1]])
            BY <5>1
          <5> QED BY <2>1, <5>2 DEF BusyInv
        <4> QED BY <4>1 DEF NewsOf, NewsInv, LateInv, CopyInv, Leaving, IsKicked
      <3>2. CASE s[1] # c
        <4>1. NewsInv(s) /\ LateInv(s) /\ CopyInv(s) /\ s[1] \in Slot
          BY <2>1, <2>3, <3>2, SessionPair DEF ViewInv, NewsOf, IsCur
        <4>2. LateInv(s)' /\ CopyInv(s)'
          BY <2>1, <4>1 DEF LateInv, CopyInv, Leaving, IsKicked
        <4>3. Latest(s)' = Latest(s) /\ (Busy(s)' <=> Busy(s))
          BY <2>1 DEF Latest, Leaving, IsKicked, Removed, Busy
        <4>4. NewsInv(s)'
          BY <2>1, <2>2, <4>1, <4>3 DEF NewsInv, Unknown
        <4> QED BY <4>2, <4>4 DEF NewsOf
      <3> QED BY <3>1, <3>2
    <2> QED BY <2>2, <2>3 DEF ViewInv
  <1>2. ASSUME NEW c \in Slot, Close(c) PROVE ViewInv'
    <2>1. /\ sock' = [sock EXCEPT ![c] = "closed"] /\ sock \in [Slot -> {"free", "open", "closed"}]
          /\ \A a \in Slot : a # c => view'[a] = view[a]
          /\ \A id \in Slot : view'[c][id] = Unknown
          /\ UNCHANGED <<gen, phase, pos, ioTodo, mover, snapshot, overtaken>>
      BY <1>2 DEF Close, TypeOK
    <2>2. DeafInv'
      BY <2>1 DEF ViewInv, DeafInv, Unknown
    <2>3. ASSUME NEW s \in Session, IsCur(s)' PROVE NewsOf(s)'
      <3>1. NewsInv(s) /\ LateInv(s) /\ CopyInv(s)
        BY <2>1, <2>3 DEF ViewInv, NewsOf, IsCur
      <3>2. LateInv(s)' /\ CopyInv(s)'
        BY <2>1, <3>1 DEF LateInv, CopyInv, Leaving, IsKicked
      <3>3. Latest(s)' = Latest(s) /\ (Busy(s)' <=> Busy(s))
        BY <2>1 DEF Latest, Leaving, IsKicked, Removed, Busy
      <3>4. NewsInv(s)'
        BY <2>1, <3>1, <3>3 DEF NewsInv, Unknown
      <3> QED BY <3>2, <3>4 DEF NewsOf
    <2> QED BY <2>2, <2>3 DEF ViewInv
  <1>3. ASSUME NEW c \in Slot, Free(c) PROVE ViewInv'
    BY <1>3, NewsFrame DEF Free, TypeOK
  <1> QED BY <1>1, <1>2, <1>3 DEF Net

LEMMA MainNews == ASSUME IInv, BusyInv, ViewInv, Main PROVE ViewInv'
  <1> USE DEF IInv, netVars, ioVars, mainVars
  <1>1. ASSUME Disturb \/ UNCHANGED <<ioTodo, overtaken>>,
               UNCHANGED <<sock, gen, phase, pos, mover, snapshot, view>>
        PROVE  ViewInv'
    <2>1. /\ overtaken \subseteq overtaken'
          /\ ioTodo' = ioTodo \/ {s[1] : s \in Iterating} \subseteq overtaken'
      BY <1>1 DEF Disturb
    <2> QED BY <1>1, <2>1, NewsFrame
  <1>2. CASE AddSession_ \/ EraseKicked \/ AllMoved \/ Drained \/ NoneKicked
    BY <1>1, <1>2 DEF AddSession_, Insert, Ignore, EraseKicked, AllMoved, Drained, NoneKicked
  <1>3. ASSUME NEW id \in Slot, UpdateMove(id) PROVE ViewInv'
    <2>0. PICK copy \in Copies(<<id, m_session[id]>>) : Carry(id, copy, Registered \ {id})
      BY <1>3 DEF UpdateMove
    <2>1. /\ mover' \in {NoSlot, id}
          /\ mover' = id => snapshot' = copy
      BY <2>0, SlotAssumption DEF Carry
    <2>2. /\ overtaken' = IF <<id, m_session[id]>> = Cur(id) /\ ~Leaving(<<id, m_session[id]>>)
                          THEN overtaken ELSE overtaken \cup {id}
          /\ UNCHANGED <<sock, gen, phase, pos, ioTodo, view>>
      BY <1>3 DEF UpdateMove
    <2>3. DeafInv'
      BY <2>2 DEF ViewInv, DeafInv, Unknown
    <2>4. ASSUME NEW s \in Session, IsCur(s)' PROVE NewsOf(s)'
      <3>1. NewsInv(s) /\ LateInv(s)
        BY <2>2, <2>4 DEF ViewInv, NewsOf, IsCur
      <3>2. LateInv(s)'
        BY <2>2, <3>1 DEF LateInv
      <3>3. Latest(s)' = Latest(s) /\ (Busy(s)' <=> Busy(s))
        BY <2>2 DEF Latest, Leaving, IsKicked, Removed, Busy
      <3>4. NewsInv(s)'
        BY <2>2, <3>1, <3>3 DEF NewsInv, Unknown
      <3>5. CopyInv(s)'
        <4>1. CASE mover' # s[1] \/ s[1] \in overtaken'
          BY <4>1 DEF CopyInv
        <4>2. CASE mover' = s[1] /\ s[1] \notin overtaken'
          <5>1. s[1] = id
            BY <2>1, <4>2, SlotAssumption, SessionPair
          <5>2. s = <<id, m_session[id]>> /\ ~Leaving(s)
            BY <2>2, <2>4, <4>2, <5>1, SessionPair DEF IsCur, Cur
          <5>3. phase[s] \in {"bcast", "in"} => snapshot' = pos[s]
            BY <2>0, <2>1, <4>2, <5>1, <5>2 DEF Copies
          <5> QED BY <2>2, <5>2, <5>3 DEF CopyInv, Leaving, IsKicked
        <4> QED BY <4>1, <4>2
      <3> QED BY <3>2, <3>4, <3>5 DEF NewsOf
    <2> QED BY <2>3, <2>4 DEF ViewInv
  <1>4. ASSUME NEW to \in Slot, SendSnapshot(to) PROVE ViewInv'
    <2>1. /\ mover # NoSlot /\ mover' \in {NoSlot, mover}
          /\ mover' = mover => snapshot' = snapshot
          /\ Deliver(to, mover, snapshot)
          /\ UNCHANGED <<sock, gen, phase, pos, ioTodo, overtaken>>
      BY <1>4 DEF SendSnapshot, Carry
    <2>2. mover \in Slot /\ view \in [Slot -> [Slot -> Shown \cup {Unknown, Removed}]]
      BY <2>1 DEF TypeOK
    <2>3. \A a, id \in Slot :
            view'[a][id] = IF a = to /\ id = mover /\ sock[a] = "open" THEN snapshot ELSE view[a][id]
      BY <2>1, <2>2 DEF Deliver
    <2>4. DeafInv'
      BY <2>1, <2>3 DEF ViewInv, DeafInv, Unknown
    <2>5. ASSUME NEW s \in Session, IsCur(s)' PROVE NewsOf(s)'
      <3>1. NewsInv(s) /\ LateInv(s) /\ CopyInv(s) /\ s[1] \in Slot
        BY <2>1, <2>5, SessionPair DEF ViewInv, NewsOf, IsCur
      <3>2. LateInv(s)' /\ CopyInv(s)'
        BY <2>1, <3>1, SlotAssumption DEF LateInv, CopyInv, Leaving, IsKicked
      <3>3. Latest(s)' = Latest(s) /\ (Busy(s)' <=> Busy(s))
        BY <2>1 DEF Latest, Leaving, IsKicked, Removed, Busy
      <3>4. s[1] = mover /\ s[1] \notin overtaken /\ phase[s] \in {"bcast", "in", "kick", "out"}
              => snapshot = Latest(s)
        BY <3>1 DEF CopyInv, Latest, Leaving, IsKicked
      <3>5. NewsInv(s)'
        BY <2>1, <2>3, <3>1, <3>3, <3>4 DEF NewsInv, Unknown
      <3> QED BY <3>2, <3>5 DEF NewsOf
    <2> QED BY <2>4, <2>5 DEF ViewInv
  <1> QED BY <1>2, <1>3, <1>4 DEF Main

LEMMA NewsInvariance == Spec => [](SessionInv /\ ViewInv)
  <1>1. Init => ViewInv
    BY DEF Init, ViewInv, DeafInv, NewsOf, NewsInv, LateInv, CopyInv, Leaving, IsKicked
  <1>2. SessionInv /\ ViewInv /\ [Next]_vars => ViewInv'
    <2> SUFFICES ASSUME SessionInv, ViewInv, [Next]_vars PROVE ViewInv'
      OBVIOUS
    <2>1. CASE Crash \/ UNCHANGED vars
      BY <2>1, NewsFrame DEF Crash, vars, netVars, ioVars, mainVars
    <2> QED BY <2>1, NetNews, IoNews, MainNews DEF Next, SessionInv
  <1> QED BY <1>1, <1>2, SessionInvariance, PTL DEF Spec

(* A registered client shows every other player where it is, whenever the  *)
(* io thread is not in that player's handlers, unless one of the two       *)
(* threads got in the other's way (World.cpp:78-88) since the player moved *)
(* - in any order of logins, moves, broadcasts, erasures and reuse of      *)
(* addresses.                                                              *)
THEOREM PositionsAreFresh == Spec => []FreshView
  <1>1. SessionInv /\ ViewInv => FreshView
    <2> SUFFICES ASSUME SessionInv, ViewInv, NEW a \in Slot, NEW b \in Slot, a # b, Present(a),
                        gen[b] > 0, phase[Cur(b)] = "in", b \notin overtaken
                 PROVE  view[a][b] \in {Unknown, pos[Cur(b)]}
      BY DEF FreshView
    <2>1. NewsInv(Cur(b)) /\ Cur(b)[1] = b
      BY CurFacts DEF SessionInv, IInv, ViewInv, NewsOf
    <2> QED BY <2>1 DEF NewsInv, Present, Latest, Leaving, IsKicked, Busy
  <1> QED BY <1>1, NewsInvariance, PTL

(* After a LOGOUT nobody shows the player any more, with the exceptions    *)
(* the code has: a copy main sends afterwards, a change of the map under   *)
(* the removal loop, a position sent after the LOGOUT.                     *)
THEOREM NoGhostStays == Spec => []NoGhost
  <1>1. SessionInv /\ ViewInv => NoGhost
    <2> SUFFICES ASSUME SessionInv, ViewInv, NEW a \in Slot, NEW b \in Slot, a # b, Present(a),
                        gen[b] > 0, phase[Cur(b)] = "out", b \notin overtaken
                 PROVE  view[a][b] \in {Unknown, Removed}
      BY DEF NoGhost
    <2>1. NewsInv(Cur(b)) /\ Cur(b)[1] = b
      BY CurFacts DEF SessionInv, IInv, ViewInv, NewsOf
    <2> QED BY <2>1 DEF NewsInv, Present, Latest, Leaving, IsKicked, Busy
  <1> QED BY <1>1, NewsInvariance, PTL

=============================================================================
