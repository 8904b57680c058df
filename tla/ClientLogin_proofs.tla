------------------------- MODULE ClientLogin_proofs -------------------------
(***************************************************************************)
(* Theorems about ClientLogin, for any number of frames: the order of what *)
(* the server hears, and that it hears where the player is.  They rest on  *)
(* all that was said, written or still queued, which only ever grows.      *)
(***************************************************************************)
EXTENDS ClientLogin, SequenceTheorems, TLAPS

Said == wire \o _writeQueue

(* A write is on its way exactly when there is something to write: a write *)
(* that failed stays, with its packet.                                     *)
WriteInv == /\ write = "none" <=> _writeQueue = << >>
            /\ pos <= frames

(* LOGINACK comes to a client that was connected.                          *)
ConnectedInv == ~connected => ~reading /\ ack = "no"

(* What main sends before there is a connection is refused, and nothing is *)
(* written after it.                                                       *)
RefusedInv == early = "before" => wire = << >> /\ write \in {"refused", "failed"}

(* Of a client that was not touched too soon LOGIN is the first word, said *)
(* once, and LOGOUT the last, except for what NofifyLogin adds.            *)
LoginInv == early = "no" =>
              /\ ~connected => Said = << >>
              /\ connected => Said # << >>
              /\ \A i \in 1..Len(Said) : Said[i] = Login <=> i = 1
LogoutInv == early = "no" =>
               \A i \in 1..Len(Said) : Said[i] = Logout =>
                  main # "run" /\ (i = Len(Said) \/ ack = "late")

(* The last word of a client that is logged in is where its player is.     *)
PosInv == ack = "yes" /\ main = "run" =>
            overruled \/ (Said # << >> /\ Said[Len(Said)] = Move(pos))

IInv == TypeOK /\ WriteInv /\ ConnectedInv /\ RefusedInv /\ LoginInv /\ LogoutInv /\ PosInv

-----------------------------------------------------------------------------
LEMMA PacketFacts ==
  /\ Login \in Packet /\ Logout \in Packet /\ Login # Logout
  /\ \A p \in Position : Move(p) \in Packet /\ Move(p) # Login /\ Move(p) # Logout
  <1>1. Login.cmd # Logout.cmd
    BY DEF Login, Logout
  <1>2. \A p : Move(p).cmd # Login.cmd /\ Move(p).cmd # Logout.cmd
    BY DEF Move, Login, Logout
  <1>3. Login # Logout /\ \A p : Move(p) # Login /\ Move(p) # Logout
    BY <1>1, <1>2
  <1> QED BY <1>3 DEF Packet

LEMMA SaidFacts ==
  ASSUME TypeOK
  PROVE  /\ Said \in Seq(Packet) /\ Len(Said) \in Nat
         /\ Len(wire) \in Nat /\ Len(_writeQueue) \in Nat
         /\ Len(Said) = Len(wire) + Len(_writeQueue)
         /\ \A i \in 1..Len(Said) : Said[i] = IF i <= Len(wire) THEN wire[i]
                                              ELSE _writeQueue[i - Len(wire)]
         /\ Said = << >> <=> Len(Said) = 0
         /\ wire = << >> <=> Len(wire) = 0
         /\ _writeQueue = << >> <=> Len(_writeQueue) = 0
  <1>1. wire \in Seq(Packet) /\ _writeQueue \in Seq(Packet)
    BY DEF TypeOK
  <1>2. /\ Said \in Seq(Packet) /\ Len(Said) = Len(wire) + Len(_writeQueue)
        /\ \A i \in 1..Len(wire) + Len(_writeQueue) :
              Said[i] = IF i <= Len(wire) THEN wire[i] ELSE _writeQueue[i - Len(wire)]
    BY <1>1, ConcatProperties DEF Said
  <1> QED BY <1>1, <1>2, LenProperties, EmptySeq

(* What is sent is the last word, and it is a write that waits.            *)
LEMMA SendFacts ==
  ASSUME TypeOK, NEW packet \in Packet, Send(packet), wire' = wire
  PROVE  /\ _writeQueue' \in Seq(Packet) /\ _writeQueue' # << >>
         /\ write' \in {"posted", "refused", "failed"}
         /\ Len(Said') = Len(Said) + 1 /\ Said' # << >>
         /\ \A i \in 1..Len(Said) : Said'[i] = Said[i]
         /\ Said'[Len(Said')] = packet
  <1> DEFINE q == _writeQueue
  <1>1. /\ q \in Seq(Packet) /\ q' = Append(q, packet) /\ wire \in Seq(Packet)
        /\ write' \in {"posted", "refused", "failed"}
    BY DEF Send, TypeOK
  <1>2. /\ q' \in Seq(Packet) /\ Len(q') = Len(q) + 1
        /\ \A i \in 1..Len(q) : q'[i] = q[i]
        /\ q'[Len(q) + 1] = packet
    BY <1>1, AppendProperties
  <1>3. /\ Len(q) \in Nat /\ Len(wire) \in Nat /\ Len(Said) = Len(wire) + Len(q)
        /\ \A i \in 1..Len(Said) : Said[i] = IF i <= Len(wire) THEN wire[i] ELSE q[i - Len(wire)]
    BY SaidFacts
  <1>4. /\ Len(Said') = Len(wire) + Len(q')
        /\ \A i \in 1..Len(wire) + Len(q') :
              Said'[i] = IF i <= Len(wire) THEN wire[i] ELSE q'[i - Len(wire)]
        /\ Said' \in Seq(Packet)
    BY <1>1, <1>2, ConcatProperties DEF Said
  <1>5. \A i \in 1..Len(Said) : Said'[i] = Said[i]
    <2> SUFFICES ASSUME NEW i \in 1..Len(Said) PROVE Said'[i] = Said[i]
      OBVIOUS
    <2>1. CASE i <= Len(wire)
      BY <2>1, <1>2, <1>3, <1>4
    <2>2. CASE ~(i <= Len(wire))
      <3>1. i - Len(wire) \in 1..Len(q) /\ i \in 1..Len(wire) + Len(q')
        BY <2>2, <1>2, <1>3
      <3> QED BY <2>2, <3>1, <1>2, <1>3, <1>4
    <2> QED BY <2>1, <2>2
  <1>6. Said'[Len(Said')] = packet
    <2>1. /\ Len(Said') \in 1..Len(wire) + Len(q') /\ ~(Len(Said') <= Len(wire))
          /\ Len(Said') - Len(wire) = Len(q) + 1
      BY <1>2, <1>3, <1>4
    <2> QED BY <2>1, <1>2, <1>4
  <1>7. q' # << >> /\ Said' # << >> /\ Len(Said') = Len(Said) + 1
    BY <1>2, <1>3, <1>4, EmptySeq
  <1> QED BY <1>1, <1>2, <1>5, <1>6, <1>7

(* A packet that is written was said already.                              *)
LEMMA WrittenFacts ==
  ASSUME IInv, Written
  PROVE  /\ wire' \in Seq(Packet) /\ _writeQueue' \in Seq(Packet)
         /\ write' \in {"none", "posted"}
         /\ write' = "none" <=> _writeQueue' = << >>
         /\ Said' = Said
  <1> DEFINE q == _writeQueue
  <1>1. /\ q \in Seq(Packet) /\ wire \in Seq(Packet) /\ q # << >>
        /\ wire' = Append(wire, Head(q)) /\ q' = Tail(q)
        /\ write' = IF q' = << >> THEN "none" ELSE "posted"
    BY DEF IInv, TypeOK, WriteInv, Written
  <1>2. /\ Head(q) \in Packet /\ Head(q) = q[1]
        /\ q' \in Seq(Packet) /\ Len(q') = Len(q) - 1
        /\ \A i \in 1..Len(q') : q'[i] = q[i + 1]
        /\ Len(q) \in Nat \ {0}
    BY <1>1, HeadTailProperties, EmptySeq
  <1>3. /\ wire' \in Seq(Packet) /\ Len(wire') = Len(wire) + 1 /\ Len(wire) \in Nat
        /\ \A i \in 1..Len(wire) : wire'[i] = wire[i]
        /\ wire'[Len(wire) + 1] = q[1]
    BY <1>1, <1>2, AppendProperties, LenProperties
  <1>4. /\ Said' \in Seq(Packet) /\ Len(Said') = Len(wire') + Len(q')
        /\ \A i \in 1..Len(wire') + Len(q') :
              Said'[i] = IF i <= Len(wire') THEN wire'[i] ELSE q'[i - Len(wire')]
    BY <1>2, <1>3, ConcatProperties DEF Said
  <1>5. /\ Said \in Seq(Packet) /\ Len(Said) = Len(wire) + Len(q)
        /\ \A i \in 1..Len(Said) : Said[i] = IF i <= Len(wire) THEN wire[i] ELSE q[i - Len(wire)]
    BY SaidFacts DEF IInv
  <1>6. Len(Said') = Len(Said)
    BY <1>2, <1>3, <1>4, <1>5
  <1>7. ASSUME NEW i \in 1..Len(Said) PROVE Said'[i] = Said[i]
    <2>0. /\ i \in Nat /\ 1 <= i /\ i \in 1..Len(wire') + Len(q')
      BY <1>2, <1>3, <1>4, <1>6
    <2>1. CASE i <= Len(wire)
      <3>1. i <= Len(wire') /\ i \in 1..Len(wire)
        BY <2>0, <2>1, <1>3
      <3>2. Said'[i] = wire'[i]
        BY <2>0, <3>1, <1>4
      <3>3. Said[i] = wire[i]
        BY <2>1, <1>5
      <3> QED BY <3>1, <3>2, <3>3, <1>3
    <2>2. CASE i = Len(wire) + 1
      <3>1. i <= Len(wire') /\ ~(i <= Len(wire)) /\ i - Len(wire) = 1
        BY <2>0, <2>2, <1>3
      <3>2. Said'[i] = wire'[i]
        BY <2>0, <3>1, <1>4
      <3>3. Said[i] = q[1]
        BY <3>1, <1>5
      <3> QED BY <2>2, <3>2, <3>3, <1>3
    <2>3. CASE i > Len(wire) + 1
      <3>1. /\ i - Len(wire') \in 1..Len(q') /\ (i - Len(wire')) + 1 = i - Len(wire)
            /\ ~(i <= Len(wire')) /\ ~(i <= Len(wire))
        BY <2>0, <2>3, <1>2, <1>3, <1>5
      <3>2. Said'[i] = q'[i - Len(wire')]
        BY <2>0, <3>1, <1>4
      <3>3. Said[i] = q[i - Len(wire)]
        BY <3>1, <1>5
      <3> QED BY <3>1, <3>2, <3>3, <1>2
    <2> QED BY <2>0, <1>3, <2>1, <2>2, <2>3
  <1>8. Said' = Said
    BY <1>4, <1>5, <1>6, <1>7, SeqEqual
  <1> QED BY <1>1, <1>2, <1>3, <1>8

-----------------------------------------------------------------------------
LEMMA InitIInv == Init => IInv
  <1> SUFFICES ASSUME Init PROVE IInv
    OBVIOUS
  <1>1. /\ net = "connecting" /\ main = "run" /\ connected = FALSE /\ reading = FALSE
        /\ _closed = FALSE /\ _writeQueue = << >> /\ write = "none" /\ ack = "no"
        /\ pos = 0 /\ frames = 0 /\ wire = << >> /\ early = "no" /\ overruled = FALSE
    BY DEF Init
  <1>2. TypeOK
    <2>1. << >> \in Seq(Packet)
      BY EmptySeq
    <2>2. 0 \in Position
      BY FramesAssumption DEF Position
    <2> QED BY <1>1, <2>1, <2>2 DEF TypeOK
  <1>3. Said = << >> /\ Len(Said) = 0
    BY <1>1, <1>2, SaidFacts, EmptySeq
  <1>4. WriteInv /\ ConnectedInv /\ RefusedInv /\ PosInv
    BY <1>1 DEF WriteInv, ConnectedInv, RefusedInv, PosInv
  <1>5. LoginInv /\ LogoutInv
    BY <1>1, <1>3 DEF LoginInv, LogoutInv
  <1> QED BY <1>2, <1>4, <1>5 DEF IInv

(* Steps that say nothing.                                                 *)
LEMMA SilentIInv ==
  ASSUME IInv, TypeOK', Said' = Said, UNCHANGED <<connected, ack, pos, frames, early, overruled>>,
         main' \in {main, "exit"}, reading' => reading,
         write' = "none" <=> _writeQueue' = << >>,
         early = "before" => wire' = << >> /\ write' \in {"refused", "failed"}
  PROVE  IInv'
  <1>1. WriteInv' /\ ConnectedInv' /\ RefusedInv' /\ LoginInv' /\ LogoutInv' /\ PosInv'
    BY DEF IInv, WriteInv, ConnectedInv, RefusedInv, LoginInv, LogoutInv, PosInv
  <1> QED BY <1>1 DEF IInv

LEMMA ConnectIInv == ASSUME IInv, ConnectHandlerInternal PROVE IInv'
  <1>1. /\ ~connected /\ connected' = TRUE /\ reading' \in BOOLEAN
        /\ Send(Login) /\ wire' = wire
        /\ UNCHANGED <<main, pos, frames, early, _closed, ack, overruled>>
        /\ net' = net /\ ack = "no"
    BY DEF ConnectHandlerInternal, mainVars, IInv, TypeOK, ConnectedInv
  <1>2. /\ _writeQueue' \in Seq(Packet) /\ _writeQueue' # << >>
        /\ write' \in {"posted", "refused", "failed"}
        /\ Len(Said') = Len(Said) + 1 /\ Said' # << >>
        /\ \A i \in 1..Len(Said) : Said'[i] = Said[i]
        /\ Said'[Len(Said')] = Login
    BY <1>1, SendFacts, PacketFacts DEF IInv
  <1>3. TypeOK' /\ WriteInv' /\ ConnectedInv' /\ PosInv'
    BY <1>1, <1>2 DEF IInv, TypeOK, WriteInv, ConnectedInv, PosInv
  <1>4. RefusedInv'
    BY <1>1 DEF IInv, RefusedInv, Send
  <1>5. ASSUME early = "no" PROVE Len(Said') = 1 /\ Said'[1] = Login
    <2>1. Len(Said) = 0
      BY <1>1, <1>5, SaidFacts DEF IInv, LoginInv
    <2> QED BY <1>2, <2>1
  <1>6. LoginInv' /\ LogoutInv'
    <2>1. \A i \in 1..1 : i = 1
      OBVIOUS
    <2> QED BY <1>1, <1>2, <1>5, <2>1, PacketFacts DEF LoginInv, LogoutInv
  <1> QED BY <1>3, <1>4, <1>6 DEF IInv

(* Whatever is said after LOGIN, if it is not LOGIN.                       *)
LEMMA SpokenLogin ==
  ASSUME IInv, NEW packet \in Packet, packet # Login, Send(packet), wire' = wire,
         early' = "no", early = "no", connected, connected'
  PROVE  LoginInv'
  <1>1. /\ Len(Said') = Len(Said) + 1 /\ Said' # << >> /\ Len(Said) \in Nat /\ Len(Said) # 0
        /\ \A i \in 1..Len(Said) : Said'[i] = Said[i]
        /\ Said'[Len(Said')] = packet
    BY SendFacts, SaidFacts DEF IInv, LoginInv
  <1>2. ASSUME NEW i \in 1..Len(Said') PROVE Said'[i] = Login <=> i = 1
    <2>1. CASE i \in 1..Len(Said)
      BY <2>1, <1>1 DEF IInv, LoginInv
    <2>2. CASE i = Len(Said) + 1
      BY <2>2, <1>1
    <2> QED BY <1>1, <2>1, <2>2
  <1> QED BY <1>1, <1>2 DEF LoginInv

LEMMA NofifyIInv == ASSUME IInv, NofifyLogin PROVE IInv'
  <1>1. /\ reading /\ ack = "no" /\ connected /\ main \in {"run", "finish"}
        /\ ack' = (IF main = "finish" THEN "late" ELSE "yes")
        /\ Send(Move(0)) /\ wire' = wire /\ overruled' = (pos # 0)
        /\ UNCHANGED <<net, main, pos, frames, early, connected, reading, _closed>>
        /\ wire # << >>
    <2>1. wire # << >>
      <3>1. PICK i \in 1..Len(wire) : TRUE
        BY DEF NofifyLogin, Contains
      <3> QED BY <3>1, SaidFacts DEF IInv
    <2> QED BY <2>1 DEF NofifyLogin, mainVars, IInv, TypeOK, ConnectedInv
  <1>2. Move(0) \in Packet /\ Move(0) # Login /\ Move(0) # Logout
    BY PacketFacts, FramesAssumption DEF Position
  <1>3. /\ _writeQueue' \in Seq(Packet) /\ _writeQueue' # << >>
        /\ write' \in {"posted", "refused", "failed"}
        /\ Len(Said') = Len(Said) + 1 /\ Said' # << >> /\ Len(Said) \in Nat
        /\ \A i \in 1..Len(Said) : Said'[i] = Said[i]
        /\ Said'[Len(Said')] = Move(0)
    BY <1>1, <1>2, SendFacts, SaidFacts DEF IInv
  <1>4. TypeOK' /\ WriteInv' /\ ConnectedInv'
    BY <1>1, <1>3 DEF IInv, TypeOK, WriteInv, ConnectedInv
  <1>5. RefusedInv'
    BY <1>1 DEF IInv, RefusedInv
  <1>6. LoginInv'
    <2>1. CASE early = "no"
      BY <1>1, <1>2, <2>1, SpokenLogin
    <2> QED BY <1>1, <2>1 DEF LoginInv
  <1>7. LogoutInv'
    <2> SUFFICES ASSUME early' = "no", NEW i \in 1..Len(Said'), Said'[i] = Logout
                 PROVE  main' # "run" /\ ack' = "late"
      BY DEF LogoutInv
    <2>1. i \in 1..Len(Said)
      BY <1>2, <1>3
    <2>2. main # "run"
      BY <1>1, <1>3, <2>1 DEF IInv, LogoutInv
    <2> QED BY <1>1, <2>2
  <1>8. PosInv'
    BY <1>1, <1>3 DEF PosInv
  <1> QED BY <1>4, <1>5, <1>6, <1>7, <1>8 DEF IInv

(* What main says: it is early only before LOGIN, and then it is refused,  *)
(* unless it falls into the window.                                        *)
LEMMA MainIInv ==
  ASSUME IInv, NEW packet \in Packet, packet # Login, Send(packet), wire' = wire,
         main = "run", early' = Early, UNCHANGED <<net, linkVars>>
  PROVE  /\ RefusedInv' /\ LoginInv' /\ ConnectedInv'
         /\ early' \in {"no", "before", "window"}
  <1>1. /\ UNCHANGED <<connected, reading, ack>>
        /\ early \in {"no", "before", "window"}
        /\ early' = IF connected \/ early # "no" THEN early
                    ELSE IF net = "connecting" THEN "before" ELSE "window"
    BY DEF linkVars, Early, IInv, TypeOK
  <1>2. ConnectedInv' /\ early' \in {"no", "before", "window"}
    BY <1>1 DEF IInv, ConnectedInv
  <1>3. LoginInv'
    <2>1. CASE early' = "no"
      BY <1>1, <2>1, SpokenLogin
    <2> QED BY <2>1 DEF LoginInv
  <1>4. RefusedInv'
    <2>1. CASE early = "before"
      BY <1>1, <2>1 DEF IInv, RefusedInv, Send
    <2>2. CASE early = "no" /\ early' = "before"
      <3>1. ~connected /\ net # "up"
        BY <1>1, <2>2
      <3>2. wire = << >> /\ _writeQueue = << >>
        BY <2>2, <3>1, SaidFacts DEF IInv, LoginInv
      <3> QED BY <3>1, <3>2 DEF IInv, WriteInv, RefusedInv, Send
    <2> QED BY <1>1, <2>1, <2>2 DEF RefusedInv
  <1> QED BY <1>2, <1>3, <1>4

LEMMA ActorIInv == ASSUME IInv, CalcActor PROVE IInv'
  <1>1. /\ main = "run" /\ main' = "run" /\ frames < MaxFrames /\ frames' = frames + 1
        /\ pos' \in {pos, pos + 1} /\ Send(Move(pos')) /\ early' = Early /\ overruled' = FALSE
        /\ UNCHANGED <<net, linkVars, wire>>
        /\ UNCHANGED <<connected, reading, _closed, ack>>
    BY DEF CalcActor, linkVars
  <1>2. pos' \in Position /\ frames' \in Position /\ pos' <= frames'
    BY <1>1, FramesAssumption DEF IInv, TypeOK, WriteInv, Position
  <1>3. Move(pos') \in Packet /\ Move(pos') # Login /\ Move(pos') # Logout
    BY <1>2, PacketFacts
  <1>4. /\ _writeQueue' \in Seq(Packet) /\ _writeQueue' # << >>
        /\ write' \in {"posted", "refused", "failed"}
        /\ Len(Said') = Len(Said) + 1 /\ Said' # << >> /\ Len(Said) \in Nat
        /\ \A i \in 1..Len(Said) : Said'[i] = Said[i]
        /\ Said'[Len(Said')] = Move(pos')
    BY <1>1, <1>3, SendFacts, SaidFacts DEF IInv
  <1>5. RefusedInv' /\ LoginInv' /\ ConnectedInv' /\ early' \in {"no", "before", "window"}
    BY <1>1, <1>3, MainIInv
  <1>6. TypeOK' /\ WriteInv'
    BY <1>1, <1>2, <1>4, <1>5 DEF IInv, TypeOK, WriteInv
  <1>7. LogoutInv'
    <2> SUFFICES ASSUME early' = "no", NEW i \in 1..Len(Said') PROVE Said'[i] # Logout
      BY DEF LogoutInv
    <2>1. early = "no"
      BY <1>1 DEF Early
    <2>2. CASE i \in 1..Len(Said)
      BY <1>1, <1>4, <2>1, <2>2 DEF IInv, LogoutInv
    <2> QED BY <1>3, <1>4, <2>2
  <1>8. PosInv'
    BY <1>4 DEF PosInv
  <1> QED BY <1>5, <1>6, <1>7, <1>8 DEF IInv

LEMMA FinishIInv == ASSUME IInv, Finish PROVE IInv'
  <1>1. /\ main = "run" /\ main' = "finish" /\ Send(Logout) /\ early' = Early
        /\ UNCHANGED <<net, linkVars>> /\ wire' = wire
        /\ UNCHANGED <<connected, reading, _closed, ack, pos, frames, overruled>>
    BY DEF Finish, linkVars
  <1>2. /\ _writeQueue' \in Seq(Packet) /\ _writeQueue' # << >>
        /\ write' \in {"posted", "refused", "failed"}
        /\ Len(Said') = Len(Said) + 1 /\ Said' # << >> /\ Len(Said) \in Nat
        /\ \A i \in 1..Len(Said) : Said'[i] = Said[i]
    BY <1>1, PacketFacts, SendFacts, SaidFacts DEF IInv
  <1>3. RefusedInv' /\ LoginInv' /\ ConnectedInv' /\ early' \in {"no", "before", "window"}
    BY <1>1, PacketFacts, MainIInv
  <1>4. TypeOK' /\ WriteInv' /\ PosInv'
    BY <1>1, <1>2, <1>3 DEF IInv, TypeOK, WriteInv, PosInv
  <1>5. LogoutInv'
    <2> SUFFICES ASSUME early' = "no", NEW i \in 1..Len(Said'), Said'[i] = Logout
                 PROVE  i = Len(Said')
      BY <1>1 DEF LogoutInv
    <2>1. early = "no"
      BY <1>1 DEF Early
    <2>2. i \notin 1..Len(Said)
      BY <1>1, <1>2, <2>1 DEF IInv, LogoutInv
    <2> QED BY <1>2, <2>2
  <1> QED BY <1>3, <1>4, <1>5 DEF IInv

LEMMA NextIInv == IInv /\ [Next]_vars => IInv'
  <1> SUFFICES ASSUME IInv, [Next]_vars PROVE IInv'
    OBVIOUS
  <1>0. TypeOK /\ WriteInv /\ RefusedInv
    BY DEF IInv
  <1>1. CASE Connect \/ Break \/ Exit \/ UNCHANGED vars
    <2>1. /\ UNCHANGED <<linkVars, pos, frames, early, _writeQueue, write, wire, overruled>>
          /\ net' \in {"connecting", "up", "down"} /\ main' \in {main, "exit"}
      BY <1>0, <1>1 DEF Connect, Break, Exit, vars, mainVars, TypeOK
    <2>2. TypeOK' /\ Said' = Said
      BY <1>0, <2>1 DEF TypeOK, Said, linkVars
    <2> QED BY <1>0, <2>1, <2>2, SilentIInv DEF linkVars, WriteInv, RefusedInv
  <1>2. CASE Failed \/ ReadError
    <2>1. /\ UNCHANGED <<main, pos, frames, early, connected, ack, _writeQueue, wire, overruled>>
          /\ net' = net /\ reading' \in BOOLEAN /\ _closed' \in BOOLEAN
          /\ reading' => reading
          /\ write' = write \/ (write # "none" /\ write' = "failed")
      <3>1. reading \in BOOLEAN
        BY <1>0 DEF TypeOK
      <3>2. CASE Failed
        BY <3>1, <3>2 DEF Failed, Refused, mainVars
      <3>3. CASE ReadError
        BY <3>3 DEF ReadError, mainVars
      <3> QED BY <1>2, <3>2, <3>3
    <2>2. TypeOK' /\ Said' = Said
      BY <1>0, <2>1 DEF TypeOK, WriteInv, Said
    <2> QED BY <1>0, <2>1, <2>2, SilentIInv DEF WriteInv, RefusedInv
  <1>3. CASE Written
    <2>1. /\ wire' \in Seq(Packet) /\ _writeQueue' \in Seq(Packet) /\ Said' = Said
          /\ write' \in {"none", "posted"} /\ (write' = "none" <=> _writeQueue' = << >>)
      BY <1>3, WrittenFacts
    <2>2. /\ UNCHANGED <<net, connected, reading, _closed, ack>>
          /\ UNCHANGED <<main, pos, frames, early, overruled>>
          /\ write = "posted"
      BY <1>3 DEF Written, linkVars, mainVars
    <2>3. TypeOK' /\ early # "before"
      BY <1>0, <2>1, <2>2 DEF TypeOK, RefusedInv
    <2> QED BY <2>1, <2>2, <2>3, SilentIInv
  <1> QED BY <1>1, <1>2, <1>3, ConnectIInv, NofifyIInv, ActorIInv, FinishIInv DEF Next

LEMMA Invariance == Spec => []IInv
  BY InitIInv, NextIInv, PTL DEF Spec

-----------------------------------------------------------------------------
(* The queue and what went out stay packets, and what is idle has nothing  *)
(* to write (Socket.h:229).                                                *)
THEOREM TypeCorrect == Spec => []TypeOK
  <1>1. IInv => TypeOK
    BY DEF IInv
  <1> QED BY <1>1, Invariance, PTL

(* The server hears LOGIN first, once, and LOGOUT last: what its handlers  *)
(* rely on, unless main speaks between the connection and its handler, or  *)
(* LOGINACK comes before the exit.                                         *)
THEOREM LoginFirst == Spec => []WireOrder
  <1>1. ASSUME IInv, early # "window", NEW i \in 1..Len(wire)
        PROVE  (wire[i] = Login <=> i = 1) /\ (wire[i] = Logout => i = Len(wire) \/ ack = "late")
    <2>1. /\ i \in 1..Len(Said) /\ Said[i] = wire[i] /\ Len(wire) \in Nat
          /\ Len(wire) <= Len(Said) /\ wire # << >>
      BY <1>1, SaidFacts DEF IInv
    <2>2. early = "no"
      BY <1>1, <2>1 DEF IInv, TypeOK, RefusedInv
    <2>3. wire[i] = Login <=> i = 1
      BY <1>1, <2>1, <2>2 DEF IInv, LoginInv
    <2>4. wire[i] = Logout => i = Len(wire) \/ ack = "late"
      BY <1>1, <2>1, <2>2 DEF IInv, LogoutInv
    <2> QED BY <2>3, <2>4
  <1>2. IInv => WireOrder
    BY <1>1 DEF WireOrder
  <1> QED BY <1>2, Invariance, PTL

(* When all is written, the server has the player where it is, unless      *)
(* NofifyLogin has just reported the origin over a later position.         *)
THEOREM PositionReported == Spec => []ReportedPos
  <1>1. ASSUME IInv, ack = "yes", main = "run", _writeQueue = << >>, ~overruled
        PROVE  Last(wire) = Move(pos)
    <2>1. Said # << >> /\ Said[Len(Said)] = Move(pos)
      BY <1>1 DEF IInv, PosInv
    <2>2. Said = wire
      BY <1>1, ConcatEmptySeq DEF IInv, TypeOK, Said
    <2> QED BY <2>1, <2>2 DEF Last
  <1>2. IInv => ReportedPos
    BY <1>1 DEF ReportedPos
  <1> QED BY <1>2, Invariance, PTL
=============================================================================
