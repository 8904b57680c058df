---------------------------- MODULE ClientLogin ----------------------------
(***************************************************************************)
(* What a client says to the server, from the connection to its exit.  Two *)
(* threads send through one queue (Socket.h, ClientSocket.cpp):            *)
(*                                                                         *)
(*   io     LOGIN from ConnectHandlerInternal, the first position from     *)
(*          NofifyLogin when LOGINACK comes, and the completions of writes;*)
(*   main   a position from CalcActor in every frame in which the player   *)
(*          moves, from the first frame on, and LOGOUT from Finish, after  *)
(*          which it exits the process.                                    *)
(*                                                                         *)
(* Nothing makes main wait for the connection.  A packet goes out whole    *)
(* (SocketWriter has the partial writes); the network and the LOGINACK of  *)
(* the server are the environment.                                         *)
(***************************************************************************)
EXTENDS Naturals, Sequences, SequencesExt

CONSTANTS MaxFrames    \* bound: frames in which main sends a position

ASSUME FramesAssumption == MaxFrames \in Nat

Position == 0..MaxFrames
Login   == [cmd |-> "CMSG_LOGIN"]
Logout  == [cmd |-> "CMSG_LOGOUT"]
Move(p) == [cmd |-> "CMSG_MOVE_START", pos |-> p]
Packet  == {Login, Logout} \cup {Move(p) : p \in Position}

VARIABLES
  net,          \* the connection: "connecting", "up" or "down"
  main,         \* "run": the frame loop; "finish": LOGOUT was sent; "exit": the process is gone
  connected,    \* ConnectHandlerInternal has run
  reading,      \* a read is posted
  _closed,
  _writeQueue,
  write,        \* the write: "none", "posted", "refused" (there was no connection) or
                \* "failed" (completed with an error: _isWritingAsync stays set)
  ack,          \* NofifyLogin ran: "no", "yes", or "late": when main had sent LOGOUT
  pos,          \* m_player, as the number of its position
  frames,       \* positions main has sent
  wire,         \* history: packets that went out
  early,        \* history: what main sent before ConnectHandlerInternal ran: nothing ("no"),
                \* a packet "before" there was a connection, or in the "window" after that
  overruled     \* history: NofifyLogin reported 0 over a later position

linkVars == <<connected, reading, _closed, ack>>
mainVars == <<main, pos, frames, early>>
vars == <<net, linkVars, mainVars, _writeQueue, write, wire, overruled>>

TypeOK == /\ net \in {"connecting", "up", "down"}
          /\ main \in {"run", "finish", "exit"}
          /\ connected \in BOOLEAN /\ reading \in BOOLEAN /\ _closed \in BOOLEAN
          /\ _writeQueue \in Seq(Packet)
          /\ write \in {"none", "posted", "refused", "failed"}
          /\ write = "none" => _writeQueue = << >>
          /\ ack \in {"no", "yes", "late"}
          /\ pos \in Position /\ frames \in Position
          /\ wire \in Seq(Packet)
          /\ early \in {"no", "before", "window"}
          /\ overruled \in BOOLEAN

Init == /\ net = "connecting" /\ main = "run"
        /\ connected = FALSE /\ reading = FALSE /\ _closed = FALSE
        /\ _writeQueue = << >> /\ write = "none"
        /\ ack = "no"
        /\ pos = 0 /\ frames = 0
        /\ wire = << >>
        /\ early = "no" /\ overruled = FALSE

-----------------------------------------------------------------------------
(* SendPacket: one write at a time; one posted without a connection fails. *)
Send(packet) == /\ _writeQueue' = Append(_writeQueue, packet)
                /\ write' = IF write # "none" THEN write
                            ELSE IF net = "up" THEN "posted" ELSE "refused"

(* The operating system: the connection is made, or refused, or breaks.    *)
Connect == /\ net = "connecting" /\ main # "exit"
           /\ net' \in {"up", "down"}
           /\ UNCHANGED <<linkVars, mainVars, _writeQueue, write, wire, overruled>>

Break == /\ net = "up" /\ main # "exit"
         /\ net' = "down"
         /\ UNCHANGED <<linkVars, mainVars, _writeQueue, write, wire, overruled>>

-----------------------------------------------------------------------------
(* io thread                                                               *)

(* Fault: the handler only starts to read.                                 *)
ConnectHandlerReads ==
  /\ main # "exit" /\ net # "connecting" /\ ~connected
  /\ connected' = TRUE
  /\ reading' = ~_closed
  /\ UNCHANGED <<net, mainVars, _closed, _writeQueue, write, ack, wire, overruled>>

(* The error is not looked at.  AsyncRead returns on a closed socket.      *)
ConnectHandlerInternal ==
  /\ main # "exit" /\ net # "connecting" /\ ~connected
  /\ connected' = TRUE
  /\ Send(Login)
  /\ reading' = ~_closed
  /\ UNCHANGED <<net, mainVars, _closed, ack, wire, overruled>>

(* Fault: the next packet waits for somebody to send another.              *)
WrittenStops == /\ main # "exit" /\ write = "posted" /\ net = "up"
                /\ wire' = Append(wire, Head(_writeQueue))
                /\ _writeQueue' = Tail(_writeQueue)
                /\ write' = "none"
                /\ UNCHANGED <<net, linkVars, mainVars, overruled>>

Written == /\ main # "exit" /\ write = "posted" /\ net = "up"
           /\ wire' = Append(wire, Head(_writeQueue))
           /\ _writeQueue' = Tail(_writeQueue)
           /\ write' = IF Tail(_writeQueue) = << >> THEN "none" ELSE "posted"
           /\ UNCHANGED <<net, linkVars, mainVars, overruled>>

Refused == write = "refused" \/ (write = "posted" /\ net = "down")

(* Fault: an error lets the next write try.                                *)
FailedRetries == /\ main # "exit" /\ Refused
                 /\ write' = IF net = "up" THEN "posted" ELSE "refused"
                 /\ _closed' = TRUE
                 /\ UNCHANGED <<net, mainVars, connected, reading, ack, _writeQueue, wire, overruled>>

Failed == /\ main # "exit" /\ Refused
          /\ write' = "failed"
          /\ _closed' = TRUE
          /\ UNCHANGED <<net, mainVars, connected, reading, ack, _writeQueue, wire, overruled>>

ReadError == /\ main # "exit" /\ reading /\ net = "down"
             /\ reading' = FALSE
             /\ _closed' = TRUE
             /\ UNCHANGED <<net, mainVars, connected, ack, _writeQueue, write, wire, overruled>>

(* LOGINACK, the server's one answer to LOGIN.  ReadHandler drops what     *)
(* comes to a closed socket.                                               *)
NofifyLogin == /\ main # "exit" /\ reading /\ ~_closed
               /\ Contains(wire, Login) /\ ack = "no"
               /\ ack' = IF main = "finish" THEN "late" ELSE "yes"
               /\ Send(Move(0))
               /\ overruled' = (pos # 0)
               /\ UNCHANGED <<net, mainVars, connected, reading, _closed, wire>>

-----------------------------------------------------------------------------
(* main thread                                                             *)

(* What main sends counts as early until LOGIN is in the queue.            *)
Early == IF connected \/ early # "no" THEN early
         ELSE IF net = "connecting" THEN "before" ELSE "window"

(* Fault: the position is sent before the move.                            *)
CalcActorSendsFirst ==
  /\ main = "run" /\ frames < MaxFrames
  /\ frames' = frames + 1
  /\ pos' \in {pos, pos + 1}
  /\ Send(Move(pos))
  /\ early' = Early
  /\ overruled' = FALSE
  /\ UNCHANGED <<net, main, linkVars, wire>>

(* A frame with GetMoveStatus() set: the player moves, and its position is *)
(* sent.  m_nMoveStatus is never initialized and CheckInput clears four of *)
(* its bits, so a player that does not move may be sent as well.           *)
CalcActor ==
  /\ main = "run" /\ frames < MaxFrames
  /\ frames' = frames + 1
  /\ pos' \in {pos, pos + 1}
  /\ Send(Move(pos'))
  /\ early' = Early
  /\ overruled' = FALSE
  /\ UNCHANGED <<net, main, linkVars, wire>>

Finish == /\ main = "run" /\ main' = "finish"
          /\ Send(Logout)
          /\ early' = Early
          /\ UNCHANGED <<net, linkVars, pos, frames, wire, overruled>>

(* exit(): whatever is queued is gone.                                     *)
Exit == /\ main = "finish" /\ main' = "exit"
        /\ UNCHANGED <<net, linkVars, pos, frames, early, _writeQueue, write, wire, overruled>>

Next == \/ Connect \/ Break
        \/ ConnectHandlerInternal \/ Written \/ Failed \/ ReadError \/ NofifyLogin
        \/ CalcActor \/ Finish \/ Exit

(* Fairness: the io thread runs its handlers, the network takes the bytes. *)
Spec == Init /\ [][Next]_vars /\ WF_vars(ConnectHandlerInternal) /\ WF_vars(Written)

-----------------------------------------------------------------------------
(* The server hears LOGIN first, once, and LOGOUT last: what its handlers  *)
(* rely on (WorldSocket.cpp:168, 198 use _session, which LOGIN sets).  It  *)
(* holds although main may send before LOGIN is queued: a packet sent      *)
(* before there is a connection fails, and a failed write ends all writing *)
(* (Socket.h:214).  Not so in the window between the connection and its    *)
(* handler; nor is LOGOUT last when LOGINACK comes before the exit.        *)
WireOrder ==
  early # "window" =>
    \A i \in 1..Len(wire) : /\ wire[i] = Login <=> i = 1
                            /\ wire[i] = Logout => i = Len(wire) \/ ack = "late"

(* When all is written, the server has the player where it is, unless      *)
(* NofifyLogin has just reported the origin for a player that had moved    *)
(* before LOGINACK came (WorldLink.cpp:43), which the next move mends.     *)
ReportedPos == ack = "yes" /\ main = "run" /\ _writeQueue = << >> =>
                 overruled \/ Last(wire) = Move(pos)

(* A client that is connected and was not touched too soon logs in.        *)
LoggedIn == net = "up" ~> \/ Contains(wire, Login)
                          \/ early # "no" \/ net = "down" \/ main = "exit"
=============================================================================
