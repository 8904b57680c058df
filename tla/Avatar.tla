------------------------------- MODULE Avatar -------------------------------
(***************************************************************************)
(* The player of a client, frame by frame: GLApp::Run with CheckInput and  *)
(* CalcActor of NWApp and the moves of fwClient/Player.cpp.  A frame moves *)
(* the player by the time that Draw noted in the frame before.             *)
(*                                                                         *)
(* Time is in ticks, a right angle is turned and a unit of length covered  *)
(* in one, so that cos and sin are exact.                                  *)
(***************************************************************************)
EXTENDS Integers

CONSTANTS Rate,       \* fRateTime, the least length of a frame
          MaxLate,    \* bound: by how much a frame is longer
          MaxTime     \* bound: when the program has ended

Full == 4             \* 360 degrees

(* Assumed of the constants.                                               *)
Constants == Rate \in Nat \ {0} /\ MaxLate \in Nat /\ MaxTime \in Nat

Move  == {"MoveUp", "MoveDown", "MoveTurnLeft", "MoveTurnRight"}
Other == "other"      \* the bits of m_nMoveStatus that are no MoveStatus
Key   == {"W", "S", "A", "D"}

VARIABLES
  m_nMoveStatus,      \* the set of its bits
  m_fX, m_fY, m_fAngle,
  m_dTime,            \* the time of the last Draw
  fTime,              \* when the last frame began
  sent,               \* history: what SendPlayerPos sent last, or NofifyLogin
  moved, from         \* history: the way covered since time `from`

vars == <<m_nMoveStatus, m_fX, m_fY, m_fAngle, m_dTime, fTime, sent, moved, from>>

Position == [x : Int, y : Int, a : 0..Full]
Here == [x |-> m_fX, y |-> m_fY, a |-> m_fAngle]
Origin == [x |-> 0, y |-> 0, a |-> 0]

TypeOK == /\ m_nMoveStatus \subseteq Move \cup {Other}
          /\ Here \in Position
          /\ m_dTime \in Nat /\ fTime \in Nat
          /\ sent \in Position
          /\ moved \in Nat /\ from \in Nat \cup {-1}

(* Player::Player leaves m_nMoveStatus and m_dTime as they are.            *)
Init == /\ m_nMoveStatus \in SUBSET {"MoveUp", Other}
        /\ m_fX = 0 /\ m_fY = 0 /\ m_fAngle = 0
        /\ m_dTime \in 0 .. Rate + 1
        /\ fTime = 0
        /\ sent = Origin
        /\ moved = 0 /\ from = -1

-----------------------------------------------------------------------------
StatusOf == [k \in Key |-> CASE k = "W" -> "MoveUp"       [] k = "S" -> "MoveDown"
                             [] k = "A" -> "MoveTurnLeft" [] k = "D" -> "MoveTurnRight"]

(* CheckInput: every MoveStatus is set or cleared, the other bits stay.    *)
CheckInput(pressed) == (m_nMoveStatus \ Move) \cup {StatusOf[k] : k \in pressed}

Cos(a) == CASE a \in {0, Full} -> 1 [] a = 2 -> -1 [] OTHER -> 0
Sin(a) == CASE a = 1 -> 1 [] a = 3 -> -1 [] OTHER -> 0

(* How far MoveUp or MoveDown goes.                                        *)
Way(status) == CASE "MoveUp" \in status -> m_dTime
                 [] "MoveUp" \notin status /\ "MoveDown" \in status -> -m_dTime
                 [] OTHER -> 0

(* Fault: the angle is let run below zero.                                 *)
TrunRightOn == m_fAngle - m_dTime

TurnLeft  == IF m_fAngle + m_dTime >= Full THEN 0 ELSE m_fAngle + m_dTime
TrunRight == IF m_fAngle - m_dTime <= 0 THEN Full ELSE m_fAngle - m_dTime

Turn(status) == CASE "MoveTurnLeft" \in status -> TurnLeft
                  [] "MoveTurnLeft" \notin status /\ "MoveTurnRight" \in status -> TrunRight
                  [] OTHER -> m_fAngle

(* Fault: the position is sent before it moves.                            *)
CalcActorSendsFirst(status) ==
  /\ m_fX' = m_fX + Way(status) * Cos(m_fAngle)
  /\ m_fY' = m_fY + Way(status) * Sin(m_fAngle)
  /\ m_fAngle' = Turn(status)
  /\ sent' = IF status # {} THEN Here ELSE sent

(* CalcActor moves along the old angle, turns, and sends where that led;   *)
(* with any bit of the status set, one of the others too.                  *)
CalcActor(status) ==
  /\ m_fX' = m_fX + Way(status) * Cos(m_fAngle)
  /\ m_fY' = m_fY + Way(status) * Sin(m_fAngle)
  /\ m_fAngle' = Turn(status)
  /\ sent' = IF status # {} THEN [x |-> m_fX', y |-> m_fY', a |-> m_fAngle'] ELSE sent

(* Draw, at the end of a frame that began at `now`.                        *)
Draw(now) == m_dTime' = now - fTime

(* Fault: the next frame is measured from the first.                       *)
RunFromStart(now, pressed) ==
  LET status == CheckInput(pressed)
  IN  /\ now - fTime >= Rate
      /\ m_nMoveStatus' = status
      /\ CalcActor(status)
      /\ m_dTime' = now
      /\ fTime' = now
      /\ moved' = IF from = -1 THEN 0 ELSE moved + (IF Way(status) = 0 THEN 0 ELSE m_dTime)
      /\ from' = IF from = -1 THEN fTime ELSE from

(* A turn of Run that is late enough to be a frame; the keys are as        *)
(* glfwPollEvents left them.                                               *)
Run(now, pressed) ==
  LET status == CheckInput(pressed)
  IN  /\ now - fTime >= Rate
      /\ m_nMoveStatus' = status
      /\ CalcActor(status)
      /\ Draw(now)
      /\ fTime' = now
      /\ moved' = IF from = -1 THEN 0 ELSE moved + (IF Way(status) = 0 THEN 0 ELSE m_dTime)
      /\ from' = IF from = -1 THEN fTime ELSE from

Next == \E now \in fTime + Rate .. fTime + Rate + MaxLate, pressed \in SUBSET Key :
          now <= MaxTime /\ Run(now, pressed)

Spec == Init /\ [][Next]_vars

-----------------------------------------------------------------------------
(* The server was told last where the player is: no frame moves or turns   *)
(* the player and leaves the position unsent.                              *)
Reported == sent = Here

(* But for the first frame, whose time is not initialised, the player does *)
(* not outrun its speed, though each frame goes by the time of another.    *)
InTime == moved <= fTime - from
=============================================================================
