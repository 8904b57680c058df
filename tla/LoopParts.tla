------------------------------ MODULE LoopParts ------------------------------
(***************************************************************************)
(* The parts of the program that a loop moves and that share no state with *)
(* another: the world loop on its clock, timers that a loop tells the time *)
(* of its turns, the queue that one loop fills and another empties, the    *)
(* player moved by a client's frames, the view turned by the callbacks     *)
(* between them, and the picture that each frame draws.  A behaviour is    *)
(* one of one part, chosen at the start; the variables of the others are   *)
(* None.                                                                   *)
(***************************************************************************)
EXTENDS Integers

CONSTANTS W,                                      \* of WorldTicks
          WORLD_SLEEP_CONST, MaxWork, MaxBack,    \* of WorldTicks
          MaxLate,                                \* of WorldTicks and Avatar
          TimerW, Diff, Interval, Expiry,         \* of Timers
          Period, TimerTime,
          MaxItems,                               \* of LockedQueue
          Rate, AvatarTime,                       \* of Avatar
          Place, MaxAngle, MaxScroll,             \* of Viewer
          Uid, Spot, Zoom,                        \* of Scene
          None

VARIABLES part,
          pc, clock, realPrevTime, diff, prevSleepTime, elapsed, back,
          planned, lastElapsed, lastBack,
          up, interval, tracker, small, periodic, time, since,
          _queue, _canceled, _lock, taker, item, added, taken,
          m_nMoveStatus, m_fX, m_fY, m_fAngle, m_dTime, fTime, sent, moved, from,
          cursor, held, bRClick, fMousePos, fEyeAngle, fTransZ, bTrack, viewport,
          shouldClose, drag,
          m_player, m_cam, m_otherPlayers, eye, stack, drawn, frame, left

ticksVars  == <<pc, clock, realPrevTime, diff, prevSleepTime, elapsed, back,
                planned, lastElapsed, lastBack>>
timerVars  == <<up, interval, tracker, small, periodic, time, since>>
queueVars  == <<_queue, _canceled, _lock, taker, item, added, taken>>
avatarVars == <<m_nMoveStatus, m_fX, m_fY, m_fAngle, m_dTime, fTime, sent, moved, from>>
viewerVars == <<cursor, held, bRClick, fMousePos, fEyeAngle, fTransZ, bTrack, viewport,
                shouldClose, drag>>
sceneVars  == <<m_player, m_cam, m_otherPlayers, eye, stack, drawn, frame, left>>

vars == <<part, ticksVars, timerVars, queueVars, avatarVars, viewerVars, sceneVars>>

Ticks  == INSTANCE WorldTicks
Timer  == INSTANCE Timers WITH W <- TimerW, MaxTime <- TimerTime
Queue  == INSTANCE LockedQueue
Player == INSTANCE Avatar WITH MaxTime <- AvatarTime
View   == INSTANCE Viewer
Picture == INSTANCE Scene

ASSUME ConstantsAssumption == /\ Ticks!Constants /\ Timer!Constants /\ Queue!Constants
                              /\ Player!Constants /\ View!Constants /\ Picture!Constants

NoTicks  == /\ pc = None /\ clock = None /\ realPrevTime = None /\ diff = None
            /\ prevSleepTime = None /\ elapsed = None /\ back = None
            /\ planned = None /\ lastElapsed = None /\ lastBack = None
NoTimer  == /\ up = None /\ interval = None /\ tracker = None /\ small = None /\ periodic = None
            /\ time = None /\ since = None
NoQueue  == /\ _queue = None /\ _canceled = None /\ _lock = None
            /\ taker = None /\ item = None /\ added = None /\ taken = None
NoPlayer == /\ m_nMoveStatus = None /\ m_fX = None /\ m_fY = None /\ m_fAngle = None
            /\ m_dTime = None /\ fTime = None /\ sent = None /\ moved = None /\ from = None
NoView   == /\ cursor = None /\ held = None /\ bRClick = None /\ fMousePos = None
            /\ fEyeAngle = None /\ fTransZ = None /\ bTrack = None /\ viewport = None
            /\ shouldClose = None /\ drag = None
NoScene  == /\ m_player = None /\ m_cam = None /\ m_otherPlayers = None /\ eye = None
            /\ stack = None /\ drawn = None /\ frame = None /\ left = None

Init ==
  \/ part = "ticks" /\ Ticks!Init /\ NoTimer /\ NoQueue /\ NoPlayer /\ NoView /\ NoScene
  \/ part = "timer" /\ Timer!Init /\ NoTicks /\ NoQueue /\ NoPlayer /\ NoView /\ NoScene
  \/ part = "queue" /\ Queue!Init /\ NoTicks /\ NoTimer /\ NoPlayer /\ NoView /\ NoScene
  \/ part = "player" /\ Player!Init /\ NoTicks /\ NoTimer /\ NoQueue /\ NoView /\ NoScene
  \/ part = "view" /\ View!Init /\ NoTicks /\ NoTimer /\ NoQueue /\ NoPlayer /\ NoScene
  \/ part = "scene" /\ Picture!Init /\ NoTicks /\ NoTimer /\ NoQueue /\ NoPlayer /\ NoView

TicksStep  == /\ part = "ticks" /\ Ticks!Next
              /\ UNCHANGED <<part, timerVars, queueVars, avatarVars, viewerVars, sceneVars>>
TimerStep  == /\ part = "timer" /\ Timer!Next
              /\ UNCHANGED <<part, ticksVars, queueVars, avatarVars, viewerVars, sceneVars>>
QueueStep  == /\ part = "queue" /\ Queue!Next
              /\ UNCHANGED <<part, ticksVars, timerVars, avatarVars, viewerVars, sceneVars>>
PlayerStep == /\ part = "player" /\ Player!Next
              /\ UNCHANGED <<part, ticksVars, timerVars, queueVars, viewerVars, sceneVars>>
ViewStep   == /\ part = "view" /\ View!Next
              /\ UNCHANGED <<part, ticksVars, timerVars, queueVars, avatarVars, sceneVars>>
SceneStep  == /\ part = "scene" /\ Picture!Next
              /\ UNCHANGED <<part, ticksVars, timerVars, queueVars, avatarVars, viewerVars>>

Next == TicksStep \/ TimerStep \/ QueueStep \/ PlayerStep \/ ViewStep \/ SceneStep

Spec == Init /\ [][Next]_vars

-----------------------------------------------------------------------------
(* The types of the part that runs: no time of the world loop underflows   *)
(* its uint32, and no window without height is drawn.                      *)
TypeOK == /\ part \in {"ticks", "timer", "queue", "player", "view", "scene"}
          /\ part = "ticks"  => Ticks!TypeOK
          /\ part = "timer"  => Timer!TypeOK
          /\ part = "queue"  => Queue!TypeOK
          /\ part = "player" => Player!TypeOK
          /\ part = "view"   => View!TypeOK
          /\ part = "scene"  => Picture!TypeOK

(* The world loop never sleeps longer than a tick should take, but for what*)
(* the clock was set back and the overflow swallows (Server.cpp:77-84), and*)
(* its sleep makes up for exactly the time the tick before took beyond its *)
(* planned sleep (Server.cpp:73-76).                                       *)
Sleeps == part = "ticks" => Ticks!SleepBounded /\ Ticks!Balanced

(* The timers of Timer.h tell the time that passed, whatever the turns of  *)
(* the loop take: ticks keep their phase; trackers expire in time, the     *)
(* 32-bit one while an int32 can hold what is left; and a periodic timer   *)
(* neither rushes nor rests, unless a turn does not fit an int32.          *)
KeepTime == part = "timer" => Timer!InPhase /\ Timer!PassedInTime /\ Timer!Periodic

(* What one thread takes from a LockedQueue is what the other added, each  *)
(* item once and in order, in whichever way it takes them.                 *)
Fifo == part = "queue" => Queue!Fifo

(* The frames of a client leave no position of its player unsent, and do   *)
(* not move it faster than its speed.                                      *)
Travel == part = "player" => Player!Reported /\ Player!InTime

(* What a client shows: the view turns with the drag of the right button,  *)
(* no more and no less, whatever buttons, keys and windows do in between;  *)
(* each frame draws every player and the ground where it is, and nothing   *)
(* that was drawn before moves it.                                         *)
Shows == /\ part = "view"  => View!Drag
         /\ part = "scene" => Picture!Placed
=============================================================================
