------------------------------- MODULE Scene -------------------------------
(***************************************************************************)
(* The picture of a client: GLApp::Render and what it draws, the player,   *)
(* the others in m_otherPlayers one by one, and the ground.  OpenGL        *)
(* multiplies the matrix on top of its stack by each transformation; here  *)
(* a matrix is the sequence of the transformations it came from, and a     *)
(* shape is drawn with the matrix of its moment.  The stack is kept from   *)
(* frame to frame.                                                         *)
(***************************************************************************)
EXTENDS Integers, Sequences, SequencesExt

CONSTANTS Uid,       \* bound: the other players
          Spot,      \* bound: positions, [x, y, a]
          Zoom       \* bound: how the view has been turned and moved

(* Assumed of the constants.                                               *)
Constants == IsFiniteSet(Uid) /\ Spot \subseteq [x : Int, y : Int, a : Int]

VARIABLES
  m_player,          \* the player's position
  m_cam,             \* the camera, set before the player moves
  m_otherPlayers,    \* the others' positions, by uid
  eye,               \* what the callbacks left: [bTrack, zoom], zoom standing for
                     \*   fTransZ and fEyeAngleX
  stack,             \* the matrices, the top one last
  drawn,             \* the shapes of this frame: <<who, what, matrix>>
  frame,             \* how far it is: "moved", "drawing", "shown"
  left               \* the others not drawn in it yet

vars == <<m_player, m_cam, m_otherPlayers, eye, stack, drawn, frame, left>>

TypeOK == /\ m_player \in Spot /\ m_cam \in Spot
          /\ DOMAIN m_otherPlayers \subseteq Uid
          /\ \A uid \in DOMAIN m_otherPlayers : m_otherPlayers[uid] \in Spot
          /\ eye \in [bTrack : BOOLEAN, zoom : Zoom]
          /\ stack # << >>
          /\ frame \in {"moved", "drawing", "shown"}
          /\ left \subseteq DOMAIN m_otherPlayers

(* The first CalcActor is done.                                            *)
Init == /\ m_player \in Spot /\ m_cam = m_player
        /\ m_otherPlayers = << >>
        /\ eye \in [bTrack : {FALSE}, zoom : Zoom]
        /\ stack = << << >> >>
        /\ drawn = {}
        /\ frame = "moved" /\ left = {}

-----------------------------------------------------------------------------
(* OpenGL: what a command makes of the stack and the picture.              *)
Gl                    == [stack |-> stack, drawn |-> drawn]
After(matrix, by)     == matrix \o by
Push(gl)              == [gl EXCEPT !.stack = Append(@, Last(@))]
Pop(gl)               == [gl EXCEPT !.stack = Front(@)]
Multiply(gl, by)      == [gl EXCEPT !.stack = Append(Front(@), After(Last(@), by))]
Shape(gl, who, what)  == [gl EXCEPT !.drawn = @ \cup {<<who, what, Last(gl.stack)>>}]

Translate(x, y)       == <<"translate", x, y>>
Rotate(axis, angle)   == <<"rotate", axis, angle>>
LookAt(cam)           == <<"look", cam.x, cam.y>>
Zoomed                == <<"zoom", eye.zoom>>

(* Where Player::Draw goes, and from there to the sphere behind.           *)
Pose(at) == <<Translate(at.x, at.y), Rotate("z", at.a)>>
Back      == <<Translate(-5, 0)>>

(* Fault: without glPushMatrix and glPopMatrix.                            *)
DrawPlayerInPlace(gl, who, at) ==
  Shape(Multiply(Shape(Multiply(gl, Pose(at)), who, "front"), Back), who, "back")

(* Player::Draw: two spheres, one behind the other.                        *)
DrawPlayer(gl, who, at) ==
  LET front == Shape(Multiply(Push(gl), Pose(at)), who, "front")
  IN  Pop(Shape(Multiply(front, Back), who, "back"))

(* World::Draw.                                                            *)
Ground(gl) == Pop(Shape(Push(gl), "world", "ground"))

View == <<Zoomed>> \o (IF eye.bTrack THEN <<Rotate("y", -m_cam.a - 90)>> ELSE << >>) \o <<LookAt(m_cam)>>

Becomes(gl) == stack' = gl.stack /\ drawn' = gl.drawn

(* Render up to the loop of DrawWorld.                                     *)
Render == /\ frame = "moved" /\ frame' = "drawing"
          /\ Becomes(DrawPlayer(Push(Multiply(Push(Gl), View)), "me", m_player))
          /\ left' = DOMAIN m_otherPlayers
          /\ UNCHANGED <<m_player, m_cam, m_otherPlayers, eye>>

(* A turn of the loop of DrawWorld, in any order.                          *)
DrawOther(uid) ==
  /\ frame = "drawing" /\ uid \in left
  /\ Becomes(DrawPlayer(Gl, uid, m_otherPlayers[uid]))
  /\ left' = left \ {uid}
  /\ UNCHANGED <<m_player, m_cam, m_otherPlayers, eye, frame>>

(* The rest of DrawWorld and Render, the end of the frame.                 *)
DrawWorld == /\ frame = "drawing" /\ left = {}
             /\ Becomes(Pop(Pop(Ground(Gl))))
             /\ frame' = "shown"
             /\ UNCHANGED <<m_player, m_cam, m_otherPlayers, eye, left>>

(* Up to the next: events, and CalcActor, with what became of the player   *)
(* and of the others.                                                      *)
CalcActor(at, others, looks) ==
  /\ frame = "shown" /\ frame' = "moved"
  /\ m_cam' = m_player
  /\ m_player' = at
  /\ m_otherPlayers' = others
  /\ eye' = looks
  /\ drawn' = {}
  /\ UNCHANGED <<stack, left>>

Next == \/ Render \/ DrawWorld
        \/ \E uid \in Uid : DrawOther(uid)
        \/ \E at \in Spot, uids \in SUBSET Uid, looks \in [bTrack : BOOLEAN, zoom : Zoom] :
             \E others \in [uids -> Spot] : CalcActor(at, others, looks)

Spec == Init /\ [][Next]_vars

-----------------------------------------------------------------------------
(* The spheres of a player, drawn where it is: nothing but the view and    *)
(* its own place is in their matrices.                                     *)
Spheres(who, at) ==
  LET front == After(View, Pose(at))
  IN  {<<who, "front", front>>, <<who, "back", After(front, Back)>>}

(* Each frame shows every player once and where it is, whatever was drawn  *)
(* before in this frame or in another, and leaves the stack as it was.     *)
Placed ==
  frame = "shown" =>
    /\ stack = << << >> >>
    /\ drawn = {<<"world", "ground", View>>} \cup Spheres("me", m_player)
               \cup UNION {Spheres(uid, m_otherPlayers[uid]) : uid \in DOMAIN m_otherPlayers}
=============================================================================
