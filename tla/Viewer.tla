------------------------------- MODULE Viewer -------------------------------
(***************************************************************************)
(* The callbacks of fwClient/GLApp.cpp that glfwPollEvents runs on main:   *)
(* the view is turned by dragging with the right button, moved by the      *)
(* wheel, and fitted to the window; two keys.  Angles are in half degrees. *)
(* The cursor, the buttons and the window are the user's.                  *)
(***************************************************************************)
EXTENDS Integers

CONSTANTS Place,       \* coordinates of the cursor, and sizes of a window
          MaxAngle,    \* bound: how far the view is turned
          MaxScroll    \* bound: how far the wheel is turned

Button == {"left", "right"}

(* Assumed of the constants.                                               *)
Constants == Place \subseteq Nat /\ 0 \in Place /\ MaxAngle \in Nat /\ MaxScroll \in Nat

VARIABLES
  cursor, held,                 \* the cursor <<x, y>>, the buttons held
  bRClick,
  fMousePos,                    \* <<fMousePosX, fMousePosY>>
  fEyeAngle,                    \* <<fEyeAngleZ, fEyeAngleX>>, less their first values
  fTransZ,
  bTrack,
  viewport,                     \* <<width, height>> of the last glViewport
  shouldClose,
  drag                          \* history: where the view and the cursor were when
                                \* the last drag began

vars == <<cursor, held, bRClick, fMousePos, fEyeAngle, fTransZ, bTrack, viewport,
          shouldClose, drag>>

Angle == -MaxAngle .. MaxAngle

TypeOK == /\ cursor \in Place \X Place /\ held \subseteq Button
          /\ bRClick \in {0, 1}
          /\ fMousePos \in Place \X Place
          /\ fEyeAngle \in Angle \X Angle
          /\ fTransZ \in -MaxScroll .. MaxScroll
          /\ bTrack \in BOOLEAN /\ shouldClose \in BOOLEAN
          /\ viewport \in Place \X (Place \ {0})
          /\ drag \in [eye : Angle \X Angle, at : Place \X Place]

(* InitWindows, with a window of some size.                                *)
Init == /\ cursor = <<0, 0>> /\ held = {}
        /\ bRClick = 0
        /\ fMousePos = <<0, 0>>
        /\ fEyeAngle = <<0, 0>>
        /\ fTransZ = 0
        /\ bTrack = FALSE /\ shouldClose = FALSE
        /\ viewport \in {size \in Place \X Place : size[1] = size[2] /\ size[2] > 0}
        /\ drag = [eye |-> <<0, 0>>, at |-> <<0, 0>>]

-----------------------------------------------------------------------------
(* Fault: a drag begins where the last one ended.                          *)
PressedKeepsPos(button) == /\ bRClick' = IF button = "right" THEN 1 ELSE 0
                           /\ UNCHANGED fMousePos

(* mouse_button_callback with GLFW_PRESS: the right button begins a drag at*)
(* the cursor, another one ends it.                                        *)
Pressed(button) == IF button = "right" THEN bRClick' = 1 /\ fMousePos' = cursor
                                       ELSE bRClick' = 0 /\ UNCHANGED fMousePos

Press(button) ==
  /\ button \notin held
  /\ held' = held \cup {button}
  /\ Pressed(button)
  /\ drag' = IF button = "right" THEN [eye |-> fEyeAngle, at |-> cursor] ELSE drag
  /\ UNCHANGED <<cursor, fEyeAngle, fTransZ, bTrack, viewport, shouldClose>>

(* mouse_button_callback with GLFW_RELEASE, of any button.                 *)
Release(button) ==
  /\ button \in held
  /\ held' = held \ {button}
  /\ bRClick' = 0
  /\ UNCHANGED <<cursor, fMousePos, fEyeAngle, fTransZ, bTrack, viewport, shouldClose, drag>>

(* cursor_pos_callback.                                                    *)
MoveCursor(pos) ==
  /\ pos # cursor
  /\ cursor' = pos
  /\ IF bRClick = 1
     THEN /\ fEyeAngle' = <<fEyeAngle[1] + 2 * (pos[1] - fMousePos[1]),
                            fEyeAngle[2] + (pos[2] - fMousePos[2])>>
          /\ fMousePos' = pos
     ELSE UNCHANGED <<fEyeAngle, fMousePos>>
  /\ fEyeAngle' \in Angle \X Angle
  /\ UNCHANGED <<held, bRClick, fTransZ, bTrack, viewport, shouldClose, drag>>

(* scroll_callback.                                                        *)
Scroll(yoffset) ==
  /\ fTransZ' = fTransZ + yoffset
  /\ fTransZ' \in -MaxScroll .. MaxScroll
  /\ UNCHANGED <<cursor, held, bRClick, fMousePos, fEyeAngle, bTrack, viewport, shouldClose, drag>>

(* key_callback: C and Escape.                                             *)
KeyC == /\ bTrack' = ~bTrack
        /\ UNCHANGED <<cursor, held, bRClick, fMousePos, fEyeAngle, fTransZ, viewport,
                       shouldClose, drag>>

KeyEscape == /\ shouldClose' = TRUE
             /\ UNCHANGED <<cursor, held, bRClick, fMousePos, fEyeAngle, fTransZ, bTrack,
                            viewport, drag>>

(* Fault: a window without height is fitted as well.                       *)
CalcViewAlways(width, height) == viewport' = <<width, height>>

(* CalcView: an iconified window has no height, and the view is kept.      *)
CalcView(width, height) == viewport' = IF height > 0 THEN <<width, height>> ELSE viewport

WinSize(width, height) ==
  /\ CalcView(width, height)
  /\ UNCHANGED <<cursor, held, bRClick, fMousePos, fEyeAngle, fTransZ, bTrack, shouldClose, drag>>

(* Run asks glfwWindowShouldClose before it polls again.                   *)
Next == /\ ~shouldClose
        /\ \/ \E button \in Button : Press(button) \/ Release(button)
           \/ \E pos \in Place \X Place : MoveCursor(pos)
           \/ \E yoffset \in {-1, 1} : Scroll(yoffset)
           \/ KeyC \/ KeyEscape
           \/ \E size \in Place \X Place : WinSize(size[1], size[2])

Spec == Init /\ [][Next]_vars

-----------------------------------------------------------------------------
(* The view follows the cursor while the right button drags it, by what    *)
(* the cursor moved since the press, and only then: another button that    *)
(* goes down or up ends the drag, and a new one does not make it jump.     *)
Drag == bRClick = 1 =>
  /\ "right" \in held
  /\ fEyeAngle = <<drag.eye[1] + 2 * (cursor[1] - drag.at[1]),
                   drag.eye[2] + (cursor[2] - drag.at[2])>>
=============================================================================
