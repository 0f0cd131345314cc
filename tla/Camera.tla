------------------------------- MODULE Camera -------------------------------
(***************************************************************************)
(* graphics/gl/camera.cpp.  Angles, zoom and lengths are integers in units *)
(* of their own.  Of the two angles the pitch is kept, the one that is     *)
(* bounded, and of the two axes the one the camera looks along.            *)
(***************************************************************************)
EXTENDS Integers

CONSTANTS
    MaxPitch,  \* 89 degrees
    MaxZoom    \* 45 degrees; the least is 1

ASSUME CameraAssumption == MaxPitch \in Nat /\ MaxZoom \in Nat \ {0}

Least(a, b) == IF a < b THEN a ELSE b
Most(a, b) == IF a > b THEN a ELSE b

(* front is the pitch the vectors were last computed from. *)
UpdateCameraVectors(c) == [c EXCEPT !.front = c.pitch]

NewCamera ==
    UpdateCameraVectors([along |-> 0, pitch |-> 0, front |-> 0, zoom |-> MaxZoom])

(* Both of two opposite keys may be down. *)
Keyboard(c, keys, deltaTime) ==
    [c EXCEPT !.along = @ + (IF "W" \in keys THEN deltaTime ELSE 0)
                          - (IF "S" \in keys THEN deltaTime ELSE 0)]

MouseMove(c, yoffset) ==
    UpdateCameraVectors([c EXCEPT !.pitch = Most(Least(@ + yoffset, MaxPitch), -MaxPitch)])

MouseScroll(c, yoffset) == [c EXCEPT !.zoom = Least(Most(@ - yoffset, 1), MaxZoom)]

CameraOK(c) ==
    /\ c.along \in Int /\ c.pitch \in -MaxPitch..MaxPitch /\ c.zoom \in 1..MaxZoom
    /\ c.front = c.pitch
=============================================================================
