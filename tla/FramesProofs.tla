---------------------------- MODULE FramesProofs ----------------------------
(***************************************************************************)
(* Proofs about Frames.  First its view: how it follows the time, the keys *)
(* and the cursor, for every time the loop may begin at, every range of    *)
(* the cursor and every clamp.  Then its programs: what the text of one    *)
(* must look like (Fits), why a program with such a text keeps what it is  *)
(* used for alive and leaves nothing else behind (ProgramInv), for any     *)
(* text, and last that the text of each program of learn_gl/demo is one.   *)
(***************************************************************************)
EXTENDS Frames, FiniteSetTheorems, WellFoundedInduction, SequenceTheorems, TLAPS

Cameras == [along : Int, pitch : Int, front : Int, zoom : Int]
Looping == step \in {"turn", "draw", "poll"}

(* A turn takes what passed since the turn before.  There is none before   *)
(* the first, in which no key can be down: none was reported.              *)
Walked ==
    /\ Looping => now \in Nat /\ SetupTime <= now
    /\ ~Looping => now = 0 /\ lastFrame = 0
    /\ lastFrame = 0 =>
          /\ camera.along = 0
          /\ Controls.walks => keys = {} /\ step \notin {"draw", "poll"}
    /\ lastFrame # 0 =>
          /\ lastFrame \in Nat /\ SetupTime <= lastFrame /\ lastFrame <= now
          /\ SetupTime - lastFrame <= camera.along /\ camera.along <= lastFrame - SetupTime

(* The angle and the cursor differ by what was cut off and where it began. *)
Turned ==
    /\ is_first => camera.pitch = 0
    /\ ~is_first => lastY \in Positions
    /\ camera.pitch # 0 =>
          \E y, z \in Positions :
              /\ Controls.looks * y <= camera.pitch + Controls.looks * lastY
              /\ camera.pitch + Controls.looks * lastY <= Controls.looks * z

SteeredInv ==
    /\ step \in {"setup", "turn", "draw", "poll", "over"}
    /\ camera \in Cameras /\ CameraOK(camera)
    /\ is_first \in BOOLEAN /\ lastY \in Positions \cup {0}
    /\ Walked /\ Turned
    /\ Controls.tracks => gFb = viewport
-----------------------------------------------------------------------------
LEMMA Bounds ==
  /\ SetupTime \in Nat /\ SetupTime > 0 /\ MaxTime \in Nat /\ Positions \subseteq Int
  /\ MaxPitch \in Nat /\ MaxZoom \in Nat /\ MaxZoom > 0
BY FramesAssumption, CameraAssumption DEF FramesAssumption, CameraAssumption

(* What a program's callbacks may do.                                      *)
LEMMA ControlsAre ==
  /\ Controls.walks \in BOOLEAN /\ Controls.zooms \in BOOLEAN /\ Controls.tracks \in BOOLEAN
  /\ Controls.looks = -1 \/ Controls.looks = 0 \/ Controls.looks = 1
  /\ prog \in {"basic_lighting", "materials"} => Controls.tracks
BY DEF Controls, Control, BasicLightingInput, MaterialsInput, LightingMapsInput,
     CastersDirectionalInput, CastersPointInput, CastersSpotInput, MultipleLightsInput,
     ColorsInput, CameraMouseZoomInput, CameraKeyboardInput, PlainInput

(* No statement of a program makes it another.                             *)
LEMMA SameProgram == ASSUME FramesNext PROVE prog' = prog
<1>1. ASSUME Advance PROVE prog' = prog
  BY <1>1 DEF Advance, LibraryInit, OpenWindow, LoadFunctions, EndContext, Nothing, Generate,
     DeleteNames, CompileOne, Enter, Leave, Obtain, BuildFails, Skip, LoadFails, Exit, At
<1>2. ASSUME StartLoop \/ BeginTurn \/ Render \/ EndLoop \/ EndPoll PROVE prog' = prog
  BY <1>2 DEF StartLoop, BeginTurn, Render, EndLoop, EndPoll, At, Draw, StopDrawing
<1>3. ASSUME Polling PROVE prog' = prog
  BY <1>3 DEF Polling, At
<1> QED
  BY <1>1, <1>2, <1>3 DEF FramesNext, PressKeys, CloseWindow, MoveCursor, Scroll, Resize

LEMMA SameControls == ASSUME prog' = prog PROVE Controls' = Controls
BY DEF Controls

LEMMA FrameStart == ASSUME FramesInit PROVE SteeredInv
<1>1. /\ step = "setup" /\ now = 0 /\ lastFrame = 0 /\ keys = {} /\ camera = NewCamera
      /\ is_first = TRUE /\ lastY = 0 /\ viewport = "first" /\ gFb = "first"
  BY DEF FramesInit
<1>2. NewCamera = [along |-> 0, pitch |-> 0, front |-> 0, zoom |-> MaxZoom]
  BY DEF NewCamera, UpdateCameraVectors
<1>3. camera \in Cameras /\ CameraOK(camera)
  BY <1>1, <1>2, Bounds DEF Cameras, CameraOK
<1>4. Walked /\ Turned
  BY <1>1, <1>2 DEF Walked, Turned, Looping
<1> QED
  BY <1>1, <1>3, <1>4 DEF SteeredInv
-----------------------------------------------------------------------------
(* The angle after the cursor has moved to y, or been reported first.      *)
LEMMA Clamped ==
  ASSUME NEW c \in Cameras, CameraOK(c), NEW d \in Int
  PROVE  LET m == MouseMove(c, d) IN
         /\ m \in Cameras /\ CameraOK(m) /\ m.along = c.along
         /\ \/ m.pitch = c.pitch + d
            \/ m.pitch = MaxPitch /\ m.pitch <= c.pitch + d
            \/ m.pitch = -MaxPitch /\ m.pitch >= c.pitch + d
<1> DEFINE n == Most(Least(c.pitch + d, MaxPitch), -MaxPitch)
<1>1. MouseMove(c, d) = [[c EXCEPT !.pitch = n] EXCEPT !.front = n]
  BY DEF MouseMove, UpdateCameraVectors, Cameras
<1>2. /\ n \in Int /\ n \in (-MaxPitch)..MaxPitch
      /\ \/ n = c.pitch + d
         \/ n = MaxPitch /\ n <= c.pitch + d
         \/ n = -MaxPitch /\ n >= c.pitch + d
  BY Bounds DEF Most, Least, Cameras
<1> HIDE DEF n
<1> QED
  BY <1>1, <1>2 DEF Cameras, CameraOK

LEMMA CursorTurns ==
  ASSUME SteeredInv, NEW y \in Positions, MoveCursor(y), prog' = prog
  PROVE  Turned' /\ camera' \in Cameras /\ CameraOK(camera)' /\ camera.along' = camera.along
<1> DEFINE k == Controls.looks
           from == IF is_first THEN y ELSE lastY
           d == k * (from - y)
<1>1. /\ camera' = MouseMove(camera, d) /\ is_first' = FALSE /\ lastY' = y /\ Controls' = Controls
  BY SameControls DEF MoveCursor
<1>2. k = -1 \/ k = 0 \/ k = 1
  BY ControlsAre
<1>3. from \in Positions /\ from \in Int /\ y \in Int /\ (is_first => from = y)
  BY Bounds DEF SteeredInv, Turned
<1>4. camera.pitch # 0 => from = lastY
  BY DEF SteeredInv, Turned
<1>5. camera \in Cameras /\ CameraOK(camera) /\ camera.pitch \in Int
  BY DEF SteeredInv, Cameras
<1> HIDE DEF k, from
<1>6. d \in Int /\ d = k * from - k * y /\ k * from \in Int /\ k * y \in Int
  BY <1>2, <1>3
<1>7. /\ camera' \in Cameras /\ CameraOK(camera)' /\ camera.along' = camera.along
      /\ \/ camera'.pitch = camera.pitch + d
         \/ camera'.pitch = MaxPitch /\ camera'.pitch <= camera.pitch + d
         \/ camera'.pitch = -MaxPitch /\ camera'.pitch >= camera.pitch + d
      /\ camera'.pitch \in Int
  BY <1>1, <1>5, <1>6, Clamped DEF CameraOK, Cameras
<1> HIDE DEF d
<1>8. PICK a \in Positions, b \in Positions :
         k * a <= camera.pitch + k * from /\ camera.pitch + k * from <= k * b
  <2>1. CASE camera.pitch = 0
    BY <2>1, <1>3, <1>6
  <2>2. CASE camera.pitch # 0
    BY <2>2, <1>4 DEF SteeredInv, Turned, k
  <2> QED
    BY <2>1, <2>2
<1>9. k * a \in Int /\ k * b \in Int
  BY <1>2, Bounds
<1>10. \E p, q \in Positions :
          k * p <= camera'.pitch + k * y /\ camera'.pitch + k * y <= k * q
  <2>1. CASE camera'.pitch = camera.pitch + d
    BY <2>1, <1>5, <1>6, <1>8
  <2>2. CASE camera'.pitch = MaxPitch /\ camera'.pitch <= camera.pitch + d
    <3>1. k * y <= camera'.pitch + k * y /\ camera'.pitch + k * y <= k * b
      BY <2>2, <1>5, <1>6, <1>8, <1>9, Bounds
    <3> QED
      BY <3>1
  <2>3. CASE camera'.pitch = -MaxPitch /\ camera'.pitch >= camera.pitch + d
    <3>1. k * a <= camera'.pitch + k * y /\ camera'.pitch + k * y <= k * y
      BY <2>3, <1>5, <1>6, <1>8, <1>9, Bounds
    <3> QED
      BY <3>1
  <2> QED
    BY <2>1, <2>2, <2>3, <1>7
<1>11. Turned'
  BY <1>1, <1>10 DEF Turned, k
<1> QED
  BY <1>7, <1>11

(* The keys move the camera by the time of a turn, and no other way.       *)
LEMMA KeysMove ==
  ASSUME NEW c \in Cameras, CameraOK(c), NEW K, NEW t \in Nat
  PROVE  LET m == Keyboard(c, K, t) IN
         /\ m \in Cameras /\ CameraOK(m) /\ m.pitch = c.pitch
         /\ c.along - t <= m.along /\ m.along <= c.along + t
         /\ K = {} => m.along = c.along
<1> DEFINE n == c.along + (IF "W" \in K THEN t ELSE 0) - (IF "S" \in K THEN t ELSE 0)
<1>1. Keyboard(c, K, t) = [c EXCEPT !.along = n]
  BY DEF Keyboard
<1>2. n \in Int /\ c.along - t <= n /\ n <= c.along + t /\ (K = {} => n = c.along)
  BY DEF Cameras
<1> HIDE DEF n
<1> QED
  BY <1>1, <1>2 DEF Cameras, CameraOK

LEMMA Scrolled ==
  ASSUME NEW c \in Cameras, CameraOK(c), NEW d \in Int
  PROVE  LET m == MouseScroll(c, d) IN
         m \in Cameras /\ CameraOK(m) /\ m.along = c.along /\ m.pitch = c.pitch
<1> DEFINE n == Least(Most(c.zoom - d, 1), MaxZoom)
<1>1. MouseScroll(c, d) = [c EXCEPT !.zoom = n]
  BY DEF MouseScroll
<1>2. n \in Int /\ n \in 1..MaxZoom
  BY Bounds DEF Most, Least, Cameras
<1> HIDE DEF n
<1> QED
  BY <1>1, <1>2 DEF Cameras, CameraOK
-----------------------------------------------------------------------------
LEMMA FrameStep == ASSUME SteeredInv, [FramesNext]_allVars PROVE SteeredInv'
<1>1. CASE UNCHANGED frameVars /\ prog' = prog
  <2>1. /\ UNCHANGED <<step, now, lastFrame, keys, camera, is_first, lastY, viewport, gFb>>
        /\ Controls' = Controls
    BY <1>1, SameControls DEF frameVars, timeVars, inputVars
  <2> QED
    BY <2>1 DEF SteeredInv, Walked, Turned, Looping, CameraOK
<1>2. CASE StartLoop /\ prog' = prog
  <2>1. /\ step = "setup" /\ step' = "turn" /\ now' = SetupTime /\ Controls' = Controls
        /\ UNCHANGED <<lastFrame, keys, camera, is_first, lastY, viewport, gFb>>
    BY <1>2, SameControls DEF StartLoop, inputVars
  <2>2. Walked'
    BY <2>1, Bounds DEF SteeredInv, Walked, Looping
  <2> QED
    BY <2>1, <2>2 DEF SteeredInv, Turned, CameraOK
<1>3. CASE BeginTurn /\ prog' = prog
  <2>1. /\ step = "turn" /\ step' = "draw" /\ Controls' = Controls /\ TakeTime
        /\ camera' = IF Controls.walks THEN Keyboard(camera, keys, deltaTime') ELSE camera
        /\ UNCHANGED <<now, keys, is_first, lastY, viewport, gFb>>
    BY <1>3, SameControls DEF BeginTurn
  <2>2. now \in Nat /\ SetupTime <= now /\ camera \in Cameras /\ CameraOK(camera)
    BY <2>1 DEF SteeredInv, Walked, Looping
  <2>3. CASE Controls.walks
    <3>1. deltaTime' = now - lastFrame /\ lastFrame' = now
      BY <2>1, <2>3 DEF TakeTime
    <3>2. now - lastFrame \in Nat /\ lastFrame \in Nat
      BY <2>2 DEF SteeredInv, Walked
    <3> DEFINE m == Keyboard(camera, keys, now - lastFrame)
    <3>3. camera' = m
      BY <2>1, <2>3, <3>1
    <3>4. /\ m \in Cameras /\ CameraOK(m) /\ m.pitch = camera.pitch
          /\ camera.along - (now - lastFrame) <= m.along
          /\ m.along <= camera.along + (now - lastFrame)
          /\ keys = {} => m.along = camera.along
      BY <2>2, <3>2, KeysMove
    <3> HIDE DEF m
    <3>5. camera.along \in Int /\ m.along \in Int
      BY <2>2, <3>4 DEF Cameras
    <3>6. /\ SetupTime - now <= camera'.along /\ camera'.along <= now - SetupTime
          /\ now # 0
      <4>1. CASE lastFrame = 0
        BY <2>2, <2>3, <3>3, <3>4, <4>1, Bounds DEF SteeredInv, Walked
      <4>2. CASE lastFrame # 0
        BY <2>2, <3>2, <3>3, <3>4, <3>5, <4>2, Bounds DEF SteeredInv, Walked
      <4> QED
        BY <4>1, <4>2
    <3>7. Walked'
      BY <2>1, <2>2, <3>1, <3>6 DEF Walked, Looping
    <3>8. Turned'
      BY <2>1, <3>3, <3>4 DEF SteeredInv, Turned
    <3> QED
      BY <2>1, <3>3, <3>4, <3>7, <3>8 DEF SteeredInv, CameraOK
  <2>4. CASE ~Controls.walks
    <3>1. UNCHANGED <<camera, lastFrame>>
      BY <2>1, <2>4 DEF TakeTime
    <3>2. Walked'
      BY <2>1, <2>4, <3>1 DEF SteeredInv, Walked, Looping
    <3> QED
      BY <2>1, <3>1, <3>2 DEF SteeredInv, Turned, CameraOK
  <2> QED
    BY <2>3, <2>4
<1>4. CASE Render /\ prog' = prog
  <2>1. /\ step = "draw" /\ step' = "poll" /\ Controls' = Controls
        /\ UNCHANGED <<now, lastFrame, keys, camera, is_first, lastY, viewport, gFb>>
    BY <1>4, SameControls DEF Render, timeVars, inputVars
  <2> QED
    BY <2>1 DEF SteeredInv, Walked, Turned, Looping, CameraOK
<1>5. CASE EndLoop /\ prog' = prog
  <2>1. /\ step' = "over" /\ now' = 0 /\ lastFrame' = 0 /\ keys' = {} /\ camera' = NewCamera
        /\ is_first' = TRUE /\ lastY' = 0 /\ viewport' = "first" /\ gFb' = "first"
    BY <1>5 DEF EndLoop
  <2>2. NewCamera = [along |-> 0, pitch |-> 0, front |-> 0, zoom |-> MaxZoom]
    BY DEF NewCamera, UpdateCameraVectors
  <2>3. camera' \in Cameras /\ CameraOK(camera)' /\ camera'.along = 0 /\ camera'.pitch = 0
    BY <2>1, <2>2, Bounds DEF Cameras, CameraOK
  <2> QED
    BY <2>1, <2>3 DEF SteeredInv, Walked, Turned, Looping
<1>6. ASSUME PressKeys \/ CloseWindow \/ \E shape \in {"first", "flat"} : Resize(shape),
             prog' = prog
      PROVE  SteeredInv'
  <2>1. /\ step = "poll" /\ UNCHANGED <<step, now, lastFrame, camera, is_first, lastY>>
        /\ Controls' = Controls
        /\ UNCHANGED <<viewport, gFb>> \/ (Controls.tracks => gFb' = viewport')
    BY <1>6, SameControls DEF PressKeys, CloseWindow, Resize, Polling, timeVars
  <2>2. Walked'
    BY <2>1 DEF SteeredInv, Walked, Looping
  <2> QED
    BY <2>1, <2>2 DEF SteeredInv, Turned, CameraOK
<1>7. ASSUME NEW y \in Positions, MoveCursor(y), prog' = prog PROVE SteeredInv'
  <2>1. /\ UNCHANGED <<step, now, lastFrame, keys, viewport, gFb>> /\ Controls' = Controls
        /\ is_first' = FALSE /\ lastY' = y
    BY <1>7, SameControls DEF MoveCursor, Polling, timeVars
  <2>2. Turned' /\ camera' \in Cameras /\ CameraOK(camera)' /\ camera.along' = camera.along
    BY <1>7, CursorTurns
  <2>3. Walked'
    BY <2>1, <2>2 DEF SteeredInv, Walked, Looping
  <2> QED
    BY <2>1, <2>2, <2>3 DEF SteeredInv
<1>8. ASSUME NEW d \in {-1, 1}, Scroll(d), prog' = prog PROVE SteeredInv'
  <2>1. /\ camera' = MouseScroll(camera, d) /\ Controls' = Controls
        /\ UNCHANGED <<step, now, lastFrame, keys, is_first, lastY, viewport, gFb>>
    BY <1>8, SameControls DEF Scroll, Polling, timeVars
  <2>2. camera \in Cameras /\ CameraOK(camera)
    BY DEF SteeredInv
  <2>3. /\ camera' \in Cameras /\ CameraOK(camera)'
        /\ camera'.along = camera.along /\ camera'.pitch = camera.pitch
    <3> DEFINE m == MouseScroll(camera, d)
    <3>1. m \in Cameras /\ CameraOK(m) /\ m.along = camera.along /\ m.pitch = camera.pitch
      <4>1. d \in Int
        OBVIOUS
      <4> QED
        BY <2>2, <4>1, Scrolled
    <3> HIDE DEF m
    <3>2. camera' = m
      BY <2>1 DEF m
    <3> QED
      BY <3>1, <3>2 DEF CameraOK
  <2>4. Walked' /\ Turned'
    BY <2>1, <2>3 DEF SteeredInv, Walked, Turned, Looping
  <2> QED
    BY <2>1, <2>3, <2>4 DEF SteeredInv
<1>9. CASE EndPoll /\ prog' = prog
  <2>1. /\ step = "poll" /\ step' = "turn" /\ Controls' = Controls
        /\ now' = IF now < MaxTime THEN now + 1 ELSE now
        /\ UNCHANGED <<lastFrame, keys, camera, is_first, lastY, viewport, gFb>>
    BY <1>9, SameControls DEF EndPoll, inputVars
  <2>2. now \in Nat /\ now' \in Nat /\ now <= now' /\ SetupTime <= now'
    BY <2>1, Bounds DEF SteeredInv, Walked, Looping
  <2>3. Walked'
    BY <2>1, <2>2 DEF SteeredInv, Walked, Looping
  <2> QED
    BY <2>1, <2>3 DEF SteeredInv, Turned, CameraOK
<1>10. CASE UNCHANGED allVars
  BY <1>1, <1>10 DEF allVars, vars
<1>11. CASE FramesNext
  BY <1>1, <1>2, <1>3, <1>4, <1>5, <1>6, <1>7, <1>8, <1>9, <1>11, SameProgram DEF FramesNext
<1> QED
  BY <1>10, <1>11

LEMMA SteeredAlways == FramesSpec => []SteeredInv
  BY FrameStart, FrameStep, PTL DEF FramesSpec
-----------------------------------------------------------------------------
(* In every program of learn_gl/demo the camera goes no further than time  *)
(* has passed since the loop began, turns by no more than the cursor has   *)
(* moved, and the projection keeps the shape of the window where the       *)
(* program keeps it up; however the frames, the reports of the cursor, the *)
(* keys and the clamps of camera.cpp follow each other.                    *)
THEOREM SteeredCorrect == FramesSpec => []Steered
<1>1. ASSUME SteeredInv PROVE Steered
  <2>1. now > 0 => camera.along \in (SetupTime - now)..(now - SetupTime)
    <3>1. CASE lastFrame = 0
      BY <1>1, <3>1, Bounds DEF SteeredInv, Walked
    <3>2. CASE lastFrame # 0
      BY <1>1, <3>2, Bounds DEF SteeredInv, Walked, Cameras
    <3> QED
      BY <3>1, <3>2
  <2>2. camera.pitch # 0 =>
           \E y, z \in Positions :
               camera.pitch + Controls.looks * lastY \in
                   (Controls.looks * y)..(Controls.looks * z)
    <3> SUFFICES ASSUME camera.pitch # 0
                 PROVE  \E y, z \in Positions :
                           camera.pitch + Controls.looks * lastY \in
                               (Controls.looks * y)..(Controls.looks * z)
      OBVIOUS
    <3>1. PICK y \in Positions, z \in Positions :
             /\ Controls.looks * y <= camera.pitch + Controls.looks * lastY
             /\ camera.pitch + Controls.looks * lastY <= Controls.looks * z
      BY <1>1 DEF SteeredInv, Turned
    <3>2. /\ camera.pitch \in Int /\ lastY \in Int /\ y \in Int /\ z \in Int
          /\ Controls.looks \in Int
      BY <1>1, Bounds, ControlsAre DEF SteeredInv, Cameras
    <3>3. /\ Controls.looks * y \in Int /\ Controls.looks * z \in Int
          /\ Controls.looks * lastY \in Int
      BY <3>2, ControlsAre
    <3> QED
      BY <3>1, <3>2, <3>3
  <2> QED
    BY <1>1, <2>1, <2>2, ControlsAre DEF Steered, SteeredInv
<1> QED
  BY <1>1, SteeredAlways, PTL
-----------------------------------------------------------------------------
(***************************************************************************)
(* What the text of a program of Demos must look like for the promises of  *)
(* that module to hold on every way out.  A text t has a plan q: it makes  *)
(* its calls of GL in first..last, draws at loop, and returns at exit;     *)
(* behind that are the bodies of its macros.                               *)
(***************************************************************************)
Plan(first, last, loop, exit) == [first |-> first, last |-> last, loop |-> loop, exit |-> exit]

PlanOf(p) ==
    CASE p \in {"basic_lighting", "materials"}             -> Plan(4, 14, 9, 18)
      [] p \in {"lighting_maps", "casters_directional",
                "casters_point"}                           -> Plan(4, 20, 14, 24)
      [] p = "casters_spot"                                -> Plan(4, 19, 13, 23)
      [] p = "multiple_lights"                             -> Plan(4, 21, 15, 25)
      [] p = "colors"                                      -> Plan(4, 11, 9, 14)
      [] p \in {"camera_mouse_zoom", "camera_keyboard_dt"} -> Plan(4, 11, 8, 13)
      [] p = "camera_circle"                               -> Plan(4, 11, 8, 12)
      [] p \in {"coordinate_systems", "texture"}           -> Plan(4, 10, 8, 12)
      [] p = "transform"                                   -> Plan(4, 9, 8, 11)
      [] p = "shader_class"                                -> Plan(4, 9, 7, 11)
      [] p \in {"rectangle", "shaders_uniform", "traingle"} -> Plan(4, 11, 9, 13)
      [] p = "window"                                      -> Plan(4, 5, 5, 7)
      [] p = "version"                                     -> Plan(5, 5, 8, 8)
      [] OTHER                                             -> Plan(7, 5, 5, 6)

(* What is known of a program: what it calls without a context, the names  *)
(* it leaves, and the names whose failure it does not notice.              *)
Strays(p) ==
    CASE p = "transform" -> {"shader"}
      [] p = "colors" -> {"cubeShader"}
      [] p = "gravity_sim" -> {"call", "loop"}
      [] OTHER -> {}

Remains(p) ==
    CASE p \in {"coordinate_systems", "texture"} -> {"textures"}
      [] p = "transform" -> {"textures", "shader"}
      [] OTHER -> {}

Unnoticed(p) == IF p = "traingle" THEN {"program"} ELSE {}

Uses == {"gen", "texture", "call", "delete", "compile", "build", "build_path",
         "load", "load_if", "loop", "close"}
Builds == {"build", "build_path", "load"}
Obtains == Builds \cup {"load_if"}
Makes == Builds \cup {"gen", "compile", "texture"}
Ends == {"destroy", "terminate", "return"}

Using(q, k) == q.first <= k /\ k <= q.last
Handler(s) == s.do \in {"label", "macro"}
LeadsTo(t, k, h) ==
    /\ k \in 1..Len(t) /\ t[k].err # "none" /\ ~Handler(t[k])
    /\ h \in 1..Len(t) /\ Handler(t[h]) /\ t[h].err = t[k].err

(* The blocks statement i is in; that of j is one of them for k.           *)
Counted(t, i, kind) == {k \in 1..(i - 1) : t[k].do = kind}
Level(t, i) == Cardinality(Counted(t, i, "open")) - Cardinality(Counted(t, i, "close"))
Inside(t, j, k) == \A n \in (j + 1)..k : Level(t, j) < Level(t, n)

(* What is obtained before k is all in X. *)
Only(t, k, X) == \A j \in 1..(k - 1) : t[j].do \in Obtains => t[j].names \subseteq X

(* A program comes to its exit, and nowhere past it but by a failure.      *)
Shaped(t, q) ==
    /\ q.first \in Nat \ {0, 1} /\ q.last \in Nat /\ q.exit \in 1..Len(t) /\ q.loop \in 1..q.exit
    /\ q.last < q.exit /\ t[Len(t)].do = "return"
    /\ q.loop = q.exit \/ t[q.loop].do = "loop"
    /\ \A k \in 1..Len(t) :
          /\ k < q.exit => t[k].do \notin {"return", "macro"}
          /\ k = q.exit => t[k].do = "return"
          /\ k > q.exit => t[k].do \in {"macro", "close"} \cup Ends
          /\ k > q.exit /\ t[k].do = "close" => k = q.exit + 1
          /\ t[k].do = "macro" => t[k - 1].do \in {"return", "close"}
          /\ t[k].do = "loop" => k = q.loop
          /\ t[k].do = "label" => q.exit = Len(t) /\ t[q.loop].do = "loop"

(* GL is used while it is there. *)
InContext(t, q, X) ==
    \A k \in 1..Len(t) :
        /\ t[k].do = "window" => k < q.first
        /\ t[k].do = "glad" => k = q.first - 1 /\ t[k].err # "none"
        /\ Using(q, k) => t[k].do \in Uses \cup {"open", "label", "probe"}
        /\ q.first <= q.last /\ k = q.first - 1 => t[k].do = "glad"
        /\ t[k].do \in Uses =>
              \/ Using(q, k)
              \/ k = q.exit + 1 /\ t[k].do = "close"
              \/ t[k].names = {} /\ t[k].do \in {"call", "loop"} \cap X
        /\ t[k].do = "call" => t[k].names = {}

(* A failure is dealt with further on, before anything is drawn, never in  *)
(* a block the program is not in, and behind nothing that it needs.        *)
Caught(t) ==
    \A k \in 1..Len(t) :
        /\ t[k].err # "none" /\ ~Handler(t[k]) => \E h \in 1..Len(t) : LeadsTo(t, k, h)
        /\ t[k].do \in Obtains => t[k].err # "none"

Ahead(t, q, X) ==
    \A k, h \in 1..Len(t) : LeadsTo(t, k, h) =>
        /\ k < h /\ k < q.loop /\ q.loop < h
        /\ Using(q, h) => Using(q, k)
        /\ t[k].do \notin Uses => k < q.first
        /\ t[h].do = "label" => h < q.exit /\ t[k].do # "compile" /\ Level(t, h) <= Level(t, k)
        /\ t[h].do = "macro" => q.exit < h /\ Only(t, k, X)

Unwound(t, q) ==
    \A k, h \in 1..Len(t) : LeadsTo(t, k, h) /\ t[h].do = "label" =>
        \A j \in k..(h - 1) :
            /\ t[j].do = "open" => ~Inside(t, j, h)
            /\ t[j].do = "delete" => k < q.first

(* An object is obtained in its block; the blocks are left before GL goes. *)
InBlock(t, q, X) ==
    \A k \in 1..Len(t) :
        /\ t[k].do \in Obtains =>
              \E j \in 1..(k - 1) :
                  t[j].do = "open" /\ Inside(t, j, k) /\ t[k].names \subseteq t[j].names
        /\ k <= q.exit => Level(t, k) >= 0
        /\ q.last < k /\ k <= q.exit => Level(t, k) = 0 \/ Only(t, k, X)

(* The other names are deleted, once, and before GL goes. *)
Deletes(t, q, R) ==
    \A k \in 1..Len(t) :
        /\ t[k].do \in {"gen", "compile"} =>
              \A x \in t[k].names :
                  x \in R \/ \E j \in (k + 1)..Len(t) : t[j].do = "delete" /\ x \in t[j].names
        /\ t[k].do = "delete" =>
              \A j \in 1..Len(t) :
                  t[j].do \in {"open", "delete"} => j = k \/ t[k].names \cap t[j].names = {}
        /\ t[k].do \in Ends /\ k <= q.exit /\ t[q.loop].do = "loop" =>
              q.loop < k /\ \A j \in k..Len(t) : t[j].do # "delete"

(* What a frame is drawn with has been made by then. *)
Prepares(t, q, F) ==
    /\ \A k \in 1..Len(t) : t[k].do = "compile" /\ t[k].err = "none" => t[k].names \subseteq F
    /\ t[q.loop].do = "loop" =>
          /\ \A k \in 1..(q.loop - 1) :
                /\ t[k].do \notin {"close", "label"} \cup Ends
                /\ t[k].do = "delete" => t[k].names \cap t[q.loop].names = {}
          /\ \A x \in t[q.loop].names : \E k \in 1..(q.loop - 1) :
                /\ t[k].do \in Makes /\ x \in t[k].names
                /\ t[k].do \in Builds \/ \A j \in 1..Len(t) : t[j].do = "open" => x \notin t[j].names

(* How a program may come to its return. *)
Alone(t, h) == \A k \in 1..Len(t) : LeadsTo(t, k, h) => t[k].do = "library"
Returns(t, q, p) ==
    \A k \in 1..Len(t) : t[k].do = "return" =>
        \/ k > 1 /\ t[k - 1].do = "terminate"
        \/ k > 1 /\ t[k - 1].do = "macro" /\ Alone(t, k - 1)
        \/ q.exit < k /\ p \in {"rectangle", "traingle", "window"}
        \/ q.exit = k /\ q.loop < k /\ p = "camera_circle" /\ \A j \in 1..Len(t) : t[j].do # "label"
        \/ p = "gravity_sim"

Fits(p) ==
    LET t == Text(p)
        q == PlanOf(p)
    IN  /\ Len(t) \in Nat /\ DOMAIN t = 1..Len(t)
        /\ Shaped(t, q) /\ InContext(t, q, Strays(p))
        /\ Caught(t) /\ Ahead(t, q, Strays(p)) /\ Unwound(t, q)
        /\ InBlock(t, q, Strays(p) \cap Remains(p)) /\ Deletes(t, q, Remains(p))
        /\ Prepares(t, q, Unnoticed(p)) /\ Returns(t, q, p)
-----------------------------------------------------------------------------
(***************************************************************************)
(* Where a program that fits is, it has what the text says it has there.   *)
(***************************************************************************)
Program == Text(prog)
Course == PlanOf(prog)
Main == pc <= Course.exit
Draws == Program[Course.loop].do = "loop"
Labelled == \E k \in 1..Len(Program) : Program[k].do = "label"

Placed ==
    /\ prog \in Programs /\ pc \in 0..Len(Program)
    /\ lib \in BOOLEAN /\ ran \in BOOLEAN
    /\ gl \in {"none", "window", "ready", "gone"}
    /\ live # {} => gl = "ready" \/ pc = 0
    /\ live \subseteq held \cup {"vertex"} /\ owned \subseteq held
    /\ scope \in Seq(SUBSET NamesOf({"open"}))

(* Its blocks are those of the text, and nothing is owned outside them.    *)
InBlocks ==
    /\ ~Main => Program[pc].do # "close"
    /\ Main => Len(scope) = Level(Program, pc)
    /\ Main => \A j \in 1..(pc - 1) :
          Program[j].do = "open" /\ Inside(Program, j, pc) =>
              scope[Level(Program, j) + 1] = Program[j].names
    /\ \A x \in owned : \E i \in 1..Len(scope) : x \in scope[i]
    /\ Main => \A x \in owned : \E j \in 1..(pc - 1) :
          Program[j].do \in Obtains /\ x \in Program[j].names
    /\ ~Main => owned \subseteq Strays(prog)

(* It has a context where it uses one, and there a name that is gone has   *)
(* been deleted or was an object's.                                        *)
Loaded ==
    /\ Using(Course, pc) => gl = "ready"
    /\ Main /\ pc < Course.first => held = {} /\ live = {} /\ owned = {}
    /\ Using(Course, pc) => \A x \in held \ live : \E j \in 1..Len(Program) :
          /\ x \in Program[j].names
          /\ Program[j].do = "open" \/ (Program[j].do = "delete" /\ j < pc)

(* What lives is an object's, stays, or is going to be deleted.            *)
Doomed(x, k) == \E j \in k..Len(Program) : Program[j].do = "delete" /\ x \in Program[j].names
Failing(x) == x = "vertex" /\ Course.loop < pc /\ ~ran

Surviving ==
    /\ ran => Main /\ Course.loop < pc /\ Draws
    /\ Main /\ Course.loop < pc => ran \/ Labelled
    /\ Main => \A x \in live :
          x \in owned \cup NamesOf({"texture"}) \cup Remains(prog) \/ Doomed(x, pc) \/ Failing(x)
    /\ Draws /\ pc <= Course.loop => lost = {}
    /\ Draws /\ Main => lost \subseteq Stays

Released ==
    /\ Program[pc].do = "macro" /\ Alone(Program, pc) => ~lib
    /\ pc > 1 /\ ~Handler(Program[pc]) =>
          /\ Program[pc - 1].do = "terminate" => ~lib
          /\ Program[pc - 1].do = "macro" /\ Alone(Program, pc - 1) => ~lib

Prepared ==
    Draws /\ pc <= Course.loop => \A j \in 1..(pc - 1) :
        /\ Program[j].do \in Makes =>
              Program[j].names \cap Program[Course.loop].names \subseteq live \cup flawed
        /\ Program[j].do \in Builds => Program[j].names \subseteq owned \cup flawed

Left == (Labelled \/ ran => lost \subseteq Stays) /\ (lib => Keeps)

ProgramInv ==
    /\ Placed
    /\ pc # 0 => InBlocks /\ Loaded /\ Surviving /\ Released /\ Prepared
    /\ pc = 0 => Left
    /\ strays \subseteq Strays(prog)
    /\ flawed \subseteq NamesOf({"build_path"}) \cup Unnoticed(prog)
-----------------------------------------------------------------------------
(* What holds of 0 and of each next number holds of all.                   *)
LEMMA Induction ==
  ASSUME NEW T \in SUBSET Nat, 0 \in T, \A k \in T : k + 1 \in T
  PROVE  T = Nat
<1> DEFINE R == OpToRel(<, Nat)
<1> SUFFICES ASSUME Nat \ T # {} PROVE FALSE
  OBVIOUS
<1>1. IsWellFoundedOn(R, Nat)
  BY NatLessThanWellFounded
<1>2. Nat \ T \subseteq Nat
  OBVIOUS
<1> HIDE DEF R
<1>3. PICK m \in Nat \ T : \A y \in Nat \ T : ~(<<y, m>> \in R)
  BY <1>1, <1>2, WFMin
<1>4. m # 0 /\ m - 1 \in Nat
  OBVIOUS
<1>5. m - 1 \notin T
  BY <1>4
<1>6. <<m - 1, m>> \in R
  BY <1>4 DEF R, OpToRel
<1> QED
  BY <1>3, <1>4, <1>5, <1>6

(* The blocks a statement is in, by the one before it.                     *)
LEMMA Counts ==
  ASSUME NEW t, NEW k \in Nat \ {0}, NEW kind
  PROVE  /\ Cardinality(Counted(t, k, kind)) \in Nat
         /\ Cardinality(Counted(t, k + 1, kind)) =
               Cardinality(Counted(t, k, kind)) + (IF t[k].do = kind THEN 1 ELSE 0)
<1> DEFINE C == Counted(t, k, kind)
<1>1. IsFiniteSet(1..(k - 1))
  BY FS_Interval
<1>2. C \subseteq 1..(k - 1)
  BY DEF Counted
<1>3. IsFiniteSet(C) /\ Cardinality(C) \in Nat
  BY <1>1, <1>2, FS_Subset, FS_CardinalityType
<1>4. k \notin C
  BY <1>2
<1>5. Counted(t, k + 1, kind) = IF t[k].do = kind THEN C \cup {k} ELSE C
  BY DEF Counted
<1>6. Cardinality(C \cup {k}) = Cardinality(C) + 1
  BY <1>3, <1>4, FS_AddElement
<1> HIDE DEF C
<1> QED
  BY <1>3, <1>5, <1>6 DEF C

(* A block more behind a statement that opens one, one less behind its end. *)
LEMMA LevelNext ==
  ASSUME NEW t, NEW k \in Nat \ {0}
  PROVE  /\ Level(t, k) \in Int
         /\ Level(t, k + 1) = Level(t, k) + (IF t[k].do = "open" THEN 1 ELSE 0)
                                          - (IF t[k].do = "close" THEN 1 ELSE 0)
<1>1. /\ Cardinality(Counted(t, k, "open")) \in Nat
      /\ Cardinality(Counted(t, k + 1, "open")) =
            Cardinality(Counted(t, k, "open")) + (IF t[k].do = "open" THEN 1 ELSE 0)
  BY Counts
<1>2. /\ Cardinality(Counted(t, k, "close")) \in Nat
      /\ Cardinality(Counted(t, k + 1, "close")) =
            Cardinality(Counted(t, k, "close")) + (IF t[k].do = "close" THEN 1 ELSE 0)
  BY Counts
<1> QED
  BY <1>1, <1>2 DEF Level

(* The same, at each statement.                                            *)
LEMMA LevelMoves ==
  ASSUME NEW t, NEW k \in Nat \ {0}
  PROVE  /\ Level(t, k) \in Int
         /\ t[k].do = "open" => Level(t, k + 1) = Level(t, k) + 1
         /\ t[k].do = "close" => Level(t, k + 1) = Level(t, k) - 1
         /\ t[k].do \notin {"open", "close"} => Level(t, k + 1) = Level(t, k)
<1>1. CASE t[k].do = "open"
  BY <1>1, LevelNext
<1>2. CASE t[k].do = "close"
  BY <1>2, LevelNext
<1>3. CASE t[k].do \notin {"open", "close"}
  BY <1>3, LevelNext
<1> QED
  BY <1>1, <1>2, <1>3

(* No block is open at first.                                              *)
LEMMA LevelFirst == ASSUME NEW t PROVE Level(t, 1) = 0
<1>1. Counted(t, 1, "open") = {} /\ Counted(t, 1, "close") = {}
  BY DEF Counted
<1> QED
  BY <1>1, FS_EmptySet DEF Level

(* Levels that are 0 at first and go with the blocks are those of a text. *)
Nested(t, n, d) ==
    /\ d[1] = 0
    /\ \A k \in 1..(n - 1) : d[k + 1] = d[k] + (IF t[k].do = "open" THEN 1 ELSE 0)
                                             - (IF t[k].do = "close" THEN 1 ELSE 0)

LEMMA Levels ==
  ASSUME NEW t, NEW n \in Nat, NEW d, Nested(t, n, d)
  PROVE  \A k \in 1..n : Level(t, k) = d[k]
<1> DEFINE T == {i \in Nat : i + 1 \in 1..n => Level(t, i + 1) = d[i + 1]}
<1>1. 0 \in T
  BY LevelFirst DEF Nested
<1>2. ASSUME NEW i \in T PROVE i + 1 \in T
  <2>1. CASE (i + 1) + 1 \in 1..n
    <3>1. i \in Nat /\ i + 1 \in Nat \ {0} /\ i + 1 \in 1..(n - 1) /\ i + 1 \in 1..n
      BY <2>1
    <3>2. Level(t, i + 1) = d[i + 1]
      BY <3>1
    <3>3. Level(t, (i + 1) + 1) = Level(t, i + 1) + (IF t[i + 1].do = "open" THEN 1 ELSE 0)
                                         - (IF t[i + 1].do = "close" THEN 1 ELSE 0)
      BY <3>1, LevelNext
    <3>4. d[(i + 1) + 1] = d[i + 1] + (IF t[i + 1].do = "open" THEN 1 ELSE 0)
                                    - (IF t[i + 1].do = "close" THEN 1 ELSE 0)
      BY <3>1 DEF Nested
    <3> QED
      BY <3>1, <3>2, <3>3, <3>4
  <2> QED
    BY <2>1
<1> HIDE DEF T
<1>3. T \in SUBSET Nat
  BY DEF T
<1>4. T = Nat
  BY <1>1, <1>2, <1>3, Induction
<1> QED
  <2> SUFFICES ASSUME NEW k \in 1..n PROVE Level(t, k) = d[k]
    OBVIOUS
  <2>1. k - 1 \in T /\ (k - 1) + 1 = k
    BY <1>4
  <2> QED
    BY <2>1 DEF T
-----------------------------------------------------------------------------
Fit == Fits(prog)

(* Nothing makes a program another. *)
LEMMA Same ==
  ASSUME prog' = prog
  PROVE  /\ Program' = Program /\ Course' = Course /\ Draws' = Draws /\ Labelled' = Labelled
         /\ Strays(prog)' = Strays(prog) /\ Remains(prog)' = Remains(prog)
         /\ Unnoticed(prog)' = Unnoticed(prog) /\ Fit' = Fit
         /\ \A K : NamesOf(K)' = NamesOf(K)
<1>1. Program' = Program /\ Course' = Course
  BY DEF Program, Course
<1> QED
  BY <1>1 DEF Draws, Labelled, Strays, Remains, Unnoticed, Fit, NamesOf, Doing

(* What is known of a program that fits, piece by piece.                   *)
LEMMA Bearings ==
  ASSUME Fit
  PROVE  /\ Len(Program) \in Nat /\ DOMAIN Program = 1..Len(Program)
         /\ Course.first \in Nat \ {0} /\ Course.last \in Nat
         /\ Course.exit \in 1..Len(Program) /\ Course.loop \in 1..Course.exit
         /\ Course.last < Course.exit
         /\ Shaped(Program, Course) /\ InContext(Program, Course, Strays(prog))
         /\ Caught(Program) /\ Ahead(Program, Course, Strays(prog)) /\ Unwound(Program, Course)
         /\ InBlock(Program, Course, Strays(prog) \cap Remains(prog))
         /\ Deletes(Program, Course, Remains(prog))
         /\ Prepares(Program, Course, Unnoticed(prog)) /\ Returns(Program, Course, prog)
BY DEF Fit, Fits, Program, Course, Shaped

(* The blocks a goto leaves are counted as those of the text are.          *)
LEMMA Depths == ASSUME NEW i PROVE Depth(i) = Level(Program, i)
BY DEF Depth, Level, Counted, Program

(* A statement that is not a return comes to the next one.                 *)
LEMMA Onward ==
  ASSUME Fit, pc \in 1..Len(Program), Program[pc].do # "return"
  PROVE  /\ pc + 1 \in 1..Len(Program)
         /\ pc + 1 <= Course.exit <=> pc <= Course.exit
         /\ Using(Course, pc + 1) => Using(Course, pc) \/ Program[pc].do = "glad"
         /\ Program[pc].do = "glad" => pc + 1 = Course.first
         /\ pc = Course.loop => Program[pc].do = "loop"
         /\ Using(Course, pc) => pc < Course.exit
<1>1. pc # Len(Program) /\ pc # Course.exit
  BY Bearings DEF Shaped
<1>2. pc + 1 \in 1..Len(Program) /\ (pc + 1 <= Course.exit <=> pc <= Course.exit)
  <2>1. Len(Program) \in Nat /\ Course.exit \in Nat
    BY Bearings
  <2> QED
    BY <1>1, <2>1
<1>3. Using(Course, pc + 1) => Using(Course, pc) \/ Program[pc].do = "glad"
  BY Bearings DEF Using, InContext
<1>4. Program[pc].do = "glad" => pc + 1 = Course.first
  BY Bearings DEF InContext
<1>5. pc = Course.loop => Program[pc].do = "loop"
  BY <1>1, Bearings DEF Shaped
<1>6. Using(Course, pc) => pc < Course.exit
  BY Bearings DEF Using
<1> QED
  BY <1>2, <1>3, <1>4, <1>5, <1>6

(* A failure comes to the next statement or to one that deals with it.     *)
LEMMA Failed ==
  ASSUME Fit, pc \in 1..Len(Program), ~Handler(Program[pc]), NEW M, NEW C, Fail(M, C)
  PROVE  \/ Program[pc].err = "none" /\ Go(M, C)
         \/ /\ LeadsTo(Program, pc, pc')
            /\ LeaveTo(IF Program[pc'].do = "label" THEN Level(Program, pc') ELSE Len(scope), M, C)
<1> DEFINE h == CHOOSE k \in DOMAIN Program :
                   Program[k].do \in {"label", "macro"} /\ Program[k].err = Program[pc].err
<1>1. CASE Program[pc].err = "none"
  BY <1>1 DEF Fail, Here, Program
<1>2. CASE Program[pc].err # "none"
  <2>1. pc' = h /\ LeaveTo(IF Program[h].do = "label" THEN Depth(h) ELSE Len(scope), M, C)
    BY <1>2 DEF Fail, Here, Program
  <2>2. \E k \in DOMAIN Program :
           Program[k].do \in {"label", "macro"} /\ Program[k].err = Program[pc].err
    BY <1>2, Bearings DEF Caught, LeadsTo, Handler
  <2>3. h \in DOMAIN Program /\ Program[h].do \in {"label", "macro"} /\ Program[h].err = Program[pc].err
    BY <2>2
  <2> HIDE DEF h
  <2>4. LeadsTo(Program, pc, h)
    BY <1>2, <2>3, Bearings DEF LeadsTo, Handler
  <2> QED
    BY <2>1, <2>4, Depths
<1> QED
  BY <1>1, <1>2

(* Leaving all but n blocks. *)
LEMMA Leaving ==
  ASSUME Placed, NEW n \in 0..Len(scope), NEW M, NEW C, LeaveTo(n, M, C), prog' = prog,
         \A x \in owned : \E i \in 1..Len(scope) : x \in scope[i]
  PROVE  /\ scope' \in Seq(SUBSET NamesOf({"open"})) /\ Len(scope') = n
         /\ \A i \in 1..n : scope'[i] = scope[i]
         /\ owned' \subseteq owned /\ \A x \in owned' : \E i \in 1..n : x \in scope'[i]
         /\ live' \subseteq live \cup M /\ (gl # "ready" => live' \subseteq live)
         /\ gl = "ready" => M \subseteq live'
         /\ \A x \in live' \cap owned : x \in owned' \/ x \in M
         /\ live \ owned \subseteq live'
         /\ gl = "ready" => strays' = strays
         /\ strays' \subseteq strays \cup C \cup owned
         /\ n = Len(scope) => owned' = owned /\ live \subseteq live' /\ strays' \subseteq strays \cup C
<1> DEFINE gone == owned \cap UNION {scope[k] : k \in (n + 1)..Len(scope)}
           N == SUBSET NamesOf({"open"})
<1>1. /\ scope' = SubSeq(scope, 1, n)
      /\ live' = (live \ gone) \cup IF gl = "ready" THEN M ELSE {}
      /\ owned' = owned \ gone
      /\ strays' = strays \cup IF gl = "ready" THEN {} ELSE (gone \cup C)
  BY DEF LeaveTo, Calls
<1>2. scope \in Seq(N) /\ Len(scope) \in Nat
  BY DEF Placed
<1> HIDE DEF N
<1>3. scope' \in Seq(N) /\ Len(scope') = n /\ \A i \in 1..n : scope'[i] = scope[i]
  <2>1. 1 \in Int /\ n \in Int /\ n <= Len(scope)
    BY <1>2
  <2> QED
    BY <1>1, <1>2, <2>1, SubSeqProperties
<1>4. \A x \in owned' : \E i \in 1..n : x \in scope'[i]
  <2> SUFFICES ASSUME NEW x \in owned' PROVE \E i \in 1..n : x \in scope'[i]
    OBVIOUS
  <2>1. x \in owned /\ x \notin UNION {scope[k] : k \in (n + 1)..Len(scope)}
    BY <1>1
  <2>2. PICK i \in 1..Len(scope) : x \in scope[i]
    BY <2>1
  <2>3. i \notin (n + 1)..Len(scope)
    BY <2>1, <2>2
  <2> QED
    BY <1>2, <1>3, <2>2, <2>3
<1>5. n = Len(scope) => gone = {}
  BY <1>2
<1> HIDE DEF gone
<1>6. gone \subseteq owned
  BY DEF gone
<1> QED
  BY <1>1, <1>3, <1>4, <1>5, <1>6 DEF N
-----------------------------------------------------------------------------
(* A block the program is in has its objects where its level says.         *)
LEMMA Inner ==
  ASSUME Fit, Placed, pc # 0, InBlocks, Main, NEW j \in 1..(pc - 1), Inside(Program, j, pc)
  PROVE  /\ Level(Program, j) + 1 \in 1..Len(scope)
         /\ Program[j].do = "open" => scope[Level(Program, j) + 1] = Program[j].names
<1>1. /\ pc \in 1..Len(Program) /\ Len(Program) \in Nat /\ j \in 1..Len(Program)
      /\ j <= Course.exit /\ Course.exit \in Nat /\ Len(scope) = Level(Program, pc)
  BY Bearings DEF Placed, Main, InBlocks
<1>2. Level(Program, j) < Level(Program, pc) /\ Level(Program, j) >= 0
  BY <1>1, Bearings DEF Inside, InBlock
<1>3. Level(Program, j) \in Int /\ Level(Program, pc) \in Int
  BY <1>1, LevelMoves
<1> QED
  BY <1>1, <1>2, <1>3 DEF InBlocks

(* The blocks are kept by a statement that enters and leaves none.         *)
LEMMA BlocksNext ==
  ASSUME Fit, Placed, pc # 0, InBlocks, prog' = prog, pc' = pc + 1,
         Program[pc].do \notin {"open", "close", "return"},
         Len(scope') = Len(scope), \A i \in 1..Len(scope) : scope'[i] = scope[i],
         \A x \in owned' : x \in owned \/ (Program[pc].do \in Obtains /\ x \in Program[pc].names)
  PROVE  InBlocks'
<1>1. /\ pc \in Nat \ {0} /\ pc \in 1..Len(Program) /\ Len(Program) \in Nat
      /\ Course.exit \in Nat /\ Len(scope) \in Nat
  BY Bearings DEF Placed
<1>2. /\ pc + 1 \in 1..Len(Program) /\ (Main' <=> Main) /\ Program' = Program
      /\ Strays(prog)' = Strays(prog)
  BY <1>1, Onward, Same DEF Main
<1>3. ~Main' => Program[pc + 1].do # "close"
  <2> SUFFICES ASSUME ~Main PROVE Program[pc + 1].do # "close"
    BY <1>2
  <2>1. pc + 1 # Course.exit + 1 /\ pc + 1 > Course.exit
    BY <1>1 DEF Main
  <2> QED
    BY <1>2, <2>1, Bearings DEF Shaped
<1>4. Level(Program, pc + 1) = Level(Program, pc) /\ Level(Program, pc) \in Int
  BY <1>1, LevelMoves
<1>5. Main' => \A j \in 1..(pc' - 1) : Program[j].do = "open" /\ Inside(Program, j, pc')
                   => scope'[Level(Program, j) + 1] = Program[j].names
  <2> SUFFICES ASSUME Main, NEW j \in 1..pc, Program[j].do = "open", Inside(Program, j, pc + 1)
               PROVE  scope'[Level(Program, j) + 1] = Program[j].names
    BY <1>1, <1>2
  <2>1. j \in 1..(pc - 1)
    BY <1>1
  <2>2. Inside(Program, j, pc)
    BY <1>1, <2>1 DEF Inside
  <2> QED
    BY <2>1, <2>2, Inner
<1>6. ASSUME NEW x \in owned', x \notin owned
      PROVE  Main /\ \E i \in 1..Len(scope') : x \in scope'[i]
  <2>1. Program[pc].do \in Obtains /\ x \in Program[pc].names
    BY <1>6
  <2>2. Main
    <3>1. Program[pc].do \notin {"macro", "close"} \cup Ends
      BY <2>1 DEF Obtains, Builds, Ends
    <3>2. pc > Course.exit => Program[pc].do \in {"macro", "close"} \cup Ends
      BY <1>1, Bearings DEF Shaped
    <3>3. pc <= Course.exit \/ pc > Course.exit
      BY <1>1
    <3> QED
      BY <3>1, <3>2, <3>3 DEF Main
  <2>3. PICK j \in 1..(pc - 1) :
           Program[j].do = "open" /\ Inside(Program, j, pc) /\ Program[pc].names \subseteq Program[j].names
    BY <1>1, <2>1, Bearings DEF InBlock
  <2>4. /\ Level(Program, j) + 1 \in 1..Len(scope)
        /\ scope[Level(Program, j) + 1] = Program[j].names
    BY <2>2, <2>3, Inner
  <2> QED
    BY <2>1, <2>2, <2>3, <2>4
<1>7. \A x \in owned' : \E i \in 1..Len(scope') : x \in scope'[i]
  BY <1>6 DEF InBlocks
<1>8. Main' => \A x \in owned' : \E j \in 1..(pc' - 1) :
          Program[j].do \in Obtains /\ x \in Program[j].names
  <2> SUFFICES ASSUME Main, NEW x \in owned'
               PROVE  \E j \in 1..pc : Program[j].do \in Obtains /\ x \in Program[j].names
    BY <1>1, <1>2
  <2>1. CASE x \in owned
    BY <1>1, <2>1 DEF InBlocks
  <2> QED
    BY <1>1, <2>1
<1>9. ~Main' => owned' \subseteq Strays(prog)
  BY <1>2, <1>6 DEF InBlocks
<1>10. Main' => Len(scope') = Level(Program, pc')
  BY <1>2, <1>4 DEF InBlocks
<1> QED
  BY <1>2, <1>3, <1>5, <1>7, <1>8, <1>9, <1>10 DEF InBlocks

(* They are kept by entering one.                                          *)
LEMMA BlocksEnter ==
  ASSUME Fit, Placed, pc # 0, InBlocks, prog' = prog, pc' = pc + 1, Program[pc].do = "open",
         scope' = Append(scope, Program[pc].names), owned' = owned
  PROVE  InBlocks'
<1>1. /\ pc \in Nat \ {0} /\ pc \in 1..Len(Program) /\ Len(Program) \in Nat
      /\ Course.exit \in Nat /\ Len(scope) \in Nat
      /\ scope \in Seq(SUBSET NamesOf({"open"}))
  BY Bearings DEF Placed
<1>2. /\ pc + 1 \in 1..Len(Program) /\ (Main' <=> Main) /\ Program' = Program
      /\ Strays(prog)' = Strays(prog)
  BY <1>1, Onward, Same DEF Main
<1>3. Main
  BY <1>1, Bearings DEF Main, Shaped, Ends
<1>4. /\ Len(scope') = Len(scope) + 1 /\ scope'[Len(scope) + 1] = Program[pc].names
      /\ \A i \in 1..Len(scope) : scope'[i] = scope[i]
  BY <1>1
<1>5. /\ Level(Program, pc + 1) = Level(Program, pc) + 1 /\ Level(Program, pc) \in Int
      /\ Len(scope) = Level(Program, pc)
  BY <1>1, <1>3, LevelMoves DEF InBlocks
<1>6. ASSUME NEW j \in 1..pc, Program[j].do = "open", Inside(Program, j, pc + 1)
      PROVE  scope'[Level(Program, j) + 1] = Program[j].names
  <2>1. CASE j = pc
    BY <2>1, <1>4, <1>5
  <2>2. CASE j \in 1..(pc - 1)
    <3>1. Inside(Program, j, pc)
      BY <1>1, <1>6, <2>2 DEF Inside
    <3> QED
      BY <1>3, <1>4, <1>6, <2>2, <3>1, Inner
  <2>3. j = pc \/ j \in 1..(pc - 1)
    BY <1>1
  <2> QED
    BY <2>1, <2>2, <2>3
<1>7. \A x \in owned' : \E i \in 1..Len(scope') : x \in scope'[i]
  BY <1>1, <1>4 DEF InBlocks
<1>8. \A x \in owned' : \E j \in 1..(pc' - 1) :
          Program[j].do \in Obtains /\ x \in Program[j].names
  BY <1>1, <1>3 DEF InBlocks
<1>9. \A j \in 1..(pc' - 1) : Program[j].do = "open" /\ Inside(Program, j, pc')
                   => scope'[Level(Program, j) + 1] = Program[j].names
  <2>1. pc' - 1 = pc /\ pc' = pc + 1
    BY <1>1
  <2> QED
    BY <1>6, <2>1
<1> QED
  BY <1>2, <1>3, <1>4, <1>5, <1>7, <1>8, <1>9 DEF InBlocks

(* There is a block to leave. *)
LEMMA Closes ==
  ASSUME Fit, Placed, pc # 0, InBlocks, Program[pc].do = "close"
  PROVE  Main /\ Len(scope) - 1 \in 0..Len(scope) /\ Level(Program, pc + 1) = Len(scope) - 1
<1>1. /\ pc \in Nat \ {0} /\ pc \in 1..Len(Program) /\ Len(Program) \in Nat
      /\ Course.exit \in Nat /\ Len(scope) \in Nat
  BY Bearings DEF Placed
<1>2. Main
  BY DEF InBlocks
<1>3. pc + 1 \in 1..Len(Program) /\ pc + 1 <= Course.exit
  BY <1>1, <1>2, Onward DEF Main
<1>4. Level(Program, pc + 1) = Level(Program, pc) - 1 /\ Level(Program, pc) \in Int
  BY <1>1, LevelMoves
<1>5. Level(Program, pc + 1) >= 0
  BY <1>3, Bearings DEF InBlock
<1> QED
  BY <1>1, <1>2, <1>4, <1>5 DEF InBlocks

(* They are kept by leaving one.                                           *)
LEMMA BlocksLeave ==
  ASSUME Fit, Placed, pc # 0, InBlocks, prog' = prog, pc' = pc + 1, Program[pc].do = "close",
         Len(scope') = Len(scope) - 1, \A i \in 1..(Len(scope) - 1) : scope'[i] = scope[i],
         owned' \subseteq owned, \A x \in owned' : \E i \in 1..(Len(scope) - 1) : x \in scope'[i]
  PROVE  InBlocks'
<1>1. /\ pc \in Nat \ {0} /\ pc \in 1..Len(Program) /\ Len(Program) \in Nat
      /\ Course.exit \in Nat /\ Len(scope) \in Nat
  BY Bearings DEF Placed
<1>2. /\ pc + 1 \in 1..Len(Program) /\ (Main' <=> Main) /\ Program' = Program
      /\ Strays(prog)' = Strays(prog)
  BY <1>1, Onward, Same DEF Main
<1>3. Main /\ Level(Program, pc + 1) = Len(scope) - 1
  BY Closes
<1>4. ASSUME NEW j \in 1..pc, Program[j].do = "open", Inside(Program, j, pc + 1)
      PROVE  scope'[Level(Program, j) + 1] = Program[j].names
  <2>1. j \in 1..(pc - 1) /\ Inside(Program, j, pc)
    BY <1>1, <1>4 DEF Inside
  <2>2. Level(Program, j) < Len(scope) - 1
    BY <1>1, <1>3, <1>4 DEF Inside
  <2>3. /\ Level(Program, j) + 1 \in 1..Len(scope)
        /\ scope[Level(Program, j) + 1] = Program[j].names
    BY <1>3, <1>4, <2>1, Inner
  <2>4. Level(Program, j) \in Int
    BY <1>1, LevelMoves
  <2>5. Level(Program, j) + 1 \in 1..(Len(scope) - 1)
    BY <1>1, <2>2, <2>3, <2>4
  <2> QED
    BY <2>3, <2>5
<1>5. \A x \in owned' : \E j \in 1..(pc' - 1) :
          Program[j].do \in Obtains /\ x \in Program[j].names
  <2>1. pc' - 1 = pc
    BY <1>1
  <2>2. ASSUME NEW x \in owned
        PROVE  \E j \in 1..pc : Program[j].do \in Obtains /\ x \in Program[j].names
    <3>1. PICK j \in 1..(pc - 1) : Program[j].do \in Obtains /\ x \in Program[j].names
      BY <1>3 DEF InBlocks
    <3>2. j \in 1..pc
      BY <1>1
    <3> QED
      BY <3>1, <3>2
  <2> QED
    BY <2>1, <2>2
<1>6. \A j \in 1..(pc' - 1) : Program[j].do = "open" /\ Inside(Program, j, pc')
                   => scope'[Level(Program, j) + 1] = Program[j].names
  <2>1. pc' - 1 = pc /\ pc' = pc + 1
    BY <1>1
  <2> QED
    BY <1>4, <2>1
<1> QED
  BY <1>2, <1>3, <1>5, <1>6 DEF InBlocks

(* They are kept by a failure, which may leave several.                    *)
LEMMA BlocksJump ==
  ASSUME Fit, Placed, pc # 0, InBlocks, prog' = prog, NEW h \in 1..Len(Program),
         pc' = h, LeadsTo(Program, pc, h), NEW n \in 0..Len(scope),
         n = IF Program[h].do = "label" THEN Level(Program, h) ELSE Len(scope),
         Len(scope') = n, \A i \in 1..n : scope'[i] = scope[i],
         owned' \subseteq owned, \A x \in owned' : \E i \in 1..n : x \in scope'[i]
  PROVE  InBlocks'
<1>1. /\ pc \in 1..Len(Program) /\ h \in 1..Len(Program) /\ Len(Program) \in Nat
      /\ Course.exit \in Nat /\ Len(scope) \in Nat
  BY Bearings DEF Placed, LeadsTo
<1>2. /\ pc < h /\ pc < Course.loop /\ Course.loop <= Course.exit /\ Course.loop \in Nat
      /\ Program[h].do \in {"label", "macro"}
      /\ Program[h].do = "label" => h < Course.exit
      /\ Program[h].do = "macro" => Course.exit < h /\ Only(Program, pc, Strays(prog))
  BY <1>1, Bearings DEF Ahead, LeadsTo, Handler
<1>3. Main /\ Program' = Program /\ Strays(prog)' = Strays(prog)
  BY <1>1, <1>2, Same DEF Main
<1>4. CASE Program[h].do = "label"
  <2>1. Main' /\ Len(scope') = Level(Program, h) /\ n = Level(Program, h)
    BY <1>1, <1>2, <1>4, Same DEF Main
  <2>2. ASSUME NEW j \in 1..(h - 1), Program[j].do = "open", Inside(Program, j, h)
        PROVE  scope'[Level(Program, j) + 1] = Program[j].names
    <3>1. j \in 1..(pc - 1)
      <4>1. j \notin pc..(h - 1)
        BY <1>1, <1>4, <2>2, Bearings DEF Unwound
      <4> QED
        BY <1>1, <4>1
    <3>2. Inside(Program, j, pc)
      BY <1>1, <1>2, <2>2 DEF Inside
    <3>3. /\ Level(Program, j) + 1 \in 1..Len(scope)
          /\ scope[Level(Program, j) + 1] = Program[j].names
      BY <1>3, <2>2, <3>1, <3>2, Inner
    <3>4. Level(Program, j) < n
      BY <1>1, <2>1, <2>2 DEF Inside
    <3>5. Level(Program, j) \in Int
      BY <1>1, LevelMoves
    <3>6. Level(Program, j) + 1 \in 1..n
      BY <1>1, <3>3, <3>4, <3>5
    <3> QED
      BY <3>3, <3>6
  <2>3. \A x \in owned' : \E j \in 1..(h - 1) :
            Program[j].do \in Obtains /\ x \in Program[j].names
    <3> SUFFICES ASSUME NEW x \in owned'
                 PROVE  \E j \in 1..(h - 1) : Program[j].do \in Obtains /\ x \in Program[j].names
      OBVIOUS
    <3>1. PICK j \in 1..(pc - 1) : Program[j].do \in Obtains /\ x \in Program[j].names
      BY <1>3 DEF InBlocks
    <3>2. j \in 1..(h - 1)
      BY <1>1, <1>2
    <3> QED
      BY <3>1, <3>2
  <2> QED
    BY <1>3, <2>1, <2>2, <2>3 DEF InBlocks
<1>5. CASE Program[h].do = "macro"
  <2>1. ~Main' /\ Program[h].do # "close"
    BY <1>1, <1>2, <1>3, <1>5, Same DEF Main
  <2>2. owned' \subseteq Strays(prog)
    BY <1>2, <1>3, <1>5 DEF InBlocks, Only
  <2> QED
    BY <1>3, <2>1, <2>2 DEF InBlocks
<1> QED
  BY <1>2, <1>4, <1>5
-----------------------------------------------------------------------------
(* What calls GL has it, but for the calls that are known.                 *)
LEMMA Calling ==
  ASSUME Fit, Placed, pc # 0, InBlocks, Loaded
  PROVE  \/ gl = "ready"
         \/ /\ owned \subseteq Strays(prog)
            /\ Program[pc].do \in Uses => Program[pc].do \in {"call", "loop"} \cap Strays(prog)
<1>1. pc \in 1..Len(Program) /\ Len(Program) \in Nat /\ Course.exit \in Nat /\ Len(scope) \in Nat
  BY Bearings DEF Placed
<1>2. CASE Using(Course, pc)
  BY <1>2 DEF Loaded
<1>3. CASE ~Using(Course, pc)
  <2>1. owned \subseteq Strays(prog)
    <3>1. CASE ~Main
      BY <3>1 DEF InBlocks
    <3>2. CASE Main /\ pc < Course.first
      BY <3>2 DEF Loaded
    <3>3. CASE Main /\ Course.last < pc
      <4>1. Level(Program, pc) = 0 \/ Only(Program, pc, Strays(prog) \cap Remains(prog))
        BY <1>1, <3>3, Bearings DEF InBlock, Main
      <4>2. CASE Level(Program, pc) = 0
        BY <3>3, <4>2 DEF InBlocks
      <4>3. CASE Only(Program, pc, Strays(prog) \cap Remains(prog))
        BY <3>3, <4>3 DEF InBlocks, Only
      <4> QED
        BY <4>1, <4>2, <4>3
    <3> QED
      BY <1>1, <1>3, <3>1, <3>2, <3>3, Bearings DEF Using
  <2>2. Program[pc].do \in Uses => Program[pc].do \in {"call", "loop"} \cap Strays(prog)
    <3>1. ~(pc = Course.exit + 1 /\ Program[pc].do = "close")
      BY <1>1, Bearings DEF InBlocks, Main
    <3> QED
      BY <1>1, <1>3, <3>1, Bearings DEF InContext
  <2> QED
    BY <2>1, <2>2
<1> QED
  BY <1>2, <1>3

(* A statement that puts a name somewhere is one that uses GL.             *)
LEMMA Naming ==
  ASSUME Fit, Placed, pc # 0, Program[pc].do \in Uses, NEW x \in Program[pc].names
  PROVE  Using(Course, pc) \/ Program[pc].do = "close"
<1>1. pc \in 1..Len(Program)
  BY DEF Placed
<1> QED
  BY <1>1, Bearings DEF InContext

(* What a statement may add to what there is.                              *)
Adds(x) == Program[pc].do \in Uses \ {"close"} /\ x \in Program[pc].names

(* The context is kept by a statement that comes to the next one.          *)
LEMMA LoadedNext ==
  ASSUME Fit, Placed, pc # 0, Loaded, prog' = prog, pc' = pc + 1, Program[pc].do # "return",
         gl' = gl \/ gl' = "ready" \/ Program[pc].do \in {"window", "linked", "destroy", "terminate"},
         Program[pc].do = "glad" => gl' = "ready",
         \A x \in held' : x \in held \/ Adds(x),
         \A x \in live' : x \in live \/ Adds(x),
         \A x \in owned' : x \in owned \/ Adds(x),
         \A x \in held' \ live' :
            \/ x \in held \ live \/ x \in NamesOf({"open"})
            \/ Program[pc].do = "delete" /\ x \in Program[pc].names
            \/ gl # "ready" \/ Program[pc].do \in Ends
  PROVE  Loaded'
<1>1. pc \in Nat \ {0} /\ pc \in 1..Len(Program) /\ Len(Program) \in Nat /\ Course.first \in Nat
  BY Bearings DEF Placed
<1>2. /\ pc + 1 \in 1..Len(Program) /\ (Main' <=> Main)
      /\ Program' = Program /\ Course' = Course
      /\ Using(Course, pc + 1) => Using(Course, pc) \/ Program[pc].do = "glad"
      /\ Program[pc].do = "glad" => pc + 1 = Course.first
  BY <1>1, Onward, Same DEF Main
<1>3. \A x : Adds(x) => Using(Course, pc)
  BY Naming DEF Adds
<1>4. Using(Course, pc') => gl' = "ready"
  <2>1. Using(Course, pc) =>
           Program[pc].do \notin {"window", "linked", "destroy", "terminate", "glad", "return"}
    BY <1>1, Bearings DEF InContext, Uses
  <2> QED
    BY <1>2, <2>1 DEF Loaded
<1>5. Main' /\ pc' < Course.first => held' = {} /\ live' = {} /\ owned' = {}
  <2> SUFFICES ASSUME Main, pc + 1 < Course.first PROVE held' = {} /\ live' = {} /\ owned' = {}
    BY <1>2
  <2>1. pc < Course.first
    BY <1>1
  <2>2. held = {} /\ live = {} /\ owned = {}
    BY <2>1 DEF Loaded
  <2>3. ~Using(Course, pc)
    BY <2>1, <1>1 DEF Using
  <2> QED
    BY <1>3, <2>2, <2>3
<1>6. Using(Course, pc') => \A x \in held' \ live' : \E j \in 1..Len(Program) :
          /\ x \in Program[j].names
          /\ Program[j].do = "open" \/ (Program[j].do = "delete" /\ j < pc + 1)
  <2> SUFFICES ASSUME Using(Course, pc + 1), NEW x \in held' \ live'
               PROVE  \E j \in 1..Len(Program) :
                         /\ x \in Program[j].names
                         /\ Program[j].do = "open" \/ (Program[j].do = "delete" /\ j < pc + 1)
    BY <1>2
  <2>1. CASE Program[pc].do = "glad"
    <3>1. pc < Course.first /\ Main
      BY <1>1, <1>2, <2>1, Bearings DEF Main, Shaped, Ends
    <3>2. x \notin held
      BY <3>1 DEF Loaded
    <3>3. ~Adds(x)
      BY <2>1 DEF Adds, Uses
    <3> QED
      BY <3>2, <3>3
  <2>2. CASE Using(Course, pc)
    <3>1. gl = "ready" /\ Program[pc].do \notin Ends
      BY <1>1, <2>2, Bearings DEF Loaded, InContext, Uses, Ends
    <3>2. CASE x \in held \ live
      <4>1. PICK j \in 1..Len(Program) :
               /\ x \in Program[j].names
               /\ Program[j].do = "open" \/ (Program[j].do = "delete" /\ j < pc)
        BY <2>2, <3>2 DEF Loaded
      <4>2. j < pc => j < pc + 1
        BY <1>1
      <4> QED
        BY <4>1, <4>2
    <3>3. CASE x \in NamesOf({"open"})
      <4>1. \E j \in DOMAIN Program : Program[j].do = "open" /\ x \in Program[j].names
        BY <3>3 DEF NamesOf, Doing, Program
      <4> QED
        BY <4>1, Bearings
    <3>4. CASE Program[pc].do = "delete" /\ x \in Program[pc].names
      <4>1. pc < pc + 1
        BY <1>1
      <4> QED
        BY <1>1, <3>4, <4>1
    <3> QED
      BY <3>1, <3>2, <3>3, <3>4
  <2> QED
    BY <1>2, <2>1, <2>2
<1> QED
  BY <1>2, <1>4, <1>5, <1>6 DEF Loaded

(* It is kept by a failure.                                                *)
LEMMA LoadedJump ==
  ASSUME Fit, Placed, pc # 0, Loaded, prog' = prog, NEW h \in 1..Len(Program), pc' = h,
         LeadsTo(Program, pc, h), gl' = gl, Program[pc].do \notin {"call", "loop", "close"},
         Program[pc].do \notin Uses => held' = held /\ live' = live /\ owned' = owned,
         \A x \in held' \ live' : x \in held \ live \/ x \in NamesOf({"open"}) \/ gl # "ready"
  PROVE  Loaded'
<1>1. /\ pc \in 1..Len(Program) /\ Len(Program) \in Nat /\ Course.first \in Nat
      /\ Course.exit \in Nat /\ Course.loop \in Nat /\ Course.loop <= Course.exit
  BY Bearings DEF Placed
<1>2. /\ pc < h /\ pc < Course.loop
      /\ Using(Course, h) => Using(Course, pc)
      /\ Program' = Program /\ Course' = Course
  BY <1>1, Bearings, Same DEF Ahead
<1>3. Main' /\ pc' < Course.first => held' = {} /\ live' = {} /\ owned' = {}
  <2> SUFFICES ASSUME h < Course.first PROVE held' = {} /\ live' = {} /\ owned' = {}
    BY <1>2
  <2>1. pc < Course.first /\ Main
    BY <1>1, <1>2 DEF Main
  <2>2. Program[pc].do \notin Uses
    <3>1. ~Using(Course, pc) /\ pc # Course.exit + 1
      BY <1>1, <1>2, <2>1 DEF Using
    <3> QED
      BY <1>1, <3>1, Bearings DEF InContext
  <2> QED
    BY <2>1, <2>2 DEF Loaded
<1>4. Using(Course, h) => \A x \in held' \ live' : \E j \in 1..Len(Program) :
          /\ x \in Program[j].names
          /\ Program[j].do = "open" \/ (Program[j].do = "delete" /\ j < h)
  <2> SUFFICES ASSUME Using(Course, h), NEW x \in held' \ live'
               PROVE  \E j \in 1..Len(Program) :
                         /\ x \in Program[j].names
                         /\ Program[j].do = "open" \/ (Program[j].do = "delete" /\ j < h)
    OBVIOUS
  <2>1. Using(Course, pc) /\ gl = "ready"
    BY <1>2 DEF Loaded
  <2>2. CASE x \in held \ live
    <3>1. PICK j \in 1..Len(Program) :
             /\ x \in Program[j].names
             /\ Program[j].do = "open" \/ (Program[j].do = "delete" /\ j < pc)
      BY <2>1, <2>2 DEF Loaded
    <3>2. j < pc => j < h
      BY <1>1, <1>2
    <3> QED
      BY <3>1, <3>2
  <2>3. CASE x \in NamesOf({"open"})
    <3>1. \E j \in DOMAIN Program : Program[j].do = "open" /\ x \in Program[j].names
      BY <2>3 DEF NamesOf, Doing, Program
    <3> QED
      BY <3>1, Bearings
  <2> QED
    BY <2>1, <2>2, <2>3
<1> QED
  BY <1>2, <1>3, <1>4 DEF Loaded
-----------------------------------------------------------------------------
(* What lives where GL goes stays, as is known. *)
LEMMA Remaining ==
  ASSUME Fit, Placed, pc # 0, InBlocks, Loaded, Surviving, Main, Draws, Program[pc].do \in Ends
  PROVE  /\ owned \subseteq Remains(prog) /\ live \subseteq Stays /\ lost \subseteq Stays
<1>1. pc \in 1..Len(Program) /\ Len(Program) \in Nat /\ Course.exit \in Nat /\ Len(scope) \in Nat
  BY Bearings DEF Placed
<1>2. Course.loop < pc /\ \A j \in pc..Len(Program) : Program[j].do # "delete"
  BY <1>1, Bearings DEF Deletes, Main, Draws
<1>3. CASE pc < Course.first
  BY <1>3 DEF Loaded, Surviving
<1>4. CASE Course.last < pc
  <2>1. owned \subseteq Remains(prog)
    <3>1. Level(Program, pc) = 0 \/ Only(Program, pc, Strays(prog) \cap Remains(prog))
      BY <1>1, <1>4, Bearings DEF InBlock, Main
    <3>2. CASE Level(Program, pc) = 0
      BY <3>2 DEF InBlocks
    <3>3. CASE Only(Program, pc, Strays(prog) \cap Remains(prog))
      BY <3>3 DEF InBlocks, Only
    <3> QED
      BY <3>1, <3>2, <3>3
  <2>2. Remains(prog) \subseteq Stays /\ NamesOf({"texture"}) \subseteq Stays
    BY DEF Stays, Remains
  <2>3. ~ran => "vertex" \in Stays
    BY DEF Stays
  <2>4. ASSUME NEW x \in live PROVE x \in Stays
    <3>1. ~Doomed(x, pc)
      BY <1>2 DEF Doomed
    <3> QED
      BY <2>1, <2>2, <2>3, <3>1 DEF Surviving, Failing
  <2> QED
    BY <2>1, <2>4 DEF Surviving
<1>5. ~Using(Course, pc)
  BY <1>1, Bearings DEF InContext, Uses, Ends
<1> QED
  BY <1>1, <1>3, <1>4, <1>5, Bearings DEF Using

(* What is known to stay depends on nothing else.                          *)
LEMMA StaysSame == ASSUME prog' = prog, ran' = ran PROVE Stays' = Stays
BY Same DEF Stays

(* No name is forgotten by a statement that comes to the next one.         *)
LEMMA SurvivingNext ==
  ASSUME Fit, Placed, pc # 0, InBlocks, Loaded, Surviving,
         prog' = prog, pc' = pc + 1, Program[pc].do # "return",
         IF Program[pc].do = "loop" THEN ran' = TRUE ELSE ran' = ran,
         \A x \in live' :
            \/ /\ x \in live /\ (x \in owned => x \in owned')
               /\ Program[pc].do = "delete" => x \notin Program[pc].names
            \/ x \in owned'
            \/ Program[pc].do \in {"gen", "compile", "texture"} /\ x \in Program[pc].names,
         lost' = lost \/ (Program[pc].do \in Ends /\ lost' = lost \cup live)
  PROVE  Surviving'
<1>1. /\ pc \in Nat \ {0} /\ pc \in 1..Len(Program) /\ Len(Program) \in Nat
      /\ Course.exit \in Nat /\ Course.loop \in Nat /\ ran \in BOOLEAN
  BY Bearings DEF Placed
<1>2. /\ pc + 1 \in 1..Len(Program) /\ (Main' <=> Main)
      /\ Program' = Program /\ Course' = Course /\ Draws' = Draws /\ Labelled' = Labelled
      /\ Remains(prog)' = Remains(prog) /\ NamesOf({"texture"})' = NamesOf({"texture"})
      /\ pc = Course.loop => Program[pc].do = "loop"
  BY <1>1, Onward, Same DEF Main
<1>3. Program[pc].do = "loop" => pc = Course.loop /\ Main /\ Draws
  BY <1>1, Bearings DEF Shaped, Main, Draws
<1>4. /\ ran' => Main' /\ Course.loop < pc + 1 /\ Draws
      /\ Main' /\ Course.loop < pc + 1 => ran' \/ Labelled
  <2>1. CASE Program[pc].do = "loop"
    <3>1. Course.loop < pc + 1
      BY <1>1, <1>3, <2>1
    <3> QED
      BY <1>2, <1>3, <2>1, <3>1
  <2>2. CASE Program[pc].do # "loop"
    <3>1. Course.loop < pc + 1 <=> Course.loop < pc
      BY <1>1, <1>2, <2>2
    <3> QED
      BY <1>2, <2>2, <3>1 DEF Surviving
  <2> QED
    BY <2>1, <2>2
<1>5. ASSUME Main, NEW x \in live'
      PROVE  x \in owned' \cup NamesOf({"texture"}) \cup Remains(prog) \/ Doomed(x, pc + 1) \/ Failing(x)'
  <2>1. CASE x \in live /\ (x \in owned => x \in owned')
             /\ (Program[pc].do = "delete" => x \notin Program[pc].names)
    <3>1. x \in owned \cup NamesOf({"texture"}) \cup Remains(prog) \/ Doomed(x, pc) \/ Failing(x)
      BY <1>5, <2>1 DEF Surviving
    <3>2. ASSUME Doomed(x, pc) PROVE Doomed(x, pc + 1)
      <4>1. PICK j \in pc..Len(Program) : Program[j].do = "delete" /\ x \in Program[j].names
        BY <3>2 DEF Doomed
      <4>2. j # pc
        BY <2>1, <4>1
      <4>3. j \in (pc + 1)..Len(Program)
        BY <1>1, <4>2
      <4> QED
        BY <4>1, <4>3 DEF Doomed
    <3>3. Failing(x) => Failing(x)'
      <4> SUFFICES ASSUME Failing(x) PROVE Failing(x)'
        OBVIOUS
      <4>1. Course.loop < pc + 1 /\ pc # Course.loop
        BY <1>1 DEF Failing
      <4>2. ran' = ran
        BY <1>3, <4>1
      <4> QED
        BY <1>2, <4>1, <4>2 DEF Failing
    <3> QED
      BY <2>1, <3>1, <3>2, <3>3
  <2>2. CASE Program[pc].do = "texture" /\ x \in Program[pc].names
    <3>1. pc \in DOMAIN Text(prog) /\ Text(prog) = Program
      BY <1>1, Bearings DEF Program
    <3> QED
      BY <2>2, <3>1 DEF NamesOf, Doing
  <2>3. CASE Program[pc].do \in {"gen", "compile"} /\ x \in Program[pc].names
    BY <1>1, <2>3, Bearings DEF Deletes, Doomed
  <2> QED
    BY <1>5, <2>1, <2>2, <2>3
<1>6. Draws /\ pc + 1 <= Course.loop => lost' = {}
  <2> SUFFICES ASSUME Draws, pc + 1 <= Course.loop PROVE lost' = {}
    OBVIOUS
  <2>1. pc <= Course.loop /\ pc < Course.loop /\ pc <= Course.exit
    BY <1>1, Bearings
  <2>2. Program[pc].do \notin Ends
    BY <1>1, <2>1, Bearings DEF Deletes, Draws
  <2> QED
    BY <2>1, <2>2 DEF Surviving
<1>7. Draws /\ Main => lost' \subseteq Stays'
  <2> SUFFICES ASSUME Draws, Main PROVE lost' \subseteq Stays'
    OBVIOUS
  <2>1. CASE Program[pc].do = "loop"
    <3>1. lost = {} /\ lost' = lost
      BY <1>1, <1>3, <2>1 DEF Surviving, Ends
    <3> QED
      BY <3>1
  <2>2. CASE Program[pc].do # "loop"
    <3>1. Stays' = Stays
      BY <2>2, StaysSame
    <3> QED
      BY <2>2, <3>1, Remaining DEF Surviving
  <2> QED
    BY <2>1, <2>2
<1>8. \A x : Doomed(x, pc + 1) => Doomed(x, pc)'
  BY <1>2 DEF Doomed
<1> QED
  BY <1>2, <1>4, <1>5, <1>6, <1>7, <1>8 DEF Surviving

(* None is forgotten by a failure.                                         *)
LEMMA SurvivingJump ==
  ASSUME Fit, Placed, pc # 0, Loaded, Surviving, prog' = prog,
         NEW h \in 1..Len(Program), pc' = h, LeadsTo(Program, pc, h), ran' = ran, lost' = lost,
         \A x \in live' : (x \in live /\ (x \in owned => x \in owned')) \/ x = "vertex"
                          \/ Program[pc].do = "compile"
  PROVE  Surviving'
<1>1. /\ pc \in 1..Len(Program) /\ Len(Program) \in Nat /\ ran \in BOOLEAN
      /\ Course.exit \in Nat /\ Course.loop \in Nat /\ Course.loop <= Course.exit
  BY Bearings DEF Placed
<1>2. /\ pc < h /\ pc < Course.loop /\ Course.loop < h
      /\ Program[h].do \in {"label", "macro"}
      /\ Program[h].do = "label" => h < Course.exit /\ Program[pc].do # "compile"
      /\ Program[h].do = "macro" => Course.exit < h
      /\ Program' = Program /\ Course' = Course /\ Draws' = Draws /\ Labelled' = Labelled
      /\ Remains(prog)' = Remains(prog) /\ NamesOf({"texture"})' = NamesOf({"texture"})
  BY <1>1, Bearings, Same DEF Ahead, LeadsTo, Handler
<1>3. ~ran /\ Main /\ Stays' = Stays
  BY <1>1, <1>2, StaysSame DEF Surviving, Main
<1>4. ~(h <= Course.loop)
  BY <1>1, <1>2
<1>5. CASE Program[h].do = "macro"
  <2>1. ~Main'
    BY <1>1, <1>2, <1>5 DEF Main
  <2> QED
    BY <1>2, <1>3, <1>4, <2>1 DEF Surviving
<1>6. CASE Program[h].do = "label"
  <2>1. Labelled
    BY <1>6 DEF Labelled
  <2>2. ASSUME NEW x \in live'
        PROVE  x \in owned' \cup NamesOf({"texture"}) \cup Remains(prog) \/ Doomed(x, h) \/ x = "vertex"
    <3>1. CASE x \in live /\ (x \in owned => x \in owned')
      <4>1. x \in owned \cup NamesOf({"texture"}) \cup Remains(prog) \/ Doomed(x, pc)
        BY <1>1, <1>2, <1>3, <3>1 DEF Surviving, Failing
      <4>2. ASSUME Doomed(x, pc) PROVE Doomed(x, h)
        <5>1. PICK j \in pc..Len(Program) : Program[j].do = "delete" /\ x \in Program[j].names
          BY <4>2 DEF Doomed
        <5>2. ~(pc < Course.first)
          BY <1>3, <3>1 DEF Loaded
        <5>3. j \notin pc..(h - 1)
          BY <1>1, <1>6, <5>1, <5>2, Bearings DEF Unwound
        <5>4. j \in h..Len(Program)
          BY <1>1, <5>3
        <5> QED
          BY <5>1, <5>4 DEF Doomed
      <4> QED
        BY <3>1, <4>1, <4>2
    <3> QED
      BY <1>2, <1>6, <2>2, <3>1
  <2>3. \A x : /\ Doomed(x, h) => Doomed(x, pc)'
               /\ x = "vertex" => Failing(x)'
    BY <1>2, <1>3 DEF Doomed, Failing
  <2>4. \A x \in live' : \/ x \in owned' \cup NamesOf({"texture"}) \cup Remains(prog)
                         \/ Doomed(x, pc)' \/ Failing(x)'
    BY <2>2, <2>3
  <2> QED
    BY <1>2, <1>3, <1>4, <2>1, <2>4 DEF Surviving
<1> QED
  BY <1>2, <1>5, <1>6
-----------------------------------------------------------------------------
(* The library is released where the text says, on the regular way.        *)
LEMMA ReleasedNext ==
  ASSUME Fit, Placed, pc # 0, InBlocks, Released, prog' = prog, pc' = pc + 1,
         Program[pc].do # "return", (lib' => lib) \/ Program[pc].do = "library",
         Program[pc].do = "terminate" => ~lib'
  PROVE  Released'
<1>1. /\ pc \in Nat \ {0} /\ pc \in 1..Len(Program) /\ Len(Program) \in Nat /\ Course.exit \in Nat
      /\ (pc + 1) - 1 = pc
  BY Bearings DEF Placed
<1>2. pc + 1 \in 1..Len(Program) /\ Program' = Program
  BY <1>1, Onward, Same
<1>3. Program[pc + 1].do # "macro"
  <2> SUFFICES ASSUME Program[pc + 1].do = "macro" PROVE FALSE
    OBVIOUS
  <2>1. Program[pc].do = "close"
    BY <1>1, <1>2, Bearings DEF Shaped
  <2>2. Main
    BY <2>1 DEF InBlocks
  <2>3. pc + 1 <= Course.exit
    BY <1>1, <2>2, Onward DEF Main
  <2> QED
    BY <1>2, <2>3, Bearings DEF Shaped
<1>4. Program[pc].do = "macro" /\ Alone(Program, pc) => ~lib'
  BY DEF Released
<1> QED
  BY <1>1, <1>2, <1>3, <1>4 DEF Released

(* It is on the way of a failure.                                          *)
LEMMA ReleasedJump ==
  ASSUME Fit, Placed, pc # 0, prog' = prog, NEW h \in 1..Len(Program), pc' = h,
         LeadsTo(Program, pc, h), Program[pc].do = "library" => ~lib'
  PROVE  Released'
<1>1. Program' = Program /\ Handler(Program[h]) /\ pc \in 1..Len(Program)
  BY Same DEF LeadsTo
<1>2. Alone(Program, h) => Program[pc].do = "library"
  BY <1>1 DEF Alone
<1> QED
  BY <1>1, <1>2 DEF Released
-----------------------------------------------------------------------------
(* What has been made for a frame stays made.                              *)
LEMMA PreparedNext ==
  ASSUME Fit, Placed, pc # 0, Loaded, Prepared, prog' = prog, pc' = pc + 1,
         Program[pc].do # "return", flawed \subseteq flawed',
         \A x \in live \ live' :
            Program[pc].do \in {"close"} \cup Ends \/ (Program[pc].do = "delete" /\ x \in Program[pc].names),
         owned \subseteq owned' \/ Program[pc].do = "close",
         Program[pc].do \in Makes => Program[pc].names \subseteq live' \cup flawed' \/ gl # "ready",
         Program[pc].do \in Builds => Program[pc].names \subseteq owned' \cup flawed'
  PROVE  Prepared'
<1>1. /\ pc \in Nat \ {0} /\ pc \in 1..Len(Program) /\ Len(Program) \in Nat
      /\ Course.exit \in Nat /\ Course.loop \in Nat
  BY Bearings DEF Placed
<1>2. /\ pc + 1 \in 1..Len(Program)
      /\ Program' = Program /\ Course' = Course /\ Draws' = Draws
  BY <1>1, Onward, Same
<1> SUFFICES ASSUME Draws, pc + 1 <= Course.loop, NEW j \in 1..pc
             PROVE  /\ Program[j].do \in Makes =>
                          Program[j].names \cap Program[Course.loop].names \subseteq live' \cup flawed'
                    /\ Program[j].do \in Builds => Program[j].names \subseteq owned' \cup flawed'
  BY <1>1, <1>2 DEF Prepared
<1>3. pc \in 1..(Course.loop - 1) /\ pc <= Course.loop
  BY <1>1
<1>4. /\ Program[pc].do \notin {"close"} \cup Ends
      /\ Program[pc].do = "delete" => Program[pc].names \cap Program[Course.loop].names = {}
  BY <1>3, Bearings DEF Prepares, Draws
<1>5. CASE j \in 1..(pc - 1)
  BY <1>3, <1>4, <1>5 DEF Prepared
<1>6. CASE j = pc
  <2>1. Program[pc].do \in Makes => gl = "ready" \/ Program[pc].names = {}
    BY Naming DEF Loaded, Makes, Builds, Uses
  <2> QED
    BY <1>6, <2>1
<1>7. j = pc \/ j \in 1..(pc - 1)
  BY <1>1
<1> QED
  BY <1>5, <1>6, <1>7

(* Behind a failure there is no frame.                                     *)
LEMMA PreparedJump ==
  ASSUME Fit, Placed, pc # 0, prog' = prog, NEW h \in 1..Len(Program), pc' = h,
         LeadsTo(Program, pc, h)
  PROVE  Prepared'
<1>1. pc \in 1..Len(Program) /\ Len(Program) \in Nat /\ Course.loop \in Nat
  BY Bearings DEF Placed
<1>2. Course.loop < h /\ Course' = Course
  BY <1>1, Bearings, Same DEF Ahead
<1> QED
  BY <1>1, <1>2 DEF Prepared
-----------------------------------------------------------------------------
(* Where a program is, in numbers.                                         *)
LEMMA Where ==
  ASSUME Fit, Placed, pc # 0
  PROVE  /\ pc \in Nat \ {0} /\ pc \in 1..Len(Program) /\ Len(Program) \in Nat
         /\ Course.exit \in Nat /\ Course.loop \in Nat /\ Len(scope) \in Nat
         /\ scope \in Seq(SUBSET NamesOf({"open"}))
BY Bearings DEF Placed

(* The effects of a statement that leaves no block.                        *)
LEMMA Going ==
  ASSUME Fit, ProgramInv, pc # 0, prog' = prog, NEW M, NEW C, Go(M, C)
  PROVE  /\ pc' = pc + 1 /\ scope' \in Seq(SUBSET NamesOf({"open"})) /\ Len(scope') = Len(scope)
         /\ \A i \in 1..Len(scope) : scope'[i] = scope[i]
         /\ owned' = owned /\ live \subseteq live' /\ live' \subseteq live \cup M
         /\ gl = "ready" => M \subseteq live' /\ strays' = strays
         /\ gl # "ready" => live' = {} /\ strays' \subseteq strays \cup C
<1>1. Placed /\ InBlocks /\ Len(scope) \in 0..Len(scope)
  BY Where DEF ProgramInv
<1>2. pc' = pc + 1 /\ LeaveTo(Len(scope), M, C)
  BY DEF Go
<1>3. \A x \in owned : \E i \in 1..Len(scope) : x \in scope[i]
  BY <1>1 DEF InBlocks
<1>4. gl # "ready" => live = {}
  BY <1>1 DEF Placed
<1> QED
  BY <1>1, <1>2, <1>3, <1>4, Leaving

(* What only the names of objects may be.                                  *)
LEMMA Objects ==
  ASSUME Fit, Placed, pc # 0, InBlocks
  PROVE  owned \subseteq NamesOf({"open"})
<1>1. scope \in Seq(SUBSET NamesOf({"open"}))
  BY DEF Placed
<1> QED
  BY <1>1 DEF InBlocks

(* A statement that changes no name.                                       *)
LEMMA PassKeeps ==
  ASSUME Fit, ProgramInv, pc # 0, prog' = prog, Pass, held' = held, lost' = lost,
         Program[pc].do \notin {"open", "close", "return", "delete", "gen", "compile", "texture"} \cup Ends,
         gl' \in {"none", "window", "ready", "gone"}, live # {} => gl' = "ready",
         gl' = gl \/ gl' = "ready" \/ Program[pc].do \in {"window", "linked"},
         Program[pc].do = "glad" => gl' = "ready",
         lib' \in BOOLEAN, lib' = lib \/ Program[pc].do = "library",
         IF Program[pc].do = "loop" THEN ran' = TRUE ELSE ran' = ran,
         flawed \subseteq flawed', flawed' \subseteq flawed \cup NamesOf({"build_path"}),
         Program[pc].do \in Builds => Program[pc].names \subseteq flawed'
  PROVE  ProgramInv'
<1>1. /\ Placed /\ InBlocks /\ Loaded /\ Surviving /\ Released /\ Prepared
      /\ strays \subseteq Strays(prog)
      /\ flawed \subseteq NamesOf({"build_path"}) \cup Unnoticed(prog)
  BY DEF ProgramInv
<1>2. /\ pc' = pc + 1 /\ scope' \in Seq(SUBSET NamesOf({"open"})) /\ Len(scope') = Len(scope)
      /\ \A i \in 1..Len(scope) : scope'[i] = scope[i]
      /\ owned' = owned /\ live' = live /\ strays' \subseteq strays
  <2>1. Go({}, {})
    BY DEF Pass
  <2>2. /\ pc' = pc + 1 /\ scope' \in Seq(SUBSET NamesOf({"open"})) /\ Len(scope') = Len(scope)
        /\ \A i \in 1..Len(scope) : scope'[i] = scope[i]
        /\ owned' = owned /\ live \subseteq live' /\ live' \subseteq live \cup {}
        /\ gl = "ready" => strays' = strays
        /\ gl # "ready" => strays' \subseteq strays \cup {}
    BY <2>1, Going
  <2> QED
    BY <2>2
<1>3. pc \in 1..Len(Program) /\ pc # 0 /\ pc + 1 \in 1..Len(Program) /\ pc' # 0
  <2>1. pc \in 1..Len(Program) /\ pc # 0
    BY <1>1, Where
  <2>2. pc + 1 \in 1..Len(Program)
    BY <2>1, Onward
  <2> QED
    BY <1>2, <2>1, <2>2
<1>4. Placed'
  <2>1. ran' \in BOOLEAN
    BY <1>1 DEF Placed
  <2>2. live' # {} => gl' = "ready" \/ pc' = 0
    BY <1>2
  <2>3. pc' \in 0..Len(Program)
    BY <1>2, <1>3
  <2>4. prog' \in Programs /\ live' \subseteq held' \cup {"vertex"} /\ owned' \subseteq held'
    BY <1>1, <1>2 DEF Placed
  <2> QED
    BY <1>2, <2>1, <2>2, <2>3, <2>4, Same DEF Placed
<1>5. InBlocks'
  BY <1>1, <1>2, BlocksNext
<1>6. Loaded'
  BY <1>1, <1>2, LoadedNext
<1>7. Surviving'
  BY <1>1, <1>2, SurvivingNext
<1>8. Released'
  BY <1>1, <1>2, ReleasedNext DEF Ends
<1>9. Prepared'
  <2>1. Program[pc].do \in Makes => Program[pc].do \in Builds
    BY DEF Makes
  <2> QED
    BY <1>1, <1>2, <2>1, PreparedNext
<1> QED
  BY <1>1, <1>2, <1>3, <1>4, <1>5, <1>6, <1>7, <1>8, <1>9, Same DEF ProgramInv

(* A failure that is dealt with. *)
LEMMA FailKeeps ==
  ASSUME Fit, ProgramInv, pc # 0, prog' = prog, NEW M, NEW C,
         LeadsTo(Program, pc, pc'),
         LeaveTo(IF Program[pc'].do = "label" THEN Level(Program, pc') ELSE Len(scope), M, C),
         gl' = gl, lost' = lost, ran' = ran, flawed' = flawed, lib' \in BOOLEAN,
         Program[pc].do = "library" => ~lib',
         Program[pc].do \notin {"call", "loop", "close"},
         C # {} => Program[pc].do \in Uses,
         \/ held' = held /\ M \subseteq {"vertex"} /\ (Program[pc].do \notin Uses => M = {})
         \/ Program[pc].do = "compile" /\ M = Program[pc].names /\ held' = held \cup M
  PROVE  ProgramInv'
<1>1. /\ Placed /\ InBlocks /\ Loaded /\ Surviving /\ Released /\ Prepared
      /\ strays \subseteq Strays(prog)
      /\ flawed \subseteq NamesOf({"build_path"}) \cup Unnoticed(prog)
  BY DEF ProgramInv
<1> DEFINE h == pc'
           n == IF Program[h].do = "label" THEN Level(Program, h) ELSE Len(scope)
<1>2. pc' = h /\ LeadsTo(Program, pc, h) /\ h \in 1..Len(Program) /\ LeaveTo(n, M, C)
  BY DEF LeadsTo
<1> HIDE DEF h
<1>3. n \in 0..Len(scope)
  <2>1. CASE Program[h].do = "label"
    <3>1. /\ pc < Course.loop /\ Course.loop <= Course.exit /\ h < Course.exit
          /\ Level(Program, h) <= Level(Program, pc)
      BY <1>1, <1>2, <2>1, Where, Bearings DEF Ahead
    <3>2. Main
      BY <1>1, <3>1, Where DEF Main
    <3>3. Level(Program, h) >= 0 /\ Level(Program, h) \in Int
      BY <1>1, <1>2, <3>1, Where, Bearings, LevelMoves DEF InBlock
    <3> QED
      BY <1>1, <2>1, <3>1, <3>2, <3>3, Where DEF InBlocks
  <2> QED
    BY <1>1, <2>1, Where
<1>4. \A x \in owned : \E i \in 1..Len(scope) : x \in scope[i]
  BY <1>1 DEF InBlocks
<1> HIDE DEF n
<1>5. /\ scope' \in Seq(SUBSET NamesOf({"open"})) /\ Len(scope') = n
      /\ \A i \in 1..n : scope'[i] = scope[i]
      /\ owned' \subseteq owned /\ \A x \in owned' : \E i \in 1..n : x \in scope'[i]
      /\ live' \subseteq live \cup M /\ (gl # "ready" => live' \subseteq live)
      /\ gl = "ready" => M \subseteq live'
      /\ \A x \in live' \cap owned : x \in owned' \/ x \in M
      /\ live \ owned \subseteq live'
      /\ gl = "ready" => strays' = strays
      /\ strays' \subseteq strays \cup C \cup owned
      /\ n = Len(scope) => owned' = owned /\ live \subseteq live' /\ strays' \subseteq strays \cup C
  BY <1>1, <1>2, <1>3, <1>4, Leaving
<1>6. owned \subseteq NamesOf({"open"})
  BY <1>1, Objects
<1>7. Placed'
  <2>1. pc' \in 0..Len(Program) /\ (live' # {} => gl' = "ready")
    BY <1>1, <1>2, <1>5, Where DEF Placed
  <2>2. live' \subseteq held' \cup {"vertex"} /\ owned' \subseteq held'
    BY <1>1, <1>5 DEF Placed
  <2> QED
    BY <1>1, <1>5, <2>1, <2>2, Same DEF Placed
<1>8. InBlocks'
  BY <1>1, <1>2, <1>3, <1>5, BlocksJump DEF n
<1>9. Loaded'
  <2>1. \A x \in held' \ live' : x \in held \ live \/ x \in NamesOf({"open"}) \/ gl # "ready"
    BY <1>5, <1>6
  <2>2. Program[pc].do \notin Uses => held' = held /\ live' = live /\ owned' = owned
    <3>1. SUFFICES ASSUME Program[pc].do \notin Uses
                   PROVE  held' = held /\ live' = live /\ owned' = owned
      OBVIOUS
    <3>2. held' = held /\ M = {}
      BY <3>1 DEF Uses
    <3>3. pc < Course.first /\ Main
      BY <1>1, <1>2, <3>1, Where, Bearings DEF Ahead, Main
    <3>4. live = {} /\ owned = {}
      BY <1>1, <3>3 DEF Loaded
    <3> QED
      BY <1>5, <3>2, <3>4
  <2> QED
    BY <1>1, <1>2, <2>1, <2>2, LoadedJump
<1>10. Surviving'
  <2>1. \A x \in live' : (x \in live /\ (x \in owned => x \in owned')) \/ x = "vertex"
                          \/ Program[pc].do = "compile"
    BY <1>5
  <2> QED
    BY <1>1, <1>2, <2>1, SurvivingJump
<1>11. Released'
  BY <1>1, <1>2, ReleasedJump
<1>12. Prepared'
  BY <1>1, <1>2, PreparedJump
<1>13. strays' \subseteq Strays(prog)
  <2>1. gl = "ready" \/ (owned \subseteq Strays(prog) /\ C = {})
    <3>1. Program[pc].do \notin Uses \/ gl = "ready"
      BY <1>1, Calling
    <3> QED
      BY <1>1, <3>1, Calling
  <2> QED
    BY <1>1, <1>5, <2>1
<1>14. pc' # 0
  BY <1>1, <1>2, Where
<1> QED
  BY <1>1, <1>7, <1>8, <1>9, <1>10, <1>11, <1>12, <1>13, <1>14, Same DEF ProgramInv

(* Names are made, whether what they name is good or not.                  *)
LEMMA MakeKeeps ==
  ASSUME Fit, ProgramInv, pc # 0, prog' = prog, UNCHANGED <<glfwVars, ran>>,
         Program[pc].do \in {"gen", "texture", "call", "compile"},
         Go(Program[pc].names, {Program[pc].do}), held' = held \cup Program[pc].names,
         flawed \subseteq flawed', flawed' \subseteq flawed \cup Unnoticed(prog)
  PROVE  ProgramInv'
<1>1. /\ Placed /\ InBlocks /\ Loaded /\ Surviving /\ Released /\ Prepared
      /\ strays \subseteq Strays(prog)
      /\ flawed \subseteq NamesOf({"build_path"}) \cup Unnoticed(prog)
      /\ gl' = gl /\ lib' = lib /\ lost' = lost
  BY DEF ProgramInv, glfwVars
<1>2. /\ pc' = pc + 1 /\ scope' \in Seq(SUBSET NamesOf({"open"})) /\ Len(scope') = Len(scope)
      /\ \A i \in 1..Len(scope) : scope'[i] = scope[i]
      /\ owned' = owned /\ live \subseteq live' /\ live' \subseteq live \cup Program[pc].names
      /\ gl = "ready" => Program[pc].names \subseteq live' /\ strays' = strays
      /\ gl # "ready" => live' = {} /\ strays' \subseteq strays \cup {Program[pc].do}
  BY Going
<1>3. pc \in 1..Len(Program) /\ pc # 0
  BY <1>1, Where
<1>4. pc + 1 \in 1..Len(Program) /\ pc' # 0 /\ pc + 1 \in 0..Len(Program)
  BY <1>2, <1>3, Onward
<1>5. Program[pc].do \in Uses \ {"close"} /\ Program[pc].do \notin Ends /\ Program[pc].do \notin Builds
  BY DEF Uses, Ends, Builds
<1>6. Placed'
  <2>1. live' \subseteq held' \cup {"vertex"} /\ owned' \subseteq held'
    BY <1>1, <1>2 DEF Placed
  <2>2. live' # {} => gl' = "ready" \/ pc' = 0
    BY <1>1, <1>2
  <2> QED
    BY <1>1, <1>2, <1>4, <2>1, <2>2, Same DEF Placed
<1>7. InBlocks'
  BY <1>1, <1>2, BlocksNext
<1>8. Loaded'
  BY <1>1, <1>2, <1>5, LoadedNext DEF Adds, Ends
<1>9. Surviving'
  <2>1. Program[pc].do = "call" => Program[pc].names = {}
    BY <1>3, Bearings DEF InContext
  <2> QED
    BY <1>1, <1>2, <2>1, SurvivingNext
<1>10. Released'
  BY <1>1, <1>2, ReleasedNext
<1>11. Prepared'
  BY <1>1, <1>2, <1>5, PreparedNext
<1>12. strays' \subseteq Strays(prog)
  <2>1. gl = "ready" \/ Program[pc].do \in Strays(prog)
    BY <1>1, <1>5, Calling
  <2> QED
    BY <1>1, <1>2, <2>1
<1> QED
  BY <1>1, <1>4, <1>6, <1>7, <1>8, <1>9, <1>10, <1>11, <1>12, Same DEF ProgramInv
-----------------------------------------------------------------------------
(* One lemma for each action.                                              *)
LEMMA Reading == ASSUME NEW K, At(K) PROVE /\ pc # 0 /\ prog' = prog /\ Program[pc].do \in K
                                           /\ Here = Program[pc]
BY DEF At, Here, Program

(* What obtains an object never fails into the next statement.             *)
LEMMA FailureOf ==
  ASSUME Fit, ProgramInv, pc # 0, ~Handler(Program[pc]), NEW M, NEW C, Fail(M, C),
         Program[pc].do \in Obtains \cup {"library", "window", "glad", "compile"}
  PROVE  \/ Program[pc].err = "none" /\ Go(M, C) /\ Program[pc].do \notin Obtains
         \/ /\ LeadsTo(Program, pc, pc')
            /\ LeaveTo(IF Program[pc'].do = "label" THEN Level(Program, pc') ELSE Len(scope), M, C)
<1>1. pc \in 1..Len(Program)
  BY Where DEF ProgramInv
<1>2. Program[pc].do \in Obtains => Program[pc].err # "none"
  BY <1>1, Bearings DEF Caught
<1> QED
  BY <1>1, <1>2, Failed

LEMMA LibraryInitKeeps == ASSUME Fit, ProgramInv, LibraryInit PROVE ProgramInv'
<1>1. /\ pc # 0 /\ prog' = prog /\ Program[pc].do = "library"
      /\ gl' = gl /\ lost' = lost /\ held' = held /\ flawed' = flawed /\ ran' = ran
  BY Reading DEF LibraryInit, history
<1>2. Placed
  BY DEF ProgramInv
<1>3. Program[pc].do \notin {"loop", "glad"} \cup Builds
  BY <1>1 DEF Builds
<1>4. gl' \in {"none", "window", "ready", "gone"} /\ (live # {} => gl' = "ready")
  BY <1>1, <1>2 DEF Placed
<1>5. ASSUME Pass, lib' \in BOOLEAN PROVE ProgramInv'
  BY <1>1, <1>3, <1>4, <1>5, PassKeeps DEF Ends
<1>6. ASSUME lib' = FALSE, Fail({}, {}) PROVE ProgramInv'
  <2>1. CASE Go({}, {})
    BY <1>5, <1>6, <2>1 DEF Pass
  <2>2. ~Handler(Program[pc])
    BY <1>1 DEF Handler
  <2>3. CASE ~Go({}, {})
    <3>1. /\ LeadsTo(Program, pc, pc')
          /\ LeaveTo(IF Program[pc'].do = "label" THEN Level(Program, pc') ELSE Len(scope), {}, {})
      BY <1>1, <1>6, <2>2, <2>3, FailureOf
    <3> QED
      BY <1>1, <1>6, <3>1, FailKeeps
  <2> QED
    BY <2>1, <2>3
<1> QED
  BY <1>5, <1>6 DEF LibraryInit

LEMMA OpenWindowKeeps == ASSUME Fit, ProgramInv, OpenWindow PROVE ProgramInv'
<1>1. /\ pc # 0 /\ prog' = prog /\ Program[pc].do = "window" /\ lib' = lib
      /\ lost' = lost /\ held' = held /\ flawed' = flawed /\ ran' = ran
  BY Reading DEF OpenWindow, history
<1>2. Placed /\ Loaded /\ pc \in 1..Len(Program)
  BY <1>1, Where DEF ProgramInv
<1>3. Program[pc].do \notin {"loop", "glad"} \cup Builds
  BY <1>1 DEF Builds
<1>4. live = {}
  <2>1. pc < Course.first
    BY <1>1, <1>2, Bearings DEF InContext
  <2>2. Main
    <3>1. pc > Course.exit => Program[pc].do \in {"macro", "close"} \cup Ends
      BY <1>2, Bearings DEF Shaped
    <3>2. pc <= Course.exit \/ pc > Course.exit
      BY <1>2, Bearings
    <3> QED
      BY <1>1, <3>1, <3>2 DEF Main, Ends
  <2> QED
    BY <1>1, <1>2, <2>1, <2>2 DEF Loaded
<1>5. ASSUME Pass, gl' = "window" \/ gl' = gl PROVE ProgramInv'
  <2>1. gl' \in {"none", "window", "ready", "gone"} /\ lib' \in BOOLEAN
    BY <1>1, <1>2, <1>5 DEF Placed
  <2> QED
    BY <1>1, <1>3, <1>4, <1>5, <2>1, PassKeeps DEF Ends
<1>6. ASSUME gl' = gl, Fail({}, {}) PROVE ProgramInv'
  <2>1. CASE Go({}, {})
    BY <1>5, <1>6, <2>1 DEF Pass
  <2>2. ~Handler(Program[pc])
    BY <1>1 DEF Handler
  <2>3. CASE ~Go({}, {})
    <3>1. /\ LeadsTo(Program, pc, pc')
          /\ LeaveTo(IF Program[pc'].do = "label" THEN Level(Program, pc') ELSE Len(scope), {}, {})
      BY <1>1, <1>6, <2>2, <2>3, FailureOf
    <3>2. lib' \in BOOLEAN
      BY <1>1, <1>2 DEF Placed
    <3> QED
      BY <1>1, <1>6, <3>1, <3>2, FailKeeps
  <2> QED
    BY <2>1, <2>3
<1> QED
  BY <1>5, <1>6 DEF OpenWindow

LEMMA LoadFunctionsKeeps == ASSUME Fit, ProgramInv, LoadFunctions PROVE ProgramInv'
<1>1. /\ pc # 0 /\ prog' = prog /\ Program[pc].do \in {"glad", "linked"} /\ lib' = lib
      /\ lost' = lost /\ held' = held /\ flawed' = flawed /\ ran' = ran
  BY Reading DEF LoadFunctions, history
<1>2. Placed /\ pc \in 1..Len(Program) /\ lib' \in BOOLEAN
  BY <1>1, Where DEF ProgramInv, Placed
<1>3. Program[pc].do \notin {"loop"} \cup Builds
  BY <1>1 DEF Builds
<1>4. ASSUME Program[pc].do = "glad", gl' = "ready", Pass PROVE ProgramInv'
  BY <1>1, <1>2, <1>3, <1>4, PassKeeps DEF Ends
<1>5. ASSUME Program[pc].do = "linked", gl' = (IF gl = "window" THEN "ready" ELSE gl), Pass
      PROVE  ProgramInv'
  <2>1. gl' \in {"none", "window", "ready", "gone"} /\ (live # {} => gl' = "ready")
    BY <1>1, <1>2, <1>5 DEF Placed
  <2> QED
    BY <1>1, <1>2, <1>3, <1>5, <2>1, PassKeeps DEF Ends
<1>6. ASSUME Program[pc].do = "glad", gl' = gl, Fail({}, {}) PROVE ProgramInv'
  <2>1. Program[pc].err # "none"
    BY <1>2, <1>6, Bearings DEF InContext
  <2>2. ~Handler(Program[pc])
    BY <1>6 DEF Handler
  <2>3. /\ LeadsTo(Program, pc, pc')
        /\ LeaveTo(IF Program[pc'].do = "label" THEN Level(Program, pc') ELSE Len(scope), {}, {})
    BY <1>1, <1>6, <2>1, <2>2, FailureOf
  <2> QED
    BY <1>1, <1>2, <1>6, <2>3, FailKeeps
<1> QED
  <2>1. ASSUME NEW K, At(K) PROVE Program[pc].do \in K
    BY <2>1, Reading
  <2> QED
    BY <1>4, <1>5, <1>6, <2>1 DEF LoadFunctions

LEMMA NothingKeeps == ASSUME Fit, ProgramInv, Nothing PROVE ProgramInv'
<1>1. /\ pc # 0 /\ prog' = prog /\ Program[pc].do \in {"probe", "label", "macro"} /\ Pass
      /\ gl' = gl /\ lib' = lib /\ lost' = lost /\ held' = held /\ flawed' = flawed /\ ran' = ran
  BY Reading DEF Nothing, glfwVars, history
<1>2. Placed
  BY DEF ProgramInv
<1>3. /\ gl' \in {"none", "window", "ready", "gone"} /\ (live # {} => gl' = "ready")
      /\ lib' \in BOOLEAN
  BY <1>1, <1>2 DEF Placed
<1>4. Program[pc].do \notin {"loop", "glad"} \cup Builds
  BY <1>1 DEF Builds
<1> QED
  BY <1>1, <1>3, <1>4, PassKeeps DEF Ends

LEMMA GenerateKeeps == ASSUME Fit, ProgramInv, Generate PROVE ProgramInv'
<1>1. /\ pc # 0 /\ prog' = prog /\ Program[pc].do \in {"gen", "texture", "call"}
      /\ Go(Program[pc].names, {Program[pc].do}) /\ held' = held \cup Program[pc].names
      /\ flawed' = flawed /\ UNCHANGED <<glfwVars, ran>>
  BY Reading DEF Generate, history
<1> QED
  BY <1>1, MakeKeeps

LEMMA CompileOneKeeps == ASSUME Fit, ProgramInv, CompileOne PROVE ProgramInv'
<1> DEFINE N == Program[pc].names
<1>1. /\ pc # 0 /\ prog' = prog /\ Program[pc].do = "compile" /\ held' = held \cup N
      /\ UNCHANGED <<glfwVars, ran>>
  BY Reading DEF CompileOne
<1>2. Placed /\ pc \in 1..Len(Program)
  BY <1>1, Where DEF ProgramInv
<1>3. Program[pc].err = "none" => N \subseteq Unnoticed(prog)
  BY <1>1, <1>2, Bearings DEF Prepares
<1>4. ASSUME Go(N, {"compile"}), flawed \subseteq flawed', flawed' \subseteq flawed \cup Unnoticed(prog)
      PROVE  ProgramInv'
  BY <1>1, <1>4, MakeKeeps
<1>5. ASSUME Fail(N, {"compile"}), flawed' = flawed \cup (IF Program[pc].err = "none" THEN N ELSE {})
      PROVE  ProgramInv'
  <2>1. CASE Program[pc].err = "none"
    <3>1. Go(N, {"compile"})
      BY <1>1, <1>5, <2>1, Reading DEF Fail, Here, Program
    <3> QED
      BY <1>3, <1>4, <1>5, <2>1, <3>1
  <2>2. CASE Program[pc].err # "none"
    <3>1. ~Handler(Program[pc])
      BY <1>1 DEF Handler
    <3>2. /\ LeadsTo(Program, pc, pc')
          /\ LeaveTo(IF Program[pc'].do = "label" THEN Level(Program, pc') ELSE Len(scope), N, {"compile"})
      BY <1>1, <1>5, <2>2, <3>1, FailureOf
    <3>3. /\ flawed' = flawed /\ lib' \in BOOLEAN /\ gl' = gl /\ lost' = lost /\ ran' = ran
          /\ "compile" \in Uses
      BY <1>1, <1>2, <1>5, <2>2 DEF glfwVars, Placed, Uses
    <3> QED
      BY <1>1, <3>2, <3>3, FailKeeps
  <2> QED
    BY <2>1, <2>2
<1>6. /\ Here.names = N
      /\ Here.err = Program[pc].err
  BY DEF Here, Program
<1>7. \/ Go(N, {"compile"}) /\ UNCHANGED flawed
      \/ Fail(N, {"compile"}) /\ flawed' = flawed \cup (IF Program[pc].err = "none" THEN N ELSE {})
  BY <1>6 DEF CompileOne
<1> QED
  BY <1>4, <1>5, <1>7

LEMMA SkipKeeps == ASSUME Fit, ProgramInv, Skip PROVE ProgramInv'
<1>1. /\ pc # 0 /\ prog' = prog /\ Program[pc].do \in {"build_path", "load_if"} /\ Pass
      /\ flawed' = flawed \cup (IF Program[pc].do = "build_path" THEN Program[pc].names ELSE {})
      /\ gl' = gl /\ lib' = lib /\ lost' = lost /\ held' = held /\ ran' = ran
  BY Reading DEF Skip, glfwVars
<1>2. Placed /\ pc \in 1..Len(Program)
  BY <1>1, Where DEF ProgramInv
<1>3. /\ gl' \in {"none", "window", "ready", "gone"} /\ (live # {} => gl' = "ready")
      /\ lib' \in BOOLEAN
  BY <1>1, <1>2 DEF Placed
<1>4. Program[pc].do \notin {"loop", "glad"} /\ (Program[pc].do \in Builds => Program[pc].do = "build_path")
  BY <1>1 DEF Builds
<1>5. Program[pc].do = "build_path" => Program[pc].names \subseteq NamesOf({"build_path"})
  BY <1>2, Bearings DEF NamesOf, Doing, Program
<1> QED
  BY <1>1, <1>3, <1>4, <1>5, PassKeeps DEF Ends

LEMMA BuildFailsKeeps == ASSUME Fit, ProgramInv, BuildFails PROVE ProgramInv'
<1>1. /\ pc # 0 /\ prog' = prog /\ Program[pc].do \in {"build", "build_path"} /\ Here = Program[pc]
      /\ gl' = gl /\ lib' = lib /\ lost' = lost /\ held' = held /\ flawed' = flawed /\ ran' = ran
  BY Reading DEF BuildFails, glfwVars, history
<1>2. PICK left \in {{}, {"vertex"}} : Fail(left, {Program[pc].do})
  BY <1>1 DEF BuildFails
<1>3. ~Handler(Program[pc]) /\ Program[pc].do \in Obtains /\ Program[pc].do \in Uses
  BY <1>1 DEF Handler, Obtains, Builds, Uses
<1>4. /\ LeadsTo(Program, pc, pc')
      /\ LeaveTo(IF Program[pc'].do = "label" THEN Level(Program, pc') ELSE Len(scope),
                 left, {Program[pc].do})
  BY <1>1, <1>2, <1>3, FailureOf
<1>5. lib' \in BOOLEAN
  BY <1>1 DEF ProgramInv, Placed
<1> QED
  BY <1>1, <1>2, <1>3, <1>4, <1>5, FailKeeps

LEMMA LoadFailsKeeps == ASSUME Fit, ProgramInv, LoadFails PROVE ProgramInv'
<1>1. /\ pc # 0 /\ prog' = prog /\ Program[pc].do \in {"load", "load_if"} /\ Here = Program[pc]
      /\ gl' = gl /\ lib' = lib /\ lost' = lost /\ held' = held /\ flawed' = flawed /\ ran' = ran
      /\ Fail({}, {Program[pc].do})
  BY Reading DEF LoadFails, glfwVars, history
<1>2. ~Handler(Program[pc]) /\ Program[pc].do \in Obtains /\ Program[pc].do \in Uses
  BY <1>1 DEF Handler, Obtains, Builds, Uses
<1>3. /\ LeadsTo(Program, pc, pc')
      /\ LeaveTo(IF Program[pc'].do = "label" THEN Level(Program, pc') ELSE Len(scope), {}, {Program[pc].do})
  BY <1>1, <1>2, FailureOf
<1>4. lib' \in BOOLEAN
  BY <1>1 DEF ProgramInv, Placed
<1> QED
  BY <1>1, <1>2, <1>3, <1>4, FailKeeps

LEMMA StopDrawingKeeps == ASSUME Fit, ProgramInv, StopDrawing PROVE ProgramInv'
<1>1. /\ pc # 0 /\ prog' = prog /\ Program[pc].do = "loop" /\ Pass /\ ran' = TRUE
      /\ gl' = gl /\ lib' = lib /\ lost' = lost /\ held' = held /\ flawed' = flawed
  BY Reading DEF StopDrawing, glfwVars
<1>2. Placed
  BY DEF ProgramInv
<1>3. /\ gl' \in {"none", "window", "ready", "gone"} /\ (live # {} => gl' = "ready")
      /\ lib' \in BOOLEAN
  BY <1>1, <1>2 DEF Placed
<1>4. Program[pc].do \notin Builds
  BY <1>1 DEF Builds
<1> QED
  BY <1>1, <1>3, <1>4, PassKeeps DEF Ends

LEMMA DrawKeeps == ASSUME Fit, ProgramInv, Draw PROVE ProgramInv'
<1>1. /\ pc # 0 /\ prog' = prog /\ Program[pc].do = "loop" /\ pc' = pc /\ scope' = scope
      /\ strays' = strays \cup Calls({"loop"})
      /\ gl' = gl /\ lib' = lib /\ lost' = lost /\ held' = held /\ flawed' = flawed /\ ran' = ran
      /\ live' = live /\ owned' = owned
  BY Reading DEF Draw, glfwVars, nameVars, history
<1>2. strays' \subseteq Strays(prog)
  <2>1. gl = "ready" \/ "loop" \in Strays(prog)
    BY <1>1, Calling DEF ProgramInv, Uses
  <2> QED
    BY <1>1, <2>1 DEF Calls, ProgramInv
<1>3. /\ Program' = Program /\ Course' = Course /\ Draws' = Draws /\ Labelled' = Labelled
      /\ Strays(prog)' = Strays(prog) /\ Remains(prog)' = Remains(prog)
      /\ Unnoticed(prog)' = Unnoticed(prog) /\ Stays' = Stays
      /\ \A K : NamesOf(K)' = NamesOf(K)
  BY <1>1, Same, StaysSame
<1>4. Placed'
  BY <1>1, <1>3 DEF ProgramInv, Placed
<1>5. InBlocks' /\ Loaded' /\ Released' /\ Prepared'
  BY <1>1, <1>3 DEF ProgramInv, InBlocks, Loaded, Released, Prepared, Main
<1>6. Surviving'
  BY <1>1, <1>3 DEF ProgramInv, Surviving, Main, Doomed, Failing
<1> QED
  BY <1>1, <1>2, <1>3, <1>4, <1>5, <1>6 DEF ProgramInv

LEMMA ObtainKeeps == ASSUME Fit, ProgramInv, Obtain PROVE ProgramInv'
<1> DEFINE N == Program[pc].names
<1>1. /\ pc # 0 /\ prog' = prog /\ Program[pc].do \in Obtains /\ Here = Program[pc]
  BY Reading DEF Obtain, Obtains, Builds
<1>2. /\ pc' = pc + 1 /\ scope' = scope /\ held' = held \cup N /\ owned' = owned \cup N
      /\ live' = live \cup (IF gl = "ready" THEN N ELSE {})
      /\ strays' = strays \cup Calls({Program[pc].do})
      /\ gl' = gl /\ lib' = lib /\ lost' = lost /\ flawed' = flawed /\ ran' = ran
  BY <1>1 DEF Obtain, glfwVars, history
<1>3. /\ Placed /\ InBlocks /\ Loaded /\ Surviving /\ Released /\ Prepared
      /\ pc \in 1..Len(Program) /\ Len(scope) \in Nat
  BY <1>1, Where DEF ProgramInv
<1>4. /\ Program[pc].do \in Uses \ {"close", "call", "loop"} /\ Program[pc].do \notin Ends
      /\ Program[pc].do \notin {"open", "return", "glad", "delete"}
  BY <1>1 DEF Obtains, Uses, Builds, Ends
<1>5. gl = "ready" /\ live' = live \cup N /\ strays' = strays
  <2>1. gl = "ready"
    BY <1>1, <1>3, <1>4, Calling
  <2> QED
    BY <1>2, <2>1 DEF Calls
<1>6. pc + 1 \in 1..Len(Program) /\ pc' # 0 /\ pc' \in 0..Len(Program)
  <2>1. pc + 1 \in 1..Len(Program)
    BY <1>3, <1>4, Onward
  <2> QED
    BY <1>2, <1>3, <2>1, Where
<1>7. Placed'
  BY <1>1, <1>2, <1>3, <1>5, <1>6, Same DEF Placed
<1>8. InBlocks'
  BY <1>1, <1>2, <1>3, <1>4, BlocksNext
<1>9. Loaded'
  BY <1>1, <1>2, <1>3, <1>4, <1>5, LoadedNext DEF Adds
<1>10. Surviving'
  BY <1>1, <1>2, <1>3, <1>4, <1>5, SurvivingNext
<1>11. Released'
  BY <1>1, <1>2, <1>3, <1>4, ReleasedNext DEF Ends
<1>12. Prepared'
  BY <1>1, <1>2, <1>3, <1>4, <1>5, PreparedNext
<1> QED
  BY <1>1, <1>2, <1>5, <1>6, <1>7, <1>8, <1>9, <1>10, <1>11, <1>12, Same DEF ProgramInv

LEMMA DeleteNamesKeeps == ASSUME Fit, ProgramInv, DeleteNames PROVE ProgramInv'
<1> DEFINE N == Program[pc].names
<1>1. /\ pc # 0 /\ prog' = prog /\ Program[pc].do = "delete" /\ Here = Program[pc]
  BY Reading DEF DeleteNames
<1>2. /\ pc' = pc + 1 /\ scope' = scope /\ held' = held /\ owned' = owned
      /\ live' = live \ N
      /\ strays' = strays \cup Calls({"delete"}) \cup ((N \cap held) \ live)
      /\ gl' = gl /\ lib' = lib /\ lost' = lost /\ flawed' = flawed /\ ran' = ran
  BY <1>1 DEF DeleteNames, glfwVars, history
<1>3. /\ Placed /\ InBlocks /\ Loaded /\ Surviving /\ Released /\ Prepared
      /\ pc \in 1..Len(Program) /\ Len(scope) \in Nat /\ pc \in Nat
  BY <1>1, Where DEF ProgramInv
<1>4. Program[pc].do \in Uses
  BY <1>1 DEF Uses
<1>5. strays' = strays
  <2>1. gl = "ready"
    BY <1>1, <1>3, <1>4, Calling
  <2>2. (N \cap held) \ live = {}
    <3>1. SUFFICES ASSUME NEW x \in N, x \in held \ live PROVE FALSE
      OBVIOUS
    <3>2. Using(Course, pc)
      BY <1>1, <1>3, <1>4, <3>1, Naming
    <3>3. PICK j \in 1..Len(Program) :
            /\ x \in Program[j].names
            /\ Program[j].do = "open" \/ (Program[j].do = "delete" /\ j < pc)
      BY <1>3, <3>1, <3>2 DEF Loaded
    <3>4. j = pc \/ Program[pc].names \cap Program[j].names = {}
      BY <1>1, <1>3, <3>3, Bearings DEF Deletes
    <3>5. j # pc
      BY <1>1, <1>3, <3>3
    <3> QED
      BY <3>1, <3>3, <3>4, <3>5
  <2> QED
    BY <1>2, <2>1, <2>2 DEF Calls
<1>6. pc + 1 \in 1..Len(Program) /\ pc' # 0 /\ pc' \in 0..Len(Program)
  <2>1. pc + 1 \in 1..Len(Program)
    BY <1>1, <1>3, Onward
  <2> QED
    BY <1>2, <1>3, <2>1, Where
<1>7. Placed'
  BY <1>1, <1>2, <1>3, <1>6, Same DEF Placed
<1>8. InBlocks'
  BY <1>1, <1>2, <1>3, BlocksNext
<1>9. Loaded'
  BY <1>1, <1>2, <1>3, LoadedNext
<1>10. Surviving'
  BY <1>1, <1>2, <1>3, SurvivingNext
<1>11. Released'
  BY <1>1, <1>2, <1>3, ReleasedNext
<1>12. Prepared'
  <2>1. Program[pc].do \notin Makes /\ Program[pc].do \notin Builds
    BY <1>1 DEF Makes, Builds
  <2> QED
    BY <1>1, <1>2, <1>3, <2>1, PreparedNext
<1> QED
  BY <1>1, <1>2, <1>5, <1>6, <1>7, <1>8, <1>9, <1>10, <1>11, <1>12, Same DEF ProgramInv

LEMMA EndContextKeeps == ASSUME Fit, ProgramInv, EndContext PROVE ProgramInv'
<1>1. /\ pc # 0 /\ prog' = prog /\ Program[pc].do \in {"destroy", "terminate"} /\ Here = Program[pc]
  BY Reading DEF EndContext
<1>2. /\ pc' = pc + 1 /\ scope' = scope /\ held' = held /\ owned' = owned /\ strays' = strays
      /\ live' = {} /\ lost' = lost \cup live /\ flawed' = flawed /\ ran' = ran
      /\ lib' = (lib /\ Program[pc].do = "destroy")
      /\ gl' = IF gl = "none" THEN gl ELSE "gone"
  BY <1>1 DEF EndContext, history
<1>3. /\ Placed /\ InBlocks /\ Loaded /\ Surviving /\ Released /\ Prepared
      /\ pc \in 1..Len(Program) /\ Len(scope) \in Nat /\ pc \in Nat
  BY <1>1, Where DEF ProgramInv
<1>4. /\ Program[pc].do \in Ends /\ Program[pc].do \notin Makes /\ Program[pc].do \notin Builds
      /\ Program[pc].do \notin {"open", "close", "return", "glad", "loop", "delete"}
  BY <1>1 DEF Ends, Makes, Builds
<1>5. pc + 1 \in 1..Len(Program) /\ pc' # 0 /\ pc' \in 0..Len(Program)
  <2>1. pc + 1 \in 1..Len(Program)
    BY <1>3, <1>4, Onward
  <2> QED
    BY <1>2, <1>3, <2>1, Where
<1>6. Placed'
  <2>1. gl' \in {"none", "window", "ready", "gone"} /\ lib' \in BOOLEAN
    BY <1>2, <1>3 DEF Placed
  <2> QED
    BY <1>1, <1>2, <1>3, <1>5, <2>1, Same DEF Placed
<1>7. InBlocks'
  BY <1>1, <1>2, <1>3, <1>4, BlocksNext
<1>8. Loaded'
  BY <1>1, <1>2, <1>3, <1>4, LoadedNext
<1>9. Surviving'
  BY <1>1, <1>2, <1>3, <1>4, SurvivingNext
<1>10. Released'
  <2>1. (lib' => lib) /\ (Program[pc].do = "terminate" => ~lib')
    BY <1>2
  <2> QED
    BY <1>1, <1>2, <1>3, <1>4, <2>1, ReleasedNext
<1>11. Prepared'
  BY <1>1, <1>2, <1>3, <1>4, PreparedNext
<1> QED
  BY <1>1, <1>2, <1>5, <1>6, <1>7, <1>8, <1>9, <1>10, <1>11, Same DEF ProgramInv

LEMMA EnterKeeps == ASSUME Fit, ProgramInv, Enter PROVE ProgramInv'
<1>1. /\ pc # 0 /\ prog' = prog /\ Program[pc].do = "open" /\ Here = Program[pc]
  BY Reading DEF Enter
<1>2. /\ pc' = pc + 1 /\ scope' = Append(scope, Program[pc].names) /\ strays' = strays
      /\ live' = live /\ held' = held /\ owned' = owned
      /\ gl' = gl /\ lib' = lib /\ lost' = lost /\ flawed' = flawed /\ ran' = ran
  BY <1>1 DEF Enter, glfwVars, nameVars, history
<1>3. /\ Placed /\ InBlocks /\ Loaded /\ Surviving /\ Released /\ Prepared
      /\ pc \in 1..Len(Program) /\ pc \in Nat /\ scope \in Seq(SUBSET NamesOf({"open"}))
  BY <1>1, Where DEF ProgramInv
<1>4. /\ Program[pc].do \notin Ends /\ Program[pc].do \notin Makes /\ Program[pc].do \notin Builds
  BY <1>1 DEF Ends, Makes, Builds
<1>5. pc + 1 \in 1..Len(Program) /\ pc' # 0 /\ pc' \in 0..Len(Program)
  <2>1. pc + 1 \in 1..Len(Program)
    BY <1>1, <1>3, Onward
  <2> QED
    BY <1>2, <1>3, <2>1, Where
<1>6. Placed'
  <2>1. Program[pc].names \subseteq NamesOf({"open"})
    BY <1>1, <1>3, Bearings DEF NamesOf, Doing, Program
  <2> DEFINE T == SUBSET NamesOf({"open"})
  <2>2. scope \in Seq(T) /\ Program[pc].names \in T
    BY <1>3, <2>1
  <2> HIDE DEF T
  <2>3. scope' \in Seq(T)
    BY <1>2, <2>2
  <2>4. scope' \in Seq(SUBSET NamesOf({"open"}))
    BY <2>3 DEF T
  <2> QED
    BY <1>1, <1>2, <1>3, <1>5, <2>4, Same DEF Placed
<1>7. InBlocks'
  BY <1>1, <1>2, <1>3, BlocksEnter
<1>8. Loaded'
  BY <1>1, <1>2, <1>3, LoadedNext
<1>9. Surviving'
  BY <1>1, <1>2, <1>3, SurvivingNext
<1>10. Released'
  BY <1>1, <1>2, <1>3, ReleasedNext
<1>11. Prepared'
  BY <1>1, <1>2, <1>3, <1>4, PreparedNext
<1> QED
  BY <1>1, <1>2, <1>5, <1>6, <1>7, <1>8, <1>9, <1>10, <1>11, Same DEF ProgramInv

LEMMA LeaveKeeps == ASSUME Fit, ProgramInv, Leave PROVE ProgramInv'
<1> DEFINE n == Len(scope) - 1
<1>1. /\ pc # 0 /\ prog' = prog /\ Program[pc].do = "close" /\ Here = Program[pc]
  BY Reading DEF Leave
<1>2. /\ pc' = pc + 1 /\ LeaveTo(n, {}, {}) /\ held' = held
      /\ gl' = gl /\ lib' = lib /\ lost' = lost /\ flawed' = flawed /\ ran' = ran
  BY <1>1 DEF Leave, glfwVars, history
<1>3. /\ Placed /\ InBlocks /\ Loaded /\ Surviving /\ Released /\ Prepared
      /\ pc \in 1..Len(Program) /\ pc \in Nat
  BY <1>1, Where DEF ProgramInv
<1>4. /\ Program[pc].do \notin Ends /\ Program[pc].do \notin Makes /\ Program[pc].do \notin Builds
  BY <1>1 DEF Ends, Makes, Builds
<1>5. pc + 1 \in 1..Len(Program) /\ pc' # 0 /\ pc' \in 0..Len(Program)
  <2>1. pc + 1 \in 1..Len(Program)
    BY <1>1, <1>3, Onward
  <2> QED
    BY <1>2, <1>3, <2>1, Where
<1>6. n \in 0..Len(scope)
  BY <1>1, <1>3, Closes
<1>7. \A x \in owned : \E i \in 1..Len(scope) : x \in scope[i]
  BY <1>3 DEF InBlocks
<1>8. owned \subseteq NamesOf({"open"})
  BY <1>1, <1>3, Objects
<1> HIDE DEF n
<1>9. /\ scope' \in Seq(SUBSET NamesOf({"open"})) /\ Len(scope') = n
      /\ \A i \in 1..n : scope'[i] = scope[i]
      /\ owned' \subseteq owned /\ \A x \in owned' : \E i \in 1..n : x \in scope'[i]
      /\ live' \subseteq live \cup {}
      /\ \A x \in live' \cap owned : x \in owned' \/ x \in {}
      /\ live \ owned \subseteq live'
      /\ gl = "ready" => strays' = strays
      /\ strays' \subseteq strays \cup {} \cup owned
  BY <1>1, <1>2, <1>3, <1>6, <1>7, Leaving
<1>10. strays' \subseteq Strays(prog)
  <2>1. gl = "ready" \/ owned \subseteq Strays(prog)
    BY <1>1, <1>3, Calling
  <2> QED
    BY <1>9, <2>1 DEF ProgramInv
<1>11. Placed'
  BY <1>1, <1>2, <1>3, <1>5, <1>9, Same DEF Placed
<1>12. InBlocks'
  BY <1>1, <1>2, <1>3, <1>9, BlocksLeave DEF n
<1>13. Loaded'
  BY <1>1, <1>2, <1>3, <1>8, <1>9, LoadedNext
<1>14. Surviving'
  BY <1>1, <1>2, <1>3, <1>9, SurvivingNext
<1>15. Released'
  BY <1>1, <1>2, <1>3, ReleasedNext
<1>16. Prepared'
  BY <1>1, <1>2, <1>3, <1>4, PreparedNext
<1> QED
  BY <1>1, <1>2, <1>5, <1>10, <1>11, <1>12, <1>13, <1>14, <1>15, <1>16, Same DEF ProgramInv

LEMMA ExitKeeps == ASSUME Fit, ProgramInv, Exit PROVE ProgramInv'
<1>1. /\ pc # 0 /\ prog' = prog /\ Program[pc].do = "return" /\ Here = Program[pc]
  BY Reading DEF Exit
<1>2. /\ pc' = 0 /\ LeaveTo(0, {}, {}) /\ held' = held /\ lost' = lost \cup live'
      /\ gl' = gl /\ lib' = lib /\ flawed' = flawed /\ ran' = ran
  BY <1>1 DEF Exit, history
<1>3. /\ Placed /\ InBlocks /\ Loaded /\ Surviving /\ Released
      /\ pc \in 1..Len(Program) /\ pc \in Nat /\ Len(Program) \in Nat
      /\ Course.exit \in 1..Len(Program) /\ Course.loop \in 1..Course.exit /\ 0 \in 0..Len(scope)
  BY <1>1, Where, Bearings DEF ProgramInv
<1>4. \A x \in owned : \E i \in 1..Len(scope) : x \in scope[i]
  BY <1>3 DEF InBlocks
<1>5. /\ scope' \in Seq(SUBSET NamesOf({"open"}))
      /\ owned' \subseteq owned /\ live' \subseteq live \cup {}
      /\ gl = "ready" => strays' = strays
      /\ strays' \subseteq strays \cup {} \cup owned
  BY <1>1, <1>2, <1>3, <1>4, Leaving
<1>6. strays' \subseteq Strays(prog)
  <2>1. gl = "ready" \/ owned \subseteq Strays(prog)
    BY <1>1, <1>3, Calling
  <2> QED
    BY <1>5, <2>1 DEF ProgramInv
<1>7. Placed'
  <2>1. 0 \in 0..Len(Program)
    BY <1>3
  <2> QED
    BY <1>1, <1>2, <1>3, <1>5, <2>1, Same DEF Placed
<1>8. Labelled \/ ran => lost' \subseteq Stays
  <2>1. SUFFICES ASSUME Labelled \/ ran PROVE lost' \subseteq Stays
    OBVIOUS
  <2>3. Main /\ Draws
    <3>1. CASE Labelled
      <4>1. Course.exit = Len(Program) /\ Draws
        BY <1>3, <3>1, Bearings DEF Labelled, Shaped, Draws
      <4> QED
        BY <1>3, <4>1 DEF Main
    <3>2. CASE ran
      BY <1>3, <3>2 DEF Surviving
    <3> QED
      BY <2>1, <3>1, <3>2
  <2>4. live \subseteq Stays /\ lost \subseteq Stays
    BY <1>1, <1>3, <2>3, Remaining DEF Ends
  <2> QED
    BY <1>2, <1>5, <2>4
<1>9. lib => Keeps
  <2>1. ~Handler(Program[pc])
    BY <1>1 DEF Handler
  <2>2. CASE pc > 1 /\ Program[pc - 1].do = "terminate"
    BY <1>3, <2>1, <2>2 DEF Released
  <2>3. CASE pc > 1 /\ Program[pc - 1].do = "macro" /\ Alone(Program, pc - 1)
    BY <1>3, <2>1, <2>3 DEF Released
  <2>4. CASE Course.exit < pc /\ prog \in {"rectangle", "traingle", "window"}
    <3>1. ~ran
      BY <1>3, <2>4 DEF Surviving, Main
    <3> QED
      BY <2>4, <3>1 DEF Keeps
  <2>5. CASE /\ Course.exit = pc /\ Course.loop < pc /\ prog = "camera_circle"
             /\ \A j \in 1..Len(Program) : Program[j].do # "label"
    <3>1. ran
      BY <1>3, <2>5 DEF Surviving, Main, Labelled
    <3> QED
      BY <2>5, <3>1 DEF Keeps
  <2>6. CASE prog = "gravity_sim"
    BY <2>6 DEF Keeps
  <2> QED
    BY <1>1, <1>3, <2>2, <2>3, <2>4, <2>5, <2>6, Bearings DEF Returns
<1>10. Left'
  <2>1. Keeps' = Keeps
    BY <1>1, <1>2 DEF Keeps
  <2>2. Stays' = Stays
    BY <1>1, <1>2, StaysSame
  <2> QED
    BY <1>1, <1>2, <1>8, <1>9, <2>1, <2>2, Same DEF Left
<1> QED
  BY <1>1, <1>2, <1>6, <1>7, <1>10, Same DEF ProgramInv
-----------------------------------------------------------------------------
(* It holds at first, of every text that fits.                             *)
LEMMA ProgramStart == ASSUME Fit, Init PROVE ProgramInv
<1>1. /\ prog \in Programs /\ pc = 1 /\ lib = FALSE /\ gl = "none"
      /\ live = {} /\ held = {} /\ owned = {} /\ scope = <<>>
      /\ flawed = {} /\ ran = FALSE /\ lost = {} /\ strays = {}
  BY DEF Init
<1>2. /\ Len(Program) \in Nat /\ Course.exit \in 1..Len(Program) /\ 1 \in 1..Len(Program)
      /\ Course.loop \in 1..Course.exit /\ Course.first \in Nat \ {0}
  BY Bearings
<1>3. Placed
  <2>1. scope \in Seq(SUBSET NamesOf({"open"}))
    BY <1>1
  <2>2. pc \in 0..Len(Program)
    BY <1>1, <1>2
  <2> QED
    BY <1>1, <2>1, <2>2 DEF Placed
<1>4. InBlocks
  <2>1. Level(Program, 1) = 0
    BY LevelFirst
  <2>2. Main
    BY <1>1, <1>2 DEF Main
  <2> QED
    BY <1>1, <2>1, <2>2 DEF InBlocks
<1>5. Loaded
  <2>1. ~Using(Course, pc)
    BY <1>1, <1>2, Bearings DEF Using, Shaped
  <2> QED
    BY <1>1, <2>1 DEF Loaded
<1>6. Surviving
  BY <1>1, <1>2 DEF Surviving
<1>7. Released
  BY <1>1 DEF Released
<1>8. Prepared
  BY <1>1 DEF Prepared
<1> QED
  BY <1>1, <1>3, <1>4, <1>5, <1>6, <1>7, <1>8 DEF ProgramInv

(* It depends on the variables of Demos alone.                             *)
LEMMA ProgramSame ==
  ASSUME ProgramInv, UNCHANGED vars
  PROVE  ProgramInv'
<1>1. /\ prog' = prog /\ pc' = pc /\ scope' = scope /\ strays' = strays
      /\ gl' = gl /\ lib' = lib /\ lost' = lost /\ held' = held /\ flawed' = flawed /\ ran' = ran
      /\ live' = live /\ owned' = owned
  BY DEF vars
<1>2. /\ Program' = Program /\ Course' = Course /\ Draws' = Draws /\ Labelled' = Labelled
      /\ Strays(prog)' = Strays(prog) /\ Remains(prog)' = Remains(prog)
      /\ Unnoticed(prog)' = Unnoticed(prog) /\ Stays' = Stays /\ Keeps' = Keeps
      /\ \A K : NamesOf(K)' = NamesOf(K)
  BY <1>1, Same, StaysSame DEF Keeps
<1>3. Placed' = Placed /\ (Left' <=> Left)
  BY <1>1, <1>2 DEF Placed, Left
<1>4. (InBlocks' <=> InBlocks) /\ (Loaded' <=> Loaded) /\ (Released' <=> Released) /\ (Prepared' <=> Prepared)
  BY <1>1, <1>2 DEF InBlocks, Loaded, Released, Prepared, Main
<1>5. Surviving' <=> Surviving
  BY <1>1, <1>2 DEF Surviving, Main, Doomed, Failing
<1> QED
  BY <1>1, <1>2, <1>3, <1>4, <1>5 DEF ProgramInv

(* It is kept by each step of a program and its loop.                      *)
LEMMA ProgramStep ==
  ASSUME Fit, ProgramInv, [FramesNext]_allVars
  PROVE  ProgramInv'
<1>1. ASSUME Advance PROVE ProgramInv'
  BY <1>1, LibraryInitKeeps, OpenWindowKeeps, LoadFunctionsKeeps, EndContextKeeps, NothingKeeps,
     GenerateKeeps, DeleteNamesKeeps, CompileOneKeeps, EnterKeeps, LeaveKeeps, ObtainKeeps,
     BuildFailsKeeps, SkipKeeps, LoadFailsKeeps, ExitKeeps DEF Advance
<1>2. ASSUME Render \/ EndLoop PROVE ProgramInv'
  BY <1>2, DrawKeeps, StopDrawingKeeps DEF Render, EndLoop
<1>3. ASSUME StartLoop \/ BeginTurn \/ EndPoll \/ UNCHANGED allVars PROVE ProgramInv'
  BY <1>3, ProgramSame DEF StartLoop, BeginTurn, EndPoll, allVars
<1>4. ASSUME Polling PROVE ProgramInv'
  BY <1>4, ProgramSame DEF Polling
<1> QED
  BY <1>1, <1>2, <1>3, <1>4 DEF FramesNext, PressKeys, CloseWindow, MoveCursor, Scroll, Resize
-----------------------------------------------------------------------------
(***************************************************************************)
(* Each text fits, read statement by statement: its plan, the blocks each  *)
(* statement is in (d), and where each failure leads.                      *)
(***************************************************************************)
LEMMA BasicLightingFits == ASSUME NEW p, p \in {"basic_lighting", "materials"} PROVE Fits(p)
<1> DEFINE t == BasicLightingSetup \o BasicLightingRun
           q == PlanOf(p)
           d == <<0, 0, 0, 0, 1, 1, 2, 2, 2, 2, 1, 1, 1, 1, 0, 0, 0, 0>>
<1>1. /\ Len(t) = 18 /\ DOMAIN t = 1..18
      /\ t[1] = Library("none") /\ t[2] = Window("CTX") /\ t[3] = Glad("CTX")
      /\ t[4] = Open({}) /\ t[5] = Gen(WithLight) /\ t[6] = Open(Shaders)
      /\ t[7] = BuildPath("cubeShader", "MESH")
      /\ t[8] = BuildPath("lightShader", "MESH")
      /\ t[9] = Loop(WithLight \cup Shaders) /\ t[10] = Close
      /\ t[11] = Label("MESH") /\ t[12] = Call /\ t[13] = Delete(WithLight)
      /\ t[14] = Close /\ t[15] = Label("CTX") /\ t[16] = Destroy
      /\ t[17] = Terminate /\ t[18] = Return
  BY DEF BasicLightingSetup, Start, BasicLightingRun, Finish
<1>3. Text(p) = t
  <2>1. CASE p = "basic_lighting"
    BY <2>1 DEF Text
  <2>2. CASE p = "materials"
    BY <2>2 DEF Text, BasicLightingSetup, Start, BasicLightingRun, Finish, MaterialsSetup,
     MaterialsRun
  <2> QED
    BY <2>1, <2>2
<1> HIDE DEF t
<1>4. /\ q.first = 4 /\ q.last = 14 /\ q.loop = 9 /\ q.exit = 18
      /\ Strays(p) = {} /\ Remains(p) = {} /\ Unnoticed(p) = {}
  BY DEF PlanOf, Plan, Strays, Remains, Unnoticed
<1> HIDE DEF q
<1> USE DEF S, Library, Window, Glad, Probe, Linked, Destroy, Terminate, Gen, Delete, Call, Compile,
       Open, Close, Build, BuildPath, Texture, Load, LoadIf, Loop, Label, Macro, Return
<1>5. Shaped(t, q)
  BY <1>1, <1>4 DEF Shaped, Ends
<1>6. InContext(t, q, Strays(p))
  BY <1>1, <1>4 DEF InContext, Uses, Using
<1>7. \A k \in 1..18 : Level(t, k) = d[k]
  <2>1. Nested(t, 18, d)
    BY <1>1 DEF Nested
  <2> HIDE DEF d
  <2> QED
    BY <2>1, Levels
<1>8. \A k, h : LeadsTo(t, k, h) =>
         \/ (k \in {7, 8} /\ h = 11) \/ (k \in {2, 3} /\ h = 15)
  BY <1>1 DEF LeadsTo, Handler
<1>9. Caught(t)
  BY <1>1 DEF Caught, LeadsTo, Handler, Obtains, Builds
<1>10. Ahead(t, q, Strays(p))
  BY <1>1, <1>4, <1>7, <1>8 DEF Ahead, Using, Uses, Only, Obtains, Builds
<1>11. Unwound(t, q)
  BY <1>1, <1>4, <1>7, <1>8 DEF Unwound, Inside
<1>12. InBlock(t, q, Strays(p) \cap Remains(p))
  BY <1>1, <1>4, <1>7 DEF InBlock, Inside, Obtains, Builds, Only, WithLight, Cube, Shaders
<1>13. Deletes(t, q, Remains(p))
  BY <1>1, <1>4 DEF Deletes, Ends, WithLight, Cube, Shaders
<1>14. Prepares(t, q, Unnoticed(p))
  <2> DEFINE M == {5, 7, 8}
  <2>1. \A k \in M : k \in 1..(q.loop - 1) /\ t[k].do \in Makes
    BY <1>1, <1>4 DEF Makes, Builds
  <2>2. \A x \in t[q.loop].names : \E k \in M : x \in t[k].names
    <3>1. \A x \in t[9].names :
            \/ x \in t[5].names \/ x \in t[7].names \/ x \in t[8].names
      BY <1>1 DEF WithLight, Cube, Shaders
    <3> QED
      BY <3>1, <1>4
  <2>3. \A k \in 1..(q.loop - 1) :
           /\ t[k].do \notin {"close", "label"} \cup Ends
           /\ t[k].do = "delete" => t[k].names \cap t[q.loop].names = {}
    BY <1>1, <1>4 DEF Ends
  <2>4. \A k \in 1..Len(t) : t[k].do = "compile" /\ t[k].err = "none" =>
          t[k].names \subseteq Unnoticed(p)
    BY <1>1, <1>4
  <2>5. \A k \in M :
           \/ t[k].do \in Builds
           \/ \A j \in 1..Len(t) : t[j].do = "open" => t[k].names \cap t[j].names = {}
    <3>1. \A j \in 1..Len(t) : t[j].do = "open" =>
            /\ t[5].names \cap t[j].names = {}
      BY <1>1 DEF WithLight, Cube, Shaders
    <3>2. /\ t[7].do \in Builds /\ t[8].do \in Builds
      BY <1>1 DEF Builds
    <3> QED
      BY <3>1, <3>2
  <2> HIDE DEF M
  <2> QED
    BY <2>1, <2>2, <2>3, <2>4, <2>5 DEF Prepares
<1>15. Returns(t, q, p)
  BY <1>1, <1>4, <1>8 DEF Returns, Alone
<1>16. Len(t) \in Nat /\ DOMAIN t = 1..Len(t)
  BY <1>1
<1> QED
  BY <1>3, <1>5, <1>6, <1>9, <1>10, <1>11, <1>12, <1>13, <1>14, <1>15, <1>16 DEF Fits, q

LEMMA LightingMapsFits == ASSUME NEW p, p = "lighting_maps" PROVE Fits(p)
<1> DEFINE t == LightingMapsSetup \o LightingMapsRun
           q == PlanOf(p)
           d == <<0, 0, 0, 0, 1, 1, 1, 1, 1, 1, 1, 2, 2, 2, 2, 2, 2, 1, 1, 1, 0, 0, 0, 0>>
<1>1. /\ Len(t) = 24 /\ DOMAIN t = 1..24
      /\ t[1] = Library("none") /\ t[2] = Window("CTX") /\ t[3] = Glad("CTX")
      /\ t[4] = Open(Maps) /\ t[5] = Gen(WithLight) /\ t[6] = Call
      /\ t[7] = Texture("diffuseMap") /\ t[8] = Texture("specularMap")
      /\ t[9] = Load("diffuseMap", "MESH") /\ t[10] = LoadIf("specularMap", "MESH")
      /\ t[11] = Open(Shaders) /\ t[12] = BuildPath("cubeShader", "SHADER")
      /\ t[13] = BuildPath("lightShader", "SHADER")
      /\ t[14] = Loop(WithLight \cup Shaders \cup {"diffuseMap"})
      /\ t[15] = Label("SHADER") /\ t[16] = Call /\ t[17] = Close
      /\ t[18] = Label("MESH") /\ t[19] = Delete(WithLight) /\ t[20] = Close
      /\ t[21] = Label("CTX") /\ t[22] = Destroy /\ t[23] = Terminate
      /\ t[24] = Return
  BY DEF LightingMapsSetup, Start, OneMap, Textures, LightingMapsRun, BothShaders,
     Unwind, Finish
<1>3. Text(p) = t
  BY DEF Text
<1> HIDE DEF t
<1>4. /\ q.first = 4 /\ q.last = 20 /\ q.loop = 14 /\ q.exit = 24
      /\ Strays(p) = {} /\ Remains(p) = {} /\ Unnoticed(p) = {}
  BY DEF PlanOf, Plan, Strays, Remains, Unnoticed
<1> HIDE DEF q
<1> USE DEF S, Library, Window, Glad, Probe, Linked, Destroy, Terminate, Gen, Delete, Call, Compile,
       Open, Close, Build, BuildPath, Texture, Load, LoadIf, Loop, Label, Macro, Return
<1>5. Shaped(t, q)
  BY <1>1, <1>4 DEF Shaped, Ends
<1>6. InContext(t, q, Strays(p))
  BY <1>1, <1>4 DEF InContext, Uses, Using
<1>7. \A k \in 1..24 : Level(t, k) = d[k]
  <2>1. Nested(t, 24, d)
    BY <1>1 DEF Nested
  <2> HIDE DEF d
  <2> QED
    BY <2>1, Levels
<1>8. \A k, h : LeadsTo(t, k, h) =>
         \/ (k \in {12, 13} /\ h = 15) \/ (k \in {9, 10} /\ h = 18)
         \/ (k \in {2, 3} /\ h = 21)
  BY <1>1 DEF LeadsTo, Handler
<1>9. Caught(t)
  BY <1>1 DEF Caught, LeadsTo, Handler, Obtains, Builds
<1>10. Ahead(t, q, Strays(p))
  BY <1>1, <1>4, <1>7, <1>8 DEF Ahead, Using, Uses, Only, Obtains, Builds
<1>11. Unwound(t, q)
  BY <1>1, <1>4, <1>7, <1>8, SMTT(30) DEF Unwound, Inside
<1>12. InBlock(t, q, Strays(p) \cap Remains(p))
  BY <1>1, <1>4, <1>7, SMTT(30)
     DEF InBlock, Inside, Obtains, Builds, Only, WithLight, Cube, Shaders, Maps
<1>13. Deletes(t, q, Remains(p))
  BY <1>1, <1>4, SMTT(30) DEF Deletes, Ends, WithLight, Cube, Shaders, Maps
<1>14. Prepares(t, q, Unnoticed(p))
  <2> DEFINE M == {5, 9, 12, 13}
  <2>1. \A k \in M : k \in 1..(q.loop - 1) /\ t[k].do \in Makes
    BY <1>1, <1>4 DEF Makes, Builds
  <2>2. \A x \in t[q.loop].names : \E k \in M : x \in t[k].names
    <3>1. \A x \in t[14].names :
            \/ x \in t[5].names \/ x \in t[9].names \/ x \in t[12].names
            \/ x \in t[13].names
      BY <1>1 DEF WithLight, Cube, Shaders, Maps
    <3> QED
      BY <3>1, <1>4
  <2>3. \A k \in 1..(q.loop - 1) :
           /\ t[k].do \notin {"close", "label"} \cup Ends
           /\ t[k].do = "delete" => t[k].names \cap t[q.loop].names = {}
    BY <1>1, <1>4 DEF Ends
  <2>4. \A k \in 1..Len(t) : t[k].do = "compile" /\ t[k].err = "none" =>
          t[k].names \subseteq Unnoticed(p)
    BY <1>1, <1>4
  <2>5. \A k \in M :
           \/ t[k].do \in Builds
           \/ \A j \in 1..Len(t) : t[j].do = "open" => t[k].names \cap t[j].names = {}
    <3>1. \A j \in 1..Len(t) : t[j].do = "open" =>
            /\ t[5].names \cap t[j].names = {}
      BY <1>1 DEF WithLight, Cube, Shaders, Maps
    <3>2. /\ t[9].do \in Builds /\ t[12].do \in Builds /\ t[13].do \in Builds
      BY <1>1 DEF Builds
    <3> QED
      BY <3>1, <3>2
  <2> HIDE DEF M
  <2> QED
    BY <2>1, <2>2, <2>3, <2>4, <2>5 DEF Prepares
<1>15. Returns(t, q, p)
  BY <1>1, <1>4, <1>8 DEF Returns, Alone
<1>16. Len(t) \in Nat /\ DOMAIN t = 1..Len(t)
  BY <1>1
<1> QED
  BY <1>3, <1>5, <1>6, <1>9, <1>10, <1>11, <1>12, <1>13, <1>14, <1>15, <1>16 DEF Fits, q

LEMMA CastersDirectionalFits == ASSUME NEW p, p = "casters_directional" PROVE Fits(p)
<1> DEFINE t == CastersDirectionalSetup \o CastersDirectionalRun
           q == PlanOf(p)
           d == <<0, 0, 0, 0, 1, 1, 1, 1, 1, 1, 1, 2, 2, 2, 2, 2, 2, 1, 1, 1, 0, 0, 0, 0>>
<1>1. /\ Len(t) = 24 /\ DOMAIN t = 1..24
      /\ t[1] = Library("none") /\ t[2] = Window("CTX") /\ t[3] = Glad("CTX")
      /\ t[4] = Open(Maps) /\ t[5] = Gen(WithLight) /\ t[6] = Call
      /\ t[7] = Texture("diffuseMap") /\ t[8] = Texture("specularMap")
      /\ t[9] = Load("diffuseMap", "MESH") /\ t[10] = LoadIf("specularMap", "MESH")
      /\ t[11] = Open(Shaders) /\ t[12] = BuildPath("cubeShader", "SHADER")
      /\ t[13] = BuildPath("lightShader", "SHADER")
      /\ t[14] = Loop(Cube \cup {"cubeShader", "diffuseMap"})
      /\ t[15] = Label("SHADER") /\ t[16] = Call /\ t[17] = Close
      /\ t[18] = Label("MESH") /\ t[19] = Delete(WithLight) /\ t[20] = Close
      /\ t[21] = Label("CTX") /\ t[22] = Destroy /\ t[23] = Terminate
      /\ t[24] = Return
  BY DEF CastersDirectionalSetup, Start, OneMap, Textures, CastersDirectionalRun,
     BothShaders, Unwind, Finish
<1>3. Text(p) = t
  BY DEF Text
<1> HIDE DEF t
<1>4. /\ q.first = 4 /\ q.last = 20 /\ q.loop = 14 /\ q.exit = 24
      /\ Strays(p) = {} /\ Remains(p) = {} /\ Unnoticed(p) = {}
  BY DEF PlanOf, Plan, Strays, Remains, Unnoticed
<1> HIDE DEF q
<1> USE DEF S, Library, Window, Glad, Probe, Linked, Destroy, Terminate, Gen, Delete, Call, Compile,
       Open, Close, Build, BuildPath, Texture, Load, LoadIf, Loop, Label, Macro, Return
<1>5. Shaped(t, q)
  BY <1>1, <1>4 DEF Shaped, Ends
<1>6. InContext(t, q, Strays(p))
  BY <1>1, <1>4 DEF InContext, Uses, Using
<1>7. \A k \in 1..24 : Level(t, k) = d[k]
  <2>1. Nested(t, 24, d)
    BY <1>1 DEF Nested
  <2> HIDE DEF d
  <2> QED
    BY <2>1, Levels
<1>8. \A k, h : LeadsTo(t, k, h) =>
         \/ (k \in {12, 13} /\ h = 15) \/ (k \in {9, 10} /\ h = 18)
         \/ (k \in {2, 3} /\ h = 21)
  BY <1>1 DEF LeadsTo, Handler
<1>9. Caught(t)
  BY <1>1 DEF Caught, LeadsTo, Handler, Obtains, Builds
<1>10. Ahead(t, q, Strays(p))
  BY <1>1, <1>4, <1>7, <1>8 DEF Ahead, Using, Uses, Only, Obtains, Builds
<1>11. Unwound(t, q)
  BY <1>1, <1>4, <1>7, <1>8, SMTT(30) DEF Unwound, Inside
<1>12. InBlock(t, q, Strays(p) \cap Remains(p))
  BY <1>1, <1>4, <1>7, SMTT(30)
     DEF InBlock, Inside, Obtains, Builds, Only, WithLight, Cube, Shaders, Maps
<1>13. Deletes(t, q, Remains(p))
  BY <1>1, <1>4, SMTT(30) DEF Deletes, Ends, WithLight, Cube, Shaders, Maps
<1>14. Prepares(t, q, Unnoticed(p))
  <2> DEFINE M == {5, 9, 12}
  <2>1. \A k \in M : k \in 1..(q.loop - 1) /\ t[k].do \in Makes
    BY <1>1, <1>4 DEF Makes, Builds
  <2>2. \A x \in t[q.loop].names : \E k \in M : x \in t[k].names
    <3>1. \A x \in t[14].names :
            \/ x \in t[5].names \/ x \in t[9].names \/ x \in t[12].names
      BY <1>1 DEF WithLight, Cube, Shaders, Maps
    <3> QED
      BY <3>1, <1>4
  <2>3. \A k \in 1..(q.loop - 1) :
           /\ t[k].do \notin {"close", "label"} \cup Ends
           /\ t[k].do = "delete" => t[k].names \cap t[q.loop].names = {}
    BY <1>1, <1>4 DEF Ends
  <2>4. \A k \in 1..Len(t) : t[k].do = "compile" /\ t[k].err = "none" =>
          t[k].names \subseteq Unnoticed(p)
    BY <1>1, <1>4
  <2>5. \A k \in M :
           \/ t[k].do \in Builds
           \/ \A j \in 1..Len(t) : t[j].do = "open" => t[k].names \cap t[j].names = {}
    <3>1. \A j \in 1..Len(t) : t[j].do = "open" =>
            /\ t[5].names \cap t[j].names = {}
      BY <1>1 DEF WithLight, Cube, Shaders, Maps
    <3>2. /\ t[9].do \in Builds /\ t[12].do \in Builds
      BY <1>1 DEF Builds
    <3> QED
      BY <3>1, <3>2
  <2> HIDE DEF M
  <2> QED
    BY <2>1, <2>2, <2>3, <2>4, <2>5 DEF Prepares
<1>15. Returns(t, q, p)
  BY <1>1, <1>4, <1>8 DEF Returns, Alone
<1>16. Len(t) \in Nat /\ DOMAIN t = 1..Len(t)
  BY <1>1
<1> QED
  BY <1>3, <1>5, <1>6, <1>9, <1>10, <1>11, <1>12, <1>13, <1>14, <1>15, <1>16 DEF Fits, q

LEMMA CastersPointFits == ASSUME NEW p, p = "casters_point" PROVE Fits(p)
<1> DEFINE t == CastersPointSetup \o CastersPointRun
           q == PlanOf(p)
           d == <<0, 0, 0, 0, 1, 1, 1, 1, 1, 1, 1, 2, 2, 2, 2, 2, 2, 1, 1, 1, 0, 0, 0, 0>>
<1>1. /\ Len(t) = 24 /\ DOMAIN t = 1..24
      /\ t[1] = Library("none") /\ t[2] = Window("CTX") /\ t[3] = Glad("CTX")
      /\ t[4] = Open(Maps) /\ t[5] = Gen(WithLight) /\ t[6] = Call
      /\ t[7] = Texture("diffuseMap") /\ t[8] = Texture("specularMap")
      /\ t[9] = Load("diffuseMap", "MESH") /\ t[10] = Load("specularMap", "MESH")
      /\ t[11] = Open(Shaders) /\ t[12] = BuildPath("cubeShader", "SHADER")
      /\ t[13] = BuildPath("lightShader", "SHADER")
      /\ t[14] = Loop(WithLight \cup Shaders \cup Maps) /\ t[15] = Label("SHADER")
      /\ t[16] = Call /\ t[17] = Close /\ t[18] = Label("MESH")
      /\ t[19] = Delete(WithLight) /\ t[20] = Close /\ t[21] = Label("CTX")
      /\ t[22] = Destroy /\ t[23] = Terminate /\ t[24] = Return
  BY DEF CastersPointSetup, Start, BothMaps, Textures, CastersPointRun, BothShaders,
     Unwind, Finish
<1>3. Text(p) = t
  BY DEF Text
<1> HIDE DEF t
<1>4. /\ q.first = 4 /\ q.last = 20 /\ q.loop = 14 /\ q.exit = 24
      /\ Strays(p) = {} /\ Remains(p) = {} /\ Unnoticed(p) = {}
  BY DEF PlanOf, Plan, Strays, Remains, Unnoticed
<1> HIDE DEF q
<1> USE DEF S, Library, Window, Glad, Probe, Linked, Destroy, Terminate, Gen, Delete, Call, Compile,
       Open, Close, Build, BuildPath, Texture, Load, LoadIf, Loop, Label, Macro, Return
<1>5. Shaped(t, q)
  BY <1>1, <1>4 DEF Shaped, Ends
<1>6. InContext(t, q, Strays(p))
  BY <1>1, <1>4 DEF InContext, Uses, Using
<1>7. \A k \in 1..24 : Level(t, k) = d[k]
  <2>1. Nested(t, 24, d)
    BY <1>1 DEF Nested
  <2> HIDE DEF d
  <2> QED
    BY <2>1, Levels
<1>8. \A k, h : LeadsTo(t, k, h) =>
         \/ (k \in {12, 13} /\ h = 15) \/ (k \in {9, 10} /\ h = 18)
         \/ (k \in {2, 3} /\ h = 21)
  BY <1>1 DEF LeadsTo, Handler
<1>9. Caught(t)
  BY <1>1 DEF Caught, LeadsTo, Handler, Obtains, Builds
<1>10. Ahead(t, q, Strays(p))
  BY <1>1, <1>4, <1>7, <1>8 DEF Ahead, Using, Uses, Only, Obtains, Builds
<1>11. Unwound(t, q)
  BY <1>1, <1>4, <1>7, <1>8, SMTT(30) DEF Unwound, Inside
<1>12. InBlock(t, q, Strays(p) \cap Remains(p))
  BY <1>1, <1>4, <1>7, SMTT(30)
     DEF InBlock, Inside, Obtains, Builds, Only, WithLight, Cube, Shaders, Maps
<1>13. Deletes(t, q, Remains(p))
  BY <1>1, <1>4, SMTT(30) DEF Deletes, Ends, WithLight, Cube, Shaders, Maps
<1>14. Prepares(t, q, Unnoticed(p))
  <2> DEFINE M == {5, 9, 10, 12, 13}
  <2>1. \A k \in M : k \in 1..(q.loop - 1) /\ t[k].do \in Makes
    BY <1>1, <1>4 DEF Makes, Builds
  <2>2. \A x \in t[q.loop].names : \E k \in M : x \in t[k].names
    <3>1. \A x \in t[14].names :
            \/ x \in t[5].names \/ x \in t[9].names \/ x \in t[10].names
            \/ x \in t[12].names \/ x \in t[13].names
      BY <1>1 DEF WithLight, Cube, Shaders, Maps
    <3> QED
      BY <3>1, <1>4
  <2>3. \A k \in 1..(q.loop - 1) :
           /\ t[k].do \notin {"close", "label"} \cup Ends
           /\ t[k].do = "delete" => t[k].names \cap t[q.loop].names = {}
    BY <1>1, <1>4 DEF Ends
  <2>4. \A k \in 1..Len(t) : t[k].do = "compile" /\ t[k].err = "none" =>
          t[k].names \subseteq Unnoticed(p)
    BY <1>1, <1>4
  <2>5. \A k \in M :
           \/ t[k].do \in Builds
           \/ \A j \in 1..Len(t) : t[j].do = "open" => t[k].names \cap t[j].names = {}
    <3>1. \A j \in 1..Len(t) : t[j].do = "open" =>
            /\ t[5].names \cap t[j].names = {}
      BY <1>1 DEF WithLight, Cube, Shaders, Maps
    <3>2. /\ t[9].do \in Builds /\ t[10].do \in Builds /\ t[12].do \in Builds
          /\ t[13].do \in Builds
      BY <1>1 DEF Builds
    <3> QED
      BY <3>1, <3>2
  <2> HIDE DEF M
  <2> QED
    BY <2>1, <2>2, <2>3, <2>4, <2>5 DEF Prepares
<1>15. Returns(t, q, p)
  BY <1>1, <1>4, <1>8 DEF Returns, Alone
<1>16. Len(t) \in Nat /\ DOMAIN t = 1..Len(t)
  BY <1>1
<1> QED
  BY <1>3, <1>5, <1>6, <1>9, <1>10, <1>11, <1>12, <1>13, <1>14, <1>15, <1>16 DEF Fits, q

LEMMA CastersSpotFits == ASSUME NEW p, p = "casters_spot" PROVE Fits(p)
<1> DEFINE t == CastersSpotSetup \o CastersSpotRun
           q == PlanOf(p)
           d == <<0, 0, 0, 0, 1, 1, 1, 1, 1, 1, 1, 2, 2, 2, 2, 2, 1, 1, 1, 0, 0, 0, 0>>
<1>1. /\ Len(t) = 23 /\ DOMAIN t = 1..23
      /\ t[1] = Library("none") /\ t[2] = Window("CTX") /\ t[3] = Glad("CTX")
      /\ t[4] = Open(Maps) /\ t[5] = Gen(Cube) /\ t[6] = Call
      /\ t[7] = Texture("diffuseMap") /\ t[8] = Texture("specularMap")
      /\ t[9] = Load("diffuseMap", "MESH") /\ t[10] = Load("specularMap", "MESH")
      /\ t[11] = Open({"cubeShader"}) /\ t[12] = BuildPath("cubeShader", "SHADER")
      /\ t[13] = Loop(Cube \cup {"cubeShader"} \cup Maps) /\ t[14] = Label("SHADER")
      /\ t[15] = Call /\ t[16] = Close /\ t[17] = Label("MESH")
      /\ t[18] = Delete(WithLight) /\ t[19] = Close /\ t[20] = Label("CTX")
      /\ t[21] = Destroy /\ t[22] = Terminate /\ t[23] = Return
  BY DEF CastersSpotSetup, Start, BothMaps, Textures, CastersSpotRun, Unwind, Finish
<1>3. Text(p) = t
  BY DEF Text
<1> HIDE DEF t
<1>4. /\ q.first = 4 /\ q.last = 19 /\ q.loop = 13 /\ q.exit = 23
      /\ Strays(p) = {} /\ Remains(p) = {} /\ Unnoticed(p) = {}
  BY DEF PlanOf, Plan, Strays, Remains, Unnoticed
<1> HIDE DEF q
<1> USE DEF S, Library, Window, Glad, Probe, Linked, Destroy, Terminate, Gen, Delete, Call, Compile,
       Open, Close, Build, BuildPath, Texture, Load, LoadIf, Loop, Label, Macro, Return
<1>5. Shaped(t, q)
  BY <1>1, <1>4 DEF Shaped, Ends
<1>6. InContext(t, q, Strays(p))
  BY <1>1, <1>4 DEF InContext, Uses, Using
<1>7. \A k \in 1..23 : Level(t, k) = d[k]
  <2>1. Nested(t, 23, d)
    BY <1>1 DEF Nested
  <2> HIDE DEF d
  <2> QED
    BY <2>1, Levels
<1>8. \A k, h : LeadsTo(t, k, h) =>
         \/ (k = 12 /\ h = 14) \/ (k \in {9, 10} /\ h = 17)
         \/ (k \in {2, 3} /\ h = 20)
  BY <1>1 DEF LeadsTo, Handler
<1>9. Caught(t)
  BY <1>1 DEF Caught, LeadsTo, Handler, Obtains, Builds
<1>10. Ahead(t, q, Strays(p))
  BY <1>1, <1>4, <1>7, <1>8 DEF Ahead, Using, Uses, Only, Obtains, Builds
<1>11. Unwound(t, q)
  BY <1>1, <1>4, <1>7, <1>8, SMTT(30) DEF Unwound, Inside
<1>12. InBlock(t, q, Strays(p) \cap Remains(p))
  BY <1>1, <1>4, <1>7, SMTT(30)
     DEF InBlock, Inside, Obtains, Builds, Only, WithLight, Cube, Maps
<1>13. Deletes(t, q, Remains(p))
  BY <1>1, <1>4, SMTT(30) DEF Deletes, Ends, WithLight, Cube, Maps
<1>14. Prepares(t, q, Unnoticed(p))
  <2> DEFINE M == {5, 9, 10, 12}
  <2>1. \A k \in M : k \in 1..(q.loop - 1) /\ t[k].do \in Makes
    BY <1>1, <1>4 DEF Makes, Builds
  <2>2. \A x \in t[q.loop].names : \E k \in M : x \in t[k].names
    <3>1. \A x \in t[13].names :
            \/ x \in t[5].names \/ x \in t[9].names \/ x \in t[10].names
            \/ x \in t[12].names
      BY <1>1 DEF WithLight, Cube, Maps
    <3> QED
      BY <3>1, <1>4
  <2>3. \A k \in 1..(q.loop - 1) :
           /\ t[k].do \notin {"close", "label"} \cup Ends
           /\ t[k].do = "delete" => t[k].names \cap t[q.loop].names = {}
    BY <1>1, <1>4 DEF Ends
  <2>4. \A k \in 1..Len(t) : t[k].do = "compile" /\ t[k].err = "none" =>
          t[k].names \subseteq Unnoticed(p)
    BY <1>1, <1>4
  <2>5. \A k \in M :
           \/ t[k].do \in Builds
           \/ \A j \in 1..Len(t) : t[j].do = "open" => t[k].names \cap t[j].names = {}
    <3>1. \A j \in 1..Len(t) : t[j].do = "open" =>
            /\ t[5].names \cap t[j].names = {}
      BY <1>1 DEF WithLight, Cube, Maps
    <3>2. /\ t[9].do \in Builds /\ t[10].do \in Builds /\ t[12].do \in Builds
      BY <1>1 DEF Builds
    <3> QED
      BY <3>1, <3>2
  <2> HIDE DEF M
  <2> QED
    BY <2>1, <2>2, <2>3, <2>4, <2>5 DEF Prepares
<1>15. Returns(t, q, p)
  BY <1>1, <1>4, <1>8 DEF Returns, Alone
<1>16. Len(t) \in Nat /\ DOMAIN t = 1..Len(t)
  BY <1>1
<1> QED
  BY <1>3, <1>5, <1>6, <1>9, <1>10, <1>11, <1>12, <1>13, <1>14, <1>15, <1>16 DEF Fits, q

LEMMA MultipleLightsFits == ASSUME NEW p, p = "multiple_lights" PROVE Fits(p)
<1> DEFINE t == MultipleLightsSetup \o MultipleLightsRun
           q == PlanOf(p)
           d == <<0, 0, 0, 0, 1, 1, 1, 1, 1, 1, 1, 1, 2, 2, 2, 2, 2, 2, 1, 1, 1, 0, 0, 0, 0>>
<1>1. /\ Len(t) = 25 /\ DOMAIN t = 1..25
      /\ t[1] = Library("none") /\ t[2] = Window("CTX") /\ t[3] = Glad("CTX")
      /\ t[4] = Open(Maps) /\ t[7] = Call /\ t[8] = Texture("diffuseMap")
      /\ t[9] = Texture("specularMap") /\ t[10] = Load("diffuseMap", "MESH")
      /\ t[11] = Load("specularMap", "MESH") /\ t[12] = Open(Shaders)
      /\ t[13] = BuildPath("cubeShader", "SHADER")
      /\ t[14] = BuildPath("lightShader", "SHADER")
      /\ t[15] = Loop(WithLight \cup Shaders \cup Maps) /\ t[16] = Label("SHADER")
      /\ t[17] = Call /\ t[18] = Close /\ t[19] = Label("MESH")
      /\ t[20] = Delete(WithLight) /\ t[21] = Close /\ t[22] = Label("CTX")
      /\ t[23] = Destroy /\ t[24] = Terminate /\ t[25] = Return
  BY DEF MultipleLightsSetup, Start, BothMaps, Textures, MultipleLightsRun, BothShaders,
     Unwind, Finish
<1>2. /\ t[5].do = "gen" /\ t[5].err = "none" /\ t[5].names = {"cubeVAO"} \cup {"VBO", "EBO"}
      /\ t[6].do = "gen" /\ t[6].err = "none" /\ t[6].names = {"lightVAO"}
  BY DEF MultipleLightsSetup, Start, BothMaps, Textures, MultipleLightsRun, BothShaders,
     Unwind, Finish, LoadVert, Gen, S
<1>3. Text(p) = t
  BY DEF Text
<1> HIDE DEF t
<1>4. /\ q.first = 4 /\ q.last = 21 /\ q.loop = 15 /\ q.exit = 25
      /\ Strays(p) = {} /\ Remains(p) = {} /\ Unnoticed(p) = {}
  BY DEF PlanOf, Plan, Strays, Remains, Unnoticed
<1> HIDE DEF q
<1> USE DEF S, Library, Window, Glad, Probe, Linked, Destroy, Terminate, Gen, Delete, Call, Compile,
       Open, Close, Build, BuildPath, Texture, Load, LoadIf, Loop, Label, Macro, Return
<1>5. Shaped(t, q)
  BY <1>1, <1>2, <1>4 DEF Shaped, Ends
<1>6. InContext(t, q, Strays(p))
  BY <1>1, <1>2, <1>4 DEF InContext, Uses, Using
<1>7. \A k \in 1..25 : Level(t, k) = d[k]
  <2>1. Nested(t, 25, d)
    BY <1>1, <1>2 DEF Nested
  <2> HIDE DEF d
  <2> QED
    BY <2>1, Levels
<1>8. \A k, h : LeadsTo(t, k, h) =>
         \/ (k \in {13, 14} /\ h = 16) \/ (k \in {10, 11} /\ h = 19)
         \/ (k \in {2, 3} /\ h = 22)
  BY <1>1, <1>2 DEF LeadsTo, Handler
<1>9. Caught(t)
  BY <1>1, <1>2 DEF Caught, LeadsTo, Handler, Obtains, Builds
<1>10. Ahead(t, q, Strays(p))
  BY <1>1, <1>2, <1>4, <1>7, <1>8 DEF Ahead, Using, Uses, Only, Obtains, Builds
<1>11. Unwound(t, q)
  BY <1>1, <1>2, <1>4, <1>7, <1>8, SMTT(30) DEF Unwound, Inside
<1>12. InBlock(t, q, Strays(p) \cap Remains(p))
  BY <1>1, <1>2, <1>4, <1>7, SMTT(30)
     DEF InBlock, Inside, Obtains, Builds, Only, WithLight, Cube, Shaders, Maps
<1>13. Deletes(t, q, Remains(p))
  BY <1>1, <1>2, <1>4, SMTT(30) DEF Deletes, Ends, WithLight, Cube, Shaders, Maps
<1>14. Prepares(t, q, Unnoticed(p))
  <2> DEFINE M == {5, 6, 10, 11, 13, 14}
  <2>1. \A k \in M : k \in 1..(q.loop - 1) /\ t[k].do \in Makes
    BY <1>1, <1>2, <1>4 DEF Makes, Builds
  <2>2. \A x \in t[q.loop].names : \E k \in M : x \in t[k].names
    <3>1. \A x \in t[15].names :
            \/ x \in t[5].names \/ x \in t[6].names \/ x \in t[10].names
            \/ x \in t[11].names \/ x \in t[13].names \/ x \in t[14].names
      BY <1>1, <1>2 DEF WithLight, Cube, Shaders, Maps
    <3> QED
      BY <3>1, <1>4
  <2>3. \A k \in 1..(q.loop - 1) :
           /\ t[k].do \notin {"close", "label"} \cup Ends
           /\ t[k].do = "delete" => t[k].names \cap t[q.loop].names = {}
    BY <1>1, <1>2, <1>4 DEF Ends
  <2>4. \A k \in 1..Len(t) : t[k].do = "compile" /\ t[k].err = "none" =>
          t[k].names \subseteq Unnoticed(p)
    BY <1>1, <1>2, <1>4
  <2>5. \A k \in M :
           \/ t[k].do \in Builds
           \/ \A j \in 1..Len(t) : t[j].do = "open" => t[k].names \cap t[j].names = {}
    <3>1. \A j \in 1..Len(t) : t[j].do = "open" =>
            /\ t[5].names \cap t[j].names = {} /\ t[6].names \cap t[j].names = {}
      BY <1>1, <1>2 DEF WithLight, Cube, Shaders, Maps
    <3>2. /\ t[10].do \in Builds /\ t[11].do \in Builds /\ t[13].do \in Builds
          /\ t[14].do \in Builds
      BY <1>1, <1>2 DEF Builds
    <3> QED
      BY <3>1, <3>2
  <2> HIDE DEF M
  <2> QED
    BY <2>1, <2>2, <2>3, <2>4, <2>5 DEF Prepares
<1>15. Returns(t, q, p)
  BY <1>1, <1>2, <1>4, <1>8 DEF Returns, Alone
<1>16. Len(t) \in Nat /\ DOMAIN t = 1..Len(t)
  BY <1>1
<1> QED
  BY <1>3, <1>5, <1>6, <1>9, <1>10, <1>11, <1>12, <1>13, <1>14, <1>15, <1>16 DEF Fits, q

LEMMA ColorsFits == ASSUME NEW p, p = "colors" PROVE Fits(p)
<1> DEFINE t == ColorsSetup \o ColorsRun
           q == PlanOf(p)
           d == <<0, 0, 0, 0, 0, 1, 1, 1, 1, 1, 0, 0, 0, 0, 0, 0, 0, 0>>
<1>1. /\ Len(t) = 18 /\ DOMAIN t = 1..18
      /\ t[1] = Library("none") /\ t[2] = Window("ERR") /\ t[3] = Glad("ERR")
      /\ t[4] = Gen(WithLight) /\ t[5] = Open(Shaders) /\ t[6] = Call
      /\ t[7] = BuildPath("cubeShader", "ERR")
      /\ t[8] = BuildPath("lightShader", "ERR")
      /\ t[9] = Loop(WithLight \cup Shaders) /\ t[10] = Close
      /\ t[11] = Delete(WithLight) /\ t[12] = Destroy /\ t[13] = Terminate
      /\ t[14] = Return /\ t[15] = Macro("ERR") /\ t[16] = Destroy
      /\ t[17] = Terminate /\ t[18] = Return
  BY DEF ColorsSetup, ColorsRun
<1>3. Text(p) = t
  BY DEF Text
<1> HIDE DEF t
<1>4. /\ q.first = 4 /\ q.last = 11 /\ q.loop = 9 /\ q.exit = 14
      /\ Strays(p) = {"cubeShader"} /\ Remains(p) = {} /\ Unnoticed(p) = {}
  BY DEF PlanOf, Plan, Strays, Remains, Unnoticed
<1> HIDE DEF q
<1> USE DEF S, Library, Window, Glad, Probe, Linked, Destroy, Terminate, Gen, Delete, Call, Compile,
       Open, Close, Build, BuildPath, Texture, Load, LoadIf, Loop, Label, Macro, Return
<1>5. Shaped(t, q)
  BY <1>1, <1>4 DEF Shaped, Ends
<1>6. InContext(t, q, Strays(p))
  BY <1>1, <1>4 DEF InContext, Uses, Using
<1>7. \A k \in 1..18 : Level(t, k) = d[k]
  <2>1. Nested(t, 18, d)
    BY <1>1 DEF Nested
  <2> HIDE DEF d
  <2> QED
    BY <2>1, Levels
<1>8. \A k, h : LeadsTo(t, k, h) =>
         (k \in {2, 3, 7, 8} /\ h = 15)
  BY <1>1 DEF LeadsTo, Handler
<1>9. Caught(t)
  BY <1>1 DEF Caught, LeadsTo, Handler, Obtains, Builds
<1>10. Ahead(t, q, Strays(p))
  BY <1>1, <1>4, <1>7, <1>8 DEF Ahead, Using, Uses, Only, Obtains, Builds
<1>11. Unwound(t, q)
  BY <1>1, <1>4, <1>7, <1>8 DEF Unwound, Inside
<1>12. InBlock(t, q, Strays(p) \cap Remains(p))
  BY <1>1, <1>4, <1>7 DEF InBlock, Inside, Obtains, Builds, Only, WithLight, Cube, Shaders
<1>13. Deletes(t, q, Remains(p))
  BY <1>1, <1>4 DEF Deletes, Ends, WithLight, Cube, Shaders
<1>14. Prepares(t, q, Unnoticed(p))
  <2> DEFINE M == {4, 7, 8}
  <2>1. \A k \in M : k \in 1..(q.loop - 1) /\ t[k].do \in Makes
    BY <1>1, <1>4 DEF Makes, Builds
  <2>2. \A x \in t[q.loop].names : \E k \in M : x \in t[k].names
    <3>1. \A x \in t[9].names :
            \/ x \in t[4].names \/ x \in t[7].names \/ x \in t[8].names
      BY <1>1 DEF WithLight, Cube, Shaders
    <3> QED
      BY <3>1, <1>4
  <2>3. \A k \in 1..(q.loop - 1) :
           /\ t[k].do \notin {"close", "label"} \cup Ends
           /\ t[k].do = "delete" => t[k].names \cap t[q.loop].names = {}
    BY <1>1, <1>4 DEF Ends
  <2>4. \A k \in 1..Len(t) : t[k].do = "compile" /\ t[k].err = "none" =>
          t[k].names \subseteq Unnoticed(p)
    BY <1>1, <1>4
  <2>5. \A k \in M :
           \/ t[k].do \in Builds
           \/ \A j \in 1..Len(t) : t[j].do = "open" => t[k].names \cap t[j].names = {}
    <3>1. \A j \in 1..Len(t) : t[j].do = "open" =>
            /\ t[4].names \cap t[j].names = {}
      BY <1>1 DEF WithLight, Cube, Shaders
    <3>2. /\ t[7].do \in Builds /\ t[8].do \in Builds
      BY <1>1 DEF Builds
    <3> QED
      BY <3>1, <3>2
  <2> HIDE DEF M
  <2> QED
    BY <2>1, <2>2, <2>3, <2>4, <2>5 DEF Prepares
<1>15. Returns(t, q, p)
  BY <1>1, <1>4, <1>8 DEF Returns, Alone
<1>16. Len(t) \in Nat /\ DOMAIN t = 1..Len(t)
  BY <1>1
<1> QED
  BY <1>3, <1>5, <1>6, <1>9, <1>10, <1>11, <1>12, <1>13, <1>14, <1>15, <1>16 DEF Fits, q

LEMMA CameraKeyboardFits ==
  ASSUME NEW p, p \in {"camera_keyboard_dt", "camera_mouse_zoom"}
  PROVE  Fits(p)
<1> DEFINE t == CameraKeyboardSetup \o CameraKeyboardRun
           q == PlanOf(p)
           d == <<0, 0, 0, 0, 0, 0, 1, 1, 1, 0, 0, 0, 0, 0, 0, 0>>
<1>1. /\ Len(t) = 16 /\ DOMAIN t = 1..16
      /\ t[1] = Library("none") /\ t[2] = Window("ERR") /\ t[3] = Glad("ERR")
      /\ t[4] = Gen(Mesh) /\ t[5] = Gen({"textures"}) /\ t[6] = Open({"shader"})
      /\ t[7] = Build("shader", "ERR")
      /\ t[8] = Loop(Mesh \cup {"textures", "shader"}) /\ t[9] = Close
      /\ t[10] = Delete(Mesh) /\ t[11] = Delete({"textures"}) /\ t[12] = Terminate
      /\ t[13] = Return /\ t[14] = Macro("ERR") /\ t[15] = Terminate
      /\ t[16] = Return
  BY DEF CameraKeyboardSetup, Textured, Begin, CameraKeyboardRun, BuildOne, Drawn, Bail
<1>3. Text(p) = t
  <2>1. CASE p = "camera_keyboard_dt"
    BY <2>1 DEF Text
  <2>2. CASE p = "camera_mouse_zoom"
    BY <2>2
       DEF Text, CameraKeyboardSetup, Textured, Begin, CameraKeyboardRun, BuildOne, Drawn, Bail,
     CameraMouseZoomSetup, CameraMouseZoomRun
  <2> QED
    BY <2>1, <2>2
<1> HIDE DEF t
<1>4. /\ q.first = 4 /\ q.last = 11 /\ q.loop = 8 /\ q.exit = 13
      /\ Strays(p) = {} /\ Remains(p) = {} /\ Unnoticed(p) = {}
  BY DEF PlanOf, Plan, Strays, Remains, Unnoticed
<1> HIDE DEF q
<1> USE DEF S, Library, Window, Glad, Probe, Linked, Destroy, Terminate, Gen, Delete, Call, Compile,
       Open, Close, Build, BuildPath, Texture, Load, LoadIf, Loop, Label, Macro, Return
<1>5. Shaped(t, q)
  BY <1>1, <1>4 DEF Shaped, Ends
<1>6. InContext(t, q, Strays(p))
  BY <1>1, <1>4 DEF InContext, Uses, Using
<1>7. \A k \in 1..16 : Level(t, k) = d[k]
  <2>1. Nested(t, 16, d)
    BY <1>1 DEF Nested
  <2> HIDE DEF d
  <2> QED
    BY <2>1, Levels
<1>8. \A k, h : LeadsTo(t, k, h) =>
         (k \in {2, 3, 7} /\ h = 14)
  BY <1>1 DEF LeadsTo, Handler
<1>9. Caught(t)
  BY <1>1 DEF Caught, LeadsTo, Handler, Obtains, Builds
<1>10. Ahead(t, q, Strays(p))
  BY <1>1, <1>4, <1>7, <1>8 DEF Ahead, Using, Uses, Only, Obtains, Builds
<1>11. Unwound(t, q)
  BY <1>1, <1>4, <1>7, <1>8 DEF Unwound, Inside
<1>12. InBlock(t, q, Strays(p) \cap Remains(p))
  BY <1>1, <1>4, <1>7 DEF InBlock, Inside, Obtains, Builds, Only, Mesh
<1>13. Deletes(t, q, Remains(p))
  BY <1>1, <1>4 DEF Deletes, Ends, Mesh
<1>14. Prepares(t, q, Unnoticed(p))
  <2> DEFINE M == {4, 5, 7}
  <2>1. \A k \in M : k \in 1..(q.loop - 1) /\ t[k].do \in Makes
    BY <1>1, <1>4 DEF Makes, Builds
  <2>2. \A x \in t[q.loop].names : \E k \in M : x \in t[k].names
    <3>1. \A x \in t[8].names :
            \/ x \in t[4].names \/ x \in t[5].names \/ x \in t[7].names
      BY <1>1 DEF Mesh
    <3> QED
      BY <3>1, <1>4
  <2>3. \A k \in 1..(q.loop - 1) :
           /\ t[k].do \notin {"close", "label"} \cup Ends
           /\ t[k].do = "delete" => t[k].names \cap t[q.loop].names = {}
    BY <1>1, <1>4 DEF Ends
  <2>4. \A k \in 1..Len(t) : t[k].do = "compile" /\ t[k].err = "none" =>
          t[k].names \subseteq Unnoticed(p)
    BY <1>1, <1>4
  <2>5. \A k \in M :
           \/ t[k].do \in Builds
           \/ \A j \in 1..Len(t) : t[j].do = "open" => t[k].names \cap t[j].names = {}
    <3>1. \A j \in 1..Len(t) : t[j].do = "open" =>
            /\ t[4].names \cap t[j].names = {} /\ t[5].names \cap t[j].names = {}
      BY <1>1 DEF Mesh
    <3>2. /\ t[7].do \in Builds
      BY <1>1 DEF Builds
    <3> QED
      BY <3>1, <3>2
  <2> HIDE DEF M
  <2> QED
    BY <2>1, <2>2, <2>3, <2>4, <2>5 DEF Prepares
<1>15. Returns(t, q, p)
  BY <1>1, <1>4, <1>8 DEF Returns, Alone
<1>16. Len(t) \in Nat /\ DOMAIN t = 1..Len(t)
  BY <1>1
<1> QED
  BY <1>3, <1>5, <1>6, <1>9, <1>10, <1>11, <1>12, <1>13, <1>14, <1>15, <1>16 DEF Fits, q

LEMMA CameraCircleFits == ASSUME NEW p, p = "camera_circle" PROVE Fits(p)
<1> DEFINE t == CameraCircleSetup \o CameraCircleRun
           q == PlanOf(p)
           d == <<0, 0, 0, 0, 0, 0, 1, 1, 1, 0, 0, 0, 0, 0, 0>>
<1>1. /\ Len(t) = 15 /\ DOMAIN t = 1..15
      /\ t[1] = Library("none") /\ t[2] = Window("ERR") /\ t[3] = Glad("ERR")
      /\ t[4] = Gen(Mesh) /\ t[5] = Gen({"textures"}) /\ t[6] = Open({"shader"})
      /\ t[7] = Build("shader", "ERR")
      /\ t[8] = Loop(Mesh \cup {"textures", "shader"}) /\ t[9] = Close
      /\ t[10] = Delete(Mesh) /\ t[11] = Delete({"textures"}) /\ t[12] = Return
      /\ t[13] = Macro("ERR") /\ t[14] = Terminate /\ t[15] = Return
  BY DEF CameraCircleSetup, Textured, Begin, CameraCircleRun, BuildOne, Drawn, Bail
<1>3. Text(p) = t
  BY DEF Text
<1> HIDE DEF t
<1>4. /\ q.first = 4 /\ q.last = 11 /\ q.loop = 8 /\ q.exit = 12
      /\ Strays(p) = {} /\ Remains(p) = {} /\ Unnoticed(p) = {}
  BY DEF PlanOf, Plan, Strays, Remains, Unnoticed
<1> HIDE DEF q
<1> USE DEF S, Library, Window, Glad, Probe, Linked, Destroy, Terminate, Gen, Delete, Call, Compile,
       Open, Close, Build, BuildPath, Texture, Load, LoadIf, Loop, Label, Macro, Return
<1>5. Shaped(t, q)
  BY <1>1, <1>4 DEF Shaped, Ends
<1>6. InContext(t, q, Strays(p))
  BY <1>1, <1>4 DEF InContext, Uses, Using
<1>7. \A k \in 1..15 : Level(t, k) = d[k]
  <2>1. Nested(t, 15, d)
    BY <1>1 DEF Nested
  <2> HIDE DEF d
  <2> QED
    BY <2>1, Levels
<1>8. \A k, h : LeadsTo(t, k, h) =>
         (k \in {2, 3, 7} /\ h = 13)
  BY <1>1 DEF LeadsTo, Handler
<1>9. Caught(t)
  BY <1>1 DEF Caught, LeadsTo, Handler, Obtains, Builds
<1>10. Ahead(t, q, Strays(p))
  BY <1>1, <1>4, <1>7, <1>8 DEF Ahead, Using, Uses, Only, Obtains, Builds
<1>11. Unwound(t, q)
  BY <1>1, <1>4, <1>7, <1>8 DEF Unwound, Inside
<1>12. InBlock(t, q, Strays(p) \cap Remains(p))
  BY <1>1, <1>4, <1>7 DEF InBlock, Inside, Obtains, Builds, Only, Mesh
<1>13. Deletes(t, q, Remains(p))
  BY <1>1, <1>4 DEF Deletes, Ends, Mesh
<1>14. Prepares(t, q, Unnoticed(p))
  <2> DEFINE M == {4, 5, 7}
  <2>1. \A k \in M : k \in 1..(q.loop - 1) /\ t[k].do \in Makes
    BY <1>1, <1>4 DEF Makes, Builds
  <2>2. \A x \in t[q.loop].names : \E k \in M : x \in t[k].names
    <3>1. \A x \in t[8].names :
            \/ x \in t[4].names \/ x \in t[5].names \/ x \in t[7].names
      BY <1>1 DEF Mesh
    <3> QED
      BY <3>1, <1>4
  <2>3. \A k \in 1..(q.loop - 1) :
           /\ t[k].do \notin {"close", "label"} \cup Ends
           /\ t[k].do = "delete" => t[k].names \cap t[q.loop].names = {}
    BY <1>1, <1>4 DEF Ends
  <2>4. \A k \in 1..Len(t) : t[k].do = "compile" /\ t[k].err = "none" =>
          t[k].names \subseteq Unnoticed(p)
    BY <1>1, <1>4
  <2>5. \A k \in M :
           \/ t[k].do \in Builds
           \/ \A j \in 1..Len(t) : t[j].do = "open" => t[k].names \cap t[j].names = {}
    <3>1. \A j \in 1..Len(t) : t[j].do = "open" =>
            /\ t[4].names \cap t[j].names = {} /\ t[5].names \cap t[j].names = {}
      BY <1>1 DEF Mesh
    <3>2. /\ t[7].do \in Builds
      BY <1>1 DEF Builds
    <3> QED
      BY <3>1, <3>2
  <2> HIDE DEF M
  <2> QED
    BY <2>1, <2>2, <2>3, <2>4, <2>5 DEF Prepares
<1>15. Returns(t, q, p)
  BY <1>1, <1>4, <1>8 DEF Returns, Alone
<1>16. Len(t) \in Nat /\ DOMAIN t = 1..Len(t)
  BY <1>1
<1> QED
  BY <1>3, <1>5, <1>6, <1>9, <1>10, <1>11, <1>12, <1>13, <1>14, <1>15, <1>16 DEF Fits, q

LEMMA CoordinateSystemsFits ==
  ASSUME NEW p, p \in {"coordinate_systems", "texture"}
  PROVE  Fits(p)
<1> DEFINE t == CoordinateSystemsSetup \o CoordinateSystemsRun
           q == PlanOf(p)
           d == <<0, 0, 0, 0, 0, 0, 1, 1, 1, 0, 0, 0, 0, 0, 0>>
<1>1. /\ Len(t) = 15 /\ DOMAIN t = 1..15
      /\ t[1] = Library("none") /\ t[2] = Window("ERR") /\ t[3] = Glad("ERR")
      /\ t[4] = Gen(Mesh) /\ t[5] = Gen({"textures"}) /\ t[6] = Open({"shader"})
      /\ t[7] = Build("shader", "ERR")
      /\ t[8] = Loop(Mesh \cup {"textures", "shader"}) /\ t[9] = Close
      /\ t[10] = Delete(Mesh) /\ t[11] = Terminate /\ t[12] = Return
      /\ t[13] = Macro("ERR") /\ t[14] = Terminate /\ t[15] = Return
  BY DEF CoordinateSystemsSetup, Textured, Begin, CoordinateSystemsRun, BuildOne, Drawn,
     Bail
<1>3. Text(p) = t
  <2>1. CASE p = "coordinate_systems"
    BY <2>1 DEF Text
  <2>2. CASE p = "texture"
    BY <2>2
       DEF Text, CoordinateSystemsSetup, Textured, Begin, CoordinateSystemsRun, BuildOne, Drawn,
     Bail, TextureDemo
  <2> QED
    BY <2>1, <2>2
<1> HIDE DEF t
<1>4. /\ q.first = 4 /\ q.last = 10 /\ q.loop = 8 /\ q.exit = 12
      /\ Strays(p) = {} /\ Remains(p) = {"textures"} /\ Unnoticed(p) = {}
  BY DEF PlanOf, Plan, Strays, Remains, Unnoticed
<1> HIDE DEF q
<1> USE DEF S, Library, Window, Glad, Probe, Linked, Destroy, Terminate, Gen, Delete, Call, Compile,
       Open, Close, Build, BuildPath, Texture, Load, LoadIf, Loop, Label, Macro, Return
<1>5. Shaped(t, q)
  BY <1>1, <1>4 DEF Shaped, Ends
<1>6. InContext(t, q, Strays(p))
  BY <1>1, <1>4 DEF InContext, Uses, Using
<1>7. \A k \in 1..15 : Level(t, k) = d[k]
  <2>1. Nested(t, 15, d)
    BY <1>1 DEF Nested
  <2> HIDE DEF d
  <2> QED
    BY <2>1, Levels
<1>8. \A k, h : LeadsTo(t, k, h) =>
         (k \in {2, 3, 7} /\ h = 13)
  BY <1>1 DEF LeadsTo, Handler
<1>9. Caught(t)
  BY <1>1 DEF Caught, LeadsTo, Handler, Obtains, Builds
<1>10. Ahead(t, q, Strays(p))
  BY <1>1, <1>4, <1>7, <1>8 DEF Ahead, Using, Uses, Only, Obtains, Builds
<1>11. Unwound(t, q)
  BY <1>1, <1>4, <1>7, <1>8 DEF Unwound, Inside
<1>12. InBlock(t, q, Strays(p) \cap Remains(p))
  BY <1>1, <1>4, <1>7 DEF InBlock, Inside, Obtains, Builds, Only, Mesh
<1>13. Deletes(t, q, Remains(p))
  BY <1>1, <1>4 DEF Deletes, Ends, Mesh
<1>14. Prepares(t, q, Unnoticed(p))
  <2> DEFINE M == {4, 5, 7}
  <2>1. \A k \in M : k \in 1..(q.loop - 1) /\ t[k].do \in Makes
    BY <1>1, <1>4 DEF Makes, Builds
  <2>2. \A x \in t[q.loop].names : \E k \in M : x \in t[k].names
    <3>1. \A x \in t[8].names :
            \/ x \in t[4].names \/ x \in t[5].names \/ x \in t[7].names
      BY <1>1 DEF Mesh
    <3> QED
      BY <3>1, <1>4
  <2>3. \A k \in 1..(q.loop - 1) :
           /\ t[k].do \notin {"close", "label"} \cup Ends
           /\ t[k].do = "delete" => t[k].names \cap t[q.loop].names = {}
    BY <1>1, <1>4 DEF Ends
  <2>4. \A k \in 1..Len(t) : t[k].do = "compile" /\ t[k].err = "none" =>
          t[k].names \subseteq Unnoticed(p)
    BY <1>1, <1>4
  <2>5. \A k \in M :
           \/ t[k].do \in Builds
           \/ \A j \in 1..Len(t) : t[j].do = "open" => t[k].names \cap t[j].names = {}
    <3>1. \A j \in 1..Len(t) : t[j].do = "open" =>
            /\ t[4].names \cap t[j].names = {} /\ t[5].names \cap t[j].names = {}
      BY <1>1 DEF Mesh
    <3>2. /\ t[7].do \in Builds
      BY <1>1 DEF Builds
    <3> QED
      BY <3>1, <3>2
  <2> HIDE DEF M
  <2> QED
    BY <2>1, <2>2, <2>3, <2>4, <2>5 DEF Prepares
<1>15. Returns(t, q, p)
  BY <1>1, <1>4, <1>8 DEF Returns, Alone
<1>16. Len(t) \in Nat /\ DOMAIN t = 1..Len(t)
  BY <1>1
<1> QED
  BY <1>3, <1>5, <1>6, <1>9, <1>10, <1>11, <1>12, <1>13, <1>14, <1>15, <1>16 DEF Fits, q

LEMMA TransformFits == ASSUME NEW p, p = "transform" PROVE Fits(p)
<1> DEFINE t == Transform
           q == PlanOf(p)
           d == <<0, 0, 0, 0, 0, 0, 1, 1, 1, 1, 1, 1, 0, 0, 0>>
<1>1. /\ Len(t) = 15 /\ DOMAIN t = 1..15
      /\ t[1] = Library("none") /\ t[2] = Window("ERR") /\ t[3] = Glad("ERR")
      /\ t[4] = Gen(Mesh) /\ t[5] = Gen({"textures"}) /\ t[6] = Open({"shader"})
      /\ t[7] = Build("shader", "ERR")
      /\ t[8] = Loop(Mesh \cup {"textures", "shader"}) /\ t[9] = Delete(Mesh)
      /\ t[10] = Terminate /\ t[11] = Return /\ t[12] = Close /\ t[13] = Macro("ERR")
      /\ t[14] = Terminate /\ t[15] = Return
  BY DEF Transform, Textured, Begin, BuildOne, Drawn, Bail
<1>3. Text(p) = t
  BY DEF Text
<1> HIDE DEF t
<1>4. /\ q.first = 4 /\ q.last = 9 /\ q.loop = 8 /\ q.exit = 11
      /\ Strays(p) = {"shader"} /\ Remains(p) = {"textures", "shader"} /\ Unnoticed(p) = {}
  BY DEF PlanOf, Plan, Strays, Remains, Unnoticed
<1> HIDE DEF q
<1> USE DEF S, Library, Window, Glad, Probe, Linked, Destroy, Terminate, Gen, Delete, Call, Compile,
       Open, Close, Build, BuildPath, Texture, Load, LoadIf, Loop, Label, Macro, Return
<1>5. Shaped(t, q)
  BY <1>1, <1>4 DEF Shaped, Ends
<1>6. InContext(t, q, Strays(p))
  BY <1>1, <1>4 DEF InContext, Uses, Using
<1>7. \A k \in 1..15 : Level(t, k) = d[k]
  <2>1. Nested(t, 15, d)
    BY <1>1 DEF Nested
  <2> HIDE DEF d
  <2> QED
    BY <2>1, Levels
<1>8. \A k, h : LeadsTo(t, k, h) =>
         (k \in {2, 3, 7} /\ h = 13)
  BY <1>1 DEF LeadsTo, Handler
<1>9. Caught(t)
  BY <1>1 DEF Caught, LeadsTo, Handler, Obtains, Builds
<1>10. Ahead(t, q, Strays(p))
  BY <1>1, <1>4, <1>7, <1>8 DEF Ahead, Using, Uses, Only, Obtains, Builds
<1>11. Unwound(t, q)
  BY <1>1, <1>4, <1>7, <1>8 DEF Unwound, Inside
<1>12. InBlock(t, q, Strays(p) \cap Remains(p))
  BY <1>1, <1>4, <1>7 DEF InBlock, Inside, Obtains, Builds, Only, Mesh
<1>13. Deletes(t, q, Remains(p))
  BY <1>1, <1>4 DEF Deletes, Ends, Mesh
<1>14. Prepares(t, q, Unnoticed(p))
  <2> DEFINE M == {4, 5, 7}
  <2>1. \A k \in M : k \in 1..(q.loop - 1) /\ t[k].do \in Makes
    BY <1>1, <1>4 DEF Makes, Builds
  <2>2. \A x \in t[q.loop].names : \E k \in M : x \in t[k].names
    <3>1. \A x \in t[8].names :
            \/ x \in t[4].names \/ x \in t[5].names \/ x \in t[7].names
      BY <1>1 DEF Mesh
    <3> QED
      BY <3>1, <1>4
  <2>3. \A k \in 1..(q.loop - 1) :
           /\ t[k].do \notin {"close", "label"} \cup Ends
           /\ t[k].do = "delete" => t[k].names \cap t[q.loop].names = {}
    BY <1>1, <1>4 DEF Ends
  <2>4. \A k \in 1..Len(t) : t[k].do = "compile" /\ t[k].err = "none" =>
          t[k].names \subseteq Unnoticed(p)
    BY <1>1, <1>4
  <2>5. \A k \in M :
           \/ t[k].do \in Builds
           \/ \A j \in 1..Len(t) : t[j].do = "open" => t[k].names \cap t[j].names = {}
    <3>1. \A j \in 1..Len(t) : t[j].do = "open" =>
            /\ t[4].names \cap t[j].names = {} /\ t[5].names \cap t[j].names = {}
      BY <1>1 DEF Mesh
    <3>2. /\ t[7].do \in Builds
      BY <1>1 DEF Builds
    <3> QED
      BY <3>1, <3>2
  <2> HIDE DEF M
  <2> QED
    BY <2>1, <2>2, <2>3, <2>4, <2>5 DEF Prepares
<1>15. Returns(t, q, p)
  BY <1>1, <1>4, <1>8 DEF Returns, Alone
<1>16. Len(t) \in Nat /\ DOMAIN t = 1..Len(t)
  BY <1>1
<1> QED
  BY <1>3, <1>5, <1>6, <1>9, <1>10, <1>11, <1>12, <1>13, <1>14, <1>15, <1>16 DEF Fits, q

LEMMA ShaderClassFits == ASSUME NEW p, p = "shader_class" PROVE Fits(p)
<1> DEFINE t == ShaderClass
           q == PlanOf(p)
           d == <<0, 0, 0, 0, 1, 1, 1, 1, 1, 0, 0, 0, 0, 0>>
<1>1. /\ Len(t) = 14 /\ DOMAIN t = 1..14
      /\ t[1] = Library("none") /\ t[2] = Window("ERR") /\ t[3] = Glad("ERR")
      /\ t[4] = Open({"shader"}) /\ t[5] = BuildPath("shader", "ERR")
      /\ t[6] = Gen({"VAO", "VBO"}) /\ t[7] = Loop({"VAO", "VBO", "shader"})
      /\ t[8] = Delete({"VAO", "VBO"}) /\ t[9] = Close /\ t[10] = Terminate
      /\ t[11] = Return /\ t[12] = Macro("ERR") /\ t[13] = Terminate
      /\ t[14] = Return
  BY DEF ShaderClass, Begin, Bail
<1>3. Text(p) = t
  BY DEF Text
<1> HIDE DEF t
<1>4. /\ q.first = 4 /\ q.last = 9 /\ q.loop = 7 /\ q.exit = 11
      /\ Strays(p) = {} /\ Remains(p) = {} /\ Unnoticed(p) = {}
  BY DEF PlanOf, Plan, Strays, Remains, Unnoticed
<1> HIDE DEF q
<1> USE DEF S, Library, Window, Glad, Probe, Linked, Destroy, Terminate, Gen, Delete, Call, Compile,
       Open, Close, Build, BuildPath, Texture, Load, LoadIf, Loop, Label, Macro, Return
<1>5. Shaped(t, q)
  BY <1>1, <1>4 DEF Shaped, Ends
<1>6. InContext(t, q, Strays(p))
  BY <1>1, <1>4 DEF InContext, Uses, Using
<1>7. \A k \in 1..14 : Level(t, k) = d[k]
  <2>1. Nested(t, 14, d)
    BY <1>1 DEF Nested
  <2> HIDE DEF d
  <2> QED
    BY <2>1, Levels
<1>8. \A k, h : LeadsTo(t, k, h) =>
         (k \in {2, 3, 5} /\ h = 12)
  BY <1>1 DEF LeadsTo, Handler
<1>9. Caught(t)
  BY <1>1 DEF Caught, LeadsTo, Handler, Obtains, Builds
<1>10. Ahead(t, q, Strays(p))
  BY <1>1, <1>4, <1>7, <1>8 DEF Ahead, Using, Uses, Only, Obtains, Builds
<1>11. Unwound(t, q)
  BY <1>1, <1>4, <1>7, <1>8 DEF Unwound, Inside
<1>12. InBlock(t, q, Strays(p) \cap Remains(p))
  BY <1>1, <1>4, <1>7 DEF InBlock, Inside, Obtains, Builds, Only
<1>13. Deletes(t, q, Remains(p))
  BY <1>1, <1>4 DEF Deletes, Ends
<1>14. Prepares(t, q, Unnoticed(p))
  <2> DEFINE M == {5, 6}
  <2>1. \A k \in M : k \in 1..(q.loop - 1) /\ t[k].do \in Makes
    BY <1>1, <1>4 DEF Makes, Builds
  <2>2. \A x \in t[q.loop].names : \E k \in M : x \in t[k].names
    <3>1. \A x \in t[7].names :
            \/ x \in t[5].names \/ x \in t[6].names
      BY <1>1
    <3> QED
      BY <3>1, <1>4
  <2>3. \A k \in 1..(q.loop - 1) :
           /\ t[k].do \notin {"close", "label"} \cup Ends
           /\ t[k].do = "delete" => t[k].names \cap t[q.loop].names = {}
    BY <1>1, <1>4 DEF Ends
  <2>4. \A k \in 1..Len(t) : t[k].do = "compile" /\ t[k].err = "none" =>
          t[k].names \subseteq Unnoticed(p)
    BY <1>1, <1>4
  <2>5. \A k \in M :
           \/ t[k].do \in Builds
           \/ \A j \in 1..Len(t) : t[j].do = "open" => t[k].names \cap t[j].names = {}
    <3>1. \A j \in 1..Len(t) : t[j].do = "open" =>
            /\ t[6].names \cap t[j].names = {}
      BY <1>1
    <3>2. /\ t[5].do \in Builds
      BY <1>1 DEF Builds
    <3> QED
      BY <3>1, <3>2
  <2> HIDE DEF M
  <2> QED
    BY <2>1, <2>2, <2>3, <2>4, <2>5 DEF Prepares
<1>15. Returns(t, q, p)
  BY <1>1, <1>4, <1>8 DEF Returns, Alone
<1>16. Len(t) \in Nat /\ DOMAIN t = 1..Len(t)
  BY <1>1
<1> QED
  BY <1>3, <1>5, <1>6, <1>9, <1>10, <1>11, <1>12, <1>13, <1>14, <1>15, <1>16 DEF Fits, q

LEMMA RectangleFits == ASSUME NEW p, p = "rectangle" PROVE Fits(p)
<1> DEFINE t == Rectangle
           q == PlanOf(p)
           d == <<0, 0, 0, 0, 0, 0, 0, 0, 0, 0, 0, 0, 0, 0, 0, 0, 0, 0>>
<1>1. /\ Len(t) = 18 /\ DOMAIN t = 1..18
      /\ t[1] = Library("none") /\ t[2] = Window("ERR") /\ t[3] = Glad("QUIT")
      /\ t[4] = Compile("vertex", "QUIT") /\ t[5] = Compile("fragment", "QUIT")
      /\ t[6] = Compile("program", "QUIT") /\ t[7] = Delete({"vertex", "fragment"})
      /\ t[8] = Gen(Mesh) /\ t[9] = Loop(Mesh \cup {"program"})
      /\ t[10] = Delete(Mesh) /\ t[11] = Delete({"program"}) /\ t[12] = Terminate
      /\ t[13] = Return /\ t[14] = Macro("ERR") /\ t[15] = Terminate
      /\ t[16] = Return /\ t[17] = Macro("QUIT") /\ t[18] = Return
  BY DEF Rectangle, Compiled, Bail, Quit
<1>3. Text(p) = t
  BY DEF Text
<1> HIDE DEF t
<1>4. /\ q.first = 4 /\ q.last = 11 /\ q.loop = 9 /\ q.exit = 13
      /\ Strays(p) = {} /\ Remains(p) = {} /\ Unnoticed(p) = {}
  BY DEF PlanOf, Plan, Strays, Remains, Unnoticed
<1> HIDE DEF q
<1> USE DEF S, Library, Window, Glad, Probe, Linked, Destroy, Terminate, Gen, Delete, Call, Compile,
       Open, Close, Build, BuildPath, Texture, Load, LoadIf, Loop, Label, Macro, Return
<1>5. Shaped(t, q)
  BY <1>1, <1>4 DEF Shaped, Ends
<1>6. InContext(t, q, Strays(p))
  BY <1>1, <1>4 DEF InContext, Uses, Using
<1>7. \A k \in 1..18 : Level(t, k) = d[k]
  <2>1. Nested(t, 18, d)
    BY <1>1 DEF Nested
  <2> HIDE DEF d
  <2> QED
    BY <2>1, Levels
<1>8. \A k, h : LeadsTo(t, k, h) =>
         \/ (k = 2 /\ h = 14) \/ (k \in {3, 4, 5, 6} /\ h = 17)
  BY <1>1 DEF LeadsTo, Handler
<1>9. Caught(t)
  BY <1>1 DEF Caught, LeadsTo, Handler, Obtains, Builds
<1>10. Ahead(t, q, Strays(p))
  BY <1>1, <1>4, <1>7, <1>8 DEF Ahead, Using, Uses, Only, Obtains, Builds
<1>11. Unwound(t, q)
  BY <1>1, <1>4, <1>7, <1>8 DEF Unwound, Inside
<1>12. InBlock(t, q, Strays(p) \cap Remains(p))
  BY <1>1, <1>4, <1>7 DEF InBlock, Inside, Obtains, Builds, Only, Mesh
<1>13. Deletes(t, q, Remains(p))
  BY <1>1, <1>4 DEF Deletes, Ends, Mesh
<1>14. Prepares(t, q, Unnoticed(p))
  <2> DEFINE M == {6, 8}
  <2>1. \A k \in M : k \in 1..(q.loop - 1) /\ t[k].do \in Makes
    BY <1>1, <1>4 DEF Makes, Builds
  <2>2. \A x \in t[q.loop].names : \E k \in M : x \in t[k].names
    <3>1. \A x \in t[9].names :
            \/ x \in t[6].names \/ x \in t[8].names
      BY <1>1 DEF Mesh
    <3> QED
      BY <3>1, <1>4
  <2>3. \A k \in 1..(q.loop - 1) :
           /\ t[k].do \notin {"close", "label"} \cup Ends
           /\ t[k].do = "delete" => t[k].names \cap t[q.loop].names = {}
    BY <1>1, <1>4 DEF Ends, Mesh
  <2>4. \A k \in 1..Len(t) : t[k].do = "compile" /\ t[k].err = "none" =>
          t[k].names \subseteq Unnoticed(p)
    BY <1>1, <1>4
  <2>5. \A k \in M :
           \/ t[k].do \in Builds
           \/ \A j \in 1..Len(t) : t[j].do = "open" => t[k].names \cap t[j].names = {}
    <3>1. \A j \in 1..Len(t) : t[j].do = "open" =>
            /\ t[6].names \cap t[j].names = {} /\ t[8].names \cap t[j].names = {}
      BY <1>1 DEF Mesh
    <3> QED
      BY <3>1
  <2> HIDE DEF M
  <2> QED
    BY <2>1, <2>2, <2>3, <2>4, <2>5 DEF Prepares
<1>15. Returns(t, q, p)
  BY <1>1, <1>4, <1>8 DEF Returns, Alone
<1>16. Len(t) \in Nat /\ DOMAIN t = 1..Len(t)
  BY <1>1
<1> QED
  BY <1>3, <1>5, <1>6, <1>9, <1>10, <1>11, <1>12, <1>13, <1>14, <1>15, <1>16 DEF Fits, q

LEMMA ShadersUniformFits == ASSUME NEW p, p = "shaders_uniform" PROVE Fits(p)
<1> DEFINE t == ShadersUniform
           q == PlanOf(p)
           d == <<0, 0, 0, 0, 0, 0, 0, 0, 0, 0, 0, 0, 0, 0, 0, 0>>
<1>1. /\ Len(t) = 16 /\ DOMAIN t = 1..16
      /\ t[1] = Library("none") /\ t[2] = Window("ERR") /\ t[3] = Glad("ERR")
      /\ t[4] = Compile("vertex", "ERR") /\ t[5] = Compile("fragment", "ERR")
      /\ t[6] = Compile("program", "ERR") /\ t[7] = Delete({"vertex", "fragment"})
      /\ t[8] = Gen({"VAO", "VBO"}) /\ t[9] = Loop({"VAO", "VBO", "program"})
      /\ t[10] = Delete({"VAO", "VBO"}) /\ t[11] = Delete({"program"})
      /\ t[12] = Terminate /\ t[13] = Return /\ t[14] = Macro("ERR")
      /\ t[15] = Terminate /\ t[16] = Return
  BY DEF ShadersUniform, Begin, Compiled, Bail
<1>3. Text(p) = t
  BY DEF Text
<1> HIDE DEF t
<1>4. /\ q.first = 4 /\ q.last = 11 /\ q.loop = 9 /\ q.exit = 13
      /\ Strays(p) = {} /\ Remains(p) = {} /\ Unnoticed(p) = {}
  BY DEF PlanOf, Plan, Strays, Remains, Unnoticed
<1> HIDE DEF q
<1> USE DEF S, Library, Window, Glad, Probe, Linked, Destroy, Terminate, Gen, Delete, Call, Compile,
       Open, Close, Build, BuildPath, Texture, Load, LoadIf, Loop, Label, Macro, Return
<1>5. Shaped(t, q)
  BY <1>1, <1>4 DEF Shaped, Ends
<1>6. InContext(t, q, Strays(p))
  BY <1>1, <1>4 DEF InContext, Uses, Using
<1>7. \A k \in 1..16 : Level(t, k) = d[k]
  <2>1. Nested(t, 16, d)
    BY <1>1 DEF Nested
  <2> HIDE DEF d
  <2> QED
    BY <2>1, Levels
<1>8. \A k, h : LeadsTo(t, k, h) =>
         (k \in {2, 3, 4, 5, 6} /\ h = 14)
  BY <1>1 DEF LeadsTo, Handler
<1>9. Caught(t)
  BY <1>1 DEF Caught, LeadsTo, Handler, Obtains, Builds
<1>10. Ahead(t, q, Strays(p))
  BY <1>1, <1>4, <1>7, <1>8 DEF Ahead, Using, Uses, Only, Obtains, Builds
<1>11. Unwound(t, q)
  BY <1>1, <1>4, <1>7, <1>8 DEF Unwound, Inside
<1>12. InBlock(t, q, Strays(p) \cap Remains(p))
  BY <1>1, <1>4, <1>7 DEF InBlock, Inside, Obtains, Builds, Only
<1>13. Deletes(t, q, Remains(p))
  BY <1>1, <1>4 DEF Deletes, Ends
<1>14. Prepares(t, q, Unnoticed(p))
  <2> DEFINE M == {6, 8}
  <2>1. \A k \in M : k \in 1..(q.loop - 1) /\ t[k].do \in Makes
    BY <1>1, <1>4 DEF Makes, Builds
  <2>2. \A x \in t[q.loop].names : \E k \in M : x \in t[k].names
    <3>1. \A x \in t[9].names :
            \/ x \in t[6].names \/ x \in t[8].names
      BY <1>1
    <3> QED
      BY <3>1, <1>4
  <2>3. \A k \in 1..(q.loop - 1) :
           /\ t[k].do \notin {"close", "label"} \cup Ends
           /\ t[k].do = "delete" => t[k].names \cap t[q.loop].names = {}
    BY <1>1, <1>4 DEF Ends
  <2>4. \A k \in 1..Len(t) : t[k].do = "compile" /\ t[k].err = "none" =>
          t[k].names \subseteq Unnoticed(p)
    BY <1>1, <1>4
  <2>5. \A k \in M :
           \/ t[k].do \in Builds
           \/ \A j \in 1..Len(t) : t[j].do = "open" => t[k].names \cap t[j].names = {}
    <3>1. \A j \in 1..Len(t) : t[j].do = "open" =>
            /\ t[6].names \cap t[j].names = {} /\ t[8].names \cap t[j].names = {}
      BY <1>1
    <3> QED
      BY <3>1
  <2> HIDE DEF M
  <2> QED
    BY <2>1, <2>2, <2>3, <2>4, <2>5 DEF Prepares
<1>15. Returns(t, q, p)
  BY <1>1, <1>4, <1>8 DEF Returns, Alone
<1>16. Len(t) \in Nat /\ DOMAIN t = 1..Len(t)
  BY <1>1
<1> QED
  BY <1>3, <1>5, <1>6, <1>9, <1>10, <1>11, <1>12, <1>13, <1>14, <1>15, <1>16 DEF Fits, q

LEMMA TraingleFits == ASSUME NEW p, p = "traingle" PROVE Fits(p)
<1> DEFINE t == Traingle
           q == PlanOf(p)
           d == <<0, 0, 0, 0, 0, 0, 0, 0, 0, 0, 0, 0, 0, 0, 0, 0, 0, 0>>
<1>1. /\ Len(t) = 18 /\ DOMAIN t = 1..18
      /\ t[1] = Library("none") /\ t[2] = Window("ERR") /\ t[3] = Glad("QUIT")
      /\ t[4] = Compile("vertex", "QUIT") /\ t[5] = Compile("fragment", "QUIT")
      /\ t[6] = Compile("program", "none") /\ t[7] = Delete({"vertex", "fragment"})
      /\ t[8] = Gen({"VAO", "VBO"}) /\ t[9] = Loop({"VAO", "VBO", "program"})
      /\ t[10] = Delete({"VAO", "VBO"}) /\ t[11] = Delete({"program"})
      /\ t[12] = Terminate /\ t[13] = Return /\ t[14] = Macro("ERR")
      /\ t[15] = Terminate /\ t[16] = Return /\ t[17] = Macro("QUIT")
      /\ t[18] = Return
  BY DEF Traingle, Compiled, Bail, Quit
<1>3. Text(p) = t
  BY DEF Text
<1> HIDE DEF t
<1>4. /\ q.first = 4 /\ q.last = 11 /\ q.loop = 9 /\ q.exit = 13
      /\ Strays(p) = {} /\ Remains(p) = {} /\ Unnoticed(p) = {"program"}
  BY DEF PlanOf, Plan, Strays, Remains, Unnoticed
<1> HIDE DEF q
<1> USE DEF S, Library, Window, Glad, Probe, Linked, Destroy, Terminate, Gen, Delete, Call, Compile,
       Open, Close, Build, BuildPath, Texture, Load, LoadIf, Loop, Label, Macro, Return
<1>5. Shaped(t, q)
  BY <1>1, <1>4 DEF Shaped, Ends
<1>6. InContext(t, q, Strays(p))
  BY <1>1, <1>4 DEF InContext, Uses, Using
<1>7. \A k \in 1..18 : Level(t, k) = d[k]
  <2>1. Nested(t, 18, d)
    BY <1>1 DEF Nested
  <2> HIDE DEF d
  <2> QED
    BY <2>1, Levels
<1>8. \A k, h : LeadsTo(t, k, h) =>
         \/ (k = 2 /\ h = 14) \/ (k \in {3, 4, 5} /\ h = 17)
  BY <1>1 DEF LeadsTo, Handler
<1>9. Caught(t)
  BY <1>1 DEF Caught, LeadsTo, Handler, Obtains, Builds
<1>10. Ahead(t, q, Strays(p))
  BY <1>1, <1>4, <1>7, <1>8 DEF Ahead, Using, Uses, Only, Obtains, Builds
<1>11. Unwound(t, q)
  BY <1>1, <1>4, <1>7, <1>8 DEF Unwound, Inside
<1>12. InBlock(t, q, Strays(p) \cap Remains(p))
  BY <1>1, <1>4, <1>7 DEF InBlock, Inside, Obtains, Builds, Only
<1>13. Deletes(t, q, Remains(p))
  BY <1>1, <1>4 DEF Deletes, Ends
<1>14. Prepares(t, q, Unnoticed(p))
  <2> DEFINE M == {6, 8}
  <2>1. \A k \in M : k \in 1..(q.loop - 1) /\ t[k].do \in Makes
    BY <1>1, <1>4 DEF Makes, Builds
  <2>2. \A x \in t[q.loop].names : \E k \in M : x \in t[k].names
    <3>1. \A x \in t[9].names :
            \/ x \in t[6].names \/ x \in t[8].names
      BY <1>1
    <3> QED
      BY <3>1, <1>4
  <2>3. \A k \in 1..(q.loop - 1) :
           /\ t[k].do \notin {"close", "label"} \cup Ends
           /\ t[k].do = "delete" => t[k].names \cap t[q.loop].names = {}
    BY <1>1, <1>4 DEF Ends
  <2>4. \A k \in 1..Len(t) : t[k].do = "compile" /\ t[k].err = "none" =>
          t[k].names \subseteq Unnoticed(p)
    BY <1>1, <1>4
  <2>5. \A k \in M :
           \/ t[k].do \in Builds
           \/ \A j \in 1..Len(t) : t[j].do = "open" => t[k].names \cap t[j].names = {}
    <3>1. \A j \in 1..Len(t) : t[j].do = "open" =>
            /\ t[6].names \cap t[j].names = {} /\ t[8].names \cap t[j].names = {}
      BY <1>1
    <3> QED
      BY <3>1
  <2> HIDE DEF M
  <2> QED
    BY <2>1, <2>2, <2>3, <2>4, <2>5 DEF Prepares
<1>15. Returns(t, q, p)
  BY <1>1, <1>4, <1>8 DEF Returns, Alone
<1>16. Len(t) \in Nat /\ DOMAIN t = 1..Len(t)
  BY <1>1
<1> QED
  BY <1>3, <1>5, <1>6, <1>9, <1>10, <1>11, <1>12, <1>13, <1>14, <1>15, <1>16 DEF Fits, q

LEMMA WindowFits == ASSUME NEW p, p = "window" PROVE Fits(p)
<1> DEFINE t == WindowDemo
           q == PlanOf(p)
           d == <<0, 0, 0, 0, 0, 0, 0, 0, 0, 0, 0, 0>>
<1>1. /\ Len(t) = 12 /\ DOMAIN t = 1..12
      /\ t[1] = Library("none") /\ t[2] = Window("ERR") /\ t[3] = Glad("QUIT")
      /\ t[4] = Call /\ t[5] = Loop({}) /\ t[6] = Terminate /\ t[7] = Return
      /\ t[8] = Macro("ERR") /\ t[9] = Terminate /\ t[10] = Return
      /\ t[11] = Macro("QUIT") /\ t[12] = Return
  BY DEF WindowDemo, Bail, Quit
<1>3. Text(p) = t
  BY DEF Text
<1> HIDE DEF t
<1>4. /\ q.first = 4 /\ q.last = 5 /\ q.loop = 5 /\ q.exit = 7
      /\ Strays(p) = {} /\ Remains(p) = {} /\ Unnoticed(p) = {}
  BY DEF PlanOf, Plan, Strays, Remains, Unnoticed
<1> HIDE DEF q
<1> USE DEF S, Library, Window, Glad, Probe, Linked, Destroy, Terminate, Gen, Delete, Call, Compile,
       Open, Close, Build, BuildPath, Texture, Load, LoadIf, Loop, Label, Macro, Return
<1>5. Shaped(t, q)
  BY <1>1, <1>4 DEF Shaped, Ends
<1>6. InContext(t, q, Strays(p))
  BY <1>1, <1>4 DEF InContext, Uses, Using
<1>7. \A k \in 1..12 : Level(t, k) = d[k]
  <2>1. Nested(t, 12, d)
    BY <1>1 DEF Nested
  <2> HIDE DEF d
  <2> QED
    BY <2>1, Levels
<1>8. \A k, h : LeadsTo(t, k, h) =>
         \/ (k = 2 /\ h = 8) \/ (k = 3 /\ h = 11)
  BY <1>1 DEF LeadsTo, Handler
<1>9. Caught(t)
  BY <1>1 DEF Caught, LeadsTo, Handler, Obtains, Builds
<1>10. Ahead(t, q, Strays(p))
  BY <1>1, <1>4, <1>7, <1>8 DEF Ahead, Using, Uses, Only, Obtains, Builds
<1>11. Unwound(t, q)
  BY <1>1, <1>4, <1>7, <1>8 DEF Unwound, Inside
<1>12. InBlock(t, q, Strays(p) \cap Remains(p))
  BY <1>1, <1>4, <1>7 DEF InBlock, Inside, Obtains, Builds, Only
<1>13. Deletes(t, q, Remains(p))
  BY <1>1, <1>4 DEF Deletes, Ends
<1>14. Prepares(t, q, Unnoticed(p))
  BY <1>1, <1>4 DEF Prepares, Builds, Makes, Ends
<1>15. Returns(t, q, p)
  BY <1>1, <1>4, <1>8 DEF Returns, Alone
<1>16. Len(t) \in Nat /\ DOMAIN t = 1..Len(t)
  BY <1>1
<1> QED
  BY <1>3, <1>5, <1>6, <1>9, <1>10, <1>11, <1>12, <1>13, <1>14, <1>15, <1>16 DEF Fits, q

LEMMA VersionFits == ASSUME NEW p, p = "version" PROVE Fits(p)
<1> DEFINE t == Version
           q == PlanOf(p)
           d == <<0, 0, 0, 0, 0, 0, 0, 0, 0, 0, 0, 0, 0, 0, 0, 0, 0>>
<1>1. /\ Len(t) = 17 /\ DOMAIN t = 1..17
      /\ t[1] = Library("QUIT") /\ t[2] = Probe /\ t[3] = Window("ERR")
      /\ t[4] = Glad("NONE") /\ t[5] = Call /\ t[6] = Destroy /\ t[7] = Terminate
      /\ t[8] = Return /\ t[9] = Macro("NONE") /\ t[10] = Destroy
      /\ t[11] = Terminate /\ t[12] = Return /\ t[13] = Macro("ERR")
      /\ t[14] = Terminate /\ t[15] = Return /\ t[16] = Macro("QUIT")
      /\ t[17] = Return
  BY DEF Version, Bail, Quit
<1>3. Text(p) = t
  BY DEF Text
<1> HIDE DEF t
<1>4. /\ q.first = 5 /\ q.last = 5 /\ q.loop = 8 /\ q.exit = 8
      /\ Strays(p) = {} /\ Remains(p) = {} /\ Unnoticed(p) = {}
  BY DEF PlanOf, Plan, Strays, Remains, Unnoticed
<1> HIDE DEF q
<1> USE DEF S, Library, Window, Glad, Probe, Linked, Destroy, Terminate, Gen, Delete, Call, Compile,
       Open, Close, Build, BuildPath, Texture, Load, LoadIf, Loop, Label, Macro, Return
<1>5. Shaped(t, q)
  BY <1>1, <1>4 DEF Shaped, Ends
<1>6. InContext(t, q, Strays(p))
  BY <1>1, <1>4 DEF InContext, Uses, Using
<1>7. \A k \in 1..17 : Level(t, k) = d[k]
  <2>1. Nested(t, 17, d)
    BY <1>1 DEF Nested
  <2> HIDE DEF d
  <2> QED
    BY <2>1, Levels
<1>8. \A k, h : LeadsTo(t, k, h) =>
         \/ (k = 4 /\ h = 9) \/ (k = 3 /\ h = 13) \/ (k = 1 /\ h = 16)
  BY <1>1 DEF LeadsTo, Handler
<1>9. Caught(t)
  BY <1>1 DEF Caught, LeadsTo, Handler, Obtains, Builds
<1>10. Ahead(t, q, Strays(p))
  BY <1>1, <1>4, <1>7, <1>8 DEF Ahead, Using, Uses, Only, Obtains, Builds
<1>11. Unwound(t, q)
  BY <1>1, <1>4, <1>7, <1>8 DEF Unwound, Inside
<1>12. InBlock(t, q, Strays(p) \cap Remains(p))
  BY <1>1, <1>4, <1>7 DEF InBlock, Inside, Obtains, Builds, Only
<1>13. Deletes(t, q, Remains(p))
  BY <1>1, <1>4 DEF Deletes, Ends
<1>14. Prepares(t, q, Unnoticed(p))
  BY <1>1, <1>4 DEF Prepares, Builds, Makes, Ends
<1>15. Returns(t, q, p)
  BY <1>1, <1>4, <1>8 DEF Returns, Alone
<1>16. Len(t) \in Nat /\ DOMAIN t = 1..Len(t)
  BY <1>1
<1> QED
  BY <1>3, <1>5, <1>6, <1>9, <1>10, <1>11, <1>12, <1>13, <1>14, <1>15, <1>16 DEF Fits, q

LEMMA GravitySimFits == ASSUME NEW p, p = "gravity_sim" PROVE Fits(p)
<1> DEFINE t == GravitySim
           q == PlanOf(p)
           d == <<0, 0, 0, 0, 0, 0, 0, 0>>
<1>1. /\ Len(t) = 8 /\ DOMAIN t = 1..8
      /\ t[1] = Library("QUIT") /\ t[2] = Window("none") /\ t[3] = Linked
      /\ t[4] = Call /\ t[5] = Loop({}) /\ t[6] = Return /\ t[7] = Macro("QUIT")
      /\ t[8] = Return
  BY DEF GravitySim, Quit
<1>3. Text(p) = t
  BY DEF Text
<1> HIDE DEF t
<1>4. /\ q.first = 7 /\ q.last = 5 /\ q.loop = 5 /\ q.exit = 6
      /\ Strays(p) = {"call", "loop"} /\ Remains(p) = {} /\ Unnoticed(p) = {}
  BY DEF PlanOf, Plan, Strays, Remains, Unnoticed
<1> HIDE DEF q
<1> USE DEF S, Library, Window, Glad, Probe, Linked, Destroy, Terminate, Gen, Delete, Call, Compile,
       Open, Close, Build, BuildPath, Texture, Load, LoadIf, Loop, Label, Macro, Return
<1>5. Shaped(t, q)
  BY <1>1, <1>4 DEF Shaped, Ends
<1>6. InContext(t, q, Strays(p))
  BY <1>1, <1>4 DEF InContext, Uses, Using
<1>7. \A k \in 1..8 : Level(t, k) = d[k]
  <2>1. Nested(t, 8, d)
    BY <1>1 DEF Nested
  <2> HIDE DEF d
  <2> QED
    BY <2>1, Levels
<1>8. \A k, h : LeadsTo(t, k, h) =>
         (k = 1 /\ h = 7)
  BY <1>1 DEF LeadsTo, Handler
<1>9. Caught(t)
  BY <1>1 DEF Caught, LeadsTo, Handler, Obtains, Builds
<1>10. Ahead(t, q, Strays(p))
  BY <1>1, <1>4, <1>7, <1>8 DEF Ahead, Using, Uses, Only, Obtains, Builds
<1>11. Unwound(t, q)
  BY <1>1, <1>4, <1>7, <1>8 DEF Unwound, Inside
<1>12. InBlock(t, q, Strays(p) \cap Remains(p))
  BY <1>1, <1>4, <1>7 DEF InBlock, Inside, Obtains, Builds, Only
<1>13. Deletes(t, q, Remains(p))
  BY <1>1, <1>4 DEF Deletes, Ends
<1>14. Prepares(t, q, Unnoticed(p))
  BY <1>1, <1>4 DEF Prepares, Builds, Makes, Ends
<1>15. Returns(t, q, p)
  BY <1>1, <1>4, <1>8 DEF Returns, Alone
<1>16. Len(t) \in Nat /\ DOMAIN t = 1..Len(t)
  BY <1>1
<1> QED
  BY <1>3, <1>5, <1>6, <1>9, <1>10, <1>11, <1>12, <1>13, <1>14, <1>15, <1>16 DEF Fits, q

-----------------------------------------------------------------------------
(* The text of each program of learn_gl/demo is such a text.               *)
LEMMA AllFit == \A p \in Programs : Fits(p)
<1>1. SUFFICES ASSUME NEW p \in Programs PROVE Fits(p)
  OBVIOUS
<1>2. CASE p \in {"basic_lighting", "materials", "lighting_maps", "casters_directional",
                  "casters_point", "casters_spot", "multiple_lights", "colors"}
  BY <1>2, BasicLightingFits, LightingMapsFits, CastersDirectionalFits, CastersPointFits,
     CastersSpotFits, MultipleLightsFits, ColorsFits
<1>3. CASE p \in {"camera_mouse_zoom", "camera_keyboard_dt", "camera_circle",
                  "coordinate_systems", "texture", "transform", "shader_class"}
  BY <1>3, CameraKeyboardFits, CameraCircleFits, CoordinateSystemsFits, TransformFits, ShaderClassFits
<1>4. CASE p \in {"rectangle", "shaders_uniform", "traingle", "window", "version", "gravity_sim"}
  BY <1>4, RectangleFits, ShadersUniformFits, TraingleFits, WindowFits, VersionFits, GravitySimFits
<1> QED
  BY <1>2, <1>3, <1>4 DEF Programs

(* So it holds of every program of learn_gl/demo.                          *)
LEMMA ProgramAlways == FramesSpec => []ProgramInv
<1>1. FramesInit => ProgramInv
  BY AllFit, ProgramStart DEF FramesInit, Init, Fit
<1>2. ProgramInv /\ [FramesNext]_allVars => ProgramInv'
  BY AllFit, ProgramStep DEF ProgramInv, Placed, Fit
<1> QED
  BY <1>1, <1>2, PTL DEF FramesSpec

(* What a program uses and what it deletes, it does while its context is   *)
(* there and loaded, but for the calls that three programs are known to    *)
(* make without one.                                                       *)
THEOREM CallsInContextCorrect == FramesSpec => []CallsInContext
<1>1. ProgramInv => CallsInContext
  BY DEF ProgramInv, CallsInContext, Strays
<1> QED
  BY <1>1, ProgramAlways, PTL

(* Once it has returned, by whichever way, a program has left behind only  *)
(* what is known to stay, and the library only where it is known to.       *)
THEOREM NothingLeftCorrect == FramesSpec => []NothingLeft
<1>1. ASSUME ProgramInv PROVE NothingLeft
  <2>1. SUFFICES ASSUME pc = 0
                 PROVE  /\ Doing({"label"}) # {} \/ ran => lost \subseteq Stays
                        /\ lib => Keeps
    BY DEF NothingLeft
  <2>2. Left
    BY <1>1, <2>1 DEF ProgramInv
  <2>3. Doing({"label"}) # {} => Labelled
    <3>1. Fit
      BY <1>1, AllFit DEF ProgramInv, Placed, Fit
    <3> QED
      BY <3>1, Bearings DEF Doing, Labelled, Program
  <2> QED
    BY <2>2, <2>3 DEF Left
<1> QED
  BY <1>1, ProgramAlways, PTL

(* When the loop is entered, everything a frame is drawn with has been     *)
(* made, and what an object is to delete is owned by it.                   *)
THEOREM ReadyToDrawCorrect == FramesSpec => []ReadyToDraw
<1>1. ASSUME ProgramInv PROVE ReadyToDraw
  <2>1. SUFFICES ASSUME pc # 0, Program[pc].do = "loop"
                 PROVE  LET N == Program[pc].names IN
                        /\ N \subseteq live \cup flawed
                        /\ N \cap UNION {scope[k] : k \in DOMAIN scope} \subseteq owned \cup flawed
                        /\ flawed \subseteq NamesOf({"build_path"}) \cup
                              IF prog = "traingle" THEN {"program"} ELSE {}
    BY DEF ReadyToDraw, Here, Program
  <2>2. Fit /\ Placed /\ Prepared /\ Course.loop \in Nat /\ pc \in 1..Len(Program) /\ Len(Program) \in Nat
    <3>1. Fit
      BY <1>1, AllFit DEF ProgramInv, Placed, Fit
    <3> QED
      BY <1>1, <2>1, <3>1, Where DEF ProgramInv
  <2>3. pc = Course.loop /\ Draws
    BY <2>1, <2>2, Bearings DEF Shaped, Draws
  <2>4. \A j \in 1..(pc - 1) :
           /\ Program[j].do \in Makes => Program[j].names \cap Program[pc].names \subseteq live \cup flawed
           /\ Program[j].do \in Builds => Program[j].names \subseteq owned \cup flawed
    BY <2>2, <2>3 DEF Prepared
  <2>5. ASSUME NEW x \in Program[pc].names
        PROVE  /\ x \in live \cup flawed
               /\ x \in UNION {scope[k] : k \in DOMAIN scope} => x \in owned \cup flawed
    <3>1. PICK k \in 1..(pc - 1) :
             /\ Program[k].do \in Makes /\ x \in Program[k].names
             /\ \/ Program[k].do \in Builds
                \/ \A j \in 1..Len(Program) : Program[j].do = "open" => x \notin Program[j].names
      BY <2>2, <2>3, <2>5, Bearings DEF Prepares, Draws
    <3>2. x \in live \cup flawed
      BY <2>4, <2>5, <3>1
    <3>3. CASE Program[k].do \in Builds
      BY <2>4, <3>1, <3>2, <3>3
    <3>4. CASE \A j \in 1..Len(Program) : Program[j].do = "open" => x \notin Program[j].names
      <4>1. x \notin NamesOf({"open"})
        BY <2>2, <3>4, Bearings DEF NamesOf, Doing, Program
      <4>2. UNION {scope[i] : i \in DOMAIN scope} \subseteq NamesOf({"open"})
        <5>1. scope \in Seq(SUBSET NamesOf({"open"}))
          BY <2>2 DEF Placed
        <5> QED
          BY <5>1
      <4> QED
        BY <3>2, <4>1, <4>2
    <3> QED
      BY <3>1, <3>3, <3>4
  <2>6. flawed \subseteq NamesOf({"build_path"}) \cup IF prog = "traingle" THEN {"program"} ELSE {}
    BY <1>1 DEF ProgramInv, Unnoticed
  <2> QED
    BY <2>5, <2>6
<1> QED
  BY <1>1, ProgramAlways, PTL

(* What the frames keep beside the camera. *)
Kept ==
    /\ now \in 0..MaxTime /\ lastFrame \in 0..MaxTime /\ deltaTime \in 0..MaxTime
    /\ keys \subseteq Keys /\ closing \in BOOLEAN
    /\ viewport \in {"first", "flat"} /\ gFb \in {"first", "flat"} /\ mixValue \in 0..MaxMix

(* They are kept by each step, the first deltaTime too.                    *)
LEMMA KeptStep == ASSUME SteeredInv, Kept, [FramesNext]_allVars PROVE Kept'
<1>1. SetupTime \in Nat /\ MaxTime \in Nat /\ SetupTime <= MaxTime /\ MaxMix \in Nat \ {0}
  BY FramesAssumption DEF FramesAssumption
<1>2. /\ prog' = prog /\ Controls' = Controls /\ Keys' = Keys
  <2>1. prog' = prog
    BY SameProgram DEF allVars, vars
  <2> QED
    BY <2>1, SameControls DEF Keys, Mixes
<1>3. CASE UNCHANGED frameVars
  BY <1>2, <1>3 DEF Kept, frameVars, timeVars, inputVars
<1>4. CASE StartLoop
  BY <1>1, <1>2, <1>4 DEF StartLoop, inputVars, Kept
<1>5. CASE BeginTurn
  <2>1. /\ closing' = ("ESCAPE" \in keys) /\ TakeTime
        /\ mixValue' = IF Mixes THEN Mixed(mixValue) ELSE mixValue
        /\ UNCHANGED <<now, keys, viewport, gFb>> /\ step = "turn"
    BY <1>5 DEF BeginTurn
  <2>2. now - lastFrame \in 0..MaxTime
    BY <1>1, <2>1 DEF SteeredInv, Walked, Looping, Kept
  <2>3. lastFrame' \in 0..MaxTime /\ deltaTime' \in 0..MaxTime
    BY <2>1, <2>2 DEF TakeTime, Kept
  <2>4. mixValue' \in 0..MaxMix
    <3>1. Mixed(mixValue) \in 0..MaxMix
      BY <1>1 DEF Mixed, Kept
    <3> QED
      BY <2>1, <3>1 DEF Kept
  <2> QED
    BY <1>2, <2>1, <2>3, <2>4 DEF Kept
<1>6. CASE Render
  BY <1>2, <1>6 DEF Render, timeVars, inputVars, Kept
<1>7. CASE EndLoop
  <2>1. /\ now' = 0 /\ lastFrame' = 0 /\ deltaTime' = 0 /\ keys' = {} /\ closing' = FALSE
        /\ viewport' = "first" /\ gFb' = "first" /\ mixValue' = 1
    BY <1>7 DEF EndLoop
  <2>2. 0 \in 0..MaxTime /\ 1 \in 0..MaxMix
    BY <1>1
  <2> QED
    BY <2>1, <2>2 DEF Kept
<1>8. CASE PressKeys
  BY <1>2, <1>8 DEF PressKeys, Polling, timeVars, Kept
<1>9. ASSUME \/ CloseWindow
             \/ \E y \in Positions : MoveCursor(y)
             \/ \E d \in {-1, 1} : Scroll(d)
             \/ \E shape \in {"first", "flat"} : Resize(shape)
      PROVE  Kept'
  BY <1>2, <1>9 DEF CloseWindow, MoveCursor, Scroll, Resize, Polling, timeVars, Kept
<1>10. CASE EndPoll
  <2>1. /\ now' = IF now < MaxTime THEN now + 1 ELSE now
        /\ UNCHANGED <<lastFrame, deltaTime, keys, closing, viewport, gFb, mixValue>>
    BY <1>10 DEF EndPoll, inputVars
  <2> QED
    BY <1>1, <1>2, <2>1 DEF Kept
<1> QED
  BY <1>3, <1>4, <1>5, <1>6, <1>7, <1>8, <1>9, <1>10 DEF FramesNext, allVars

(* So they hold always.                                                    *)
LEMMA KeptAlways == FramesSpec => []Kept
<1>1. FramesInit => Kept
  <2>1. 0 \in 0..MaxTime /\ 1 \in 0..MaxMix
    BY FramesAssumption DEF FramesAssumption
  <2> QED
    BY <2>1 DEF FramesInit, Kept
<1>2. SteeredInv /\ Kept /\ [FramesNext]_allVars => Kept'
  BY KeptStep
<1> QED
  BY <1>1, <1>2, SteeredAlways, PTL DEF FramesSpec

(* Every variable of the programs and of their loops keeps to its values:  *)
(* nothing lives without a context, nothing is owned that was never in a   *)
(* variable, time and mixValue stay in their ranges.                       *)
THEOREM FramesTypeCorrect == FramesSpec => []FramesTypeOK
<1>1. ASSUME ProgramInv PROVE TypeOK
  <2>1. Placed
    BY <1>1 DEF ProgramInv
  <2>2. UNION {scope[k] : k \in DOMAIN scope} \subseteq NamesOf({"open"})
    <3>1. scope \in Seq(SUBSET NamesOf({"open"}))
      BY <2>1 DEF Placed
    <3> QED
      BY <3>1
  <2> QED
    BY <2>1, <2>2 DEF Placed, TypeOK, Program
<1>2. ASSUME SteeredInv, Kept, TypeOK PROVE FramesTypeOK
  BY <1>2 DEF SteeredInv, Kept, FramesTypeOK
<1> QED
  BY <1>1, <1>2, ProgramAlways, SteeredAlways, KeptAlways, PTL
=============================================================================
