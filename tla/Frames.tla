------------------------------- MODULE Frames -------------------------------
(***************************************************************************)
(* The loops of the programs of Demos: in each turn the time is taken, the *)
(* keys are looked at, the frame of RenderLoops is drawn, and GLFW calls   *)
(* back for what the user has done meanwhile.  All of it is one thread.    *)
(***************************************************************************)
EXTENDS Demos, RenderLoops, Camera, SequencesExt

CONSTANTS
    SetupTime,  \* when the loop begins
    MaxTime,    \* bound on the time
    Positions,  \* of the cursor; lastY is 0 before it is known
    MaxMix      \* mixValue 1.0F; it starts at 1, which stands for 0.2F

ASSUME FramesAssumption ==
    /\ SetupTime \in Nat \ {0} /\ MaxTime \in Nat /\ SetupTime <= MaxTime
    /\ Positions \subseteq Int /\ MaxMix \in Nat \ {0}

VARIABLES
    step,       \* of the turn of the loop
    ctx,        \* what GL has been told
    now, lastFrame, deltaTime,
    keys,       \* what glfwGetKey() tells: the keys down at the last poll
    closing,    \* the flag of the window
    camera,
    is_first, lastY,
    viewport,   \* shape of the framebuffer
    gFb,        \* the shape the projection is made for
    mixValue

inputVars == <<keys, closing, camera, is_first, lastY, viewport, gFb, mixValue>>
timeVars == <<now, lastFrame, deltaTime>>
frameVars == <<step, ctx, timeVars, inputVars>>
allVars == <<vars, frameVars>>

Specular == "specularMap" \in held     \* the option was given

(* what is set before the loop, what each turn does, the uniforms there are *)
LoopOf(p) ==
    CASE p = "basic_lighting"      -> <<(<<>>), BasicLightingFrame, BasicUniforms>>
      [] p = "materials"           -> <<(<<>>), MaterialsFrame, MaterialUniforms>>
      [] p = "lighting_maps"       ->
            <<BeforeOption(Specular), LightingMapsFrame(Specular), MapsUniforms>>
      [] p = "casters_directional" ->
            <<BeforeOption(Specular), CastersDirectionalFrame(Specular), MapsUniforms>>
      [] p = "casters_point"       -> <<BeforeMaps, CastersPointFrame, PointUniforms>>
      [] p = "casters_spot"        -> <<BeforeMaps, CastersSpotFrame, SpotUniforms>>
      [] p = "multiple_lights"     -> <<BeforeMultiple, MultipleLightsFrame, MultipleUniforms>>
      [] p = "colors"              -> <<(<<>>), ColorsFrame, ColorsUniforms>>
      [] p = "camera_mouse_zoom"   -> <<BeforeTextured, CameraMouseZoomFrame, TexturedUniforms>>
      [] p = "camera_keyboard_dt"  -> <<BeforeProjected, CameraKeyboardFrame, TexturedUniforms>>
      [] p = "camera_circle"       -> <<BeforeProjected, CameraCircleFrame, TexturedUniforms>>
      [] p = "coordinate_systems"  -> <<BeforeTextured, CoordinateSystemsFrame, TexturedUniforms>>
      [] p = "texture"             -> <<BeforeTexture, TextureFrame, MixedUniforms>>
      [] p = "transform"           -> <<BeforeTextured, TransformFrame, TransformUniforms>>
      [] p = "shader_class"        -> <<(<<Use("shader")>>), ShaderClassFrame, {}>>
      [] p = "rectangle"           -> <<(<<>>), RectangleFrame, {}>>
      [] p = "shaders_uniform"     -> <<(<<Bind("VAO")>>), ShadersUniformFrame, {"ourColor"}>>
      [] p = "traingle"            -> <<(<<>>), TraingleFrame, {}>>
      [] p = "window"              -> <<(<<>>), (<<>>), {}>>
      [] p = "gravity_sim"         -> <<(<<>>), (<<>>), {}>>

Uniforms(s) ==
    CASE s = "lightShader" -> Matrices
      [] s = "cubeShader" -> Matrices \cup LoopOf(prog)[3]
      [] OTHER -> LoopOf(prog)[3]
-----------------------------------------------------------------------------
(* What the callbacks and processInput() of each program do.               *)
Control(walks, looks, zooms, tracks) ==
    [walks |-> walks, looks |-> looks, zooms |-> zooms, tracks |-> tracks]

BasicLightingInput == Control(TRUE, 1, TRUE, TRUE)
MaterialsInput == Control(TRUE, 1, TRUE, TRUE)
LightingMapsInput == Control(TRUE, -1, TRUE, FALSE)
CastersDirectionalInput == Control(TRUE, 1, TRUE, FALSE)
CastersPointInput == Control(TRUE, 1, TRUE, FALSE)
CastersSpotInput == Control(TRUE, 1, TRUE, FALSE)
MultipleLightsInput == Control(TRUE, 1, TRUE, FALSE)
ColorsInput == Control(TRUE, -1, TRUE, FALSE)
CameraMouseZoomInput == Control(TRUE, -1, TRUE, FALSE)
CameraKeyboardInput == Control(TRUE, 0, FALSE, FALSE)
PlainInput == Control(FALSE, 0, FALSE, FALSE)

Controls ==
    CASE prog = "basic_lighting" -> BasicLightingInput
      [] prog = "materials" -> MaterialsInput
      [] prog = "lighting_maps" -> LightingMapsInput
      [] prog = "casters_directional" -> CastersDirectionalInput
      [] prog = "casters_point" -> CastersPointInput
      [] prog = "casters_spot" -> CastersSpotInput
      [] prog = "multiple_lights" -> MultipleLightsInput
      [] prog = "colors" -> ColorsInput
      [] prog = "camera_mouse_zoom" -> CameraMouseZoomInput
      [] prog = "camera_keyboard_dt" -> CameraKeyboardInput
      [] OTHER -> PlainInput

(* The uniforms of s that are not the same in every frame: they follow the *)
(* camera with its zoom, the time or the keys.                             *)
Moving(s) ==
    {"viewPos", "spotLight.position", "spotLight.direction", "transform", "mixValue", "ourColor"}
    \cup (IF prog = "coordinate_systems" THEN {} ELSE {"view"})
    \cup (IF Controls.zooms THEN {"proj", "project"} ELSE {})
    \cup (CASE prog = "basic_lighting" -> {"lightPos"}
            [] prog = "materials"      -> {"light.position", "light.colors"}
            [] prog = "casters_spot"   -> {"light.position", "light.direction"}
            [] OTHER                   -> {})
    \cup (IF s = "lightShader" /\ prog \in {"basic_lighting", "materials"} THEN {"model"} ELSE {})

(* Those that are not the same for two objects of one frame. *)
PerObject(s) ==
    CASE prog = "transform" -> {"transform"}
      [] prog = "multiple_lights" /\ s = "lightShader" -> {"model"}
      [] prog \in {"casters_directional", "casters_point", "casters_spot", "multiple_lights"}
         /\ s = "cubeShader" -> {"model", "normalMatrix"}
      [] prog \in {"camera_mouse_zoom", "camera_keyboard_dt", "camera_circle",
                   "coordinate_systems"} -> {"model"}
      [] OTHER -> {}

Mixes == prog \in {"texture", "transform"}

(* The keys a program asks for. *)
Keys ==
    (IF prog \in {"gravity_sim", "version"} THEN {} ELSE {"ESCAPE"}) \cup
    (IF Controls.walks THEN {"W", "S"} ELSE {}) \cup
    (IF Mixes THEN {"UP", "DOWN"} ELSE {})
-----------------------------------------------------------------------------
NoContext ==
    [program |-> "none", vao |-> {}, maps |-> {}, given |-> {}, fresh |-> {}, starved |-> {}]

FramesInit ==
    /\ Init
    /\ step = "setup" /\ ctx = NoContext
    /\ now = 0 /\ lastFrame = 0 /\ deltaTime = 0
    /\ keys = {} /\ closing = FALSE
    /\ camera = NewCamera /\ is_first = TRUE /\ lastY = 0
    /\ viewport = "first" /\ gFb = "first" /\ mixValue = 1

(* What a draw needs and has not got: its program, its mesh, its maps, and *)
(* its uniforms, those that change set since they last did.                *)
Lacks(c, s, v) ==
    (IF c.program = s THEN {} ELSE {"program"}) \cup
    (IF c.vao = v THEN {} ELSE {"mesh"}) \cup
    ((held \cap {"diffuseMap", "specularMap", "textures"}) \ c.maps) \cup
    {u \in Uniforms(s) :
        \/ <<s, u>> \notin c.given
        \/ u \in Moving(s) \cup PerObject(s) /\ <<s, u>> \notin c.fresh}

(* A program that was not built is 0: nothing reaches it or comes from it. *)
Tell(c, t) ==
    CASE t.op = "use" -> [c EXCEPT !.program = t.on]
      [] t.op = "bind" -> [c EXCEPT !.vao = t.names]
      [] t.op = "act" -> [c EXCEPT !.maps = @ \cup t.names]
      [] t.op = "set" /\ c.program = t.on ->
            [c EXCEPT !.given = @ \cup ({t.on} \X t.names), !.fresh = @ \cup ({t.on} \X t.names)]
      [] t.op = "draw" /\ t.on \notin flawed ->
            [c EXCEPT !.starved = @ \cup Lacks(c, t.on, t.names),
                      !.fresh = @ \ ({t.on} \X PerObject(t.on))]
      [] OTHER -> c

(* Entering the loop.                                                      *)
StartLoop ==
    /\ At({"loop"}) /\ step = "setup"
    /\ ctx' = FoldLeft(Tell, ctx, LoopOf(prog)[1])
    /\ now' = SetupTime /\ step' = "turn"
    /\ UNCHANGED <<vars, lastFrame, deltaTime, inputVars>>

(* A key held down counts once in each turn. *)
Mixed(v) ==
    LET up == IF "UP" \in keys /\ v < MaxMix THEN v + 1 ELSE v
    IN  IF "DOWN" \in keys /\ up > 0 THEN up - 1 ELSE up

TakeTime ==
    IF Controls.walks THEN deltaTime' = now - lastFrame /\ lastFrame' = now
                      ELSE UNCHANGED <<deltaTime, lastFrame>>

BeginTurn ==
    /\ At({"loop"}) /\ step = "turn" /\ ~closing
    /\ TakeTime
    /\ closing' = ("ESCAPE" \in keys)
    /\ camera' = IF Controls.walks THEN Keyboard(camera, keys, deltaTime') ELSE camera
    /\ mixValue' = IF Mixes THEN Mixed(mixValue) ELSE mixValue
    /\ step' = "draw"
    /\ UNCHANGED <<vars, ctx, now, keys, is_first, lastY, viewport, gFb>>

Render ==
    /\ step = "draw" /\ Draw
    /\ ctx' = FoldLeft(Tell, [ctx EXCEPT !.fresh = {}], LoopOf(prog)[2])
    /\ step' = "poll"
    /\ UNCHANGED <<timeVars, inputVars>>

(* What the loop has kept is not read again. *)
EndLoop ==
    /\ step = "turn" /\ closing /\ StopDrawing
    /\ step' = "over" /\ ctx' = NoContext
    /\ now' = 0 /\ lastFrame' = 0 /\ deltaTime' = 0
    /\ keys' = {} /\ closing' = FALSE
    /\ camera' = NewCamera /\ is_first' = TRUE /\ lastY' = 0
    /\ viewport' = "first" /\ gFb' = "first" /\ mixValue' = 1
-----------------------------------------------------------------------------
(* glfwPollEvents() calls back for any number of events.                   *)
Polling == At({"loop"}) /\ step = "poll" /\ UNCHANGED <<vars, step, ctx, timeVars>>

PressKeys ==
    /\ Polling /\ gl = "ready" /\ keys' \in SUBSET Keys
    /\ UNCHANGED <<closing, camera, is_first, lastY, viewport, gFb, mixValue>>

MoveCursorJumps(y) ==           \* mutant of MoveCursor: is_first is not looked at
    /\ Polling /\ Controls.looks # 0
    /\ camera' = MouseMove(camera, Controls.looks * (lastY - y))
    /\ is_first' = FALSE /\ lastY' = y
    /\ UNCHANGED <<keys, closing, viewport, gFb, mixValue>>

MoveCursor(y) ==
    /\ Polling /\ Controls.looks # 0
    /\ LET from == IF is_first THEN y ELSE lastY
       IN  camera' = MouseMove(camera, Controls.looks * (from - y))
    /\ is_first' = FALSE /\ lastY' = y
    /\ UNCHANGED <<keys, closing, viewport, gFb, mixValue>>

Scroll(d) ==
    /\ Polling /\ Controls.zooms
    /\ camera' = MouseScroll(camera, d)
    /\ UNCHANGED <<keys, closing, is_first, lastY, viewport, gFb, mixValue>>

(* "flat" has no height; the projection takes it for 1. *)
Resize(shape) ==
    /\ Polling /\ gl = "ready"
    /\ viewport' = shape
    /\ gFb' = IF Controls.tracks THEN shape ELSE gFb
    /\ UNCHANGED <<keys, closing, camera, is_first, lastY, mixValue>>

(* Without a window, as gravity_sim.cpp may be, the flag is anything. *)
CloseWindow ==
    /\ Polling /\ closing' = TRUE
    /\ UNCHANGED <<keys, camera, is_first, lastY, viewport, gFb, mixValue>>

EndPoll ==
    /\ At({"loop"}) /\ step = "poll"
    /\ now' = IF now < MaxTime THEN now + 1 ELSE now
    /\ step' = "turn"
    /\ UNCHANGED <<vars, ctx, lastFrame, deltaTime, inputVars>>
-----------------------------------------------------------------------------
FramesNext ==
    \/ Advance /\ UNCHANGED frameVars
    \/ StartLoop \/ BeginTurn \/ Render \/ EndLoop
    \/ PressKeys \/ CloseWindow \/ EndPoll
    \/ \E y \in Positions : MoveCursor(y)
    \/ \E d \in {-1, 1} : Scroll(d)
    \/ \E shape \in {"first", "flat"} : Resize(shape)

FramesSpec == FramesInit /\ [][FramesNext]_allVars
-----------------------------------------------------------------------------
FramesTypeOK ==
    /\ TypeOK
    /\ step \in {"setup", "turn", "draw", "poll", "over"}
    /\ now \in 0..MaxTime /\ lastFrame \in 0..MaxTime /\ deltaTime \in 0..MaxTime
    /\ keys \subseteq Keys /\ closing \in BOOLEAN /\ CameraOK(camera)
    /\ is_first \in BOOLEAN /\ lastY \in Positions \cup {0}
    /\ {viewport, gFb} \subseteq {"first", "flat"} /\ mixValue \in 0..MaxMix

(* Whatever is drawn is drawn with the program, mesh and maps it is meant  *)
(* for, and every uniform its shaders declare has been set on it: those    *)
(* that follow the camera, its zoom, the time or the keys in this very     *)
(* frame, and those that follow the object, where a program draws several, *)
(* for this very object.  What they are set to is not told: in two         *)
(* programs the light is where the lamp was a frame ago.                   *)
DrawsComplete == ctx.starved = {}

(* The view follows the user and nothing else: a held key moves the camera *)
(* for no longer than the loop has run, though the first deltaTime is the  *)
(* whole time since glfwInit(); the camera turns by no more than the       *)
(* cursor has moved between two reports, wherever it was at the first one  *)
(* and however often the angle was cut off; and the projection has the     *)
(* shape of the window in the two programs that keep it up.                *)
Steered ==
    /\ now > 0 => camera.along \in (SetupTime - now)..(now - SetupTime)
    /\ camera.pitch # 0 =>
           \E y, z \in Positions :
               camera.pitch + Controls.looks * lastY \in
                   (Controls.looks * y)..(Controls.looks * z)
    /\ prog \in {"basic_lighting", "materials"} => gFb = viewport
=============================================================================
