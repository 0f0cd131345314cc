------------------------------- MODULE Demos -------------------------------
(***************************************************************************)
(* The programs of learn_gl/demo, any one of them: what each has acquired  *)
(* at each statement, and what it does about it on every way out.  A       *)
(* program is a text of DemoPrograms; the shader and the texture class are *)
(* shader.cpp and texture.cpp; GL and GLFW are external.                   *)
(***************************************************************************)
EXTENDS Naturals, FiniteSets, DemoPrograms

Programs ==
    {"basic_lighting", "materials", "lighting_maps", "casters_directional", "casters_point",
     "casters_spot", "multiple_lights", "colors", "camera_mouse_zoom", "camera_keyboard_dt",
     "camera_circle", "coordinate_systems", "texture", "transform", "shader_class",
     "rectangle", "shaders_uniform", "traingle", "window", "version", "gravity_sim"}

Text(p) ==
    CASE p = "basic_lighting"      -> BasicLightingSetup \o BasicLightingRun
      [] p = "materials"           -> MaterialsSetup \o MaterialsRun
      [] p = "lighting_maps"       -> LightingMapsSetup \o LightingMapsRun
      [] p = "casters_directional" -> CastersDirectionalSetup \o CastersDirectionalRun
      [] p = "casters_point"       -> CastersPointSetup \o CastersPointRun
      [] p = "casters_spot"        -> CastersSpotSetup \o CastersSpotRun
      [] p = "multiple_lights"     -> MultipleLightsSetup \o MultipleLightsRun
      [] p = "colors"              -> ColorsSetup \o ColorsRun
      [] p = "camera_mouse_zoom"   -> CameraMouseZoomSetup \o CameraMouseZoomRun
      [] p = "camera_keyboard_dt"  -> CameraKeyboardSetup \o CameraKeyboardRun
      [] p = "camera_circle"       -> CameraCircleSetup \o CameraCircleRun
      [] p = "coordinate_systems"  -> CoordinateSystemsSetup \o CoordinateSystemsRun
      [] p = "texture"             -> TextureDemo
      [] p = "transform"           -> Transform
      [] p = "shader_class"        -> ShaderClass
      [] p = "rectangle"           -> Rectangle
      [] p = "shaders_uniform"     -> ShadersUniform
      [] p = "traingle"            -> Traingle
      [] p = "window"              -> WindowDemo
      [] p = "version"             -> Version
      [] p = "gravity_sim"         -> GravitySim

VARIABLES
    prog,     \* the program
    pc,       \* where it is; 0 when it has exited
    lib,      \* whether GLFW is initialised
    gl,       \* its context: "none", "window" (nothing loaded), "ready", "gone"
    live,     \* the GL names that exist
    held,     \* the names ever put into a variable; other variables are 0
    owned,    \* the objects whose destructor deletes a name
    scope,    \* the objects of each block entered, innermost last
    flawed,   \* shaders and programs that failed without an error
    ran,      \* whether the loop has come to its end
    lost,     \* names that still existed when their context went
    strays    \* calls and deletions of what does not exist

vars == <<prog, pc, lib, gl, live, held, owned, scope, flawed, ran, lost, strays>>
glfwVars == <<lib, gl, lost>>
nameVars == <<live, held, owned>>
history == <<flawed, ran>>

Here == Text(prog)[pc]
At(kinds) == pc # 0 /\ Here.do \in kinds /\ UNCHANGED prog
-----------------------------------------------------------------------------
Init ==
    /\ prog \in Programs /\ pc = 1
    /\ lib = FALSE /\ gl = "none"
    /\ live = {} /\ held = {} /\ owned = {} /\ scope = <<>>
    /\ flawed = {} /\ ran = FALSE /\ lost = {} /\ strays = {}

(* The blocks an index is in. *)
Depth(i) ==
    LET text == Text(prog)
        In(kind) == Cardinality({k \in 1..(i - 1) : text[k].do = kind})
    IN  In("open") - In("close")

(* A call needs a context and its functions. *)
Calls(N) == IF gl = "ready" THEN {} ELSE N

(* Leaves all but n blocks: their objects delete what they own.  A texture *)
(* without a unit owns nothing: its name stays.  "made" is new, "called"   *)
(* is called.                                                              *)
LeaveTo(n, made, called) ==
    LET gone == owned \cap UNION {scope[k] : k \in (n + 1)..Len(scope)} IN
    /\ scope' = SubSeq(scope, 1, n)
    /\ live' = (live \ gone) \cup IF gl = "ready" THEN made ELSE {}
    /\ owned' = owned \ gone
    /\ strays' = strays \cup Calls(gone \cup called)

Go(made, called) == pc' = pc + 1 /\ LeaveTo(Len(scope), made, called)
Pass == Go({}, {})

(* A goto leaves blocks, the body of a macro does not.                     *)
Fail(made, called) ==
    IF Here.err = "none" THEN Go(made, called)
    ELSE LET text == Text(prog)
             t == CHOOSE k \in DOMAIN text :
                     /\ text[k].do \in {"label", "macro"}
                     /\ text[k].err = text[pc].err
         IN  /\ pc' = t
             /\ LeaveTo(IF text[t].do = "label" THEN Depth(t) ELSE Len(scope),
                        made, called)
-----------------------------------------------------------------------------
LibraryInit ==
    /\ At({"library"})
    /\ \/ lib' = TRUE /\ Pass
       \/ lib' = FALSE /\ Fail({}, {})
    /\ UNCHANGED <<gl, lost, held, history>>

OpenWindow ==
    /\ At({"window"})
    /\ \/ lib /\ gl' = "window" /\ Pass
       \/ UNCHANGED gl /\ Fail({}, {})
    /\ UNCHANGED <<lib, lost, held, history>>

LoadFunctions ==
    /\ \/ At({"glad"}) /\ gl' = "ready" /\ Pass
       \/ At({"glad"}) /\ UNCHANGED gl /\ Fail({}, {})
       \/ At({"linked"}) /\ gl' = (IF gl = "window" THEN "ready" ELSE gl) /\ Pass
    /\ UNCHANGED <<lib, lost, held, history>>

(* What exists goes with the context.  Without a window nothing happens.   *)
EndContext ==
    /\ At({"destroy", "terminate"})
    /\ lib' = (lib /\ Here.do = "destroy")
    /\ gl' = IF gl = "none" THEN gl ELSE "gone"
    /\ lost' = lost \cup live /\ live' = {}
    /\ pc' = pc + 1
    /\ UNCHANGED <<held, owned, scope, history, strays>>

Nothing ==
    /\ At({"probe", "label", "macro"}) /\ Pass
    /\ UNCHANGED <<glfwVars, held, history>>
-----------------------------------------------------------------------------
Generate ==
    /\ At({"gen", "texture", "call"}) /\ Go(Here.names, {Here.do})
    /\ held' = held \cup Here.names
    /\ UNCHANGED <<glfwVars, history>>

(* Deleting 0 does nothing, deleting a name twice is a mistake.            *)
DeleteNames ==
    /\ At({"delete"})
    /\ live' = live \ Here.names
    /\ strays' = strays \cup Calls({"delete"}) \cup ((Here.names \cap held) \ live)
    /\ pc' = pc + 1
    /\ UNCHANGED <<glfwVars, held, owned, scope, history>>

(* What does not compile or link exists all the same.                      *)
CompileOne ==
    /\ At({"compile"})
    /\ held' = held \cup Here.names
    /\ \/ Go(Here.names, {"compile"}) /\ UNCHANGED flawed
       \/ /\ Fail(Here.names, {"compile"})
          /\ flawed' = flawed \cup IF Here.err = "none" THEN Here.names ELSE {}
    /\ UNCHANGED <<glfwVars, ran>>
-----------------------------------------------------------------------------
Enter ==
    /\ At({"open"})
    /\ scope' = Append(scope, Here.names)
    /\ pc' = pc + 1
    /\ UNCHANGED <<glfwVars, nameVars, history, strays>>

Leave ==
    /\ At({"close"})
    /\ LeaveTo(Len(scope) - 1, {}, {})
    /\ pc' = pc + 1
    /\ UNCHANGED <<glfwVars, held, history>>

(* A shader is built, a texture loaded and given a unit: there is          *)
(* something to delete.                                                    *)
Obtain ==
    /\ At({"build", "build_path", "load", "load_if"})
    /\ live' = live \cup IF gl = "ready" THEN Here.names ELSE {}
    /\ held' = held \cup Here.names
    /\ owned' = owned \cup Here.names
    /\ strays' = strays \cup Calls({Here.do})
    /\ pc' = pc + 1
    /\ UNCHANGED <<glfwVars, scope, history>>

(* mutant of BuildFails: the result of linking is not looked at *)
BuildQuiet ==
    /\ At({"build", "build_path"}) /\ Pass
    /\ UNCHANGED <<glfwVars, held, history>>

(* A file is missing, the vertex shader does not compile, or the program   *)
(* does not link and is deleted: nothing is left.  If the fragment shader  *)
(* does not compile, goto CLEANUP leaves the vertex shader behind.         *)
BuildFails ==
    /\ At({"build", "build_path"})
    /\ \E left \in {{}, {"vertex"}} : Fail(left, {Here.do})
    /\ UNCHANGED <<glfwVars, held, history>>

(* A path to something that is not a file: no error, and no program.  A    *)
(* map that was not asked for.                                             *)
Skip ==
    /\ At({"build_path", "load_if"}) /\ Pass
    /\ flawed' = flawed \cup IF Here.do = "build_path" THEN Here.names ELSE {}
    /\ UNCHANGED <<glfwVars, held, ran>>

LoadFails ==
    /\ At({"load", "load_if"}) /\ Fail({}, {Here.do})
    /\ UNCHANGED <<glfwVars, held, history>>
-----------------------------------------------------------------------------
Draw ==
    /\ At({"loop"})
    /\ strays' = strays \cup Calls({"loop"})
    /\ UNCHANGED <<pc, glfwVars, nameVars, scope, history>>

StopDrawing ==
    /\ At({"loop"}) /\ Pass
    /\ ran' = TRUE
    /\ UNCHANGED <<glfwVars, held, flawed>>

Exit ==
    /\ At({"return"})
    /\ LeaveTo(0, {}, {})
    /\ lost' = lost \cup live'
    /\ pc' = 0
    /\ UNCHANGED <<lib, gl, held, history>>
-----------------------------------------------------------------------------
(* Everything but the loop: see Frames.                                    *)
Advance ==
    \/ LibraryInit \/ OpenWindow \/ LoadFunctions \/ EndContext \/ Nothing
    \/ Generate \/ DeleteNames \/ CompileOne
    \/ Enter \/ Leave \/ Obtain \/ BuildFails \/ Skip \/ LoadFails
    \/ Exit
-----------------------------------------------------------------------------
Doing(kinds) == LET text == Text(prog) IN {k \in DOMAIN text : text[k].do \in kinds}
NamesOf(kinds) == LET text == Text(prog) IN UNION {text[k].names : k \in Doing(kinds)}

TypeOK ==
    /\ prog \in Programs /\ pc \in 0..Len(Text(prog))
    /\ lib \in BOOLEAN /\ ran \in BOOLEAN
    /\ gl \in {"none", "window", "ready", "gone"}
    /\ live # {} => gl = "ready" \/ pc = 0
    /\ live \subseteq held \cup {"vertex"} /\ owned \subseteq held
    /\ UNION {scope[k] : k \in DOMAIN scope} \subseteq NamesOf({"open"})

(* Whichever statement fails, and however its block is left, no call of GL *)
(* is made before its functions are loaded or after the context is gone,   *)
(* and nothing is deleted twice.  Three programs are known to do it: the   *)
(* shader of transform.cpp is destroyed behind glfwTerminate(), and so is  *)
(* the first of colors.cpp if the second fails; gravity_sim.cpp goes on    *)
(* without a window.                                                       *)
CallsInContext ==
    strays \subseteq
        CASE prog = "transform" -> {"shader"}
          [] prog = "colors" -> {"cubeShader"}
          [] prog = "gravity_sim" -> {"call", "loop"}
          [] OTHER -> {}

(* What is known to stay: textures whose load failed, the vertex shader of *)
(* a build that failed, the textures of three programs, and the shader of  *)
(* the one that destroys it too late.                                      *)
Stays ==
    NamesOf({"texture"}) \cup (IF ran THEN {} ELSE {"vertex"}) \cup
    CASE prog \in {"coordinate_systems", "texture"} -> {"textures"}
      [] prog = "transform" -> {"textures", "shader"}
      [] OTHER -> {}

(* Programs that return without glfwTerminate(): one at its end, those in  *)
(* C on an error, one always.                                              *)
Keeps ==
    CASE prog = "camera_circle" -> ran
      [] prog \in {"rectangle", "traingle", "window"} -> ~ran
      [] prog = "gravity_sim" -> TRUE
      [] OTHER -> FALSE

(* A program that has exited has deleted what it made before its context   *)
(* went, on every way out if it cleans up behind labels and at its regular *)
(* end if not; and it has terminated the library.                          *)
NothingLeft ==
    pc = 0 =>
        /\ Doing({"label"}) # {} \/ ran => lost \subseteq Stays
        /\ lib => Keeps

(* What a frame is drawn with exists: the meshes, the textures and what    *)
(* was loaded into them, and the programs, unless the failure of one went  *)
(* unnoticed, as it can when a path is not that of a file, or in           *)
(* traingle.c.                                                             *)
ReadyToDraw ==
    pc # 0 /\ Here.do = "loop" =>
        /\ Here.names \subseteq live \cup flawed
        /\ Here.names \cap UNION {scope[k] : k \in DOMAIN scope} \subseteq owned \cup flawed
        /\ flawed \subseteq NamesOf({"build_path"}) \cup
                            IF prog = "traingle" THEN {"program"} ELSE {}
=============================================================================
