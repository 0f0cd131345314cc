---------------------------- MODULE DemoPrograms ----------------------------
(***************************************************************************)
(* The main() of each program of learn_gl/demo as a sequence of statements, *)
(* as far as they create, use or destroy anything.  "err" is where a       *)
(* failure leads: a label, or the body of an error macro, which runs in    *)
(* place; a failure nobody tests is "none".  Everything between two        *)
(* statements that can neither fail nor change what exists is part of one  *)
(* of them.                                                                *)
(***************************************************************************)
EXTENDS Sequences

S(do, names, err) == [do |-> do, names |-> names, err |-> err]

(* GLFW *)
Library(err) == S("library", {}, err)      \* glfwInit()
Window(err) == S("window", {}, err)        \* create a window, make it current
Probe == S("probe", {}, "none")            \* try contexts, keep none
Glad(err) == S("glad", {}, err)            \* load the functions of GL
Linked == S("linked", {}, "none")          \* GL comes with the linker
Destroy == S("destroy", {}, "none")        \* glfwDestroyWindow()
Terminate == S("terminate", {}, "none")    \* glfwTerminate()

(* GL *)
Gen(N) == S("gen", N, "none")              \* glGen*() into the variables N
Delete(N) == S("delete", N, "none")        \* glDelete*()
Call == S("call", {}, "none")              \* any other call
Compile(x, err) == S("compile", {x}, err)  \* a shader or a program, tested

(* Objects: shaders and textures, destroyed when their block is left *)
Open(N) == S("open", N, "none")
Close == S("close", {}, "none")
Build(x, err) == S("build", {x}, err)          \* Shader::build(char *)
BuildPath(x, err) == S("build_path", {x}, err) \* Shader::build(path)
Texture(x) == S("texture", {x}, "none")        \* Texture2D::Texture2D()
Load(x, err) == S("load", {x}, err)            \* load() and acquire()
LoadIf(x, err) == S("load_if", {x}, err)       \* the same, if asked for

(* Control: drawing needs N *)
Loop(N) == S("loop", N, "none")
Label(l) == S("label", {}, l)
Macro(l) == S("macro", {}, l)
Return == S("return", {}, "none")
-----------------------------------------------------------------------------
(***************************************************************************)
(* The programs of learn_gl/demo/lighting.  All but colors.cpp clean up    *)
(* behind labels, one for each thing acquired.                             *)
(***************************************************************************)
Cube == {"cubeVAO", "VBO", "EBO"}
WithLight == Cube \cup {"lightVAO"}
Shaders == {"cubeShader", "lightShader"}
Maps == {"diffuseMap", "specularMap"}

(* mutant of Start: the functions of GL are taken to be there *)
StartUntested == <<Library("none"), Window("CTX"), Glad("none")>>

Start == <<Library("none"), Window("CTX"), Glad("CTX")>>
Finish == <<Label("CTX"), Destroy, Terminate, Return>>
-----------------------------------------------------------------------------
(* basic_lighting.cpp and materials.cpp *)
BasicLightingSetup == Start \o <<Open({}), Gen(WithLight)>>

BasicLightingRun ==
    <<Open(Shaders), BuildPath("cubeShader", "MESH"), BuildPath("lightShader", "MESH"),
      Loop(WithLight \cup Shaders), Close,
      Label("MESH"), Call, Delete(WithLight), Close>> \o Finish

MaterialsSetup == Start \o <<Open({}), Gen(WithLight)>>

MaterialsRun ==
    <<Open(Shaders), BuildPath("cubeShader", "MESH"), BuildPath("lightShader", "MESH"),
      Loop(WithLight \cup Shaders), Close,
      Label("MESH"), Call, Delete(WithLight), Close>> \o Finish
-----------------------------------------------------------------------------
(* The label behind the shaders is inside their block, the one behind the  *)
(* textures inside theirs: each error leaves what it has to.               *)
Textures(diffuse, specular) ==
    <<Call, Texture("diffuseMap"), Texture("specularMap"), diffuse, specular>>

BothMaps == Textures(Load("diffuseMap", "MESH"), Load("specularMap", "MESH"))
OneMap == Textures(Load("diffuseMap", "MESH"), LoadIf("specularMap", "MESH"))

(* mutant of BothShaders: the wrong label *)
BothShadersToEnd ==
    <<Open(Shaders), BuildPath("cubeShader", "CTX"), BuildPath("lightShader", "CTX")>>

BothShaders ==
    <<Open(Shaders), BuildPath("cubeShader", "SHADER"), BuildPath("lightShader", "SHADER")>>

Unwind(mesh) == <<Label("SHADER"), Call, Close, Label("MESH"), Delete(mesh), Close>> \o Finish

(* lighting_maps.cpp: the specular map is an option *)
LightingMapsSetup == Start \o <<Open(Maps), Gen(WithLight)>> \o OneMap

LightingMapsRun ==
    BothShaders \o <<Loop(WithLight \cup Shaders \cup {"diffuseMap"})>> \o Unwind(WithLight)

(* casters_directional.cpp: the light is built and not drawn *)
CastersDirectionalSetup == Start \o <<Open(Maps), Gen(WithLight)>> \o OneMap

CastersDirectionalRun ==
    BothShaders \o <<Loop(Cube \cup {"cubeShader", "diffuseMap"})>> \o Unwind(WithLight)

CastersPointSetup == Start \o <<Open(Maps), Gen(WithLight)>> \o BothMaps

CastersPointRun ==
    BothShaders \o <<Loop(WithLight \cup Shaders \cup Maps)>> \o Unwind(WithLight)

(* casters_spot.cpp: lightVAO is bound and deleted, and never generated *)
CastersSpotSetup == Start \o <<Open(Maps), Gen(Cube)>> \o BothMaps

CastersSpotRun ==
    <<Open({"cubeShader"}), BuildPath("cubeShader", "SHADER"),
      Loop(Cube \cup {"cubeShader"} \cup Maps)>> \o Unwind(WithLight)

(* multiple_lights.cpp: two meshes of the same buffers *)
LoadVert(VAO, is_first) == Gen({VAO} \cup IF is_first THEN {"VBO", "EBO"} ELSE {})

MultipleLightsSetup ==
    Start \o <<Open(Maps), LoadVert("cubeVAO", TRUE), LoadVert("lightVAO", FALSE)>> \o BothMaps

MultipleLightsRun ==
    BothShaders \o <<Loop(WithLight \cup Shaders \cup Maps)>> \o Unwind(WithLight)
-----------------------------------------------------------------------------
(* colors.cpp: its macro destroys the window where it stands *)
ColorsSetup ==
    <<Library("none"), Window("ERR"), Glad("ERR"), Gen(WithLight),
      Open(Shaders), Call, BuildPath("cubeShader", "ERR"), BuildPath("lightShader", "ERR")>>

ColorsRun ==
    <<Loop(WithLight \cup Shaders), Close, Delete(WithLight), Destroy, Terminate, Return,
      Macro("ERR"), Destroy, Terminate, Return>>
-----------------------------------------------------------------------------
(***************************************************************************)
(* The programs of learn_gl/demo/start.  Their error macros clean up where *)
(* they stand, those that clean up.                                        *)
(***************************************************************************)
Mesh == {"VAO", "VBO", "EBO"}
Begin(err) == <<Library("none"), Window(err), Glad(err)>>
Bail == <<Macro("ERR"), Terminate, Return>>

(* mutant of Quit: reported, and not left *)
QuitGoesOn == <<Macro("QUIT")>>

Quit == <<Macro("QUIT"), Return>>
-----------------------------------------------------------------------------
(* The textures are two names in an array; an image that cannot be loaded  *)
(* is reported and its texture kept.                                       *)
Textured == Begin("ERR") \o <<Gen(Mesh), Gen({"textures"})>>
BuildOne == <<Open({"shader"}), Build("shader", "ERR")>>
Drawn == <<Loop(Mesh \cup {"textures", "shader"})>>

CameraMouseZoomSetup == Textured
CameraMouseZoomRun ==
    BuildOne \o Drawn \o <<Close, Delete(Mesh), Delete({"textures"}), Terminate, Return>> \o Bail

CameraKeyboardSetup == Textured
CameraKeyboardRun ==
    BuildOne \o Drawn \o <<Close, Delete(Mesh), Delete({"textures"}), Terminate, Return>> \o Bail

(* camera_circle.cpp returns with the library initialised *)
CameraCircleSetup == Textured
CameraCircleRun ==
    BuildOne \o Drawn \o <<Close, Delete(Mesh), Delete({"textures"}), Return>> \o Bail

CoordinateSystemsSetup == Textured
CoordinateSystemsRun ==
    BuildOne \o Drawn \o <<Close, Delete(Mesh), Terminate, Return>> \o Bail

TextureDemo ==
    Textured \o BuildOne \o Drawn \o <<Close, Delete(Mesh), Terminate, Return>> \o Bail

(* transform.cpp terminates inside the block of its shader *)
Transform ==
    Textured \o BuildOne \o Drawn \o <<Delete(Mesh), Terminate, Return, Close>> \o Bail

ShaderClass ==
    Begin("ERR") \o
    <<Open({"shader"}), BuildPath("shader", "ERR"), Gen({"VAO", "VBO"}),
      Loop({"VAO", "VBO", "shader"}), Delete({"VAO", "VBO"}), Close, Terminate, Return>> \o Bail
-----------------------------------------------------------------------------
(* The programs in C compile their shaders by hand. *)
Compiled(err, link) ==
    <<Compile("vertex", err), Compile("fragment", err), Compile("program", link),
      Delete({"vertex", "fragment"})>>

Rectangle ==
    <<Library("none"), Window("ERR"), Glad("QUIT")>> \o Compiled("QUIT", "QUIT") \o
    <<Gen(Mesh), Loop(Mesh \cup {"program"}), Delete(Mesh), Delete({"program"}),
      Terminate, Return>> \o Bail \o Quit

ShadersUniform ==
    Begin("ERR") \o Compiled("ERR", "ERR") \o
    <<Gen({"VAO", "VBO"}), Loop({"VAO", "VBO", "program"}),
      Delete({"VAO", "VBO"}), Delete({"program"}), Terminate, Return>> \o Bail

(* traingle.c asks glGetShaderiv() about a program, which tells nothing *)
Traingle ==
    <<Library("none"), Window("ERR"), Glad("QUIT")>> \o Compiled("QUIT", "none") \o
    <<Gen({"VAO", "VBO"}), Loop({"VAO", "VBO", "program"}),
      Delete({"VAO", "VBO"}), Delete({"program"}), Terminate, Return>> \o Bail \o Quit

WindowDemo ==
    <<Library("none"), Window("ERR"), Glad("QUIT"), Call, Loop({}), Terminate, Return>>
    \o Bail \o Quit

(* version.c makes a context for each version it tries, and one to show *)
Version ==
    <<Library("QUIT"), Probe, Window("ERR"), Glad("NONE"), Call, Destroy, Terminate, Return,
      Macro("NONE"), Destroy, Terminate, Return>> \o Bail \o Quit

(* gravity_sim.cpp tests neither the window nor what it leaves behind *)
GravitySim == <<Library("QUIT"), Window("none"), Linked, Call, Loop({}), Return>> \o Quit
=============================================================================
