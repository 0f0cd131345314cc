---------------------------- MODULE RenderLoops ----------------------------
(***************************************************************************)
(* What the programs of learn_gl/demo tell GL between the last thing they  *)
(* acquire and their loop, and in each turn of it.  A uniform is set on    *)
(* one program and goes to whichever program is in use.  Fields of a       *)
(* struct that are always set together have one name.  Clearing, swapping  *)
(* and the numbers are left out.                                           *)
(***************************************************************************)
EXTENDS Sequences

G(op, on, names) == [op |-> op, on |-> on, names |-> names]

Use(s) == G("use", s, {})            \* Shader::use()
Set(s, N) == G("set", s, N)          \* Shader::set*()
Bind(v) == G("bind", "GL", {v})      \* glBindVertexArray()
Activate(T) == G("act", "GL", T)     \* Texture2D::activate(), glBindTexture()
DrawWith(s, v) == G("draw", s, {v})  \* glDrawElements(), meant for s and v

Matrices == {"proj", "view", "model"}

(* N for each object and not for the frame: two objects stand for the ten  *)
(* cubes and the four lamps.                                               *)
EachOnce(s, N, v) == <<Set(s, N), DrawWith(s, v), DrawWith(s, v)>>   \* mutant of Each

Each(s, N, v) == <<Set(s, N), DrawWith(s, v), Set(s, N), DrawWith(s, v)>>

Lamp ==
    <<Use("lightShader"), Set("lightShader", Matrices),
      Bind("lightVAO"), DrawWith("lightShader", "lightVAO")>>

LitCube(N) ==
    <<Use("cubeShader"), Set("cubeShader", N \cup Matrices),
      Bind("cubeVAO"), DrawWith("cubeShader", "cubeVAO")>>

MappedCube(N, T) ==
    <<Use("cubeShader"), Set("cubeShader", N \cup Matrices), Activate(T),
      Bind("cubeVAO"), DrawWith("cubeShader", "cubeVAO")>>

MappedCubes(N, T) ==
    <<Use("cubeShader"), Set("cubeShader", N \cup Matrices), Activate(T), Bind("cubeVAO")>>
    \o Each("cubeShader", {"model", "normalMatrix"}, "cubeVAO")
-----------------------------------------------------------------------------
(* The uniforms of the shaders. *)
BasicUniforms ==
    {"enableSpecular", "lightPos", "viewPos", "lightColor", "objectColor", "normalMatrix"}

MaterialUniforms ==
    {"material.colors", "material.shininess", "light.position", "light.colors",
     "viewPos", "normalMatrix"}

MapsUniforms ==
    {"material.diffuse", "material.specular", "material.shininess",
     "light.position", "light.colors", "viewPos", "normalMatrix"}

PointUniforms == MapsUniforms \cup {"light.attenuation"}
SpotUniforms == PointUniforms \cup {"light.direction", "light.cone"}

MultipleUniforms ==
    {"material.diffuse", "material.specular", "material.shininess", "dirLight", "pointLights",
     "spotLight.colors", "spotLight.attenuation", "spotLight.cone",
     "spotLight.position", "spotLight.direction", "viewPos", "normalMatrix"}

ColorsUniforms == {"objectColor", "lightColor"}
TexturedUniforms == {"texture0", "texture1", "view", "project", "model"}
MixedUniforms == {"texture1", "texture2", "mixValue"}
TransformUniforms == {"texture0", "texture1", "mixValue", "transform"}
-----------------------------------------------------------------------------
(* The loops of demo/lighting.  With an option or without, the maps of     *)
(* lighting_maps.cpp and casters_directional.cpp are two or one; the       *)
(* shader is another one and its uniforms have the same names.             *)
BasicLightingFrame == LitCube(BasicUniforms) \o Lamp
MaterialsFrame == LitCube(MaterialUniforms) \o Lamp
ColorsFrame == LitCube(ColorsUniforms) \o Lamp

BeforeMaps == <<Use("cubeShader"), Set("cubeShader", {"material.diffuse", "material.specular"})>>

BeforeOption(specular) ==
    <<Use("cubeShader"),
      Set("cubeShader", {"material.diffuse"} \cup IF specular THEN {"material.specular"} ELSE {})>>

OptionMaps(specular) == {"diffuseMap"} \cup IF specular THEN {"specularMap"} ELSE {}

OptionUniforms(specular) ==
    {"material.shininess", "light.position", "light.colors", "viewPos"}
    \cup IF specular THEN {} ELSE {"material.specular"}

LightingMapsFrame(specular) ==
    MappedCube(OptionUniforms(specular) \cup {"normalMatrix"}, OptionMaps(specular)) \o Lamp

CastersDirectionalFrame(specular) ==
    MappedCubes(OptionUniforms(specular), OptionMaps(specular))

InFrame == {"material.shininess", "light.position", "light.colors", "light.attenuation",
            "viewPos"}

CastersPointFrame == MappedCubes(InFrame, {"diffuseMap", "specularMap"}) \o Lamp

CastersSpotFrame ==
    MappedCubes(InFrame \cup {"light.direction", "light.cone"}, {"diffuseMap", "specularMap"})

BeforeMultiple ==
    BeforeMaps \o
    <<Set("cubeShader", {"material.shininess", "pointLights", "dirLight",
                         "spotLight.attenuation", "spotLight.cone", "spotLight.colors"})>>

MultipleLightsFrame ==
    MappedCubes({"spotLight.position", "spotLight.direction", "viewPos"},
                {"diffuseMap", "specularMap"})
    \o <<Use("lightShader"), Set("lightShader", {"proj", "view"}), Bind("lightVAO")>>
    \o Each("lightShader", {"model"}, "lightVAO")
-----------------------------------------------------------------------------
(* The loops of demo/start.  The projection of two programs never changes. *)
BeforeTextured == <<Use("shader"), Set("shader", {"texture0", "texture1"})>>
BeforeProjected == BeforeTextured \o <<Set("shader", {"project"})>>

TexturedFrame(N) ==
    <<Activate({"textures"}), Use("shader"), Set("shader", N \cup {"view"}), Bind("VAO")>>
    \o Each("shader", {"model"}, "VAO")

CameraMouseZoomFrame == TexturedFrame({"project"})
CameraKeyboardFrame == TexturedFrame({})
CameraCircleFrame == TexturedFrame({})
CoordinateSystemsFrame == TexturedFrame({"project"})

(* texture.cpp sets a uniform before use(), on the program of the last turn *)
BeforeTexture == <<Use("shader"), Set("shader", {"texture1", "texture2"})>>

TextureFrame ==
    <<Activate({"textures"}), Set("shader", {"mixValue"}), Use("shader"),
      Bind("VAO"), DrawWith("shader", "VAO")>>

TransformFrame ==
    <<Activate({"textures"}), Use("shader"), Set("shader", {"transform", "mixValue"}),
      Bind("VAO"), DrawWith("shader", "VAO"),
      Set("shader", {"transform", "mixValue"}), Bind("VAO"), DrawWith("shader", "VAO")>>

ShaderClassFrame == <<Bind("VAO"), DrawWith("shader", "VAO")>>

BareFrame == <<Use("program"), Bind("VAO"), DrawWith("program", "VAO")>>
RectangleFrame == BareFrame
TraingleFrame == BareFrame

ShadersUniformFrame ==
    <<Use("program"), Set("program", {"ourColor"}), DrawWith("program", "VAO")>>
=============================================================================
