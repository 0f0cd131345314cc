-------------------------- MODULE MCModelTextures --------------------------
(* Small scenes: one mesh with one or two textures, two meshes, the same   *)
(* texture in both, a mesh without any, none at all.  The lists that are   *)
(* asked for have one parameter or two, with values that differ, types     *)
(* that differ, one name twice, a type that does not fit, or nothing.      *)
EXTENDS GraphicsLibrary, TLC

SceneOneMesh == <<<<"diffuse", "specular">>>>
SceneShared == <<<<"diffuse">>, <<"specular", "diffuse">>>>
ScenePlain == <<<<>>, <<"specular">>>>
MCScenes == {SceneOneMesh, SceneShared, ScenePlain, <<>>}

Wrap(type, value) == Asked("GL_TEXTURE_WRAP_S", Param(type, value))
Color(type, value) == Asked(Border, Param(type, value))
MCInputs ==
    {<<Wrap("I1", 1)>>, <<Wrap("I1", 1), Wrap("F1", 1)>>, <<Color("F4", 1)>>,
     <<Color("I4", 2), Wrap("I1", 2)>>, <<Color("I1", 2)>>, <<>>}
=============================================================================
