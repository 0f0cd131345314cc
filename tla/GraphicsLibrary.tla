--------------------------- MODULE GraphicsLibrary ---------------------------
(***************************************************************************)
(* The texture class of the library from its two sides: as models load,    *)
(* draw and release textures (ModelTextures), and as a program configures  *)
(* one of its own (TextureConfig).  The two sides share no state that      *)
(* either depends on, so a behaviour shows one of them.                    *)
(***************************************************************************)
EXTENDS ModelTextures, TextureConfig

CONSTANT Sides      \* among "models" and "config"

ASSUME LibraryAssumption == Sides \subseteq {"models", "config"}

VARIABLE side

libVars == <<vars, confVars, side>>

LibInit == Init /\ ConfInit /\ side \in Sides

LibNext ==
    \/ side = "models" /\ Next /\ UNCHANGED <<confVars, side>>
    \/ side = "config" /\ ConfNext /\ UNCHANGED <<vars, side>>

LibSpec == LibInit /\ [][LibNext]_libVars

LibTypeOK == TypeOK /\ ConfTypeOK
=============================================================================
