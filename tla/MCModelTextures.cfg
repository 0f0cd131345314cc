SPECIFICATION LibSpec
CONSTANTS
    Models = {m1, m2, m3}
    Keys = {"diffuse", "specular"}
    Scenes <- MCScenes
    NUnits = 3
    MaxObj = 6
    MaxSlots = 6
    GenMod = 16
    Copies = {m3}
    Reloads = FALSE
    Pnames = {"GL_TEXTURE_BORDER_COLOR", "GL_TEXTURE_WRAP_S"}
    Inputs <- MCInputs
    MaxCfgs = 3
    Sides = {"models", "config"}
CHECK_DEADLOCK FALSE
INVARIANTS
    LibTypeOK
    UnitsOwned
    ModelsIntact
    DrawSound
    NoOrphans
    Configured
