SPECIFICATION LibSpec
CONSTANTS
    Models = {m1}
    Keys = {"diffuse", "specular"}
    Scenes <- MCScenes
    NUnits = 3
    MaxObj = 6
    MaxSlots = 6
    GenMod = 16
    Copies = {}
    Reloads = TRUE
    Pnames = {"GL_TEXTURE_BORDER_COLOR", "GL_TEXTURE_WRAP_S"}
    Inputs <- MCInputs
    MaxCfgs = 3
    Sides = {"models"}
CHECK_DEADLOCK FALSE
INVARIANT NoOrphans
