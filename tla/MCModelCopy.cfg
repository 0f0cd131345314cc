SPECIFICATION LibSpec
CONSTANTS
    Models = {m1, m2}
    Keys = {"diffuse", "specular"}
    Scenes <- MCScenes
    NUnits = 3
    MaxObj = 4
    MaxSlots = 4
    GenMod = 16
    Copies = {m2}
    Reloads = FALSE
    Pnames = {"GL_TEXTURE_BORDER_COLOR", "GL_TEXTURE_WRAP_S"}
    Inputs <- MCInputs
    MaxCfgs = 3
    Sides = {"models"}
CHECK_DEADLOCK FALSE
PROPERTY ReleasesExclusive
