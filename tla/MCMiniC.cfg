SPECIFICATION Spec
SYMMETRY MCSymmetry
CONSTANTS
    x = x
    f = f
    g = g
    Names <- MCNames
    NoName = "no name"
    NoVal = 0
    RetTypes <- MCRetTypes
    ParamTypes <- MCParamTypes
    MaxItems = 6
    MaxParams = 2
INVARIANTS
    FunctionsSound
    MeansC

    
    
CHECK_DEADLOCK FALSE
