SPECIFICATION Spec
CONSTANTS
    Device = {d}
    Thread = {w}
    GUI = GUI
    None = None
    Torn = Torn
    MaxIdentity = 2
INVARIANTS TypeOK EngineMatchesDisk ProfileOpens
PROPERTIES ListSurvives 
