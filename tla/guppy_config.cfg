SPECIFICATION Spec
CONSTANTS
    Kind = "guppy"
    Whole1 = v1
    Half = half
    Values = {v1, v2, half}
    Conversion <- Truncating
    Rates = {v1}
    Unreadable = Unreadable
    Invalid = Invalid
    Asked <- GuppyAsked
    Faults <- SetFaults
INVARIANTS
    SavedSettingsHeld
    AnswerTellsCamera
    ChangeTakesEffect
    SetHolds
PROPERTY ImplementsSettings
