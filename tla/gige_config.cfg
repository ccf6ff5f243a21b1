SPECIFICATION Spec
CONSTANTS
    Kind = "gige"
    Whole1 = v1
    Half = half
    Values = {v1, half}
    Conversion <- Truncating
    Rates = {v1}
    Unreadable = Unreadable
    Invalid = Invalid
    Asked <- GigeAsked
    Faults <- NoFaults
INVARIANTS
    TypeOK
    AnswerTellsCamera
    ChangeTakesEffect
    SetHolds
PROPERTIES
    OtherSettingsKept
    ImplementsSettings
