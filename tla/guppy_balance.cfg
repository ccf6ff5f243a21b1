SPECIFICATION Spec
CONSTANTS
    Kind = "guppy"
    Whole1 = v1
    Half = half
    Values = {v1, v2}
    Conversion <- Exactly
    Rates = {v1}
    Unreadable = Unreadable
    Invalid = Invalid
    Asked <- ColoursAsked
    Faults <- NoFaults
PROPERTY OtherSettingsKept
