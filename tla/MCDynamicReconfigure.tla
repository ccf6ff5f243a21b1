------------------------ MODULE MCDynamicReconfigure ------------------------
(***************************************************************************)
(* DynamicReconfigure for TLC: the features the clients of each run change,*)
(* the driver calls that may fail, and a number that conversions change.   *)
(***************************************************************************)
EXTENDS CameraSettings

CONSTANTS
    Whole1, \* a whole number
    Half    \* one with a fraction, which every conversion makes Whole1

\* Modes with what depends on them, the gain, which is read through a float, and
\* a white balance with two colours.
GigeAsked == {"AUTOBRIGHTNESS_AUTO", "AUTOBRIGHTNESS_TARGET", "GAIN_AUTO", "GAIN",
              "WHITE_BALANCE_AUTO", "WHITE_BALANCE_GREEN"}

\* A mode with what depends on it, the colour that overwrites another, and the
\* frame rate.  The white balance stays manual.
GuppyAsked == {"SHUTTER_AUTO", "SHUTTER", "WHITE_BALANCE_BLUE", "FRAMERATE"}

\* The colours, which share a register.
ColoursAsked == {"WHITE_BALANCE_BLUE", "WHITE_BALANCE_RED"}

SetFaults == {"set"}

GetFaults == {"get"}

NoFaults == {}

Exactly == [c \in Conversions |-> [v \in Values |-> v]]

Truncating == [c \in Conversions |-> [v \in Values |-> IF v = Half THEN Whole1 ELSE v]]
=============================================================================
