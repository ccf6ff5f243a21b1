---------------------------- MODULE CameraFeatures ----------------------------
(***************************************************************************)
(* The features of a camera: what BaseCamera::SetFeature and GetFeature do *)
(* to the registers of a GigeCamera and of a DC1394Camera.                 *)
(*                                                                         *)
(* A setter maps the registers to the set of registers it may leave, a     *)
(* getter maps them to what it may read.  Numbers are converted on the way: *)
(* a DC1394 camera holds whole numbers, a GigE gain is read as a float.    *)
(* What the setters do to a running transfer is in CameraStreaming.        *)
(***************************************************************************)
EXTENDS Naturals, Sequences

CONSTANTS
    Kind,     \* "gige" (Front_GigE, Bottom_GigE) or "guppy" (front_guppy, bottom_guppy)
    Values,   \* what the numeric features may be
    Conversion, \* what each conversion of the code makes of a number
    Rates,    \* 7, 15 and 30, the frame rates the driver has a code for
    Unreadable, \* -1, which the two integer getters return when the feature is off
    Invalid,  \* BaseCamera::INVALID_DOUBLE
    Asked,    \* the features clients change
    Faults    \* DC1394 driver calls that may fail: "set" those that write, "get" those that read

GigeRegisters ==
    {"AUTOBRIGHTNESS_AUTO", "AUTOBRIGHTNESS_TARGET", "AUTOBRIGHTNESS_VARIATION",
     "EXPOSURE_AUTO", "EXPOSURE", "GAIN_AUTO", "GAIN", "FRAMERATE",
     "WHITE_BALANCE_AUTO", "WHITE_BALANCE_BLUE", "WHITE_BALANCE_GREEN", "WHITE_BALANCE_RED"}

GuppyRegisters ==
    {"EXPOSURE_AUTO", "EXPOSURE", "GAIN_AUTO", "GAIN", "SHUTTER_AUTO", "SHUTTER",
     "WHITE_BALANCE_AUTO", "WHITE_BALANCE_BLUE", "WHITE_BALANCE_RED",
     "FRAMERATE", "GAMMA", "SATURATION"}

Registers == IF Kind = "gige" THEN GigeRegisters ELSE GuppyRegisters

\* Names with a case in the setters' switch, or none, and none in the getters'.
Unreturned == {"WHITE_BALANCE_EXECUTE", "INVALID_FEATURE"}

\* The features GetFeatureFromName knows, and what it makes of the other names.
Features == GigeRegisters \union GuppyRegisters \union Unreturned

\* Features of the other class of cameras: their setters do nothing.
Unsupported == Features \ (Registers \union Unreturned)

Modes == {"AUTOBRIGHTNESS_AUTO", "EXPOSURE_AUTO", "GAIN_AUTO", "SHUTTER_AUTO",
          "WHITE_BALANCE_AUTO"}

Whole == {"AUTOBRIGHTNESS_TARGET", "AUTOBRIGHTNESS_VARIATION"}

Colours == {"WHITE_BALANCE_BLUE", "WHITE_BALANCE_GREEN", "WHITE_BALANCE_RED"}

\* The conversions that may change a number: of a double to uint32_t, of a frame
\* rate to int32_t, float and uint32_t, of a double to float, and of a double to
\* the six digits of a stringstream and back.
Conversions == {"uint32_t", "rate", "float", "text"}

ASSUME FeaturesAssumption ==
    /\ Kind \in {"gige", "guppy"}
    /\ Values # {}
    /\ Conversion \in [Conversions -> [Values -> Values]]
    /\ Rates \subseteq Values
    /\ Unreadable \notin Values \union BOOLEAN
    /\ Invalid \notin Values
    /\ Asked \subseteq Registers
    /\ Faults \subseteq {"set", "get"}

DriverFails(call) == Kind = "guppy" /\ call \in Faults

\* The type a value must have for a feature: a boost::any of another one throws.
TypeOf(f) == IF f \in Modes THEN "bool" ELSE IF f \in Whole THEN "int" ELSE "double"

\* A DC1394 camera is sent the driver's code for a rate, if there is one.
ConvertFramerateToEnum(val) ==
    LET rate == Conversion["rate"][val] IN
    IF rate \in Rates THEN <<"DC1394_FRAMERATE", rate>> ELSE rate

\* What clients and configurations give for a feature.
Sendable(f) == IF f \in Modes THEN BOOLEAN ELSE Values

\* What the register of a feature holds when it has been set to v.
HeldAs(f, v) ==
    IF Kind = "gige" \/ f \in Modes THEN v
    ELSE IF f = "FRAMERATE" THEN ConvertFramerateToEnum(v)
    ELSE Conversion["uint32_t"][v]

Holdable(f) == {HeldAs(f, v) : v \in Sendable(f)}

\* How a register that holds x is read.
ReadAs(f, x) == IF Kind = "gige" /\ f = "GAIN" THEN Conversion["float"][x] ELSE x

\* What the caller of a getter may be left with.
Domain(f) == Sendable(f) \union Holdable(f)

\* A value for every feature in S, one that it can be sent.
IsSetting(s, S) == DOMAIN s = S /\ \A f \in S : s[f] \in Sendable(f)

\* A value for every register, one that it can hold.
IsHeld(h) == DOMAIN h = Registers /\ \A f \in Registers : h[f] \in Holdable(f)

\* The settings of the features in S that differ from base only in what clients
\* change.
From(S, base) ==
    {[f \in S |-> IF f \notin Asked THEN base[f] ELSE IF f \in Modes THEN m[f] ELSE n[f]] :
        m \in [S \intersect Asked \intersect Modes -> BOOLEAN],
        n \in [(S \intersect Asked) \ Modes -> Values]}

\* What the model leaves alone has one value throughout.
Untouched == [f \in Registers |-> IF f \in Modes THEN FALSE ELSE CHOOSE v \in Values : TRUE]

-----------------------------------------------------------------------------
(* GigeCamera: the target, the variation and the two modes can be set, and *)
(* read, only under auto brightness.  The nodes take doubles.              *)

Store(h, f, v) == {[h EXCEPT ![f] = v]}

GetAutoBrightnessMode(h) == h["AUTOBRIGHTNESS_AUTO"]

SetAutoBrightnessMode(h, v) == Store(h, "AUTOBRIGHTNESS_AUTO", v)

SetUnderAutoBrightness(h, f, v) == IF GetAutoBrightnessMode(h) THEN Store(h, f, v) ELSE {h}

SetAutoBrightnessTarget(h, f, v) == SetUnderAutoBrightness(h, f, v)

\* Slip: "Off" for automatic.
SetGainModeSwapped(h, v) == SetUnderAutoBrightness(h, "GAIN_AUTO", ~v)

SetGainMode(h, v) == SetUnderAutoBrightness(h, "GAIN_AUTO", v)

SetExposureMode(h, v) == SetUnderAutoBrightness(h, "EXPOSURE_AUTO", v)

GetTarget(h, f) == IF GetAutoBrightnessMode(h) THEN h[f] ELSE Unreadable

GetGainMode(h) == GetAutoBrightnessMode(h) /\ h["GAIN_AUTO"]

GetExposureMode(h) == GetAutoBrightnessMode(h) /\ h["EXPOSURE_AUTO"]

SetExposureValue(h, v) == IF GetExposureMode(h) THEN {h} ELSE Store(h, "EXPOSURE", v)

\* Slip: the cast of the getter is in the setter, too.
SetGainAsFloat(h, v) == Store(h, "GAIN", Conversion["float"][v])

SetGainValue(h, v) == Store(h, "GAIN", v)

GetGainValue(h) == Conversion["float"][h["GAIN"]]

SetFrameRateValue(h, v) == Store(h, "FRAMERATE", v)

\* The mode stays on demand, and the camera finds colours of its own.
SetWhiteBalanceMode(h, v) ==
    IF v
    THEN {[f \in Registers |->
              IF f = "WHITE_BALANCE_AUTO" THEN TRUE
              ELSE IF f \in Colours \intersect Asked THEN found[f]
              ELSE h[f]] : found \in [Colours -> Values]}
    ELSE Store(h, "WHITE_BALANCE_AUTO", FALSE)

\* Slip: green is written while the selector still points at blue.
SetColourUnselected(h, f, v) ==
    IF f = "WHITE_BALANCE_GREEN" THEN Store(h, "WHITE_BALANCE_BLUE", v) ELSE Store(h, f, v)

\* The selector is moved to the colour before the ratio is written.
SetColour(h, f, v) == Store(h, f, v)

GetColour(h, f) == h[f]

SetGigeFeature(h, f, v) ==
    IF f \in Unsupported \union {"INVALID_FEATURE"} THEN {h}
    ELSE IF f = "AUTOBRIGHTNESS_AUTO" THEN SetAutoBrightnessMode(h, v)
    ELSE IF f \in Whole THEN SetAutoBrightnessTarget(h, f, v)
    ELSE IF f = "GAIN_AUTO" THEN SetGainMode(h, v)
    ELSE IF f = "EXPOSURE_AUTO" THEN SetExposureMode(h, v)
    ELSE IF f = "EXPOSURE" THEN SetExposureValue(h, v)
    ELSE IF f = "WHITE_BALANCE_AUTO" THEN SetWhiteBalanceMode(h, v)
    ELSE IF f = "WHITE_BALANCE_EXECUTE" THEN SetWhiteBalanceMode(h, TRUE)
    ELSE IF f = "GAIN" THEN SetGainValue(h, v)
    ELSE IF f = "FRAMERATE" THEN SetFrameRateValue(h, v)
    ELSE SetColour(h, f, v)

GetGigeFeature(h, f) ==
    IF f \in Whole THEN GetTarget(h, f)
    ELSE IF f = "GAIN_AUTO" THEN GetGainMode(h)
    ELSE IF f = "EXPOSURE_AUTO" THEN GetExposureMode(h)
    ELSE IF f = "GAIN" THEN GetGainValue(h)
    ELSE IF f \in Colours THEN GetColour(h, f)
    ELSE h[f]

-----------------------------------------------------------------------------
(* DC1394Camera: the driver writes blue and red together, so each setter   *)
(* first reads the other one.  SetWhiteBalanceBlueValue asks for the blue. *)
(* The driver takes whole numbers.                                         *)

SetWhiteBalanceRedValue(h, v) == Store(h, "WHITE_BALANCE_RED", Conversion["uint32_t"][v])

\* Slip: the two arguments of the driver's call change places.
SetBlueForRed(h, v) == Store(h, "WHITE_BALANCE_RED", Conversion["uint32_t"][v])

SetWhiteBalanceBlueValue(h, v) ==
    {[h EXCEPT !["WHITE_BALANCE_BLUE"] = Conversion["uint32_t"][v],
               !["WHITE_BALANCE_RED"] = h["WHITE_BALANCE_BLUE"]]}

SetRegister(h, f, v) == Store(h, f, Conversion["uint32_t"][v])

GetRegister(h, f) == h[f]

\* The code that is written is what is read.
SetFrameRate(h, v) == Store(h, "FRAMERATE", ConvertFramerateToEnum(v))

GetFrameRate(h) == h["FRAMERATE"]

\* The driver's AUTO is true, MANUAL and ONE_PUSH are false.
SetMode(h, f, v) == Store(h, f, v)

GetMode(h, f) == h[f]

SetGuppyFeature(h, f, v) ==
    IF f \in Unsupported \union {"INVALID_FEATURE"} THEN {h}
    ELSE IF f = "WHITE_BALANCE_RED" THEN SetWhiteBalanceRedValue(h, v)
    ELSE IF f = "WHITE_BALANCE_BLUE" THEN SetWhiteBalanceBlueValue(h, v)
    ELSE IF f = "WHITE_BALANCE_EXECUTE" THEN SetMode(h, "WHITE_BALANCE_AUTO", TRUE)
    ELSE IF f = "FRAMERATE" THEN SetFrameRate(h, v)
    ELSE IF f \in Modes THEN SetMode(h, f, v)
    ELSE SetRegister(h, f, v)

GetGuppyFeature(h, f) ==
    IF f \in Modes THEN GetMode(h, f)
    ELSE IF f = "FRAMERATE" THEN GetFrameRate(h)
    ELSE GetRegister(h, f)

-----------------------------------------------------------------------------
(* BaseCamera.                                                             *)

SetFeature(h, f, v) == IF Kind = "gige" THEN SetGigeFeature(h, f, v) ELSE SetGuppyFeature(h, f, v)

GetFeature(h, f) == IF Kind = "gige" THEN GetGigeFeature(h, f) ELSE GetGuppyFeature(h, f)

\* What a setter can change besides the register it is for.
Together(f, g) ==
    \/ f = "WHITE_BALANCE_EXECUTE" /\ g = "WHITE_BALANCE_AUTO"
    \/ Kind = "gige" /\ f \in {"WHITE_BALANCE_AUTO", "WHITE_BALANCE_EXECUTE"} /\ g \in Colours
    \/ Kind = "guppy" /\ f = "WHITE_BALANCE_BLUE" /\ g = "WHITE_BALANCE_RED"

\* The getters that hand back their caller's uninitialised local: it may be
\* anything.  A DC1394 camera answers for auto brightness, which it does not
\* have, and for gamma, which it does not copy, that it has read them.
Unset(f) == f \in Unsupported \/ (Kind = "guppy" /\ f = "GAMMA")

Claimed(f) == Kind = "guppy" /\ f \in Whole \union {"AUTOBRIGHTNESS_AUTO", "GAMMA"}

Reading(done, value) == [done |-> done, value |-> value]

\* What a getter reports, and whether it says that it succeeded.  A failed
\* driver call leaves the local as it is, too.
Readings(h, f) ==
    IF Unset(f) THEN {Reading(Claimed(f), v) : v \in Domain(f)}
    ELSE {Reading(TRUE, GetFeature(h, f))} \union
         (IF DriverFails("get") THEN {Reading(FALSE, v) : v \in Domain(f)} ELSE {})

-----------------------------------------------------------------------------
(* What the camera does by itself.                                         *)

ModeOf == [EXPOSURE |-> "EXPOSURE_AUTO", GAIN |-> "GAIN_AUTO", SHUTTER |-> "SHUTTER_AUTO",
           WHITE_BALANCE_BLUE |-> "WHITE_BALANCE_AUTO", WHITE_BALANCE_RED |-> "WHITE_BALANCE_AUTO"]

\* It adjusts what is in automatic mode; a GigE camera does so only under auto
\* brightness, and its white balance is on demand.
Adjusted(h, f) ==
    /\ f \in Registers \intersect DOMAIN ModeOf
    /\ h[ModeOf[f]]
    /\ Kind = "gige" => f \notin Colours /\ GetAutoBrightnessMode(h)

\* What a write can change in the modes the camera is in.
Settable(h, f) ==
    /\ ~Adjusted(h, f)
    /\ Kind = "gige" /\ f \in Whole \union {"GAIN_AUTO", "EXPOSURE_AUTO"} =>
          GetAutoBrightnessMode(h)
=============================================================================
