------------------------ MODULE CameraFeatures_proofs ------------------------
(***************************************************************************)
(* What the setters and getters of both classes of cameras do, in every    *)
(* state of the registers, for any values and any driver faults.           *)
(***************************************************************************)
EXTENDS CameraFeatures, TLAPS

-----------------------------------------------------------------------------
(* The conversions.                                                        *)

LEMMA Converted ==
    ASSUME NEW c \in Conversions, NEW v \in Values
    PROVE Conversion[c][v] \in Values
BY FeaturesAssumption

\* What a register holds is what could have been sent, but for the codes of the
\* frame rates of a DC1394 camera.
LEMMA HoldableSendable ==
    ASSUME NEW f, Kind = "gige" \/ f # "FRAMERATE"
    PROVE Holdable(f) \subseteq Sendable(f)
<1>1. \A v \in Values : Conversion["uint32_t"][v] \in Values
    BY Converted DEF Conversions
<1> QED
    BY <1>1 DEF Holdable, HeldAs, Sendable

\* A register that is written as it is can hold all that is sent.
LEMMA HoldableExact ==
    ASSUME NEW f, Kind = "gige" \/ f \in Modes
    PROVE Holdable(f) = Sendable(f)
BY DEF Holdable, HeldAs, Sendable

-----------------------------------------------------------------------------
(* The setters.                                                            *)

\* All that a setter of a GigE camera can change: its register, or the mode and
\* the colours that executing the white balance leaves.
GigeWrites(h, f, v, k) ==
    /\ DOMAIN k = Registers
    /\ \A g \in Registers :
          \/ k[g] = h[g]
          \/ g = f /\ k[g] = v
          \/ f = "WHITE_BALANCE_EXECUTE" /\ g = "WHITE_BALANCE_AUTO" /\ k[g] = TRUE
          \/ /\ f \in {"WHITE_BALANCE_AUTO", "WHITE_BALANCE_EXECUTE"}
             /\ g \in Colours /\ k[g] \in Values

LEMMA GigeSetterWrites ==
    ASSUME Kind = "gige", NEW h, DOMAIN h = Registers, NEW f \in Features,
           NEW v, f \in Modes => v \in BOOLEAN,
           NEW k \in SetGigeFeature(h, f, v)
    PROVE GigeWrites(h, f, v, k)
<1> USE DEF GigeWrites
<1>1. CASE f \in {"WHITE_BALANCE_AUTO", "WHITE_BALANCE_EXECUTE"}
    <2>1. f \notin Unsupported \union {"INVALID_FEATURE"}
        BY <1>1 DEF Unsupported, Unreturned, Registers, GigeRegisters
    <2>2. \/ k \in SetWhiteBalanceMode(h, TRUE) /\ (f = "WHITE_BALANCE_AUTO" => v = TRUE)
          \/ k \in Store(h, "WHITE_BALANCE_AUTO", FALSE) /\ v = FALSE /\ f = "WHITE_BALANCE_AUTO"
        BY <1>1, <2>1 DEF SetGigeFeature, SetWhiteBalanceMode, Whole, Modes
    <2>3. CASE k \in SetWhiteBalanceMode(h, TRUE) /\ (f = "WHITE_BALANCE_AUTO" => v = TRUE)
        <3>1. PICK found \in [Colours -> Values] :
                  k = [g \in Registers |->
                          IF g = "WHITE_BALANCE_AUTO" THEN TRUE
                          ELSE IF g \in Colours \intersect Asked THEN found[g]
                          ELSE h[g]]
            BY <2>3 DEF SetWhiteBalanceMode
        <3> QED
            BY <1>1, <2>3, <3>1
    <2>4. CASE k \in Store(h, "WHITE_BALANCE_AUTO", FALSE) /\ v = FALSE /\ f = "WHITE_BALANCE_AUTO"
        BY <2>4 DEF Store
    <2> QED
        BY <2>2, <2>3, <2>4
<1>2. CASE f \notin {"WHITE_BALANCE_AUTO", "WHITE_BALANCE_EXECUTE"}
    <2>1. k = h \/ k = [h EXCEPT ![f] = v]
        BY <1>2 DEF SetGigeFeature, SetAutoBrightnessMode, SetAutoBrightnessTarget, SetGainMode,
                    SetExposureMode, SetUnderAutoBrightness, SetExposureValue, SetGainValue,
                    SetFrameRateValue, SetColour, Store
    <2> QED
        BY <2>1
<1> QED
    BY <1>1, <1>2

\* All that a setter of a DC1394 camera can change: its register, the mode that
\* executing the white balance sets and, with the blue, the red.
GuppyWrites(h, f, v, k) ==
    /\ DOMAIN k = Registers
    /\ \A g \in Registers :
          \/ k[g] = h[g]
          \/ g = f /\ k[g] = HeldAs(f, v)
          \/ f = "WHITE_BALANCE_EXECUTE" /\ g = "WHITE_BALANCE_AUTO" /\ k[g] = TRUE
          \/ f = "WHITE_BALANCE_BLUE" /\ g = "WHITE_BALANCE_RED" /\ k[g] = h["WHITE_BALANCE_BLUE"]

LEMMA GuppySetterWrites ==
    ASSUME Kind = "guppy", NEW h, DOMAIN h = Registers, NEW f \in Features, NEW v,
           NEW k \in SetGuppyFeature(h, f, v)
    PROVE GuppyWrites(h, f, v, k)
<1> USE DEF GuppyWrites
<1>1. CASE f = "WHITE_BALANCE_BLUE"
    <2>1. k = [h EXCEPT !["WHITE_BALANCE_BLUE"] = HeldAs(f, v),
                        !["WHITE_BALANCE_RED"] = h["WHITE_BALANCE_BLUE"]]
        BY <1>1 DEF SetGuppyFeature, SetWhiteBalanceBlueValue, Unsupported, Unreturned, Registers,
                    GuppyRegisters, HeldAs, Modes
    <2> QED
        BY <1>1, <2>1
<1>2. CASE f = "FRAMERATE"
    <2>1. k = h \/ k = [h EXCEPT !["FRAMERATE"] = HeldAs(f, v)]
        BY <1>2 DEF SetGuppyFeature, SetFrameRate, Store, HeldAs, Modes
    <2> QED
        BY <1>2, <2>1
<1>3. CASE f = "WHITE_BALANCE_EXECUTE"
    <2>1. k = h \/ k = [h EXCEPT !["WHITE_BALANCE_AUTO"] = TRUE]
        BY <1>3 DEF SetGuppyFeature, SetMode, Store
    <2> QED
        BY <1>3, <2>1
<1>4. CASE f \notin {"WHITE_BALANCE_BLUE", "FRAMERATE", "WHITE_BALANCE_EXECUTE"}
    <2>1. k = h \/ k = [h EXCEPT ![f] = HeldAs(f, v)]
        BY <1>4 DEF SetGuppyFeature, SetWhiteBalanceRedValue, SetMode, SetRegister, Store, HeldAs,
                    Modes
    <2> QED
        BY <2>1
<1> QED
    BY <1>1, <1>2, <1>3, <1>4

\* A setter leaves the other registers as they were.
LEMMA SetFeatureKeeps ==
    ASSUME NEW h, DOMAIN h = Registers, NEW f \in Features,
           NEW v, f \in Modes => v \in BOOLEAN,
           NEW k \in SetFeature(h, f, v),
           NEW g \in Registers, g # f, ~Together(f, g)
    PROVE k[g] = h[g]
<1>1. CASE Kind = "gige"
    <2>1. GigeWrites(h, f, v, k)
        BY <1>1, GigeSetterWrites DEF SetFeature
    <2> QED
        BY <1>1, <2>1 DEF GigeWrites, Together
<1>2. CASE Kind = "guppy"
    <2>1. GuppyWrites(h, f, v, k)
        BY <1>2, GuppySetterWrites DEF SetFeature
    <2> QED
        BY <1>2, <2>1 DEF GuppyWrites, Together
<1> QED
    BY <1>1, <1>2, FeaturesAssumption

\* A setter keeps the registers' types.
LEMMA SetFeatureTyped ==
    ASSUME NEW h, IsHeld(h), NEW f \in Features,
           NEW v, f \in Registers \union Modes => v \in Sendable(f),
           NEW k \in SetFeature(h, f, v)
    PROVE IsHeld(k)
<1> USE DEF IsHeld
<1>1. f \in Modes => v \in BOOLEAN
    BY DEF Sendable
<1>2. f \in Registers => HeldAs(f, v) \in Holdable(f)
    BY DEF Holdable
<1>a. TRUE \in Holdable("WHITE_BALANCE_AUTO")
    BY HoldableExact DEF Sendable, Modes
<1>3. CASE Kind = "gige"
    <2>1. GigeWrites(h, f, v, k)
        BY <1>1, <1>3, GigeSetterWrites DEF SetFeature
    <2>2. \A g \in Colours : Holdable(g) = Values
        BY <1>3, HoldableExact DEF Sendable, Colours, Modes
    <2>3. HeldAs(f, v) = v
        BY <1>3 DEF HeldAs
    <2> QED
        BY <1>2, <1>a, <2>1, <2>2, <2>3 DEF GigeWrites
<1>4. CASE Kind = "guppy"
    <2>1. GuppyWrites(h, f, v, k)
        BY <1>4, GuppySetterWrites DEF SetFeature
    <2>2. /\ Holdable("WHITE_BALANCE_RED") = Holdable("WHITE_BALANCE_BLUE")
          /\ "WHITE_BALANCE_BLUE" \in Registers
        BY <1>4 DEF Holdable, HeldAs, Sendable, Modes, Registers, GuppyRegisters
    <2> QED
        BY <1>2, <1>a, <2>1, <2>2 DEF GuppyWrites
<1> QED
    BY <1>3, <1>4, FeaturesAssumption

\* What is written is held, as far as the register can hold it, but in a register
\* that the modes the camera is in then do not let clients set.
LEMMA SetFeatureTakes ==
    ASSUME NEW h, IsHeld(h), NEW f \in Registers, NEW v \in Sendable(f),
           NEW k \in SetFeature(h, f, v), Settable(k, f)
    PROVE k[f] = HeldAs(f, v)
<1> USE DEF IsHeld
<1>1. f \notin Unsupported \union {"INVALID_FEATURE", "WHITE_BALANCE_EXECUTE"} /\ f \in Features
    BY DEF Unsupported, Unreturned, Registers, Features, GigeRegisters, GuppyRegisters
<1>2. CASE Kind = "gige"
    <2>a. HeldAs(f, v) = v
        BY <1>2 DEF HeldAs
    <2>1. CASE f \in Whole \union {"GAIN_AUTO", "EXPOSURE_AUTO"}
        <3>1. k \in SetUnderAutoBrightness(h, f, v)
            BY <1>1, <1>2, <2>1 DEF SetFeature, SetGigeFeature, SetAutoBrightnessTarget, SetGainMode,
                                    SetExposureMode, Whole
        <3>2. GetAutoBrightnessMode(k)
            BY <1>2, <2>1 DEF Settable
        <3> QED
            BY <2>a, <3>1, <3>2 DEF SetUnderAutoBrightness, Store
    <2>2. CASE f = "EXPOSURE"
        <3>1. (k = h /\ GetExposureMode(h)) \/ k = [h EXCEPT !["EXPOSURE"] = v]
            BY <1>1, <1>2, <2>2 DEF SetFeature, SetGigeFeature, SetExposureValue, Store, Whole
        <3>2. ~GetExposureMode(k)
            BY <1>2, <2>2 DEF Settable, Adjusted, ModeOf, GetExposureMode, Colours
        <3> QED
            BY <2>a, <2>2, <3>1, <3>2
    <2>3. CASE f = "WHITE_BALANCE_AUTO"
        <3>1. k \in SetWhiteBalanceMode(h, v) /\ v \in BOOLEAN
            BY <1>1, <1>2, <2>3 DEF SetFeature, SetGigeFeature, Whole, Sendable, Modes
        <3>2. CASE v = TRUE
            BY <2>a, <2>3, <3>1, <3>2 DEF SetWhiteBalanceMode
        <3>3. CASE v = FALSE
            BY <2>a, <2>3, <3>1, <3>3 DEF SetWhiteBalanceMode, Store
        <3> QED
            BY <2>a, <3>1, <3>2, <3>3
    <2>4. CASE f \notin Whole \union {"GAIN_AUTO", "EXPOSURE_AUTO", "EXPOSURE", "WHITE_BALANCE_AUTO"}
        <3>1. k = [h EXCEPT ![f] = v]
            BY <1>1, <1>2, <2>4 DEF SetFeature, SetGigeFeature, SetAutoBrightnessMode, SetGainValue,
                                    SetFrameRateValue, SetColour, Store
        <3> QED
            BY <2>a, <3>1
    <2> QED
        BY <2>1, <2>2, <2>3, <2>4
<1>3. CASE Kind = "guppy"
    <2>1. CASE f = "WHITE_BALANCE_BLUE"
        BY <1>1, <1>3, <2>1 DEF SetFeature, SetGuppyFeature, SetWhiteBalanceBlueValue, HeldAs, Modes
    <2>2. CASE f # "WHITE_BALANCE_BLUE"
        BY <1>1, <1>3, <2>2 DEF SetFeature, SetGuppyFeature, SetWhiteBalanceRedValue, SetFrameRate,
                                SetMode, SetRegister, Store, HeldAs, Modes
    <2> QED
        BY <2>1, <2>2
<1> QED
    BY <1>2, <1>3, FeaturesAssumption

-----------------------------------------------------------------------------
(* The getters.                                                            *)

\* A getter reads a value of the feature's type, or that it cannot be read.
LEMMA GetFeatureTyped ==
    ASSUME NEW h, IsHeld(h), NEW f \in Registers
    PROVE GetFeature(h, f) \in Domain(f) \union {Unreadable}
<1> USE DEF IsHeld
<1>1. CASE Kind = "gige" /\ f \in {"GAIN_AUTO", "EXPOSURE_AUTO"}
    <2>1. Domain(f) = BOOLEAN
        BY <1>1, HoldableExact DEF Domain, Sendable, Modes
    <2> QED
        BY <1>1, <2>1 DEF GetFeature, GetGigeFeature, GetGainMode, GetExposureMode, Whole
<1>2. CASE Kind = "gige" /\ f = "GAIN"
    <2>1. h["GAIN"] \in Values /\ Values \subseteq Domain(f)
        BY <1>2, HoldableExact DEF Domain, Sendable, Modes
    <2>2. Conversion["float"][h["GAIN"]] \in Values
        BY <2>1, Converted DEF Conversions
    <2> QED
        BY <1>2, <2>1, <2>2 DEF GetFeature, GetGigeFeature, GetGainValue, Whole
<1>3. CASE ~(Kind = "gige" /\ f \in {"GAIN_AUTO", "EXPOSURE_AUTO", "GAIN"})
    BY <1>3 DEF GetFeature, GetGigeFeature, GetTarget, GetColour, GetGuppyFeature, GetMode,
                GetFrameRate, GetRegister, Domain
<1> QED
    BY <1>1, <1>2, <1>3

\* What clients can set, the getter reads as it is in the register, but for the
\* conversion on the way.
LEMMA GetFeatureReads ==
    ASSUME NEW h, IsHeld(h), NEW f \in Registers, Settable(h, f)
    PROVE GetFeature(h, f) = ReadAs(f, h[f])
<1> USE DEF IsHeld, ReadAs
<1>1. CASE Kind = "gige" /\ f \in {"GAIN_AUTO", "EXPOSURE_AUTO"}
    <2>1. Holdable(f) = BOOLEAN
        BY <1>1, HoldableExact DEF Sendable, Modes
    <2> QED
        BY <1>1, <2>1 DEF GetFeature, GetGigeFeature, GetGainMode, GetExposureMode, Whole, Settable
<1>2. CASE ~(Kind = "gige" /\ f \in {"GAIN_AUTO", "EXPOSURE_AUTO"})
    BY <1>2 DEF GetFeature, GetGigeFeature, GetTarget, GetGainValue, GetColour, GetGuppyFeature,
                GetMode, GetFrameRate, GetRegister, Settable, Whole
<1> QED
    BY <1>1, <1>2

\* The registers a reading of f, and what a client may do to f, depend on.
ReadsFrom(f) ==
    {f} \union (IF f \in DOMAIN ModeOf THEN {ModeOf[f]} ELSE {})
        \union (IF Kind = "gige" THEN {"AUTOBRIGHTNESS_AUTO"} ELSE {})

LEMMA ReadsRegisters ==
    ASSUME NEW f \in Registers
    PROVE /\ ReadsFrom(f) \subseteq Registers
          /\ ReadsFrom(f) \ {f} \subseteq Modes
<1>1. CASE Kind = "gige"
    BY <1>1 DEF ReadsFrom, Registers, GigeRegisters, ModeOf, Modes
<1>2. CASE Kind = "guppy"
    BY <1>2 DEF ReadsFrom, Registers, GuppyRegisters, ModeOf, Modes
<1> QED
    BY <1>1, <1>2, FeaturesAssumption

LEMMA SameReading ==
    ASSUME NEW h, NEW k, NEW f \in Registers,
           \A g \in ReadsFrom(f) : k[g] = h[g]
    PROVE /\ GetFeature(k, f) = GetFeature(h, f)
          /\ Adjusted(k, f) <=> Adjusted(h, f)
          /\ Settable(k, f) <=> Settable(h, f)
<1>1. k[f] = h[f] /\ (f \in DOMAIN ModeOf => k[ModeOf[f]] = h[ModeOf[f]])
    BY DEF ReadsFrom
<1>2. Kind = "gige" => k["AUTOBRIGHTNESS_AUTO"] = h["AUTOBRIGHTNESS_AUTO"]
    BY DEF ReadsFrom
<1>3. GetFeature(k, f) = GetFeature(h, f)
    BY <1>1, <1>2 DEF GetFeature, GetGigeFeature, GetTarget, GetGainMode, GetExposureMode,
       GetAutoBrightnessMode, GetGainValue, GetColour, GetGuppyFeature, GetMode, GetFrameRate, GetRegister
<1>4. Adjusted(k, f) <=> Adjusted(h, f)
    BY <1>1, <1>2 DEF Adjusted, GetAutoBrightnessMode
<1> QED
    BY <1>2, <1>3, <1>4 DEF Settable, GetAutoBrightnessMode
=============================================================================
