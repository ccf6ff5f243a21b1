---------------------- MODULE DynamicReconfigure_proofs ----------------------
(***************************************************************************)
(* Proofs about DynamicReconfigure, for either kind of camera, any values, *)
(* any set of features that clients change and any driver faults.          *)
(*                                                                         *)
(* The callback writes the parameters one after the other and reads each   *)
(* back at once, so everything rests on its order: what is written later   *)
(* must not disturb what was read or written before.                       *)
(***************************************************************************)
EXTENDS DynamicReconfigure, CameraFeatures_proofs

-----------------------------------------------------------------------------
(* The order of the callback.                                              *)

GigePlace ==
    [AUTOBRIGHTNESS_AUTO |-> 1, AUTOBRIGHTNESS_TARGET |-> 2, AUTOBRIGHTNESS_VARIATION |-> 3,
     EXPOSURE_AUTO |-> 4, EXPOSURE |-> 5, GAIN_AUTO |-> 6, GAIN |-> 7,
     WHITE_BALANCE_AUTO |-> 8, WHITE_BALANCE_BLUE |-> 9, WHITE_BALANCE_GREEN |-> 10,
     WHITE_BALANCE_RED |-> 11]

GuppyPlace ==
    [EXPOSURE_AUTO |-> 1, EXPOSURE |-> 2, GAIN_AUTO |-> 3, GAIN |-> 4, SHUTTER_AUTO |-> 5,
     SHUTTER |-> 6, WHITE_BALANCE_BLUE |-> 7, WHITE_BALANCE_AUTO |-> 8, WHITE_BALANCE_RED |-> 9]

Place == IF Kind = "gige" THEN GigePlace ELSE GuppyPlace

LEMMA Places ==
    /\ Len(Order) \in {9, 11}
    /\ Parameters = DOMAIN Place
    /\ \A i \in 1 .. Len(Order) : Order[i] \in Parameters /\ Place[Order[i]] = i
<1>1. CASE Kind = "gige"
    <2>1. Len(Order) = 11
        BY <1>1 DEF Order, GigeOrder
    <2>2. \A i \in 1 .. 11 : i \in {1, 2, 3, 4, 5, 6, 7, 8, 9, 10, 11}
        OBVIOUS
    <2>3. \A i \in 1 .. 11 : Order[i] \in Parameters /\ Place[Order[i]] = i
        BY <1>1, <2>1, <2>2 DEF Order, GigeOrder, Parameters, Place, GigePlace
    <2>4. Parameters = DOMAIN GigePlace
        <3>1. Parameters = {Order[1], Order[2], Order[3], Order[4], Order[5], Order[6], Order[7],
                            Order[8], Order[9], Order[10], Order[11]}
            BY <2>1, <2>2 DEF Parameters
        <3> QED
            BY <1>1, <3>1 DEF Order, GigeOrder, GigePlace
    <2> QED
        BY <1>1, <2>1, <2>3, <2>4 DEF Place
<1>2. CASE Kind # "gige"
    <2>1. Len(Order) = 9
        BY <1>2 DEF Order, GuppyOrder
    <2>2. \A i \in 1 .. 9 : i \in {1, 2, 3, 4, 5, 6, 7, 8, 9}
        OBVIOUS
    <2>3. \A i \in 1 .. 9 : Order[i] \in Parameters /\ Place[Order[i]] = i
        BY <1>2, <2>1, <2>2 DEF Order, GuppyOrder, Parameters, Place, GuppyPlace
    <2>4. Parameters = DOMAIN GuppyPlace
        <3>1. Parameters = {Order[1], Order[2], Order[3], Order[4], Order[5], Order[6], Order[7],
                            Order[8], Order[9]}
            BY <2>1, <2>2 DEF Parameters
        <3> QED
            BY <1>2, <3>1 DEF Order, GuppyOrder, GuppyPlace
    <2> QED
        BY <1>2, <2>1, <2>3, <2>4 DEF Place
<1> QED
    BY <1>1, <1>2

\* Every parameter is a register, and none of them is a frame rate.
LEMMA ParametersAreRegisters ==
    /\ Parameters \subseteq Registers /\ Parameters \subseteq Features
    /\ \A f \in Parameters : Domain(f) = Sendable(f) /\ f # "FRAMERATE" /\ ~Unset(f)
<1>a. \A f \in Parameters : f # "FRAMERATE" => Domain(f) = Sendable(f)
    BY HoldableSendable DEF Domain
<1>1. CASE Kind = "gige"
    BY <1>1, <1>a, Places DEF Place, GigePlace, Registers, GigeRegisters, Features, Unset, Unsupported
<1>2. CASE Kind = "guppy"
    BY <1>2, <1>a, Places DEF Place, GuppyPlace, Registers, GuppyRegisters, Features, Unset, Unsupported
<1> QED
    BY <1>1, <1>2, FeaturesAssumption

\* Writing c changes nothing that a reading of f depends on.
Undisturbed(f, c) == \A g \in ReadsFrom(f) : g # c /\ ~Together(c, g)

LEMMA EarlierUndisturbed ==
    ASSUME NEW f \in Settled, NEW c \in Parameters \intersect Asked, Place[f] < Place[c]
    PROVE Undisturbed(f, c)
<1>1. CASE Kind = "gige"
    BY <1>1, Places DEF Settled, Undisturbed, ReadsFrom, Together, ModeOf, Place, GigePlace, Colours
<1>2. CASE Kind = "guppy"
    BY <1>2, Places DEF Settled, Undisturbed, ReadsFrom, Together, ModeOf, Place, GuppyPlace, Colours
<1> QED
    BY <1>1, <1>2, FeaturesAssumption

\* The saved values are written after the mode they depend on, and blue, which
\* overwrites red, before red.
LEMMA SavedEarlier ==
    /\ Len(SavedOrder) \in Nat /\ Len(SavedOrder) <= Len(Order)
    /\ \A i \in 1 .. Len(SavedOrder) :
          /\ SavedOrder[i] \in Parameters \ Whole
          /\ SavedOrder[i] \in DOMAIN ModeOf =>
                \E j \in 1 .. Len(SavedOrder) : j < i /\ SavedOrder[j] = ModeOf[SavedOrder[i]]
          /\ \A j \in 1 .. Len(SavedOrder) :
                i < j => SavedOrder[i] # SavedOrder[j] /\ ~Together(SavedOrder[j], SavedOrder[i])
<1>1. CASE Kind = "gige"
    BY <1>1, Places DEF SavedOrder
<1>2. CASE Kind = "guppy"
    <2>1. Len(SavedOrder) = 9 /\ Len(Order) = 9
        BY <1>2 DEF SavedOrder, Order, GuppyOrder
    <2>2. \A i \in 1 .. 9 : i \in {1, 2, 3, 4, 5, 6, 7, 8, 9}
        OBVIOUS
    <2>3. /\ SavedOrder[1] = "EXPOSURE_AUTO" /\ SavedOrder[2] = "EXPOSURE"
          /\ SavedOrder[3] = "GAIN_AUTO" /\ SavedOrder[4] = "GAIN"
          /\ SavedOrder[5] = "SHUTTER_AUTO" /\ SavedOrder[6] = "SHUTTER"
          /\ SavedOrder[7] = "WHITE_BALANCE_AUTO" /\ SavedOrder[8] = "WHITE_BALANCE_BLUE"
          /\ SavedOrder[9] = "WHITE_BALANCE_RED"
        BY <1>2 DEF SavedOrder
    <2>4. \A i \in 1 .. 9 : SavedOrder[i] \in Parameters \ Whole
        BY <1>2, <2>2, <2>3, Places DEF Place, GuppyPlace, Whole
    <2>5. \A i \in 1 .. 9 : SavedOrder[i] \in DOMAIN ModeOf =>
              \E j \in 1 .. 9 : j < i /\ SavedOrder[j] = ModeOf[SavedOrder[i]]
        BY <2>2, <2>3 DEF ModeOf
    <2>6. \A i, j \in 1 .. 9 :
              i < j => SavedOrder[i] # SavedOrder[j] /\ ~Together(SavedOrder[j], SavedOrder[i])
        BY <1>2, <2>2, <2>3 DEF Together
    <2> QED
        BY <2>1, <2>4, <2>5, <2>6
<1> QED
    BY <1>1, <1>2, FeaturesAssumption

-----------------------------------------------------------------------------
(* Types.                                                                  *)

\* The callback is at a parameter while it writes and reads it, SetCameraParams
\* before the node has started, and a service answers between two callbacks.
Control ==
    /\ written => started /\ at \in 1 .. Len(Order)
    /\ answer # NoAnswer => started /\ at = 0
    /\ ~started => at \in 1 .. Len(SavedOrder) + 1

TypeInv == TypeOK /\ Control

LEMMA FromTyped ==
    ASSUME NEW S \in SUBSET Registers, NEW base, \A f \in S \ Asked : base[f] \in Sendable(f),
           NEW s \in From(S, base)
    PROVE IsSetting(s, S) /\ \A f \in S \ Asked : s[f] = base[f]
<1> DEFINE M == [S \intersect Asked \intersect Modes -> BOOLEAN]
           N == [(S \intersect Asked) \ Modes -> Values]
           Chosen(m, n) ==
               [f \in S |-> IF f \notin Asked THEN base[f] ELSE IF f \in Modes THEN m[f] ELSE n[f]]
<1>1. From(S, base) = {Chosen(m, n) : m \in M, n \in N}
    BY DEF From
<1> HIDE DEF M, N, Chosen
<1>2. PICK m \in M, n \in N : s = Chosen(m, n)
    BY <1>1
<1> QED
    BY <1>2 DEF M, N, Chosen, IsSetting, Sendable

LEMMA UntouchedTyped == \A f \in Registers : Untouched[f] \in Sendable(f)
<1>1. (CHOOSE v \in Values : TRUE) \in Values
    BY FeaturesAssumption
<1> QED
    BY <1>1 DEF Untouched, Sendable

\* What differs from old_config_ was not read as "unreadable": it can be sent.
LEMMA ChangedSendable ==
    ASSUME TypeOK, NEW f \in Parameters, config[f] # oldConfig[f]
    PROVE config[f] \in Sendable(f)
BY DEF TypeOK, Shows

\* Nothing that SetCameraParams writes is an integer that could be unreadable.
LEMMA SavedSendable ==
    ASSUME TypeOK, NEW i \in 1 .. Len(SavedOrder)
    PROVE config[SavedOrder[i]] \in Sendable(SavedOrder[i])
BY SavedEarlier DEF TypeOK, Shows

\* What a client sends is written, or the driver refuses it: types are kept.
LEMMA SetTyped ==
    ASSUME TypeOK, NEW f \in Features, NEW v, f \in Registers \union Modes => v \in Sendable(f),
           Set(f, v)
    PROVE IsHeld(camera') /\ refused' \subseteq Registers
<1>1. IsHeld(camera) /\ refused \subseteq Registers
    BY DEF TypeOK
<1>2. CASE camera' \in SetFeature(camera, f, v) /\ refused' = refused \ {f}
    BY <1>1, <1>2, SetFeatureTyped
<1>3. CASE UNCHANGED camera /\ f \in Registers /\ refused' = refused \union {f}
    BY <1>1, <1>3
<1> QED
    BY <1>2, <1>3 DEF Set

\* Clients can only send what a feature can be, or the cast throws.
LEMMA CastTyped ==
    ASSUME NEW f \in Features, NEW type \in Types, NEW v \in Sent(type), Casts(f, type)
    PROVE f \in Registers \union Modes => v \in Sendable(f)
BY DEF Types, Sent, Casts, TypeOf, Sendable, Unreturned, Registers, GigeRegisters, GuppyRegisters,
       Modes, Whole

LEMMA TypeInit == Init => TypeInv
<1> SUFFICES ASSUME Init PROVE TypeInv
    OBVIOUS
<1>1. Parameters \subseteq Registers /\ Registers \subseteq Registers
    BY ParametersAreRegisters
<1>2. IsSetting(config, Parameters)
    BY <1>1, FromTyped, UntouchedTyped DEF Init, DeserializeConfiguration
<1>3. IsHeld(camera)
    <2>1. PICK s \in From(Registers, Untouched) : camera = [f \in Registers |-> HeldAs(f, s[f])]
        BY DEF Init
    <2>2. IsSetting(s, Registers)
        BY <1>1, <2>1, FromTyped, UntouchedTyped
    <2> QED
        BY <2>1, <2>2 DEF IsHeld, IsSetting, Holdable
<1>4. DOMAIN oldConfig = Parameters /\ \A f \in Parameters : Shows(oldConfig, f)
    <2>1. PICK unread \in SUBSET (Parameters \intersect Asked \intersect Whole),
               s \in From(Parameters, Untouched) :
              oldConfig = [f \in Parameters |-> IF f \in unread THEN Unreadable ELSE s[f]]
        BY DEF Init
    <2>2. IsSetting(s, Parameters)
        BY <1>1, <2>1, FromTyped, UntouchedTyped
    <2> QED
        BY <2>1, <2>2 DEF IsSetting, Shows
<1>5. NoAnswer.call = "none"
    BY DEF NoAnswer
<1>6. /\ request = config /\ at = 1 /\ written = FALSE /\ started = FALSE
      /\ refused = {} /\ answer = NoAnswer
    BY DEF Init
<1>7. \A s \in {request, config, oldConfig} :
          DOMAIN s = Parameters /\ \A f \in Parameters : Shows(s, f)
    BY <1>2, <1>4, <1>6 DEF IsSetting, Shows
<1>8. at \in 0 .. Len(Order) + 1 /\ Control
    BY <1>6, Places, SavedEarlier DEF Control
<1> QED
    BY <1>3, <1>5, <1>6, <1>7, <1>8 DEF TypeInv, TypeOK

LEMMA TypeNext == TypeInv /\ [Next]_vars => TypeInv'
<1> SUFFICES ASSUME TypeInv, [Next]_vars PROVE TypeInv'
    OBVIOUS
<1> DEFINE Shown3(s) == DOMAIN s = Parameters /\ \A f \in Parameters : Shows(s, f)
<1>a. /\ IsHeld(camera) /\ Shown3(request) /\ Shown3(config) /\ Shown3(oldConfig)
      /\ at \in 0 .. Len(Order) + 1 /\ written \in BOOLEAN /\ started \in BOOLEAN
      /\ refused \subseteq Registers /\ answer.call \in {"none", "set", "get"}
      /\ Control
    BY DEF TypeInv, TypeOK
<1>b. Len(Order) \in {9, 11} /\ Len(SavedOrder) \in Nat /\ Len(SavedOrder) <= Len(Order)
    BY Places, SavedEarlier
<1>c. NoAnswer.call = "none"
    BY DEF NoAnswer
<1>d. UNCHANGED <<request, config, oldConfig>> =>
          Shown3(request)' /\ Shown3(config)' /\ Shown3(oldConfig)'
    BY <1>a DEF Shows
<1>1. CASE SetCameraParams
    <2>1. at \in 1 .. Len(SavedOrder) /\ ~started
        BY <1>1, <1>a, <1>b DEF SetCameraParams, Control
    <2>2. SavedOrder[at] \in Parameters /\ SavedOrder[at] \in Features
        BY <2>1, SavedEarlier, ParametersAreRegisters
    <2>3. config[SavedOrder[at]] \in Sendable(SavedOrder[at])
        BY <2>1, SavedSendable DEF TypeInv
    <2>4. Set(SavedOrder[at], config[SavedOrder[at]]) \/ UNCHANGED <<camera, refused>>
        BY <1>1 DEF SetCameraParams
    <2>5. IsHeld(camera') /\ refused' \subseteq Registers
        BY <1>a, <2>2, <2>3, <2>4, SetTyped DEF TypeInv
    <2> QED
        BY <1>1, <1>a, <1>b, <1>d, <2>1, <2>5 DEF SetCameraParams, TypeInv, TypeOK, Control
<1>2. CASE Request
    <2>1. DOMAIN request' = Parameters /\ \A f \in Parameters : Shows(request', f)
        <3>1. CASE request' = config
            BY <1>a, <3>1
        <3>2. CASE request' \in From(Parameters, config)
            <4>1. \A f \in Parameters \ Asked : config[f] \in Sendable(f)
                BY <1>a DEF Shows
            <4>2. IsSetting(request', Parameters)
                BY <3>2, <4>1, FromTyped, ParametersAreRegisters
            <4> QED
                BY <4>2 DEF IsSetting, Shows
        <3> QED
            BY <1>2, <3>1, <3>2 DEF Request
    <2>2. answer = NoAnswer
        BY <1>2, <1>a DEF Request, ParamsSet, Idle, Control
    <2>3. /\ config' = request' /\ started' = TRUE /\ at' = 1 /\ written' = FALSE /\ refused' = {}
          /\ UNCHANGED <<camera, oldConfig, answer>>
        BY <1>2 DEF Request
    <2>4. Shown3(request)' /\ Shown3(config)' /\ Shown3(oldConfig)'
        BY <1>a, <2>1, <2>3 DEF Shows
    <2>5. at' \in 0 .. Len(Order) + 1 /\ Control'
        BY <1>b, <2>2, <2>3 DEF Control
    <2> QED
        BY <1>a, <2>3, <2>4, <2>5 DEF TypeInv, TypeOK
<1>3. CASE Write
    <2>1. Current \in Parameters /\ Current \in Features
        BY <1>3, Places, ParametersAreRegisters DEF Write, Current
    <2>2. CASE Changed /\ Set(Current, config[Current])
        <3>1. config[Current] \in Sendable(Current)
            BY <2>1, <2>2, ChangedSendable DEF Changed, TypeInv
        <3>2. IsHeld(camera') /\ refused' \subseteq Registers
            BY <2>1, <2>2, <3>1, SetTyped DEF TypeInv
        <3> QED
            BY <1>3, <1>a, <1>b, <1>d, <3>2 DEF Write, TypeInv, TypeOK, Control
    <2>3. CASE UNCHANGED <<camera, refused>>
        BY <1>3, <1>a, <1>b, <1>d, <2>3 DEF Write, TypeInv, TypeOK, Control
    <2> QED
        BY <1>3, <2>2, <2>3 DEF Write
<1>4. CASE ReadBack
    <2>1. Current \in Parameters /\ Current \in Registers /\ at \in 1 .. Len(Order) /\ started
        BY <1>4, <1>a, Places, ParametersAreRegisters DEF ReadBack, Current, Control
    <2>2. PICK r \in Readings(camera, Current) :
              config' = [config EXCEPT ![Current] = Shown(Current, r.value)]
        BY <1>4 DEF ReadBack
    <2>3. r.value \in Domain(Current) \union {Unreadable}
        BY <1>a, <2>1, <2>2, GetFeatureTyped DEF Readings, Reading
    <2>4. \/ Shown(Current, r.value) \in Sendable(Current)
          \/ Shown(Current, r.value) = oldConfig[Current]
        BY <2>1, <2>3, ParametersAreRegisters DEF Shown
    <2>5. /\ at' = at + 1 /\ written' = FALSE
          /\ UNCHANGED <<camera, request, oldConfig, started, refused, answer>>
        BY <1>4 DEF ReadBack
    <2>6. DOMAIN config' = Parameters /\ \A f \in Parameters : Shows(config', f)
        <3>1. DOMAIN config' = Parameters /\ config'[Current] = Shown(Current, r.value)
            BY <1>a, <2>1, <2>2
        <3>2. \A f \in Parameters \ {Current} : config'[f] = config[f]
            BY <1>a, <2>1, <2>2
        <3>3. Shows(config', Current)
            BY <1>a, <2>1, <2>4, <3>1 DEF Shows
        <3> QED
            BY <1>a, <3>1, <3>2, <3>3 DEF Shows
    <2>7. Shown3(request)' /\ Shown3(config)' /\ Shown3(oldConfig)'
        BY <1>a, <2>5, <2>6 DEF Shows
    <2>8. at' \in 0 .. Len(Order) + 1 /\ Control'
        BY <1>a, <1>b, <2>1, <2>5 DEF Control
    <2> QED
        BY <1>a, <2>5, <2>7, <2>8 DEF TypeInv, TypeOK
<1>5. CASE Return
    <2>1. Shown3(request)' /\ Shown3(config)' /\ Shown3(oldConfig)'
        BY <1>5, <1>a DEF Return, Shows
    <2> QED
        BY <1>5, <1>a, <1>b, <2>1 DEF Return, Returning, TypeInv, TypeOK, Control
<1>6. ASSUME NEW f \in Served, NEW type \in Types, SetCameraFeatureCallback(f, type) PROVE TypeInv'
    <2>1. f \in Features
        BY FeaturesAssumption DEF Served, Features, Registers
    <2>2. /\ answer'.call = "set"
          /\ \/ \E v \in Sent(type) : Casts(f, type) /\ Set(f, v)
             \/ UNCHANGED <<camera, refused>>
        BY <1>6 DEF SetCameraFeatureCallback
    <2>3. IsHeld(camera') /\ refused' \subseteq Registers
        BY <1>a, <2>1, <2>2, SetTyped, CastTyped DEF TypeInv
    <2> QED
        BY <1>6, <1>a, <1>d, <2>2, <2>3 DEF SetCameraFeatureCallback, Idle, TypeInv, TypeOK, Control
<1>7. ASSUME NEW f \in Served, GetCameraFeatureCallback(f) PROVE TypeInv'
    <2>1. answer'.call = "get"
        BY <1>7 DEF GetCameraFeatureCallback
    <2> QED
        BY <1>7, <1>a, <1>d, <2>1 DEF GetCameraFeatureCallback, Idle, TypeInv, TypeOK, Control
<1>8. CASE Reply
    BY <1>8, <1>a, <1>c, <1>d DEF Reply, TypeInv, TypeOK, Control
<1>9. ASSUME NEW f \in Asked, Adjust(f) PROVE TypeInv'
    <2>1. f \in Registers /\ f \in DOMAIN ModeOf
        BY <1>9 DEF Adjust, Adjusted
    <2>2. PICK x \in Holdable(f) : camera' = [camera EXCEPT ![f] = x]
        BY <1>9 DEF Adjust, Store
    <2>3. IsHeld(camera')
        BY <1>a, <2>1, <2>2 DEF IsHeld
    <2> QED
        BY <1>9, <1>a, <1>d, <2>3 DEF Adjust, TypeInv, TypeOK, Control
<1>10. CASE UNCHANGED vars
    BY <1>10, <1>a, <1>d DEF vars, TypeInv, TypeOK, Control
<1> QED
    BY <1>1, <1>2, <1>3, <1>4, <1>5, <1>6, <1>7, <1>8, <1>9, <1>10 DEF Next

-----------------------------------------------------------------------------
(* What the callback still has to do.                                      *)

\* A parameter that clients do not change is the same in the request and in
\* old_config_; what the callback has not read back yet is as it was requested;
\* between two callbacks, nothing is left to do.
Requested ==
    /\ \A f \in Parameters \ Asked : request[f] = oldConfig[f]
    /\ at > 0 => \A i \in at .. Len(Order) : config[Order[i]] = request[Order[i]]
    /\ started /\ at = 0 => request = config /\ oldConfig = config
    /\ ~started => request = config

LEMMA RequestedInit == Init => Requested
<1> SUFFICES ASSUME Init PROVE Requested
    OBVIOUS
<1>1. \A f \in Parameters : Untouched[f] \in Sendable(f)
    BY UntouchedTyped, ParametersAreRegisters
<1>2. \A s \in From(Parameters, Untouched) : \A f \in Parameters \ Asked : s[f] = Untouched[f]
    BY <1>1, FromTyped, ParametersAreRegisters
<1>3. PICK unread \in SUBSET (Parameters \intersect Asked \intersect Whole),
           s \in From(Parameters, Untouched) :
          oldConfig = [f \in Parameters |-> IF f \in unread THEN Unreadable ELSE s[f]]
    BY DEF Init
<1>4. \A f \in Parameters \ Asked : oldConfig[f] = Untouched[f]
    BY <1>2, <1>3
<1>5. \A f \in Parameters \ Asked : config[f] = Untouched[f]
    BY <1>2 DEF Init, DeserializeConfiguration
<1> QED
    BY <1>4, <1>5 DEF Init, Requested

LEMMA RequestedNext == TypeInv /\ Requested /\ [Next]_vars => Requested'
<1> SUFFICES ASSUME TypeInv, Requested, [Next]_vars PROVE Requested'
    OBVIOUS
<1>a. at \in Nat /\ Len(Order) \in Nat /\ Control
    BY Places DEF TypeInv, TypeOK
<1>b. DOMAIN config = Parameters /\ \A f \in Parameters : Shows(config, f)
    BY DEF TypeInv, TypeOK
<1>1. CASE SetCameraParams
    BY <1>1, <1>a DEF SetCameraParams, Requested, Control
<1>2. CASE Request
    <2>1. /\ config' = request' /\ started' = TRUE /\ at' = 1 /\ oldConfig' = oldConfig
          /\ request' = config \/ (started /\ at = 0 /\ request' \in From(Parameters, config))
          /\ request' = config => request = config
        BY <1>2 DEF Request, ParamsSet, Idle, Requested
    <2>2. \A f \in Parameters \ Asked : request'[f] = config[f] /\ config[f] = oldConfig[f]
        <3>1. CASE request' = config
            BY <2>1, <3>1 DEF Requested
        <3>2. CASE started /\ at = 0 /\ request' \in From(Parameters, config)
            <4>1. \A f \in Parameters \ Asked : config[f] \in Sendable(f)
                BY <1>b DEF Shows
            <4>2. \A f \in Parameters \ Asked : request'[f] = config[f]
                BY <3>2, <4>1, FromTyped, ParametersAreRegisters
            <4> QED
                BY <3>2, <4>2 DEF Requested
        <3> QED
            BY <2>1, <3>1, <3>2
    <2> QED
        BY <2>1, <2>2 DEF Requested
<1>3. CASE Write
    BY <1>3 DEF Write, Requested
<1>4. CASE ReadBack
    <2>1. at \in 1 .. Len(Order) /\ started
        BY <1>4, <1>a DEF ReadBack, Control
    <2>2. PICK x : config' = [config EXCEPT ![Current] = x]
        BY <1>4 DEF ReadBack
    <2>3. \A i \in at + 1 .. Len(Order) : Order[i] # Current /\ Order[i] \in Parameters
        BY <1>a, <2>1, Places DEF Current
    <2>4. \A i \in at + 1 .. Len(Order) : config'[Order[i]] = config[Order[i]]
        BY <1>b, <2>2, <2>3
    <2> QED
        BY <1>4, <1>a, <2>1, <2>4 DEF ReadBack, Requested
<1>5. CASE Return
    BY <1>5, <1>a DEF Return, Returning, Requested
<1>6. ASSUME NEW f \in Served, NEW type \in Types, SetCameraFeatureCallback(f, type) PROVE Requested'
    BY <1>6 DEF SetCameraFeatureCallback, Requested
<1>7. ASSUME NEW f \in Served, GetCameraFeatureCallback(f) PROVE Requested'
    BY <1>7 DEF GetCameraFeatureCallback, Requested
<1>8. CASE Reply
    BY <1>8 DEF Reply, Requested
<1>9. ASSUME NEW f \in Asked, Adjust(f) PROVE Requested'
    BY <1>9 DEF Adjust, Requested
<1>10. CASE UNCHANGED vars
    BY <1>10 DEF vars, Requested
<1> QED
    BY <1>1, <1>2, <1>3, <1>4, <1>5, <1>6, <1>7, <1>8, <1>9, <1>10 DEF Next

-----------------------------------------------------------------------------
(* What later steps leave alone.                                           *)

\* What a setting of the camera rests on: what a reading of f depends on is as
\* it was.
Kept(f) ==
    /\ camera'[f] = camera[f]
    /\ GetFeature(camera', f) = GetFeature(camera, f)
    /\ Adjusted(camera', f) <=> Adjusted(camera, f)
    /\ Settable(camera', f) <=> Settable(camera, f)

\* A write of c does not disturb what does not depend on what it can change.
LEMMA SetKeeps ==
    ASSUME TypeOK, NEW c \in Features, NEW v, c \in Registers \union Modes => v \in Sendable(c),
           Set(c, v), NEW f \in Registers, Undisturbed(f, c)
    PROVE Kept(f)
<1>1. ReadsFrom(f) \subseteq Registers /\ f \in ReadsFrom(f)
    BY ReadsRegisters DEF ReadsFrom
<1>2. \A g \in ReadsFrom(f) : camera'[g] = camera[g]
    <2>1. CASE camera' \in SetFeature(camera, c, v)
        <3>1. DOMAIN camera = Registers /\ (c \in Modes => v \in BOOLEAN)
            BY DEF TypeOK, IsHeld, Sendable
        <3> QED
            BY <1>1, <2>1, <3>1, SetFeatureKeeps DEF Undisturbed
    <2>2. CASE UNCHANGED camera
        BY <2>2
    <2> QED
        BY <2>1, <2>2 DEF Set
<1> QED
    BY <1>1, <1>2, SameReading DEF Kept

\* Automatic control disturbs only what it adjusts, and goes on adjusting it.
LEMMA AdjustKeeps ==
    ASSUME TypeOK, NEW g, Adjust(g), NEW f \in Registers
    PROVE Kept(f) \/ Adjusted(camera', f)
<1>1. PICK v : camera' = [camera EXCEPT ![g] = v]
    BY DEF Adjust, Store
<1>2. g \in DOMAIN ModeOf /\ g \in Registers /\ Adjusted(camera, g)
    BY DEF Adjust, Adjusted
<1>3. g \notin Modes
    BY <1>2 DEF Modes, ModeOf
<1>4. \A m \in Registers \ {g} : camera'[m] = camera[m]
    BY <1>1 DEF TypeOK, IsHeld
<1>5. CASE f = g
    <2>1. \A m \in ReadsFrom(g) \ {g} : camera'[m] = camera[m]
        BY <1>2, <1>4, ReadsRegisters
    <2>2. ModeOf[g] \in Modes /\ "AUTOBRIGHTNESS_AUTO" \in Modes
        BY <1>2 DEF ModeOf, Modes
    <2>3. /\ camera'[ModeOf[g]] = camera[ModeOf[g]]
          /\ Kind = "gige" => camera'["AUTOBRIGHTNESS_AUTO"] = camera["AUTOBRIGHTNESS_AUTO"]
        BY <1>2, <1>3, <2>1, <2>2 DEF ReadsFrom
    <2> QED
        BY <1>2, <1>5, <2>3 DEF Adjusted, GetAutoBrightnessMode
<1>6. CASE f # g
    <2>1. \A m \in ReadsFrom(f) : camera'[m] = camera[m]
        BY <1>3, <1>4, <1>6, ReadsRegisters
    <2>2. f \in ReadsFrom(f)
        BY DEF ReadsFrom
    <2> QED
        BY <2>1, <2>2, SameReading DEF Kept
<1> QED
    BY <1>5, <1>6

\* A write of the callback leaves alone what it has already dealt with, unless a
\* later write can disturb it.
LEMMA WriteKeeps ==
    ASSUME TypeInv, Requested, Write, NEW i \in 1 .. Len(Order), i < at, Order[i] \in Settled
    PROVE Kept(Order[i]) /\ (Order[i] \in refused' <=> Order[i] \in refused)
<1>1. /\ at \in 1 .. Len(Order) /\ Len(Order) \in Nat
      /\ Order[i] \in Parameters /\ Order[i] \in Registers
      /\ Current \in Parameters /\ Current \in Registers /\ Current \in Features
      /\ Place[Order[i]] < Place[Current] /\ Order[i] # Current
    BY Places, ParametersAreRegisters DEF Write, Current
<1>2. config[Current] = request[Current]
    BY <1>1 DEF Requested, Current
<1>3. CASE Changed /\ Set(Current, config[Current])
    <2>1. Current \in Asked /\ config[Current] \in Sendable(Current)
        BY <1>1, <1>2, <1>3, ChangedSendable DEF Changed, Requested, TypeInv
    <2>2. Undisturbed(Order[i], Current)
        BY <1>1, <2>1, EarlierUndisturbed
    <2>3. Kept(Order[i])
        BY <1>1, <1>3, <2>1, <2>2, SetKeeps DEF TypeInv
    <2> QED
        BY <1>1, <1>3, <2>3 DEF Set
<1>4. CASE UNCHANGED <<camera, refused>>
    BY <1>4 DEF Kept
<1> QED
    BY <1>3, <1>4 DEF Write

-----------------------------------------------------------------------------
(* What the answer tells.                                                  *)

Tells(f) ==
    \/ config[f] = GetFeature(camera, f)
    \/ GetFeature(camera, f) = Unreadable
    \/ Adjusted(camera, f)

\* Every parameter that was read back tells what the camera does.
ReadBackTells ==
    started => \A i \in 1 .. Len(Order) : i < at /\ Order[i] \in Settled => Tells(Order[i])

LEMMA TellsInit == Init => ReadBackTells
BY DEF Init, ReadBackTells

LEMMA TellsNext ==
    ASSUME ~DriverFails("get")
    PROVE TypeInv /\ Requested /\ ReadBackTells /\ [Next]_vars => ReadBackTells'
<1> SUFFICES ASSUME TypeInv, Requested, ReadBackTells, [Next]_vars,
                    started', NEW i \in 1 .. Len(Order), i < at', Order[i] \in Settled
             PROVE Tells(Order[i])'
    BY DEF ReadBackTells
<1>a. TypeOK /\ at \in Nat /\ Len(Order) \in Nat /\ Control
    BY Places DEF TypeInv, TypeOK
<1>b. Order[i] \in Parameters /\ Order[i] \in Registers
    BY Places, ParametersAreRegisters
<1>c. started /\ i < at => Tells(Order[i])
    BY DEF ReadBackTells
<1>1. CASE SetCameraParams
    BY <1>1 DEF SetCameraParams
<1>2. CASE Request
    BY <1>2 DEF Request
<1>3. CASE Write
    <2>1. started /\ i < at /\ config' = config
        BY <1>3 DEF Write
    <2>2. Kept(Order[i])
        BY <1>3, <2>1, WriteKeeps
    <2> QED
        BY <1>c, <2>1, <2>2 DEF Tells, Kept
<1>4. CASE ReadBack
    <2>1. /\ at \in 1 .. Len(Order) /\ started /\ at' = at + 1 /\ camera' = camera
          /\ Current \in Parameters /\ Current \in Registers /\ DOMAIN config = Parameters
        BY <1>4, <1>a, Places, ParametersAreRegisters DEF ReadBack, Control, Current, TypeOK
    <2>2. PICK r \in Readings(camera, Current) :
              config' = [config EXCEPT ![Current] = Shown(Current, r.value)]
        BY <1>4 DEF ReadBack
    <2>3. CASE i = at
        <3>1. r.value = GetFeature(camera, Current)
            BY <2>1, <2>2, ParametersAreRegisters DEF Readings, Reading
        <3>2. config'[Current] = Shown(Current, r.value)
            BY <2>1, <2>2
        <3> QED
            BY <2>1, <2>3, <3>1, <3>2 DEF Current, Shown, Tells
    <2>4. CASE i < at
        <3>1. Order[i] # Current
            BY <2>1, <2>4, Places DEF Current
        <3>2. config'[Order[i]] = config[Order[i]]
            BY <1>b, <2>1, <2>2, <3>1
        <3> QED
            BY <1>c, <2>1, <2>4, <3>2 DEF Tells
    <2> QED
        BY <1>a, <2>1, <2>3, <2>4
<1>5. CASE Return
    BY <1>5 DEF Return
<1>6. ASSUME NEW f \in Served, NEW type \in Types, SetCameraFeatureCallback(f, type)
      PROVE Tells(Order[i])'
    BY <1>6 DEF SetCameraFeatureCallback, Idle
<1>7. ASSUME NEW f \in Served, GetCameraFeatureCallback(f) PROVE Tells(Order[i])'
    BY <1>7 DEF GetCameraFeatureCallback, Idle
<1>8. CASE Reply
    BY <1>8, <1>c DEF Reply, Tells
<1>9. ASSUME NEW f \in Asked, Adjust(f) PROVE Tells(Order[i])'
    <2>1. Kept(Order[i]) \/ Adjusted(camera', Order[i])
        BY <1>a, <1>b, <1>9, AdjustKeeps
    <2> QED
        BY <1>9, <1>c, <2>1 DEF Adjust, Tells, Kept
<1>10. CASE UNCHANGED vars
    BY <1>10, <1>c DEF vars, Tells
<1> QED
    BY <1>1, <1>2, <1>3, <1>4, <1>5, <1>6, <1>7, <1>8, <1>9, <1>10 DEF Next

-----------------------------------------------------------------------------
(* What a change does.                                                     *)

Takes(f) ==
    request[f] # oldConfig[f] /\ f \notin refused /\ Settable(camera, f) =>
        camera[f] = HeldAs(f, request[f])

\* Every change that was written has its effect.
WrittenTakes ==
    started =>
        \A i \in 1 .. Len(Order) :
            (i < at \/ (i = at /\ written)) /\ Order[i] \in Settled => Takes(Order[i])

LEMMA TakesInit == Init => WrittenTakes
BY DEF Init, WrittenTakes

LEMMA TakesNext == TypeInv /\ Requested /\ WrittenTakes /\ [Next]_vars => WrittenTakes'
<1> SUFFICES ASSUME TypeInv, Requested, WrittenTakes, [Next]_vars,
                    started', NEW i \in 1 .. Len(Order), i < at' \/ (i = at' /\ written'),
                    Order[i] \in Settled
             PROVE Takes(Order[i])'
    BY DEF WrittenTakes
<1>a. TypeOK /\ at \in Nat /\ Len(Order) \in Nat /\ Control
    BY Places DEF TypeInv, TypeOK
<1>b. Order[i] \in Parameters /\ Order[i] \in Registers
    BY Places, ParametersAreRegisters
<1>c. started /\ (i < at \/ (i = at /\ written)) => Takes(Order[i])
    BY DEF WrittenTakes
<1>1. CASE SetCameraParams
    BY <1>1 DEF SetCameraParams
<1>2. CASE Request
    BY <1>2 DEF Request
<1>3. CASE Write
    <2>1. started /\ UNCHANGED <<request, config, oldConfig, at>> /\ at \in 1 .. Len(Order)
        BY <1>3 DEF Write
    <2>2. CASE i < at
        <3>1. Kept(Order[i]) /\ (Order[i] \in refused' <=> Order[i] \in refused)
            BY <1>3, <2>2, WriteKeeps
        <3> QED
            BY <1>c, <2>1, <2>2, <3>1 DEF Takes, Kept
    <2>3. CASE i = at
        <3>1. Current = Order[i] /\ config[Current] = request[Current]
            BY <1>a, <2>1, <2>3 DEF Current, Requested
        <3>2. CASE Changed /\ camera' \in SetFeature(camera, Current, config[Current])
            <4>1. config[Current] \in Sendable(Current)
                BY <1>a, <1>b, <3>1, <3>2, ChangedSendable DEF Changed
            <4>2. Settable(camera', Current) => camera'[Current] = HeldAs(Current, config[Current])
                BY <1>a, <1>b, <3>1, <3>2, <4>1, SetFeatureTakes DEF TypeOK
            <4> QED
                BY <2>1, <3>1, <4>2 DEF Takes
        <3>3. CASE Current \in refused'
            BY <3>1, <3>3 DEF Takes
        <3>4. CASE ~Changed
            BY <2>1, <3>1, <3>4 DEF Takes, Changed
        <3> QED
            BY <1>3, <3>2, <3>3, <3>4 DEF Write, Set
    <2> QED
        BY <2>1, <2>2, <2>3
<1>4. CASE ReadBack
    BY <1>4, <1>a, <1>c DEF ReadBack, Control, Takes
<1>5. CASE Return
    BY <1>5 DEF Return
<1>6. ASSUME NEW f \in Served, NEW type \in Types, SetCameraFeatureCallback(f, type)
      PROVE Takes(Order[i])'
    BY <1>6, <1>a DEF SetCameraFeatureCallback, Idle, Control
<1>7. ASSUME NEW f \in Served, GetCameraFeatureCallback(f) PROVE Takes(Order[i])'
    BY <1>7, <1>a DEF GetCameraFeatureCallback, Idle, Control
<1>8. CASE Reply
    <2>1. at = 0
        BY <1>8, <1>a DEF Reply, Control
    <2> QED
        BY <1>8, <1>a, <2>1 DEF Reply
<1>9. ASSUME NEW f \in Asked, Adjust(f) PROVE Takes(Order[i])'
    <2>1. Kept(Order[i]) \/ Adjusted(camera', Order[i])
        BY <1>a, <1>b, <1>9, AdjustKeeps
    <2> QED
        BY <1>9, <1>c, <2>1 DEF Adjust, Takes, Kept, Settable
<1>10. CASE UNCHANGED vars
    BY <1>10, <1>c DEF vars, Takes
<1> QED
    BY <1>1, <1>2, <1>3, <1>4, <1>5, <1>6, <1>7, <1>8, <1>9, <1>10 DEF Next

-----------------------------------------------------------------------------
(* What a service sets.                                                    *)

\* The setting that the answer to a service is about.
Holds(f, v) ==
    \/ f \notin Registers
    \/ f \in refused
    \/ ~Settable(camera, f)
    \/ Unset(f)
    \/ GetFeature(camera, f) = ReadAs(f, HeldAs(f, v))

LEMMA SetHoldsInit == Init => SetHolds
BY DEF Init, SetHolds, NoAnswer

LEMMA SetHoldsNext == TypeInv /\ TypeInv' /\ SetHolds /\ [Next]_vars => SetHolds'
<1> SUFFICES ASSUME TypeInv, TypeInv', SetHolds, [Next]_vars, answer'.call = "set", answer'.ok
             PROVE Holds(answer.feature, answer.value)'
    BY DEF SetHolds, Holds
<1>a. TypeOK /\ TypeOK' /\ Control /\ Len(Order) \in Nat
    BY Places DEF TypeInv
<1>b. NoAnswer.call = "none"
    BY DEF NoAnswer
<1>c. answer' = answer => Holds(answer.feature, answer.value)
    BY DEF SetHolds, Holds
<1>d. answer' = answer => started /\ at = 0
    BY <1>a, <1>b DEF Control
<1>1. CASE SetCameraParams
    BY <1>1, <1>d DEF SetCameraParams
<1>2. CASE Request
    BY <1>2, <1>b, <1>d DEF Request, ParamsSet, Idle
<1>3. CASE Write
    BY <1>3, <1>a, <1>d DEF Write
<1>4. CASE ReadBack
    BY <1>4, <1>a, <1>d DEF ReadBack, Control
<1>5. CASE Return
    BY <1>5, <1>a, <1>d DEF Return, Returning
<1>6. ASSUME NEW f \in Served, NEW type \in Types, SetCameraFeatureCallback(f, type)
      PROVE Holds(answer.feature, answer.value)'
    <2>1. PICK v \in Sent(type) :
              answer'.feature = f /\ answer'.value = v /\ Casts(f, type) /\ Set(f, v)
        BY <1>6 DEF SetCameraFeatureCallback
    <2>2. f \in Registers => v \in Sendable(f)
        BY <2>1, FeaturesAssumption, CastTyped DEF Served, Features, Registers
    <2>3. CASE f \in refused'
        BY <2>1, <2>3 DEF Holds
    <2>4. CASE camera' \in SetFeature(camera, f, v)
        <3>1. SUFFICES ASSUME f \in Registers, Settable(camera', f)
                       PROVE GetFeature(camera', f) = ReadAs(f, HeldAs(f, v))
            BY <2>1 DEF Holds
        <3>2. camera'[f] = HeldAs(f, v)
            BY <1>a, <2>2, <2>4, <3>1, SetFeatureTakes DEF TypeOK
        <3> QED
            BY <1>a, <3>1, <3>2, GetFeatureReads DEF TypeOK
    <2> QED
        BY <2>1, <2>3, <2>4 DEF Set
<1>7. ASSUME NEW f \in Served, GetCameraFeatureCallback(f)
      PROVE Holds(answer.feature, answer.value)'
    BY <1>7 DEF GetCameraFeatureCallback
<1>8. CASE Reply
    BY <1>8, <1>b DEF Reply
<1>9. ASSUME NEW f \in Asked, Adjust(f) PROVE Holds(answer.feature, answer.value)'
    <2>1. answer' = answer /\ refused' = refused
        BY <1>9 DEF Adjust
    <2>2. CASE answer.feature \in Registers
        <3>1. Kept(answer.feature) \/ ~Settable(camera', answer.feature)
            BY <1>a, <1>9, <2>2, AdjustKeeps DEF Settable
        <3> QED
            BY <1>c, <2>1, <3>1 DEF Holds, Kept
    <2>3. CASE answer.feature \notin Registers
        BY <2>1, <2>3 DEF Holds
    <2> QED
        BY <2>2, <2>3
<1>10. CASE UNCHANGED vars
    BY <1>10, <1>c DEF vars, Holds
<1> QED
    BY <1>1, <1>2, <1>3, <1>4, <1>5, <1>6, <1>7, <1>8, <1>9, <1>10 DEF Next

-----------------------------------------------------------------------------
(* What SetCameraParams leaves.                                            *)

Held(f) ==
    \/ f \in refused
    \/ f = "EXPOSURE"
    \/ f \in DOMAIN ModeOf /\ (config[ModeOf[f]] \/ ModeOf[f] \in refused)
    \/ camera[f] = HeldAs(f, config[f])

\* Only a DC1394 camera is sent its saved settings: what is not a mode depends
\* on one, and a setter stores what it is sent.
LEMMA SavedModes ==
    \A i \in 1 .. Len(SavedOrder) :
        Kind = "guppy" /\ (SavedOrder[i] \in Modes \/ SavedOrder[i] \in DOMAIN ModeOf)
<1>1. CASE Kind = "gige"
    BY <1>1 DEF SavedOrder
<1>2. CASE Kind = "guppy"
    <2>1. Parameters \subseteq Modes \union DOMAIN ModeOf
        BY <1>2, Places DEF Place, GuppyPlace, Modes, ModeOf
    <2> QED
        BY <1>2, <2>1, SavedEarlier
<1> QED
    BY <1>1, <1>2, FeaturesAssumption

LEMMA SavedStored ==
    ASSUME TypeOK, NEW i \in 1 .. Len(SavedOrder), NEW v,
           camera' \in SetFeature(camera, SavedOrder[i], v)
    PROVE camera'[SavedOrder[i]] = HeldAs(SavedOrder[i], v)
<1> DEFINE f == SavedOrder[i]
<1>1. Kind = "guppy" /\ f \in Registers /\ f # "FRAMERATE"
    BY SavedModes, SavedEarlier, ParametersAreRegisters
<1>2. f \notin Unsupported \union {"INVALID_FEATURE", "WHITE_BALANCE_EXECUTE"}
    BY <1>1 DEF Unsupported, Registers, GuppyRegisters
<1>3. DOMAIN camera = Registers
    BY DEF TypeOK, IsHeld
<1>4. CASE f = "WHITE_BALANCE_BLUE"
    BY <1>1, <1>2, <1>3, <1>4
       DEF SetFeature, SetGuppyFeature, SetWhiteBalanceBlueValue, HeldAs, Modes
<1>5. CASE f # "WHITE_BALANCE_BLUE"
    BY <1>1, <1>2, <1>3, <1>5
       DEF SetFeature, SetGuppyFeature, SetWhiteBalanceRedValue, SetMode, SetRegister, Store, HeldAs,
           Modes
<1> QED
    BY <1>4, <1>5

\* Every setting that was dealt with is held.
SavedHeld == ~started => \A i \in 1 .. Len(SavedOrder) : i < at => Held(SavedOrder[i])

LEMMA HeldInit == Init => SavedHeld
BY SavedEarlier DEF Init, SavedHeld

LEMMA HeldNext == TypeInv /\ TypeInv' /\ SavedHeld /\ [Next]_vars => SavedHeld'
<1> SUFFICES ASSUME TypeInv, TypeInv', SavedHeld, [Next]_vars,
                    ~started', NEW i \in 1 .. Len(SavedOrder), i < at'
             PROVE Held(SavedOrder[i])'
    BY DEF SavedHeld
<1>a. TypeOK /\ Control /\ Control' /\ at \in Nat /\ Len(SavedOrder) \in Nat
    BY Places, SavedEarlier DEF TypeInv, TypeOK
<1>b. SavedOrder[i] \in Parameters /\ SavedOrder[i] \in Registers
    BY SavedEarlier, ParametersAreRegisters
<1>c. ~started /\ i < at => Held(SavedOrder[i])
    BY DEF SavedHeld
<1> DEFINE f == SavedOrder[i]
<1>1. CASE SetCameraParams
    <2> DEFINE c == SavedOrder[at]
    <2>1. /\ ~started /\ at \in 1 .. Len(SavedOrder) /\ at' = at + 1 /\ config' = config
          /\ c \in Parameters /\ c \in Registers /\ c \in Features /\ config[c] \in Sendable(c)
        BY <1>1, <1>a, SavedEarlier, SavedSendable, ParametersAreRegisters
           DEF SetCameraParams, Control
    <2>2. CASE ~Saved(c) /\ UNCHANGED <<camera, refused>>
        <3>1. CASE i = at
            <4>1. c = "EXPOSURE" \/ (c \in DOMAIN ModeOf /\ config[ModeOf[c]])
                BY <2>1, <2>2, ParametersAreRegisters, SavedModes DEF Saved
            <4> QED
                BY <2>1, <3>1, <4>1 DEF Held
        <3>2. CASE i < at
            BY <1>c, <2>1, <2>2, <3>2 DEF Held
        <3> QED
            BY <1>a, <2>1, <3>1, <3>2
    <2>3. CASE camera' \in SetFeature(camera, c, config[c]) /\ refused' = refused \ {c}
        <3>1. CASE i = at
            <4>1. camera'[c] = HeldAs(c, config[c])
                BY <1>a, <2>1, <2>3, SavedStored
            <4> QED
                BY <2>1, <3>1, <4>1 DEF Held
        <3>2. CASE i < at
            <4>1. f # c /\ ~Together(c, f)
                BY <1>a, <2>1, <3>2, SavedEarlier
            <4>2. camera'[f] = camera[f]
                BY <1>a, <1>b, <2>1, <2>3, <4>1, SetFeatureKeeps DEF TypeOK, IsHeld, Sendable
            <4>3. f \in DOMAIN ModeOf => ModeOf[f] # c
                BY <1>a, <2>1, <3>2, SavedEarlier
            <4> QED
                BY <1>c, <2>1, <2>3, <3>2, <4>1, <4>2, <4>3 DEF Held
        <3> QED
            BY <1>a, <2>1, <3>1, <3>2
    <2>4. CASE UNCHANGED camera /\ refused' = refused \union {c}
        BY <1>a, <1>c, <2>1, <2>4 DEF Held
    <2> QED
        BY <1>1, <2>2, <2>3, <2>4 DEF SetCameraParams, Set
<1>2. CASE Request
    BY <1>2 DEF Request
<1>3. CASE Write
    BY <1>3 DEF Write
<1>4. CASE ReadBack
    BY <1>4, <1>a DEF ReadBack, Control
<1>5. CASE Return
    BY <1>5 DEF Return, Returning
<1>6. ASSUME NEW g \in Served, NEW type \in Types, SetCameraFeatureCallback(g, type)
      PROVE Held(f)'
    BY <1>6 DEF SetCameraFeatureCallback, Idle
<1>7. ASSUME NEW g \in Served, GetCameraFeatureCallback(g) PROVE Held(f)'
    BY <1>7 DEF GetCameraFeatureCallback, Idle
<1>8. CASE Reply
    BY <1>8, <1>a DEF Reply, Control
<1>9. ASSUME NEW g \in Asked, Adjust(g) PROVE Held(f)'
    <2>1. UNCHANGED <<started, at, config, refused>> /\ ~started /\ i < at
        BY <1>9 DEF Adjust
    <2>2. CASE Kept(f)
        BY <1>c, <2>1, <2>2 DEF Held, Kept
    <2>3. CASE Adjusted(camera', f)
        <3>1. f \in DOMAIN ModeOf /\ camera'[ModeOf[f]]
            BY <2>3 DEF Adjusted
        <3>2. PICK j \in 1 .. Len(SavedOrder) : j < i /\ SavedOrder[j] = ModeOf[f]
            BY <3>1, SavedEarlier
        <3>3. Held(ModeOf[f])
            BY <1>a, <2>1, <3>2 DEF SavedHeld
        <3>4. ModeOf[f] \in Modes /\ ModeOf[f] \in Registers /\ g \notin Modes
            BY <1>9, <3>1, <3>2, SavedEarlier, ParametersAreRegisters
               DEF ModeOf, Modes, Adjust, Adjusted
        <3>5. camera'[ModeOf[f]] = camera[ModeOf[f]]
            BY <1>9, <1>a, <3>4 DEF Adjust, Store, TypeOK, IsHeld
        <3>6. ModeOf[f] # "EXPOSURE" /\ ModeOf[f] \notin DOMAIN ModeOf
            BY <3>4 DEF Modes, ModeOf
        <3>7. HeldAs(ModeOf[f], config[ModeOf[f]]) = config[ModeOf[f]]
            BY <3>4 DEF HeldAs
        <3> QED
            BY <2>1, <3>1, <3>3, <3>5, <3>6, <3>7 DEF Held
    <2> QED
        BY <1>9, <1>a, <1>b, <2>2, <2>3, AdjustKeeps
<1>10. CASE UNCHANGED vars
    BY <1>10, <1>c DEF vars, Held
<1> QED
    BY <1>1, <1>2, <1>3, <1>4, <1>5, <1>6, <1>7, <1>8, <1>9, <1>10 DEF Next

-----------------------------------------------------------------------------
(* The theorems.                                                           *)

Inv == TypeInv /\ Requested /\ WrittenTakes /\ SetHolds /\ SavedHeld

LEMMA InvInit == Init => Inv
BY TypeInit, RequestedInit, TakesInit, SetHoldsInit, HeldInit DEF Inv

LEMMA InvNext == Inv /\ [Next]_vars => Inv'
BY TypeNext, RequestedNext, TakesNext, SetHoldsNext, HeldNext DEF Inv

\* The conjunction of the layers is inductive.
THEOREM InvHolds == Spec => []Inv
BY InvInit, InvNext, PTL DEF Spec

\* No configuration, service or driver fault puts a value of another type into a
\* register, or shows a client that a setting cannot be read, unless old_config_
\* held that number from the start.
THEOREM TypeCorrect == Spec => []TypeOK
<1>1. Inv => TypeOK
    BY DEF Inv, TypeInv
<1> QED
    BY <1>1, InvHolds, PTL

\* When the callback returns, it has dealt with every parameter.
LEMMA AllDealtWith ==
    ASSUME TypeInv, Returning, NEW f \in Parameters
    PROVE \E i \in 1 .. Len(Order) : i < at /\ Order[i] = f
BY Places DEF Parameters, Returning, TypeInv, TypeOK

\* What a client changes has its effect, as far as the register can hold it (a
\* DC1394 camera drops the fraction), whatever clients change and whichever driver
\* calls fail, but for a blue that a later write of its mode disturbs.
THEOREM SettledTakes == Spec => [](Returning => \A f \in Settled : Takes(f))
<1>1. Inv => (Returning => \A f \in Settled : Takes(f))
    BY AllDealtWith DEF Inv, WrittenTakes, Settled, Returning
<1> QED
    BY <1>1, InvHolds, PTL

\* ... hence all of it on a GigE camera, and on a DC1394 camera whose white
\* balance mode clients leave alone.
THEOREM ChangesTake ==
    ASSUME Kind = "gige" \/ "WHITE_BALANCE_AUTO" \notin Asked
    PROVE Spec => []ChangeTakesEffect
<1>1. Settled = Parameters
    BY DEF Settled
<1>2. (Returning => \A f \in Settled : Takes(f)) => ChangeTakesEffect
    BY <1>1 DEF Takes, ChangeTakesEffect
<1> QED
    BY <1>2, SettledTakes, PTL

\* The callback's answer tells what the camera does, but for such a blue, as long
\* as what the driver reads is what the camera holds.
THEOREM SettledTells ==
    ASSUME ~DriverFails("get")
    PROVE Spec => [](Returning => \A f \in Settled : Tells(f))
<1>1. Inv /\ ReadBackTells /\ [Next]_vars => ReadBackTells'
    BY TellsNext DEF Inv
<1>2. Inv /\ ReadBackTells => (Returning => \A f \in Settled : Tells(f))
    BY AllDealtWith DEF Inv, ReadBackTells, Settled, Returning
<1> QED
    BY <1>1, <1>2, TellsInit, InvHolds, PTL DEF Spec

\* ... hence all of it on a GigE camera, and on a DC1394 camera that can be read
\* and whose white balance mode clients leave alone.
THEOREM AnswersTell ==
    ASSUME Kind = "gige" \/ ("WHITE_BALANCE_AUTO" \notin Asked /\ "get" \notin Faults)
    PROVE Spec => []AnswerTellsCamera
<1>1. Settled = Parameters /\ ~DriverFails("get")
    BY DEF Settled, DriverFails
<1>2. (Returning => \A f \in Settled : Tells(f)) => AnswerTellsCamera
    BY <1>1 DEF Tells, AnswerTellsCamera
<1> QED
    BY <1>1, <1>2, SettledTells, PTL

\* What a client sets by the service is what the camera's getter reads when the
\* call is answered, but for the conversions of the setter and of the getter, for
\* either kind of camera, any features and any driver faults.
THEOREM SetsHold == Spec => []SetHolds
<1>1. Inv => SetHolds
    BY DEF Inv
<1> QED
    BY <1>1, InvHolds, PTL

\* The camera starts with its saved settings, without their fractions, whatever
\* they are, whatever it was left with and whichever writes the driver refuses.
THEOREM SavedSettings == Spec => []SavedSettingsHeld
<1>1. Inv => SavedSettingsHeld
    <2> SUFFICES ASSUME Inv, ParamsSet, NEW i \in 1 .. Len(SavedOrder)
                 PROVE Held(SavedOrder[i])
        BY DEF SavedSettingsHeld, Held
    <2>1. at \in Nat /\ Len(SavedOrder) \in Nat /\ i < at /\ ~started
        BY Places, SavedEarlier DEF Inv, TypeInv, TypeOK, ParamsSet
    <2> QED
        BY <2>1 DEF Inv, SavedHeld
<1> QED
    BY <1>1, InvHolds, PTL

\* A write touches its own register, and only if the client changed it, and
\* those that the setter writes together with it.
WriteTouches ==
    Write =>
        \A f \in Parameters :
            camera'[f] # camera[f] =>
                (f = Current /\ request[f] # oldConfig[f]) \/ Together(Current, f)

LEMMA WriteTouchesOwn == Inv => WriteTouches
<1> SUFFICES ASSUME Inv, Write, NEW f \in Parameters, camera'[f] # camera[f], ~Together(Current, f)
             PROVE f = Current /\ request[f] # oldConfig[f]
    BY DEF WriteTouches
<1>1. /\ Current \in Parameters /\ Current \in Features /\ f \in Registers
      /\ config[Current] = request[Current] /\ DOMAIN camera = Registers
    BY Places, ParametersAreRegisters
       DEF Inv, TypeInv, TypeOK, IsHeld, Requested, Write, Current
<1>2. Changed /\ camera' \in SetFeature(camera, Current, config[Current])
    BY DEF Write, Set
<1>3. Current \in Modes => config[Current] \in BOOLEAN
    BY <1>1, <1>2, ChangedSendable DEF Changed, Sendable, Inv, TypeInv
<1>4. f = Current
    BY <1>1, <1>2, <1>3, SetFeatureKeeps
<1> QED
    BY <1>1, <1>2, <1>4 DEF Changed

\* For either kind of camera: only the blue of a DC1394 camera takes another
\* setting along, the red.
THEOREM WritesTouchOwn == Spec => [][WriteTouches]_vars
BY WriteTouchesOwn, InvHolds, PTL DEF Spec

\* On a GigE camera, a client who changes one parameter keeps the others,
\* whatever the client changes.
THEOREM OthersKept ==
    ASSUME Kind = "gige"
    PROVE Spec => OtherSettingsKept
<1>1. WriteTouches => (Write =>
          \A f \in Parameters :
              camera'[f] # camera[f] =>
                  \/ f = Current /\ request[f] # oldConfig[f]
                  \/ Current = "WHITE_BALANCE_AUTO" /\ f \in Colours)
    <2>1. Write => Current \in Parameters /\ Current # "WHITE_BALANCE_EXECUTE"
        BY Places, ParametersAreRegisters DEF Write, Current, Registers, GigeRegisters
    <2> QED
        BY <2>1 DEF WriteTouches, Together
<1> QED
    BY <1>1, WritesTouchOwn, PTL DEF OtherSettingsKept
=============================================================================
