------------------------ MODULE CameraSettings_proofs ------------------------
(***************************************************************************)
(* The configuration of a camera implements the settings service, for      *)
(* either kind of camera, any values, any features that clients change and *)
(* any driver faults.                                                      *)
(***************************************************************************)
EXTENDS CameraSettings, DynamicReconfigure_proofs

\* What an answer tells holds whenever the driver can be read.
Told == DriverFails("get") \/ ReadBackTells

LEMMA ToldHolds == Spec => []Told
<1>1. Init => Told
    BY TellsInit DEF Told
<1>2. Inv /\ Told /\ [Next]_vars => Told'
    <2>1. CASE DriverFails("get")
        BY <2>1 DEF Told, DriverFails
    <2>2. CASE ~DriverFails("get")
        BY <2>2, TellsNext DEF Told, Inv
    <2> QED
        BY <2>1, <2>2
<1> QED
    BY <1>1, <1>2, InvHolds, PTL DEF Spec

\* The view of the camera changes only with the camera.
LEMMA SameCamera ==
    ASSUME UNCHANGED camera
    PROVE UNCHANGED Service!camera
BY DEF Service!camera

LEMMA SetWrites ==
    ASSUME TypeOK, NEW f \in Features, NEW v, f \in Registers \union Modes => v \in Sendable(f),
           Set(f, v)
    PROVE Service!Writes(f)
<1>1. CASE camera' \in SetFeature(camera, f, v) /\ refused' = refused \ {f}
    <2>1. DOMAIN camera = Registers /\ (f \in Modes => v \in BOOLEAN)
        BY DEF TypeOK, IsHeld, Sendable
    <2>2. \A g \in Registers : camera'[g] # camera[g] => g = f \/ Together(f, g)
        BY <1>1, <2>1, SetFeatureKeeps
    <2>3. \A g \in Registers : Together(f, g) => g \in Along[f]
        BY DEF Along
    <2> QED
        BY <1>1, <2>2, <2>3 DEF Service!Writes
<1>2. CASE UNCHANGED camera /\ refused' = refused \union {f}
    BY <1>2, SameCamera DEF Service!Writes
<1> QED
    BY <1>1, <1>2 DEF Set

\* What the camera adjusts is never a mode, so it leaves the modes' effects.
LEMMA AdjustAdjusts ==
    ASSUME TypeOK, NEW f \in Asked, Adjust(f)
    PROVE Service!Adjusts
<1>1. f \in Registers /\ f \in DOMAIN ModeOf /\ Adjusted(camera, f)
    BY DEF Adjust, Adjusted
<1>2. PICK x : camera' = [camera EXCEPT ![f] = x]
    BY DEF Adjust, Store
<1>3. \A g \in Registers : g # f => camera'[g] = camera[g]
    BY <1>2 DEF TypeOK, IsHeld
<1>4. f \notin Modes
    BY <1>1 DEF ModeOf, Modes
<1>5. ASSUME NEW g \in Registers, g # f
      PROVE  /\ GetFeature(camera', g) = GetFeature(camera, g)
             /\ Adjusted(camera', g) <=> Adjusted(camera, g)
             /\ Settable(camera', g) <=> Settable(camera, g)
    <2>1. \A r \in ReadsFrom(g) : camera'[r] = camera[r]
        BY <1>3, <1>4, <1>5, ReadsRegisters
    <2> QED
        BY <2>1, SameReading
<1>6. Adjusted(camera', f) /\ (Settable(camera', f) <=> Settable(camera, f))
    <2>1. /\ camera'[ModeOf[f]] = camera[ModeOf[f]]
          /\ GetAutoBrightnessMode(camera') = GetAutoBrightnessMode(camera)
        BY <1>1, <1>2 DEF ModeOf, GetAutoBrightnessMode
    <2> QED
        BY <1>1, <2>1 DEF Adjusted, Settable
<1>7. {g \in Registers : Adjusted(camera', g)} = {g \in Registers : Adjusted(camera, g)}
    BY <1>1, <1>5, <1>6
<1>8. {g \in Registers : Settable(camera', g)} = {g \in Registers : Settable(camera, g)}
    BY <1>5, <1>6
<1>9. /\ \A g \in Registers : camera'[g] # camera[g] => g \in {r \in Registers : Adjusted(camera, r)}
      /\ \A g \in Registers :
            GetFeature(camera', g) # GetFeature(camera, g) =>
                g \in {r \in Registers : Adjusted(camera, r)}
    BY <1>1, <1>3, <1>5
<1> QED
    BY <1>7, <1>8, <1>9 DEF Adjust, Service!Adjusts, Phase, SetAnswered

LEMMA SettingsInit == Init => Service!Init
BY DEF Init, Service!Init, Service!NoSet, Phase, SetAnswered, NoAnswer

LEMMA SettingsNext == Inv /\ Told /\ [Next]_vars => [Service!Next]_(Service!vars)
<1> SUFFICES ASSUME Inv, Told, [Next]_vars PROVE [Service!Next]_(Service!vars)
    OBVIOUS
<1>a. TypeOK /\ Control /\ Requested /\ at \in Nat
    BY DEF Inv, TypeInv, TypeOK
<1>1. CASE SetCameraParams
    <2>1. /\ at \in 1 .. Len(SavedOrder) /\ ~started
          /\ UNCHANGED <<request, config, oldConfig, started, answer>>
          /\ Set(SavedOrder[at], config[SavedOrder[at]]) \/ UNCHANGED <<camera, refused>>
        BY <1>1, <1>a, SavedEarlier DEF SetCameraParams, Control
    <2>2. UNCHANGED <<request, oldConfig, Phase, SetAnswered>> /\ Phase = "starting"
        BY <2>1 DEF Phase, SetAnswered
    <2>3. CASE Set(SavedOrder[at], config[SavedOrder[at]])
        <3>1. SavedOrder[at] \in Parameters /\ SavedOrder[at] \in Features
            BY <2>1, SavedEarlier, ParametersAreRegisters
        <3>2. config[SavedOrder[at]] \in Sendable(SavedOrder[at])
            BY <1>a, <2>1, SavedSendable
        <3>3. Service!Writes(SavedOrder[at])
            BY <1>a, <2>3, <3>1, <3>2, SetWrites
        <3>4. Service!Restore(SavedOrder[at])
            BY <2>2, <3>3 DEF Service!Restore
        <3> QED
            BY <3>1, <3>4 DEF Service!Next
    <2>4. CASE UNCHANGED <<camera, refused>>
        BY <2>2, <2>4, SameCamera DEF Service!vars
    <2> QED
        BY <2>1, <2>3, <2>4
<1>2. CASE Request
    <2>1. answer = NoAnswer /\ (~started \/ at = 0)
        BY <1>2, <1>a DEF Request, ParamsSet, Idle, Control
    <2>2. SetAnswered = [feature |-> "none"] /\ UNCHANGED SetAnswered
        BY <1>2, <2>1 DEF Request, SetAnswered, NoAnswer
    <2>3. Service!Begin
        BY <1>2, <2>1, <2>2, SameCamera DEF Request, Service!Begin, Service!NoSet, Phase
    <2> QED
        BY <2>3 DEF Service!Next
<1>3. CASE Write
    <2>1. /\ started /\ at \in 1 .. Len(Order)
          /\ Current \in Parameters /\ Current \in Features
          /\ UNCHANGED <<request, oldConfig, at, started, answer>>
        BY <1>3, Places, ParametersAreRegisters DEF Write, Current
    <2>2. UNCHANGED <<Phase, SetAnswered>> /\ Phase = "configuring"
        BY <2>1 DEF Phase, SetAnswered
    <2>3. CASE Changed /\ Set(Current, config[Current])
        <3>1. request[Current] # oldConfig[Current]
            BY <1>a, <2>1, <2>3, Places DEF Requested, Changed, Current
        <3>2. config[Current] \in Sendable(Current)
            BY <1>a, <2>1, <2>3, ChangedSendable DEF Changed
        <3>3. Service!Writes(Current)
            BY <1>a, <2>1, <2>3, <3>2, SetWrites
        <3>4. Service!Change(Current)
            BY <2>1, <2>2, <3>1, <3>3 DEF Service!Change
        <3> QED
            BY <2>1, <3>4 DEF Service!Next
    <2>4. CASE UNCHANGED <<camera, refused>>
        BY <2>1, <2>2, <2>4, SameCamera DEF Service!vars
    <2> QED
        BY <1>3, <2>3, <2>4 DEF Write
<1>4. CASE ReadBack
    <2>1. started /\ at > 0 /\ at' = at + 1
          /\ UNCHANGED <<camera, request, oldConfig, started, refused, answer>>
        BY <1>4, <1>a DEF ReadBack, Control
    <2>2. UNCHANGED <<Phase, SetAnswered>>
        BY <1>a, <2>1 DEF Phase, SetAnswered
    <2> QED
        BY <2>1, <2>2, SameCamera DEF Service!vars
<1>5. CASE Return
    <2>1. /\ Returning /\ started /\ at > 0
          /\ oldConfig' = config /\ request' = config /\ at' = 0 /\ refused' = {}
          /\ UNCHANGED <<camera, started, answer>>
        BY <1>5, <1>a, Places DEF Return, Returning
    <2>2. Phase = "configuring" /\ Phase' = "idle" /\ UNCHANGED SetAnswered
        BY <1>a, <2>1 DEF Phase, SetAnswered
    <2>3. Settled \subseteq Parameters /\ Parameters \subseteq Registers
        BY ParametersAreRegisters DEF Settled
    <2>4. ASSUME NEW f \in Settled PROVE Service!InEffect(f)
        <3>1. Takes(f)
            BY <2>1, <2>3, AllDealtWith DEF Inv, WrittenTakes
        <3> QED
            BY <2>3, <3>1 DEF Takes, Service!InEffect
    <2>5. ASSUME NEW f \in Truthful PROVE Service!True(f, config[f])
        <3>1. f \in Settled /\ ReadBackTells
            BY DEF Truthful, Told
        <3>2. Tells(f)
            BY <2>1, <2>3, <3>1, AllDealtWith DEF Inv, ReadBackTells
        <3> QED
            BY <2>3, <3>1, <3>2 DEF Tells, Service!True
    <2>6. Service!Answer
        BY <2>1, <2>2, <2>4, <2>5, SameCamera DEF Service!Answer
    <2> QED
        BY <2>6 DEF Service!Next
<1>6. ASSUME NEW f \in Served, NEW type \in Types, SetCameraFeatureCallback(f, type)
      PROVE [Service!Next]_(Service!vars)
    <2>1. /\ started /\ at = 0 /\ answer = NoAnswer
          /\ UNCHANGED <<request, oldConfig, at, started>>
        BY <1>6 DEF SetCameraFeatureCallback, Idle
    <2>2. Phase = "idle" /\ UNCHANGED Phase /\ SetAnswered = [feature |-> "none"]
        BY <2>1 DEF Phase, SetAnswered, NoAnswer
    <2>3. f \in Features
        BY FeaturesAssumption DEF Served, Features, Registers
    <2>4. CASE \E v \in Sent(type) :
                  /\ Casts(f, type) /\ Set(f, v)
                  /\ answer' = [call |-> "set", feature |-> f, ok |-> TRUE, value |-> v]
        <3>1. PICK v \in Sent(type) :
                  /\ Casts(f, type) /\ Set(f, v)
                  /\ answer' = [call |-> "set", feature |-> f, ok |-> TRUE, value |-> v]
            BY <2>4
        <3>2. Service!Writes(f)
            BY <1>a, <2>3, <3>1, CastTyped, SetWrites
        <3>3. SetAnswered' = [feature |-> f, value |-> v]
            BY <3>1 DEF SetAnswered
        <3>4. SetHolds'
            BY InvNext DEF Inv
        <3>5. f \in Readable /\ f \notin refused' /\ Settable(camera', f)
                  => f \in Registers /\ GetFeature(camera', f) = ShownAs(f, v)
            BY <3>1, <3>4 DEF SetHolds, Readable, ShownAs
        <3>6. Service!SetOne(f)
            BY <2>1, <2>2, <3>2, <3>3, <3>5 DEF Service!SetOne, Service!NoSet
        <3> QED
            BY <2>3, <3>6 DEF Service!Next
    <2>5. CASE /\ answer' = [call |-> "set", feature |-> f, ok |-> FALSE]
               /\ UNCHANGED <<camera, refused>>
        <3>1. UNCHANGED SetAnswered
            BY <2>2, <2>5 DEF SetAnswered
        <3> QED
            BY <2>1, <2>2, <2>5, <3>1, SameCamera DEF Service!vars
    <2> QED
        BY <1>6, <2>4, <2>5 DEF SetCameraFeatureCallback
<1>7. ASSUME NEW f \in Served, GetCameraFeatureCallback(f) PROVE UNCHANGED Service!vars
    <2>1. /\ answer = NoAnswer /\ answer'.call = "get"
          /\ UNCHANGED <<camera, request, oldConfig, at, started, refused>>
        BY <1>7 DEF GetCameraFeatureCallback, Idle
    <2>2. UNCHANGED <<Phase, SetAnswered>>
        BY <2>1 DEF Phase, SetAnswered, NoAnswer
    <2> QED
        BY <2>1, <2>2, SameCamera DEF Service!vars
<1>8. CASE Reply
    <2>1. /\ started /\ at = 0 /\ answer' = NoAnswer /\ refused' = {}
          /\ UNCHANGED <<camera, request, oldConfig, at, started>>
        BY <1>8, <1>a DEF Reply, Control
    <2>2. Phase = "idle" /\ UNCHANGED Phase /\ SetAnswered' = [feature |-> "none"]
        BY <2>1 DEF Phase, SetAnswered, NoAnswer
    <2>3. Service!Reply
        BY <2>1, <2>2, SameCamera DEF Service!Reply, Service!NoSet
    <2> QED
        BY <2>3 DEF Service!Next
<1>9. ASSUME NEW f \in Asked, Adjust(f) PROVE [Service!Next]_(Service!vars)
    BY <1>a, <1>9, AdjustAdjusts DEF Service!Next
<1>10. CASE UNCHANGED vars
    BY <1>10, SameCamera DEF vars, Service!vars, Phase, SetAnswered
<1> QED
    BY <1>1, <1>2, <1>3, <1>4, <1>5, <1>6, <1>7, <1>8, <1>9, <1>10 DEF Next

\* Clients who set up a camera get what SettingsService promises them, without
\* any hypothesis: the exceptions, and what conversions make of numbers, are named
\* in the service itself.
THEOREM Implements == Spec => ImplementsSettings
BY SettingsInit, SettingsNext, InvHolds, ToldHolds, PTL
   DEF Spec, ImplementsSettings, Service!Spec
=============================================================================
