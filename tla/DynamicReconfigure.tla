------------------------- MODULE DynamicReconfigure -------------------------
(***************************************************************************)
(* The settings of one camera, from its start-up on.                       *)
(*                                                                         *)
(* DC1394Camera::SetCameraParams writes the saved configuration.           *)
(* MediaManager::CallBackDynamicReconfigure then walks through the         *)
(* parameters of the camera.  A parameter that differs from old_config_ is *)
(* written to the camera; then, after 100 ms, every parameter is read back *)
(* into the configuration, which becomes old_config_ and the client's      *)
(* answer.  The services set_camera_feature and get_camera_feature work on *)
(* the camera behind old_config_.  Meanwhile the camera adjusts by itself  *)
(* what is in automatic mode.  A number may change on its way into a       *)
(* register and out of it: HeldAs and ReadAs of CameraFeatures say how.    *)
(***************************************************************************)
EXTENDS CameraFeatures

\* The order of CallBackDynamicReconfigure.
GigeOrder ==
    <<"AUTOBRIGHTNESS_AUTO", "AUTOBRIGHTNESS_TARGET", "AUTOBRIGHTNESS_VARIATION",
      "EXPOSURE_AUTO", "EXPOSURE", "GAIN_AUTO", "GAIN",
      "WHITE_BALANCE_AUTO", "WHITE_BALANCE_BLUE", "WHITE_BALANCE_GREEN", "WHITE_BALANCE_RED">>

GuppyOrder ==
    <<"EXPOSURE_AUTO", "EXPOSURE", "GAIN_AUTO", "GAIN", "SHUTTER_AUTO", "SHUTTER",
      "WHITE_BALANCE_BLUE", "WHITE_BALANCE_AUTO", "WHITE_BALANCE_RED">>

\* Slip: the mode of the shutter after the shutter.
OrderModeLast ==
    SubSeq(GuppyOrder, 1, 4) \o <<"SHUTTER", "SHUTTER_AUTO">> \o SubSeq(GuppyOrder, 7, 9)

Order == IF Kind = "gige" THEN GigeOrder ELSE GuppyOrder

Parameters == {Order[i] : i \in 1 .. Len(Order)}

\* Slip: red before blue.
SavedOrderRedFirst ==
    <<"EXPOSURE_AUTO", "EXPOSURE", "GAIN_AUTO", "GAIN", "SHUTTER_AUTO", "SHUTTER",
      "WHITE_BALANCE_AUTO", "WHITE_BALANCE_RED", "WHITE_BALANCE_BLUE">>

\* The order of SetCameraParams.  GigeContext does not call its own.
SavedOrder ==
    IF Kind = "gige" THEN <<>>
    ELSE <<"EXPOSURE_AUTO", "EXPOSURE", "GAIN_AUTO", "GAIN", "SHUTTER_AUTO", "SHUTTER",
           "WHITE_BALANCE_AUTO", "WHITE_BALANCE_BLUE", "WHITE_BALANCE_RED">>

\* The features that clients of the services name.
Served == (Features \ Registers) \union Asked

VARIABLES
    camera,    \* the registers of the camera
    request,   \* the configuration the client asked for
    config,    \* the configuration the callback works on, at first the saved one
    oldConfig, \* MediaManager::old_config_
    at,        \* the parameter the callback is at, 0 between two callbacks
    written,   \* that parameter has been written, if it had to be
    started,   \* the constructor of MediaManager has come to setCallback
    refused,   \* the features whose last write the driver refused
    answer     \* to the call of a service, on its way to the client

vars == <<camera, request, config, oldConfig, at, written, started, refused, answer>>

NoAnswer == [call |-> "none"]

-----------------------------------------------------------------------------
(* Reading and writing the camera.                                         *)

\* A refused call changes nothing; the colours are read before they are written.
Refusable(f) ==
    DriverFails("set") \/ (f \in Colours /\ DriverFails("get"))

Set(f, v) ==
    \/ /\ camera' \in SetFeature(camera, f, v)
       /\ refused' = refused \ {f}
    \/ /\ Refusable(f) /\ f \in Registers
       /\ refused' = refused \union {f}
       /\ UNCHANGED camera

-----------------------------------------------------------------------------
(* Start-up.                                                               *)

\* The cameras read their configuration from the parameter server, which
\* dynamic_reconfigure, a member constructed before, has filled with its own.
DeserializeConfiguration == From(Parameters, Untouched)

\* Every mode, and the values of what is in manual mode; the exposure, though,
\* when it is in automatic mode.
Saved(f) ==
    \/ f \in Modes
    \/ f = "EXPOSURE" /\ config["EXPOSURE_AUTO"]
    \/ f # "EXPOSURE" /\ ~config[ModeOf[f]]

\* One write, with the 100 ms that follow.
SetCameraParams ==
    /\ ~started /\ at <= Len(SavedOrder)
    /\ LET f == SavedOrder[at] IN
       IF Saved(f) THEN Set(f, config[f]) ELSE UNCHANGED <<camera, refused>>
    /\ at' = at + 1
    /\ UNCHANGED <<request, config, oldConfig, written, started, answer>>

ParamsSet == ~started /\ at > Len(SavedOrder)

-----------------------------------------------------------------------------
(* The callback.                                                           *)

Idle == started /\ at = 0 /\ answer = NoAnswer

Returning == started /\ at > Len(Order)

Current == Order[at]

\* The parameter server sends the saved configuration, later a client sends one
\* that differs from the last answer in what clients change; the server of
\* dynamic reconfigure brings every parameter into its range.
Request ==
    /\ \/ ParamsSet /\ request' = config
       \/ Idle /\ request' \in From(Parameters, config)
    /\ config' = request'
    /\ started' = TRUE
    /\ at' = 1
    /\ written' = FALSE
    /\ refused' = {}
    /\ UNCHANGED <<camera, oldConfig, answer>>

\* Slip: every parameter is written, whether the client changed it or not.
ChangedAlways == TRUE

Changed == config[Current] # oldConfig[Current]

\* UpdateIfChanged: the write.  Its result is ignored.
Write ==
    /\ started /\ at \in 1 .. Len(Order) /\ ~written
    /\ IF Changed THEN Set(Current, config[Current]) ELSE UNCHANGED <<camera, refused>>
    /\ written' = TRUE
    /\ UNCHANGED <<request, config, oldConfig, at, started, answer>>

\* Slip: what the client did not change is not read.
ShownIfChanged(f, x) ==
    IF config[f] = oldConfig[f] \/ x = Unreadable THEN oldConfig[f] ELSE x

Shown(f, x) == IF x = Unreadable THEN oldConfig[f] ELSE x

\* UpdateIfChanged: the reading, 100 ms later.  Its result is ignored, too.
ReadBack ==
    /\ written
    /\ \E r \in Readings(camera, Current) :
          config' = [config EXCEPT ![Current] = Shown(Current, r.value)]
    /\ at' = at + 1
    /\ written' = FALSE
    /\ UNCHANGED <<camera, request, oldConfig, started, refused, answer>>

Return ==
    /\ Returning
    /\ oldConfig' = config
    /\ request' = config
    /\ at' = 0
    /\ refused' = {}
    /\ UNCHANGED <<camera, config, written, started, answer>>

-----------------------------------------------------------------------------
(* The services, between two callbacks.                                    *)

Types == {"bool", "int", "double"}

Sent(type) == IF type = "bool" THEN BOOLEAN ELSE Values

\* Slip: an int is as good as a double, and so is anything.
CastsLoosely(f, type) == TRUE

\* The casts throw unless the value has the type of the feature.
Casts(f, type) == f \in Unreturned \/ type = TypeOf(f)

\* The setter's result is ignored.  The call fails if a cast throws, if the text
\* does not stand for a value of the type, and if there is no such type.
SetCameraFeatureCallback(f, type) ==
    /\ Idle
    /\ \/ \E v \in Sent(type) :
             /\ Casts(f, type)
             /\ Set(f, v)
             /\ answer' = [call |-> "set", feature |-> f, ok |-> TRUE, value |-> v]
       \/ /\ answer' = [call |-> "set", feature |-> f, ok |-> FALSE]
          /\ UNCHANGED <<camera, refused>>
    /\ UNCHANGED <<request, config, oldConfig, at, written, started>>

\* A number is answered as a text of six digits.
Printed(f, x) ==
    IF TypeOf(f) = "double" /\ x \in Values THEN Conversion["text"][x] ELSE x

\* Only a value that no getter has assigned makes the call fail.
GetCameraFeatureCallback(f) ==
    /\ Idle
    /\ \/ /\ f \in Unreturned
          /\ answer' = [call |-> "get", feature |-> f, ok |-> FALSE]
       \/ /\ f \notin Unreturned
          /\ \E r \in Readings(camera, f) :
                answer' = [call |-> "get", feature |-> f, ok |-> TRUE,
                           done |-> r.done, value |-> Printed(f, r.value)]
    /\ UNCHANGED <<camera, request, config, oldConfig, at, written, started, refused>>

\* The client has its answer, and the one thread that serves all is free again.
Reply ==
    /\ answer # NoAnswer
    /\ answer' = NoAnswer
    /\ refused' = {}
    /\ UNCHANGED <<camera, request, config, oldConfig, at, written, started>>

-----------------------------------------------------------------------------

\* Automatic control, at any time.
Adjust(f) ==
    /\ Adjusted(camera, f)
    /\ \E x \in Holdable(f) : camera' \in Store(camera, f, x)
    /\ UNCHANGED <<request, config, oldConfig, at, written, started, refused, answer>>

\* The registers are what the camera was left with.  old_config_ is a member
\* nobody initialises: when the constructor's setCallback makes the first call
\* it holds anything, even what the getters return for an unreadable integer.
Init ==
    /\ camera \in {[f \in Registers |-> HeldAs(f, s[f])] : s \in From(Registers, Untouched)}
    /\ config \in DeserializeConfiguration
    /\ \E unread \in SUBSET (Parameters \intersect Asked \intersect Whole) :
          oldConfig \in {[f \in Parameters |-> IF f \in unread THEN Unreadable ELSE s[f]] :
                            s \in From(Parameters, Untouched)}
    /\ request = config
    /\ at = 1
    /\ written = FALSE
    /\ started = FALSE
    /\ refused = {}
    /\ answer = NoAnswer

Next ==
    \/ SetCameraParams
    \/ Request \/ Write \/ ReadBack \/ Return
    \/ \E f \in Served :
          \/ \E type \in Types : SetCameraFeatureCallback(f, type)
          \/ GetCameraFeatureCallback(f)
    \/ Reply
    \/ \E f \in Asked : Adjust(f)

Spec == Init /\ [][Next]_vars

-----------------------------------------------------------------------------
(* Properties.                                                             *)

\* What a client may see for a parameter: only old_config_ makes it unreadable.
Shows(s, f) ==
    \/ s[f] \in Sendable(f)
    \/ s[f] = Unreadable /\ oldConfig[f] = Unreadable /\ f \in Asked \intersect Whole

\* Every variable has its type: no call puts a value of another type into a
\* register, and a client is shown "unreadable" for a parameter only if the
\* uninitialised old_config_ happened to hold that number.
TypeOK ==
    /\ IsHeld(camera)
    /\ \A s \in {request, config, oldConfig} :
          DOMAIN s = Parameters /\ \A f \in Parameters : Shows(s, f)
    /\ at \in 0 .. Len(Order) + 1
    /\ written \in BOOLEAN
    /\ started \in BOOLEAN
    /\ refused \subseteq Registers
    /\ answer.call \in {"none", "set", "get"}

\* The saved configuration is what the camera runs with when MediaManager is up:
\* every mode, and every value of a feature in manual mode that the camera has
\* taken, although blue and red overwrite each other.  A number is held without
\* its fraction.  The exposure is the exception: SetCameraParams writes it in
\* automatic mode only.
SavedSettingsHeld ==
    ParamsSet =>
        \A i \in 1 .. Len(SavedOrder) :
            LET f == SavedOrder[i] IN
            \/ f \in refused
            \/ f = "EXPOSURE"
            \/ f \in DOMAIN ModeOf /\ (config[ModeOf[f]] \/ ModeOf[f] \in refused)
            \/ camera[f] = HeldAs(f, config[f])

\* The answer tells what the camera will do: every parameter that can be read
\* and that the camera does not adjust by itself has, when the callback
\* returns, the value the callback reports, even one that was read before a
\* later write of the same callback, whatever garbage old_config_ held, and
\* whichever writes failed.
AnswerTellsCamera ==
    Returning =>
        \A f \in Parameters :
            \/ config[f] = GetFeature(camera, f)
            \/ GetFeature(camera, f) = Unreadable
            \/ Adjusted(camera, f)

\* The parameters that no later write of the callback disturbs.  The blue of a
\* DC1394 camera is written before the mode that it depends on.
Settled ==
    IF Kind = "guppy" /\ "WHITE_BALANCE_AUTO" \in Asked
    THEN Parameters \ {"WHITE_BALANCE_BLUE"} ELSE Parameters

\* What the client changed is what the camera holds when the callback returns,
\* as far as the driver took it and the modes it ends up in allow it: a mode is
\* set before what depends on it, and the colours after the white balance that
\* would lose them.  A GigE camera holds the number itself, a DC1394 camera the
\* number without its fraction.
ChangeTakesEffect ==
    Returning =>
        \A f \in Parameters :
            request[f] # oldConfig[f] /\ f \notin refused /\ Settable(camera, f) =>
                camera[f] = HeldAs(f, request[f])

\* What a client set with set_camera_feature is what the camera's getter reads
\* when the client has the answer, as far as the driver took it and the modes
\* allow it: exactly for a GigE camera, but for a gain rounded to a float, without
\* its fraction for a DC1394 camera, and as the driver's code for its frame rate.
\* What no getter reads is the exception.
SetHolds ==
    answer.call = "set" /\ answer.ok =>
        LET f == answer.feature IN
        \/ f \notin Registers
        \/ f \in refused
        \/ ~Settable(camera, f)
        \/ Unset(f)
        \/ GetFeature(camera, f) = ReadAs(f, HeldAs(f, answer.value))

\* A write touches the register it is for and no other: a client who changes
\* one parameter, by a configuration or by the service, keeps the rest, and
\* what the configuration left as it was is not written at all.  Executing the
\* white balance, whose purpose is to find new colours, is the exception.
OtherSettingsKept ==
    [][Write =>
          \A f \in Parameters :
              camera'[f] # camera[f] =>
                  \/ f = Current /\ request[f] # oldConfig[f]
                  \/ Current = "WHITE_BALANCE_AUTO" /\ f \in Colours]_vars

\* A get whose getter failed says so, with the value that stands for it.
FailedGetterInvalid ==
    answer.call = "get" /\ answer.ok =>
        answer.done \/ TypeOf(answer.feature) # "double" \/ answer.value = Invalid
=============================================================================
