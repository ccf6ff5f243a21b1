---------------------------- MODULE CameraSettings ----------------------------
(***************************************************************************)
(* DynamicReconfigure implements SettingsService.  The callback reads each *)
(* parameter back before it writes the next; the configuration counts as   *)
(* told when it returns, and the client then knows it.                     *)
(***************************************************************************)
EXTENDS DynamicReconfigure

\* What goes along with a feature.
Along == [f \in Features |-> {g \in Registers : Together(f, g)}]

\* What the answer to a configuration tells for certain: nothing, if the driver
\* of a DC1394 camera fails to read, for then a getter reports anything.
Truthful == IF DriverFails("get") THEN {} ELSE Settled

\* Gamma is not read at all.
Readable == {f \in Registers : ~Unset(f)}

\* What is read of a setting that was set to v: a DC1394 camera shows a number
\* without its fraction and a frame rate as a code, a GigE camera its gain as a
\* float.
ShownAs(f, v) == ReadAs(f, HeldAs(f, v))

\* The client's single setting, from the setter's return to the answer.
SetAnswered ==
    IF answer.call = "set" /\ answer.ok
    THEN [feature |-> answer.feature, value |-> answer.value]
    ELSE [feature |-> "none"]

Phase == IF ~started THEN "starting" ELSE IF at = 0 THEN "idle" ELSE "configuring"

Service == INSTANCE SettingsService WITH
    Settings <- Registers,
    Effective <- Settled,
    held <- camera,
    shown <- [f \in Registers |-> GetFeature(camera, f)],
    own <- {f \in Registers : Adjusted(camera, f)},
    free <- {f \in Registers : Settable(camera, f)},
    asked <- request,
    told <- oldConfig,
    phase <- Phase,
    set <- SetAnswered

\* Every behaviour of the configuration is one the settings service allows: the
\* camera changes only where and when a client asked for it, a configuration is
\* answered when it is in effect, and the answer is what the camera shows, but
\* for a DC1394 blue whose mode clients change.
ImplementsSettings == Service!Spec
=============================================================================
