--------------------------- MODULE SettingsService ---------------------------
(***************************************************************************)
(* What provider_vision promises to those who set up a camera, through     *)
(* dynamic reconfigure or through set_camera_feature:                      *)
(*                                                                         *)
(*   - nobody touches the camera but the call being served, and that only  *)
(*     where the client asked for another value than it was last told;     *)
(*   - when a configuration is answered, what was asked for is in effect   *)
(*     and the answer is what the camera shows;                            *)
(*   - when a single setting is answered, the camera shows it.             *)
(*                                                                         *)
(* The exceptions are the camera's own: it adjusts some settings by itself,*)
(* does not let others be set in the modes it is in, and may refuse.  Nor  *)
(* need it hold the number it is given, or show the one it holds: it may   *)
(* drop a fraction, round, or show a code, always in the same way.         *)
(***************************************************************************)
CONSTANTS
    Settings,   \* all settings of the camera
    Parameters, \* those that a configuration consists of
    Features,   \* the names set_camera_feature knows
    Along,      \* the settings that go along when one is written
    Effective,  \* the parameters whose changes are sure to take effect
    Truthful,   \* the parameters whose answer is sure to be true
    Readable,   \* the settings that can be read at all
    HeldAs(_, _),  \* what the camera holds of a setting that is given a value
    ShownAs(_, _), \* what it shows of it then
    Unreadable  \* what is shown of a setting that cannot be read now

VARIABLES
    held,    \* the settings in the camera
    shown,   \* what it would answer if it were asked
    own,     \* the settings that it adjusts by itself
    free,    \* the settings that a write can change now
    asked,   \* the configuration that was asked for
    told,    \* the configuration that was answered last
    phase,   \* "starting", "idle" or "configuring"
    set,     \* the single setting being answered
    refused  \* the settings whose last write in this call the camera refused

camera == <<held, shown, own, free>>
vars == <<camera, asked, told, phase, set, refused>>

NoSet == [feature |-> "none"]

Init == phase = "starting" /\ set = NoSet /\ refused = {}

\* The camera takes the new value of f, or refuses it.
Writes(f) ==
    \/ /\ refused' = refused \ {f}
       /\ \A g \in Settings : held'[g] # held[g] => g = f \/ g \in Along[f]
    \/ /\ refused' = refused \union {f}
       /\ UNCHANGED camera

\* Automatic control, at any time.
Adjusts ==
    /\ UNCHANGED <<asked, told, phase, set, refused, own, free>>
    /\ \A g \in Settings : held'[g] # held[g] \/ shown'[g] # shown[g] => g \in own

\* A saved setting, before the first client is served.
Restore(f) ==
    /\ phase = "starting"
    /\ UNCHANGED <<asked, told, phase, set>>
    /\ Writes(f)

\* A client asks for any configuration.
Begin ==
    /\ phase \in {"starting", "idle"} /\ set = NoSet
    /\ phase' = "configuring"
    /\ refused' = {}
    /\ UNCHANGED <<camera, told, set>>

Change(f) ==
    /\ phase = "configuring"
    /\ asked[f] # told[f]
    /\ UNCHANGED <<asked, told, phase, set>>
    /\ Writes(f)

InEffect(f) ==
    asked[f] # told[f] /\ f \notin refused /\ f \in free => held[f] = HeldAs(f, asked[f])

True(f, answer) == answer = shown[f] \/ shown[f] = Unreadable \/ f \in own

Answer ==
    /\ phase = "configuring"
    /\ phase' = "idle"
    /\ \A f \in Effective : InEffect(f)
    /\ \A f \in Truthful : True(f, told'[f])
    /\ asked' = told'
    /\ refused' = {}
    /\ UNCHANGED <<camera, set>>

\* A client sets one feature to any value.
SetOne(f) ==
    /\ phase = "idle" /\ set = NoSet
    /\ set'.feature = f
    /\ Writes(f)
    /\ f \in Readable /\ f \notin refused' /\ f \in free' =>
          shown'[f] = ShownAs(f, set'.value)
    /\ UNCHANGED <<asked, told, phase>>

Reply ==
    /\ phase = "idle"
    /\ set' = NoSet
    /\ refused' = {}
    /\ UNCHANGED <<camera, asked, told, phase>>

Next ==
    \/ Begin \/ Answer \/ Reply
    \/ \E f \in Parameters : Restore(f) \/ Change(f)
    \/ \E f \in Features : SetOne(f)
    \/ Adjusts

Spec == Init /\ [][Next]_vars
=============================================================================
