----------------------------- MODULE MediaService -----------------------------
(***************************************************************************)
(* What provider_vision promises to the clients of start_stop_camera and to*)
(* the subscribers of the image topics, whatever the hardware does:        *)
(*                                                                         *)
(*   - a start is answered true once, and after it a stop is;              *)
(*   - images of a medium are published only from the moment its start is  *)
(*     being served until its stop is answered;                            *)
(*   - one call is served at a time;                                       *)
(*   - when the node ends, every stream has ended.                         *)
(***************************************************************************)
CONSTANTS
    Media,  \* what can be streamed
    None    \* no medium

VARIABLES
    active,     \* media whose start was answered true, and whose stop was not yet
    serving,    \* the call being served
    answer,     \* what the last start or stop was answered
    publishing  \* media of which an image is being published

vars == <<active, serving, answer, publishing>>

Idle == [op |-> "none", media |-> None]
Ended == [op |-> "exited", media |-> None]
Serve(op, m) == [op |-> op, media |-> m]

\* The media of which an image may appear.
Audible == active \union (IF serving.op = "start" THEN {serving.media} ELSE {})

Init ==
    /\ active = {}
    /\ serving = Idle
    /\ answer = "none"
    /\ publishing = {}

\* A call that changes nothing: a start of an active medium or one that fails,
\* a stop of a medium that is not active.
Refuse(m) ==
    /\ serving = Idle
    /\ answer' = "false"
    /\ UNCHANGED <<active, serving, publishing>>

Begin(op, m) ==
    /\ serving = Idle
    /\ \/ op = "start" /\ m \notin active
       \/ op = "stop" /\ m \in active
       \/ op = "feature"
    /\ serving' = Serve(op, m)
    /\ answer' = "none"
    /\ UNCHANGED <<active, publishing>>

Started(m) ==
    /\ serving = Serve("start", m)
    /\ serving' = Idle
    /\ active' = active \union {m}
    /\ answer' = "true"
    /\ UNCHANGED publishing

Stopped(m) ==
    /\ serving = Serve("stop", m)
    /\ m \notin publishing
    /\ serving' = Idle
    /\ active' = active \ {m}
    /\ answer' = "true"
    /\ UNCHANGED publishing

FeatureSet(m) ==
    /\ serving = Serve("feature", m)
    /\ serving' = Idle
    /\ UNCHANGED <<active, answer, publishing>>

Shutdown ==
    /\ serving = Idle
    /\ serving' = Serve("shutdown", None)
    /\ answer' = "none"
    /\ UNCHANGED <<active, publishing>>

EndStream(m) ==
    /\ serving.op = "shutdown"
    /\ m \in active \ publishing
    /\ active' = active \ {m}
    /\ UNCHANGED <<serving, answer, publishing>>

End ==
    /\ serving.op = "shutdown"
    /\ active = {}
    /\ serving' = Ended
    /\ UNCHANGED <<active, answer, publishing>>

PublishBegins(m) ==
    /\ m \in Audible
    /\ publishing' = publishing \union {m}
    /\ UNCHANGED <<active, serving, answer>>

PublishEnds(m) ==
    /\ publishing' = publishing \ {m}
    /\ UNCHANGED <<active, serving, answer>>

Next ==
    \/ \E m \in Media :
          \/ Refuse(m) \/ Started(m) \/ Stopped(m) \/ FeatureSet(m)
          \/ \E op \in {"start", "stop", "feature"} : Begin(op, m)
          \/ EndStream(m) \/ PublishBegins(m) \/ PublishEnds(m)
    \/ Shutdown \/ End

Spec == Init /\ [][Next]_vars
=============================================================================
