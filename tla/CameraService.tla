---------------------------- MODULE CameraService ----------------------------
(***************************************************************************)
(* CameraStreaming implements MediaService.  A stop takes the streamer off *)
(* the list when it begins and is answered when its thread has been joined;*)
(* the medium counts as active until then.                                 *)
(***************************************************************************)
EXTENDS CameraStreaming

BeingStopped == IF call = "stop" /\ mainPc # "idle" THEN {mainCam} ELSE {}

ServingCall ==
    IF mainPc = "idle" THEN [op |-> "none", media |-> None]
    ELSE IF mainPc = "exited" THEN [op |-> "exited", media |-> None]
    ELSE IF call = "shutdown" THEN [op |-> "shutdown", media |-> None]
    ELSE [op |-> call, media |-> mainCam]

Service == INSTANCE MediaService WITH
    Media <- Cameras,
    active <- streamers \union BeingStopped,
    serving <- ServingCall,
    answer <- reply,
    publishing <- {c \in Cameras : pc[c] = "publish"}

\* Every behaviour of the streaming core is one the service allows: no image
\* is published once the stop that ends its stream is answered, a start and a
\* stop are answered true in turn, and the node ends with every stream ended.
ImplementsService == Service!Spec
=============================================================================
