------------------------------- MODULE ImageAge -------------------------------
(***************************************************************************)
(* The age of the images that a camera publishes.                          *)
(*                                                                         *)
(* A stop leaves the capture of a camera set up, and with it the images in *)
(* its ring.  The next stream takes them first, for the ring hands out its *)
(* images in the order in which they came.  Two history variables, which   *)
(* no step of CameraStreaming looks at, tell these images from the         *)
(* stream's own.                                                           *)
(***************************************************************************)
EXTENDS CameraService

CONSTANT Dated  \* the camera whose images are dated, any one of them

ASSUME DatedAssumption == Dated \in Cameras

VARIABLES
    old,   \* how many images in its ring are older than its latest stream
    stale  \* the image its thread has in hand is one of them

ageVars == <<old, stale>>

TakesImage == pc[Dated] = "dequeue" /\ pc'[Dated] # "dequeue" /\ got'[Dated] \in Frames

StreamBegins == mainPc = "switchOn" /\ mainPc' = "spawn" /\ mainCam = Dated

\* Older images leave the ring first, and with the ring.
Ages ==
    /\ old' = IF StreamBegins THEN filled[Dated]
              ELSE IF TakesImage /\ old > 0 THEN old - 1
              ELSE IF filled'[Dated] < old THEN filled'[Dated]
              ELSE old
    /\ stale' = IF TakesImage THEN old > 0 ELSE stale /\ pc'[Dated] # "check"

AgeInit == Init /\ old = 0 /\ stale = FALSE

AgeNext == Next /\ Ages

\* The fairness of CameraStreaming: the history follows every step of it.
AgeSpec == AgeInit /\ [][AgeNext]_<<vars, ageVars>> /\ Fairness

-----------------------------------------------------------------------------
(* Properties.                                                             *)

\* A stream publishes images of its own again and again for as long as it is
\* registered and the node is not told to end: what an earlier stream left in
\* the ring is published first, but runs out.
FreshImages ==
    Dated \in streamers ~>
        \/ pc[Dated] = "publish" /\ ~stale
        \/ Dated \notin streamers \/ call = "shutdown"
=============================================================================
