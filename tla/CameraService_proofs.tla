------------------------ MODULE CameraService_proofs ------------------------
(***************************************************************************)
(* The streaming core implements the abstract service: every initial state *)
(* maps to an initial state of MediaService, every step to a step of it or *)
(* to a stutter.                                                           *)
(***************************************************************************)
EXTENDS CameraService, CameraStreaming_proofs

LEMMA ServiceInit == Init => Service!Init
BY DEF Init, Service!Init, Service!Idle, BeingStopped, ServingCall

\* A thread publishes only while its stream is active or being started.
LEMMA OnlyAudible ==
    ASSUME Inv, NEW c \in Cameras, pc[c] # "none"
    PROVE c \in Service!Audible
BY DEF Inv, TypeInv, Typed, Unoccupied, Control, Threads, OneThreadPerStreamer, InTransit, Halting,
       Service!Audible, BeingStopped, ServingCall

LEMMA ServiceNext == Inv /\ [Next]_vars => [Service!Next]_(Service!vars)
<1> SUFFICES ASSUME Inv, [Next]_vars PROVE [Service!Next]_(Service!vars)
    OBVIOUS
<1> USE ConstantsAssumption
    DEF Inv, TypeInv, Typed, Unoccupied, Control, BeingStopped, ServingCall,
        Service!vars, Service!Idle, Service!Serve, Service!Ended, Idle, Accept, Answer, Set, Halting,
        hardwareVars, lockVars, threadVars, mainVars, exitVars
<1>1. CASE Shutdown
    <2>1. Service!Shutdown
        BY <1>1 DEF Shutdown, Service!Shutdown
    <2> QED
        BY <2>1 DEF Service!Next
<1>2. CASE MainStep
    <2>1. CASE StartStreamingMedia
        BY <2>1 DEF StartStreamingMedia, SetStreamingModeOn
    <2>2. CASE SpawnStreamer
        <3>1. UNCHANGED {c \in Cameras : pc[c] = "publish"}
            BY <2>2 DEF SpawnStreamer, NewThread, Threads, OneThreadPerStreamer, InTransit
        <3> QED
            BY <2>2, <3>1 DEF SpawnStreamer
    <2>3. CASE AddMediaStreamer
        <3>1. Service!Started(mainCam)
            BY <2>3 DEF AddMediaStreamer, Service!Started
        <3> QED
            BY <2>3, <3>1 DEF AddMediaStreamer, Service!Next
    <2>4. CASE HaltMedia
        BY <2>4 DEF HaltMedia, AfterHalt
    <2>5. CASE SetStreamingModeOff
        BY <2>5 DEF SetStreamingModeOff, AfterHalt
    <2>6. CASE ResetTimer
        BY <2>6 DEF ResetTimer, AfterHalt
    <2>7. CASE RaiseStopFlag
        BY <2>7 DEF RaiseStopFlag
    <2>8. CASE JoinThread
        <3>1. UNCHANGED {c \in Cameras : pc[c] = "publish"} /\ mainCam \in Cameras
            BY <2>8 DEF JoinThread, Joinable
        <3>2. pc[mainCam] = "done"
            BY <2>8 DEF JoinThread, Joinable
        <3>3. CASE call = "shutdown"
            <4>1. mainCam \in streamers
                BY <2>8, <3>1, <3>2, <3>3
                   DEF JoinThread, Threads, OneThreadPerStreamer, InTransit
            <4>2. Service!EndStream(mainCam)
                BY <2>8, <3>1, <3>2, <3>3, <4>1 DEF JoinThread, Service!EndStream
            <4> QED
                BY <3>1, <4>2 DEF Service!Next
        <3>4. CASE call # "shutdown"
            <4>1. Service!Stopped(mainCam)
                BY <2>8, <3>1, <3>2, <3>4 DEF JoinThread, Service!Stopped
            <4> QED
                BY <3>1, <4>1 DEF Service!Next
        <3> QED
            BY <3>3, <3>4
    <2>9. CASE FeatureDone
        <3>1. Service!FeatureSet(mainCam)
            BY <2>9 DEF FeatureDone, Service!FeatureSet
        <3> QED
            BY <2>9, <3>1 DEF FeatureDone, Service!Next
    <2>10. CASE Close
        BY <2>10 DEF Close
    <2>11. CASE CloseContext
        BY <2>11 DEF CloseContext, FreeDriver
    <2>12. CASE Exit
        <3>1. Service!End
            BY <2>12 DEF Exit, Service!End
        <3> QED
            BY <3>1 DEF Service!Next
    <2>13. ASSUME NEW c \in Cameras, CloseNextCamera(c) PROVE UNCHANGED Service!vars
        BY <2>13 DEF CloseNextCamera
    <2>14. ASSUME NEW c \in Cameras, DestroyStreamer(c) PROVE UNCHANGED Service!vars
        BY <2>14 DEF DestroyStreamer
    <2>15. CASE CloseLocked
        BY <2>15 DEF CloseLocked
    <2> QED
        BY <1>2, <2>1, <2>2, <2>3, <2>4, <2>5, <2>6, <2>7, <2>8, <2>9, <2>10, <2>11, <2>12,
           <2>13, <2>14, <2>15 DEF MainStep
<1>3. ASSUME NEW c \in Cameras, Request(c) PROVE [Service!Next]_(Service!vars)
    <2>1. CASE StartRefused(c)
        <3>1. Service!Refuse(c)
            BY <2>1 DEF StartRefused, Service!Refuse
        <3> QED
            BY <3>1 DEF Service!Next
    <2>2. CASE OpenMedia(c)
        <3>1. CASE OpenDone(c)
            <4>1. Service!Begin("start", c)
                BY <2>2, <3>1 DEF OpenMedia, OpenDone, Service!Begin
            <4> QED
                BY <4>1 DEF Service!Next
        <3>2. CASE OpenFailed(c)
            <4>1. Service!Refuse(c)
                BY <2>2, <3>2 DEF OpenMedia, OpenFailed, Service!Refuse
            <4> QED
                BY <4>1 DEF Service!Next
        <3> QED
            BY <2>2, <3>1, <3>2 DEF OpenMedia
    <2>3. CASE StopRefused(c)
        <3>1. Service!Refuse(c)
            BY <2>3 DEF StopRefused, Service!Refuse
        <3> QED
            BY <3>1 DEF Service!Next
    <2>4. CASE StopStreaming(c)
        <3>1. Service!Begin("stop", c)
            BY <2>4 DEF StopStreaming, RemoveMediaStreamer, Service!Begin
        <3> QED
            BY <3>1 DEF Service!Next
    <2>5. CASE SetFeature(c)
        <3>1. Service!Begin("feature", c)
            BY <2>5 DEF SetFeature, Service!Begin
        <3> QED
            BY <3>1 DEF Service!Next
    <2> QED
        BY <1>3, <2>1, <2>2, <2>3, <2>4, <2>5 DEF Request
<1>4. ASSUME NEW c \in Cameras, ThreadStep(c) PROVE [Service!Next]_(Service!vars)
    <2>1. UNCHANGED <<mainPc, mainCam, call, reply, streamers>>
        BY <1>4, ThreadFrame
    <2>2. c \in Service!Audible \/ pc[c] = "none"
        BY OnlyAudible
    <2>3. pc[c] # "none" /\ pc' = [pc EXCEPT ![c] = pc'[c]]
        BY <1>4 DEF ThreadStep, Step, LoopTest, TakeTimer, ReleaseTimer, TakeCamera, Dequeue,
                    InspectFrame, Enqueue, Publish
    <2>4. CASE pc'[c] = "publish"
        <3>1. {d \in Cameras : pc'[d] = "publish"}
                  = {d \in Cameras : pc[d] = "publish"} \union {c}
            BY <2>3, <2>4
        <3>2. Service!PublishBegins(c)
            BY <2>1, <2>2, <2>3, <3>1 DEF Service!PublishBegins
        <3> QED
            BY <3>2 DEF Service!Next
    <2>5. CASE pc'[c] # "publish"
        <3>1. {d \in Cameras : pc'[d] = "publish"}
                  = {d \in Cameras : pc[d] = "publish"} \ {c}
            BY <2>3, <2>5
        <3>2. Service!PublishEnds(c)
            BY <2>1, <3>1 DEF Service!PublishEnds
        <3> QED
            BY <3>2 DEF Service!Next
    <2> QED
        BY <2>4, <2>5
<1>5. ASSUME NEW c \in Cameras, FrameArrives(c) PROVE UNCHANGED Service!vars
    BY <1>5 DEF FrameArrives
<1>6. CASE UNCHANGED vars
    BY <1>6 DEF vars
<1> QED
    BY <1>1, <1>2, <1>3, <1>4, <1>5, <1>6 DEF Next, Terminated

\* Whatever the hardware does, clients and subscribers see what MediaService
\* allows, for any number of cameras.
THEOREM Implements == Spec => ImplementsService
BY ServiceInit, ServiceNext, InvHolds, PTL DEF Spec, ImplementsService, Service!Spec

-----------------------------------------------------------------------------
(* What the service promises, passed on to the cameras.                    *)

Promise == INSTANCE MediaService_proofs WITH
    Media <- Cameras,
    active <- streamers \union BeingStopped,
    serving <- ServingCall,
    answer <- reply,
    publishing <- {c \in Cameras : pc[c] = "publish"}

\* The theorems of MediaService_proofs are about the service that is implemented.
LEMMA SameService == Service!Spec => Promise!Spec
<1>1. Service!Init => Promise!Init
    BY DEF Service!Init, Promise!Init, Service!Idle, Promise!Idle
<1>2. Service!Next => Promise!Next
    BY DEF Service!Next, Service!Refuse, Service!Begin, Service!Started, Service!Stopped,
           Service!FeatureSet, Service!Shutdown, Service!EndStream, Service!End,
           Service!PublishBegins, Service!PublishEnds, Service!Idle, Service!Ended,
           Service!Serve, Service!Audible,
           Promise!Next, Promise!Refuse, Promise!Begin, Promise!Started, Promise!Stopped,
           Promise!FeatureSet, Promise!Shutdown, Promise!EndStream, Promise!End,
           Promise!PublishBegins, Promise!PublishEnds, Promise!Idle, Promise!Ended,
           Promise!Serve, Promise!Audible
<1>3. [Service!Next]_(Service!vars) => [Promise!Next]_(Promise!vars)
    BY <1>2 DEF Service!vars, Promise!vars
<1> QED
    BY <1>1, <1>3, PTL DEF Service!Spec, Promise!Spec

\* When ~MediaManager has run, no thread is left that publishes, and none is
\* registered.
THEOREM SilentExit ==
    Spec => [](mainPc = "exited" => streamers = {} /\ \A c \in Cameras : pc[c] # "publish")
<1>1. Promise!Spec => []Promise!EndsSilent
    BY Promise!SilentEnd
<1>2. Promise!EndsSilent =>
          (mainPc = "exited" => streamers = {} /\ \A c \in Cameras : pc[c] # "publish")
    BY DEF Promise!EndsSilent, Promise!Ended, ServingCall
<1> QED
    BY Implements, SameService, <1>1, <1>2, PTL DEF ImplementsService
=============================================================================
