----------------------- MODULE CameraStreaming_proofs -----------------------
(***************************************************************************)
(* Proofs about CameraStreaming, for any number of cameras of either kind, *)
(* any ring size and any set of driver faults.                             *)
(*                                                                         *)
(* The invariants are proved in layers, each from those before it: types,  *)
(* then what the main thread's step says of the rest of its state, then    *)
(* the threads and their locks, then the rings and the status.             *)
(***************************************************************************)
EXTENDS CameraStreaming, TLAPS

-----------------------------------------------------------------------------
(* Types.                                                                  *)

\* Between two callbacks, and between two cameras of ~MediaManager, the main
\* thread works on none; otherwise on one of them.
Unoccupied == {"idle", "contexts", "streamers", "exited"}

\* A ring has no more images than buffers, without which it could be emptied
\* below zero.
TypeInv ==
    /\ Typed
    /\ mainPc \notin Unoccupied => mainCam \in Cameras
    /\ \A c \in Cameras : filled[c] <= ring[c]

LEMMA TypedInit == Init => TypeInv
BY ConstantsAssumption DEF Init, TypeInv, Typed, Unoccupied, Status, Dc1394, MainSteps, ThreadSteps

LEMMA TypedNext == TypeInv /\ [Next]_vars => TypeInv'
<1> SUFFICES ASSUME TypeInv, [Next]_vars PROVE TypeInv'
    OBVIOUS
<1> USE ConstantsAssumption
    DEF TypeInv, Typed, Unoccupied, Status, Dc1394, MainSteps, ThreadSteps, Set, Idle, Accept, Answer,
        hardwareVars, lockVars, threadVars, mainVars, exitVars
<1>1. CASE Shutdown
    BY <1>1 DEF Shutdown
<1>2. CASE MainStep
    <2>1. CASE StartStreamingMedia
        BY <2>1 DEF StartStreamingMedia, SetStreamingModeOn
    <2>2. CASE SpawnStreamer
        BY <2>2 DEF SpawnStreamer, NewThread
    <2>3. CASE AddMediaStreamer
        BY <2>3 DEF AddMediaStreamer
    <2>4. CASE HaltMedia
        BY <2>4 DEF HaltMedia, AfterHalt
    <2>5. CASE SetStreamingModeOff
        BY <2>5 DEF SetStreamingModeOff, TransferOff, AfterHalt
    <2>6. CASE ResetTimer
        BY <2>6 DEF ResetTimer, AfterHalt
    <2>7. CASE RaiseStopFlag
        BY <2>7 DEF RaiseStopFlag
    <2>8. CASE JoinThread
        BY <2>8 DEF JoinThread
    <2>9. CASE FeatureDone
        BY <2>9 DEF FeatureDone, MustRestart
    <2>10. CASE Close
        BY <2>10 DEF Close
    <2>11. CASE CloseContext
        BY <2>11 DEF CloseContext, FreeDriver, LetGo
    <2>12. CASE Exit
        BY <2>12 DEF Exit
    <2>13. ASSUME NEW c \in Cameras, CloseNextCamera(c) PROVE TypeInv'
        BY <2>13 DEF CloseNextCamera
    <2>14. ASSUME NEW c \in Cameras, DestroyStreamer(c) PROVE TypeInv'
        BY <2>14 DEF DestroyStreamer
    <2>15. CASE CloseLocked
        <3>1. CASE Set(status, mainCam, "CLOSE") /\ ReleaseCapture(mainCam)
            BY <2>15, <3>1 DEF CloseLocked, ReleaseCapture
        <3>2. CASE Set(status, mainCam, "ERROR") /\ UNCHANGED hardwareVars
            BY <2>15, <3>2 DEF CloseLocked
        <3> QED
            BY <2>15, <3>1, <3>2 DEF CloseLocked
    <2> QED
        BY <1>2, <2>1, <2>2, <2>3, <2>4, <2>5, <2>6, <2>7, <2>8, <2>9, <2>10, <2>11, <2>12,
           <2>13, <2>14, <2>15 DEF MainStep
<1>3. ASSUME NEW c \in Cameras, Request(c) PROVE TypeInv'
    <2>1. CASE StartRefused(c)
        BY <2>1 DEF StartRefused
    <2>2. CASE OpenMedia(c)
        <3>1. CASE OpenDone(c)
            <4>1. CASE UNCHANGED hardwareVars
                BY <2>2, <3>1, <4>1 DEF OpenMedia, OpenDone
            <4>2. CASE SetUpCapture(c)
                BY <2>2, <3>1, <4>2 DEF OpenMedia, OpenDone, SetUpCapture
            <4> QED
                BY <3>1, <4>1, <4>2 DEF OpenDone
        <3>2. CASE OpenFailed(c)
            <4>1. CASE UNCHANGED hardwareVars
                BY <2>2, <3>2, <4>1 DEF OpenMedia, OpenFailed
            <4>2. CASE SetUpCapture(c)
                BY <2>2, <3>2, <4>2 DEF OpenMedia, OpenFailed, SetUpCapture
            <4> QED
                BY <3>2, <4>1, <4>2 DEF OpenFailed
        <3> QED
            BY <2>2, <3>1, <3>2 DEF OpenMedia
    <2>3. CASE StopRefused(c)
        BY <2>3 DEF StopRefused
    <2>4. CASE StopStreaming(c)
        BY <2>4 DEF StopStreaming, RemoveMediaStreamer
    <2>5. CASE SetFeature(c)
        BY <2>5 DEF SetFeature, TransferDuringFeature
    <2> QED
        BY <1>3, <2>1, <2>2, <2>3, <2>4, <2>5 DEF Request
<1>4. ASSUME NEW c \in Cameras, ThreadStep(c) PROVE TypeInv'
    <2> USE DEF Step
    <2>1. CASE LoopTest(c)
        BY <2>1 DEF LoopTest
    <2>2. CASE TakeTimer(c)
        BY <2>2 DEF TakeTimer
    <2>3. CASE ReleaseTimer(c)
        BY <2>3 DEF ReleaseTimer
    <2>4. CASE TakeCamera(c)
        BY <2>4 DEF TakeCamera
    <2>5. CASE Dequeue(c)
        <3>1. CASE UNCHANGED <<ring, filled>>
            BY <2>5, <3>1 DEF Dequeue, Frames
        <3>2. CASE /\ filled[c] > 0
                   /\ filled' = [filled EXCEPT ![c] = filled[c] - 1]
                   /\ ring' = [ring EXCEPT ![c] = IF c \in Dc1394 THEN @ - 1 ELSE @]
            <4>1. filled[c] - 1 \in Nat /\ filled' \in [Cameras -> Nat]
                BY <3>2
            <4>2. ring[c] - 1 \in Nat /\ ring' \in [Cameras -> Nat]
                BY <3>2
            <4>3. \A d \in Cameras : filled'[d] <= ring'[d]
                BY <3>2, <4>1, <4>2
            <4> QED
                BY <2>5, <4>1, <4>2, <4>3 DEF Dequeue, Frames
        <3> QED
            BY <2>5, <3>1, <3>2 DEF Dequeue
    <2>6. CASE InspectFrame(c)
        BY <2>6 DEF InspectFrame, AfterInspection, Frames
    <2>7. CASE Enqueue(c)
        BY <2>7 DEF Enqueue, GiveBack
    <2>8. CASE Publish(c)
        BY <2>8 DEF Publish
    <2> QED
        BY <1>4, <2>1, <2>2, <2>3, <2>4, <2>5, <2>6, <2>7, <2>8 DEF ThreadStep
<1>5. ASSUME NEW c \in Cameras, FrameArrives(c) PROVE TypeInv'
    BY <1>5 DEF FrameArrives
<1>6. CASE UNCHANGED vars
    BY <1>6 DEF vars
<1> QED
    BY <1>1, <1>2, <1>3, <1>4, <1>5, <1>6 DEF Next, Terminated

LEMMA TypeInvHolds == Spec => []TypeInv
BY TypedInit, TypedNext, PTL DEF Spec

-----------------------------------------------------------------------------
(* What the main thread's step says of the rest of its state.              *)

\* The broadcast thread and the hardware never touch what the main thread
\* works with.
LEMMA ThreadFrame ==
    ASSUME NEW c \in Cameras, ThreadStep(c) \/ FrameArrives(c)
    PROVE UNCHANGED <<mainPc, mainCam, call, reply, streamers, unclosed, drivers, alive,
                      stopThread, topic, capture, transfer>>
BY DEF ThreadStep, LoopTest, TakeTimer, ReleaseTimer, TakeCamera, Dequeue, InspectFrame, Enqueue,
       GiveBack, Publish, FrameArrives, hardwareVars, lockVars, threadVars, mainVars, exitVars

Control ==
    /\ mainPc = "idle" => call # "shutdown"
    /\ mainPc \in {"switchOn", "spawn", "advertise"} => call = "start" /\ mainCam \notin streamers
    /\ mainPc = "feature" => call = "feature"
    /\ mainPc \in Halting => call \in {"stop", "shutdown"}
    /\ mainPc \in Halting /\ call = "stop" => mainCam \notin streamers
    /\ mainPc \in {"contexts", "close", "closing", "streamers", "exited"} => call = "shutdown"
    /\ call # "shutdown" => alive = Cameras /\ unclosed = Cameras

LEMMA ControlInit == Init => Control
BY DEF Init, Control, Halting

LEMMA ControlNext == TypeInv /\ Control /\ [Next]_vars => Control'
<1> SUFFICES ASSUME TypeInv, Control, [Next]_vars PROVE Control'
    OBVIOUS
<1> USE DEF Control, Halting, Idle, Accept, Answer, mainVars, exitVars
<1>1. CASE Shutdown
    BY <1>1 DEF Shutdown
<1>2. CASE MainStep
    <2>1. CASE StartStreamingMedia
        BY <2>1 DEF StartStreamingMedia, SetStreamingModeOn
    <2>2. CASE SpawnStreamer
        BY <2>2 DEF SpawnStreamer
    <2>3. CASE AddMediaStreamer
        BY <2>3 DEF AddMediaStreamer
    <2>4. CASE HaltMedia
        BY <2>4 DEF HaltMedia, AfterHalt
    <2>5. CASE SetStreamingModeOff
        BY <2>5 DEF SetStreamingModeOff, AfterHalt
    <2>6. CASE ResetTimer
        BY <2>6 DEF ResetTimer, AfterHalt
    <2>7. CASE RaiseStopFlag
        BY <2>7 DEF RaiseStopFlag
    <2>8. CASE JoinThread
        BY <2>8 DEF JoinThread
    <2>9. CASE FeatureDone
        BY <2>9 DEF FeatureDone
    <2>10. CASE Close
        BY <2>10 DEF Close
    <2>11. CASE CloseContext
        BY <2>11 DEF CloseContext, FreeDriver, LetGo
    <2>12. CASE Exit
        BY <2>12 DEF Exit
    <2>13. ASSUME NEW c \in Cameras, CloseNextCamera(c) PROVE Control'
        BY <2>13 DEF CloseNextCamera
    <2>14. ASSUME NEW c \in Cameras, DestroyStreamer(c) PROVE Control'
        BY <2>14 DEF DestroyStreamer
    <2>15. CASE CloseLocked
        BY <2>15 DEF CloseLocked, ReleaseCapture
    <2> QED
        BY <1>2, <2>1, <2>2, <2>3, <2>4, <2>5, <2>6, <2>7, <2>8, <2>9, <2>10, <2>11, <2>12,
           <2>13, <2>14, <2>15 DEF MainStep
<1>3. ASSUME NEW c \in Cameras, Request(c) PROVE Control'
    <2>1. CASE StartRefused(c)
        BY <2>1 DEF StartRefused
    <2>2. CASE OpenMedia(c)
        BY <2>2 DEF OpenMedia, OpenDone, OpenFailed
    <2>3. CASE StopRefused(c)
        BY <2>3 DEF StopRefused
    <2>4. CASE StopStreaming(c)
        BY <2>4 DEF StopStreaming, RemoveMediaStreamer
    <2>5. CASE SetFeature(c)
        BY <2>5 DEF SetFeature
    <2> QED
        BY <1>3, <2>1, <2>2, <2>3, <2>4, <2>5 DEF Request
<1>4. ASSUME NEW c \in Cameras, ThreadStep(c) \/ FrameArrives(c) PROVE Control'
    BY <1>4, ThreadFrame
<1>5. CASE UNCHANGED vars
    BY <1>5 DEF vars
<1> QED
    BY <1>1, <1>2, <1>3, <1>4, <1>5 DEF Next, Terminated

-----------------------------------------------------------------------------
(* The broadcast threads and their mutexes.                                *)

Threads ==
    /\ LockOwnership
    /\ OneThreadPerStreamer
    /\ EndsOnlyWhenJoined
    /\ TopicOutlivesThread
    /\ CameraOutlivesThread

LEMMA ThreadsInit == Init => Threads
BY DEF Init, Threads, LockOwnership, OneThreadPerStreamer, InTransit, Halting,
       EndsOnlyWhenJoined, TopicOutlivesThread, CameraOutlivesThread

LEMMA ThreadsNext == TypeInv /\ Control /\ Threads /\ [Next]_vars => Threads'
<1> SUFFICES ASSUME TypeInv, Control, Threads, [Next]_vars PROVE Threads'
    OBVIOUS
<1> USE DEF TypeInv, Typed, Unoccupied, Control, Threads, LockOwnership, OneThreadPerStreamer,
            InTransit, Halting, EndsOnlyWhenJoined, TopicOutlivesThread, CameraOutlivesThread,
            Set, Idle, Accept, Answer, lockVars, threadVars, mainVars, exitVars
<1>1. CASE Shutdown
    BY <1>1 DEF Shutdown
<1>2. CASE MainStep
    <2>1. CASE StartStreamingMedia
        BY <2>1 DEF StartStreamingMedia, SetStreamingModeOn
    <2>2. CASE SpawnStreamer
        BY <2>2 DEF SpawnStreamer, NewThread
    <2>3. CASE AddMediaStreamer
        BY <2>3 DEF AddMediaStreamer
    <2>4. CASE HaltMedia
        BY <2>4 DEF HaltMedia, AfterHalt
    <2>5. CASE SetStreamingModeOff
        BY <2>5 DEF SetStreamingModeOff, AfterHalt
    <2>6. CASE ResetTimer
        BY <2>6 DEF ResetTimer, AfterHalt
    <2>7. CASE RaiseStopFlag
        BY <2>7 DEF RaiseStopFlag
    <2>8. CASE JoinThread
        BY <2>8 DEF JoinThread, Joinable
    <2>9. CASE FeatureDone
        BY <2>9 DEF FeatureDone
    <2>10. CASE Close
        BY <2>10 DEF Close
    <2>11. CASE CloseContext
        BY <2>11 DEF CloseContext, FreeDriver, LetGo
    <2>12. CASE Exit
        BY <2>12 DEF Exit
    <2>13. ASSUME NEW c \in Cameras, CloseNextCamera(c) PROVE Threads'
        BY <2>13 DEF CloseNextCamera
    <2>14. ASSUME NEW c \in Cameras, DestroyStreamer(c) PROVE Threads'
        BY <2>14 DEF DestroyStreamer
    <2>15. CASE CloseLocked
        BY <2>15 DEF CloseLocked, ReleaseCapture
    <2> QED
        BY <1>2, <2>1, <2>2, <2>3, <2>4, <2>5, <2>6, <2>7, <2>8, <2>9, <2>10, <2>11, <2>12,
           <2>13, <2>14, <2>15 DEF MainStep
<1>3. ASSUME NEW c \in Cameras, Request(c) PROVE Threads'
    <2>1. CASE StartRefused(c)
        BY <2>1 DEF StartRefused
    <2>2. CASE OpenMedia(c)
        BY <2>2 DEF OpenMedia, OpenDone, OpenFailed
    <2>3. CASE StopRefused(c)
        BY <2>3 DEF StopRefused
    <2>4. CASE StopStreaming(c)
        BY <2>4 DEF StopStreaming, RemoveMediaStreamer
    <2>5. CASE SetFeature(c)
        BY <2>5 DEF SetFeature
    <2> QED
        BY <1>3, <2>1, <2>2, <2>3, <2>4, <2>5 DEF Request
<1>4. ASSUME NEW c \in Cameras, ThreadStep(c) PROVE Threads'
    <2> USE ThreadFrame DEF Step
    <2>1. CASE LoopTest(c)
        BY <2>1 DEF LoopTest
    <2>2. CASE TakeTimer(c)
        BY <2>2 DEF TakeTimer
    <2>3. CASE ReleaseTimer(c)
        BY <2>3 DEF ReleaseTimer
    <2>4. CASE TakeCamera(c)
        BY <2>4 DEF TakeCamera
    <2>5. CASE Dequeue(c)
        BY <2>5 DEF Dequeue, Frames
    <2>6. CASE InspectFrame(c)
        BY <2>6 DEF InspectFrame, AfterInspection, Frames
    <2>7. CASE Enqueue(c)
        BY <2>7 DEF Enqueue
    <2>8. CASE Publish(c)
        BY <2>8 DEF Publish
    <2> QED
        BY <1>4, <2>1, <2>2, <2>3, <2>4, <2>5, <2>6, <2>7, <2>8 DEF ThreadStep
<1>5. ASSUME NEW c \in Cameras, FrameArrives(c) PROVE Threads'
    BY <1>5 DEF FrameArrives
<1>6. CASE UNCHANGED vars
    BY <1>6 DEF vars
<1> QED
    BY <1>1, <1>2, <1>3, <1>4, <1>5, <1>6 DEF Next, Terminated

-----------------------------------------------------------------------------
(* The capture rings.                                                      *)

\* A frame in a DC1394 thread's hand is one the ring is short of, so that
\* giving it back never overfills the ring.
Rings ==
    /\ \A c \in Cameras : ring[c] <= Buffers
    /\ \A c \in Cameras : pc[c] = "enqueue" => c \in Dc1394 /\ got[c] \in Frames
    /\ \A c \in Dc1394 : InHand(c) => ring[c] < Buffers

LEMMA RingsInit == Init => Rings
BY ConstantsAssumption DEF Init, Rings, InHand, Dc1394

LEMMA RingsNext == TypeInv /\ Control /\ Threads /\ Rings /\ [Next]_vars => Rings'
<1> SUFFICES ASSUME TypeInv, Control, Threads, Rings, [Next]_vars PROVE Rings'
    OBVIOUS
<1> USE ConstantsAssumption
    DEF TypeInv, Typed, Unoccupied, Control, Threads, OneThreadPerStreamer, InTransit, Halting,
        Rings, InHand, Dc1394, Set, Idle, Accept, Answer, hardwareVars, lockVars, threadVars,
        mainVars, exitVars
<1>1. CASE Shutdown
    BY <1>1 DEF Shutdown
<1>2. CASE MainStep
    <2>1. CASE StartStreamingMedia
        BY <2>1 DEF StartStreamingMedia, SetStreamingModeOn
    <2>2. CASE SpawnStreamer
        BY <2>2 DEF SpawnStreamer, NewThread
    <2>3. CASE AddMediaStreamer
        BY <2>3 DEF AddMediaStreamer
    <2>4. CASE HaltMedia
        BY <2>4 DEF HaltMedia, AfterHalt
    <2>5. CASE SetStreamingModeOff
        BY <2>5 DEF SetStreamingModeOff, AfterHalt
    <2>6. CASE ResetTimer
        BY <2>6 DEF ResetTimer, AfterHalt
    <2>7. CASE RaiseStopFlag
        BY <2>7 DEF RaiseStopFlag
    <2>8. CASE JoinThread
        BY <2>8 DEF JoinThread, Joinable
    <2>9. CASE FeatureDone
        BY <2>9 DEF FeatureDone
    <2>10. CASE Close
        BY <2>10 DEF Close
    <2>11. CASE CloseContext
        BY <2>11 DEF CloseContext, FreeDriver, LetGo
    <2>12. CASE Exit
        BY <2>12 DEF Exit
    <2>13. ASSUME NEW c \in Cameras, CloseNextCamera(c) PROVE Rings'
        BY <2>13 DEF CloseNextCamera
    <2>14. ASSUME NEW c \in Cameras, DestroyStreamer(c) PROVE Rings'
        BY <2>14 DEF DestroyStreamer
    <2>15. CASE CloseLocked
        BY <2>15 DEF CloseLocked, ReleaseCapture
    <2> QED
        BY <1>2, <2>1, <2>2, <2>3, <2>4, <2>5, <2>6, <2>7, <2>8, <2>9, <2>10, <2>11, <2>12,
           <2>13, <2>14, <2>15 DEF MainStep
<1>3. ASSUME NEW c \in Cameras, Request(c) PROVE Rings'
    <2>1. CASE StartRefused(c)
        BY <2>1 DEF StartRefused
    <2>2. CASE OpenMedia(c)
        BY <2>2 DEF OpenMedia, OpenDone, OpenFailed, SetUpCapture
    <2>3. CASE StopRefused(c)
        BY <2>3 DEF StopRefused
    <2>4. CASE StopStreaming(c)
        BY <2>4 DEF StopStreaming, RemoveMediaStreamer
    <2>5. CASE SetFeature(c)
        BY <2>5 DEF SetFeature, TransferDuringFeature
    <2> QED
        BY <1>3, <2>1, <2>2, <2>3, <2>4, <2>5 DEF Request
<1>4. ASSUME NEW c \in Cameras, ThreadStep(c) PROVE Rings'
    <2> USE DEF Step
    <2>1. CASE LoopTest(c)
        BY <2>1 DEF LoopTest
    <2>2. CASE TakeTimer(c)
        BY <2>2 DEF TakeTimer
    <2>3. CASE ReleaseTimer(c)
        BY <2>3 DEF ReleaseTimer
    <2>4. CASE TakeCamera(c)
        BY <2>4 DEF TakeCamera
    <2>5. CASE Dequeue(c)
        BY <2>5 DEF Dequeue, Frames
    <2>6. CASE InspectFrame(c)
        BY <2>6 DEF InspectFrame, AfterInspection, Frames
    <2>7. CASE Enqueue(c)
        BY <2>7 DEF Enqueue, GiveBack
    <2>8. CASE Publish(c)
        BY <2>8 DEF Publish
    <2> QED
        BY <1>4, <2>1, <2>2, <2>3, <2>4, <2>5, <2>6, <2>7, <2>8 DEF ThreadStep
<1>5. ASSUME NEW c \in Cameras, FrameArrives(c) PROVE Rings'
    BY <1>5 DEF FrameArrives
<1>6. CASE UNCHANGED vars
    BY <1>6 DEF vars
<1> QED
    BY <1>1, <1>2, <1>3, <1>4, <1>5, <1>6 DEF Next, Terminated

-----------------------------------------------------------------------------
(* The status and the transfer.                                            *)

\* In ~MediaManager, a camera whose context has passed it by is not marked
\* STREAMING any more, and the drivers go when all cameras have been passed.
Marks ==
    /\ StreamingHasStreamer
    /\ StartPath
    /\ mainPc \in {"timer", "close", "closing", "flag", "join"} => status[mainCam] # "STREAMING"
    /\ call = "shutdown" =>
           \A c \in Cameras \ unclosed :
               status[c] = "STREAMING" => mainCam = c /\ mainPc \in {"halt", "off"}
    /\ "dc1394" \notin drivers => unclosed \intersect Dc1394 = {}
    /\ "gige" \notin drivers => unclosed \intersect Gige = {}

LEMMA MarksInit == Init => Marks
BY DEF Init, Marks, StreamingHasStreamer, StartPath

LEMMA MarksNext == TypeInv /\ Control /\ Threads /\ Marks /\ [Next]_vars => Marks'
<1> SUFFICES ASSUME TypeInv, Control, Threads, Marks, [Next]_vars PROVE Marks'
    OBVIOUS
<1> USE ConstantsAssumption
    DEF TypeInv, Typed, Unoccupied, Control, Threads, OneThreadPerStreamer, InTransit, Halting,
        Marks, StreamingHasStreamer, StartPath, Dc1394, Set, Idle, Accept, Answer,
        mainVars, exitVars, hardwareVars, lockVars, threadVars
<1>1. CASE Shutdown
    BY <1>1 DEF Shutdown
<1>2. CASE MainStep
    <2>1. CASE StartStreamingMedia
        BY <2>1 DEF StartStreamingMedia, SetStreamingModeOn
    <2>2. CASE SpawnStreamer
        BY <2>2 DEF SpawnStreamer, NewThread
    <2>3. CASE AddMediaStreamer
        BY <2>3 DEF AddMediaStreamer
    <2>4. CASE HaltMedia
        BY <2>4 DEF HaltMedia, AfterHalt, IsStreaming
    <2>5. CASE SetStreamingModeOff
        BY <2>5 DEF SetStreamingModeOff, AfterHalt, TransferOff
    <2>6. CASE ResetTimer
        BY <2>6 DEF ResetTimer, AfterHalt
    <2>7. CASE RaiseStopFlag
        BY <2>7 DEF RaiseStopFlag
    <2>8. CASE JoinThread
        BY <2>8 DEF JoinThread, Joinable
    <2>9. CASE FeatureDone
        BY <2>9 DEF FeatureDone
    <2>10. CASE Close
        BY <2>10 DEF Close
    <2>11. CASE CloseContext
        BY <2>11 DEF CloseContext, FreeDriver, LetGo
    <2>12. CASE Exit
        BY <2>12 DEF Exit
    <2>13. ASSUME NEW c \in Cameras, CloseNextCamera(c) PROVE Marks'
        BY <2>13 DEF CloseNextCamera
    <2>14. ASSUME NEW c \in Cameras, DestroyStreamer(c) PROVE Marks'
        BY <2>14 DEF DestroyStreamer
    <2>15. CASE CloseLocked
        BY <2>15 DEF CloseLocked, ReleaseCapture
    <2> QED
        BY <1>2, <2>1, <2>2, <2>3, <2>4, <2>5, <2>6, <2>7, <2>8, <2>9, <2>10, <2>11, <2>12,
           <2>13, <2>14, <2>15 DEF MainStep
<1>3. ASSUME NEW c \in Cameras, Request(c) PROVE Marks'
    <2>1. CASE StartRefused(c)
        BY <2>1 DEF StartRefused
    <2>2. CASE OpenMedia(c)
        BY <2>2 DEF OpenMedia, OpenDone, OpenFailed
    <2>3. CASE StopRefused(c)
        BY <2>3 DEF StopRefused
    <2>4. CASE StopStreaming(c)
        BY <2>4 DEF StopStreaming, RemoveMediaStreamer
    <2>5. CASE SetFeature(c)
        BY <2>5 DEF SetFeature
    <2> QED
        BY <1>3, <2>1, <2>2, <2>3, <2>4, <2>5 DEF Request
<1>4. ASSUME NEW c \in Cameras, ThreadStep(c) PROVE Marks'
    <2> USE ThreadFrame DEF Step
    <2>1. CASE LoopTest(c)
        BY <2>1 DEF LoopTest
    <2>2. CASE TakeTimer(c)
        BY <2>2 DEF TakeTimer
    <2>3. CASE ReleaseTimer(c)
        BY <2>3 DEF ReleaseTimer
    <2>4. CASE TakeCamera(c)
        BY <2>4 DEF TakeCamera
    <2>5. CASE Dequeue(c)
        BY <2>5 DEF Dequeue, Frames
    <2>6. CASE InspectFrame(c)
        BY <2>6 DEF InspectFrame, AfterInspection, Frames
    <2>7. CASE Enqueue(c)
        BY <2>7 DEF Enqueue
    <2>8. CASE Publish(c)
        BY <2>8 DEF Publish
    <2> QED
        BY <1>4, <2>1, <2>2, <2>3, <2>4, <2>5, <2>6, <2>7, <2>8 DEF ThreadStep
<1>5. ASSUME NEW c \in Cameras, FrameArrives(c) PROVE Marks'
    BY <1>5 DEF FrameArrives
<1>6. CASE UNCHANGED vars
    BY <1>6 DEF vars
<1> QED
    BY <1>1, <1>2, <1>3, <1>4, <1>5, <1>6 DEF Next, Terminated

\* Only a GigE setter interrupts a transfer.
TransferKept ==
    Faults \intersect {"unchecked", "restart"} = {} =>
        \A c \in Cameras :
            status[c] = "STREAMING" =>
                transfer[c] \/ (mainPc = "feature" /\ mainCam = c /\ c \in Gige)

LEMMA TransferKeptInit == Init => TransferKept
BY DEF Init, TransferKept

LEMMA TransferKeptNext == TypeInv /\ TransferKept /\ [Next]_vars => TransferKept'
<1> SUFFICES ASSUME TypeInv, TransferKept, [Next]_vars PROVE TransferKept'
    OBVIOUS
<1> USE DEF TypeInv, Typed, Unoccupied, TransferKept, Dc1394, Set, Idle, Accept, Answer,
            mainVars, exitVars, hardwareVars, lockVars, threadVars
<1>1. CASE Shutdown
    BY <1>1 DEF Shutdown
<1>2. CASE MainStep
    <2>1. CASE StartStreamingMedia
        BY <2>1 DEF StartStreamingMedia, SetStreamingModeOn
    <2>2. CASE SpawnStreamer
        BY <2>2 DEF SpawnStreamer, NewThread
    <2>3. CASE AddMediaStreamer
        BY <2>3 DEF AddMediaStreamer
    <2>4. CASE HaltMedia
        BY <2>4 DEF HaltMedia, AfterHalt
    <2>5. CASE SetStreamingModeOff
        BY <2>5 DEF SetStreamingModeOff, AfterHalt, TransferOff
    <2>6. CASE ResetTimer
        BY <2>6 DEF ResetTimer, AfterHalt
    <2>7. CASE RaiseStopFlag
        BY <2>7 DEF RaiseStopFlag
    <2>8. CASE JoinThread
        BY <2>8 DEF JoinThread, Joinable
    <2>9. CASE FeatureDone
        BY <2>9 DEF FeatureDone, MustRestart
    <2>10. CASE Close
        BY <2>10 DEF Close
    <2>11. CASE CloseContext
        BY <2>11 DEF CloseContext, FreeDriver, LetGo
    <2>12. CASE Exit
        BY <2>12 DEF Exit
    <2>13. ASSUME NEW c \in Cameras, CloseNextCamera(c) PROVE TransferKept'
        BY <2>13 DEF CloseNextCamera
    <2>14. ASSUME NEW c \in Cameras, DestroyStreamer(c) PROVE TransferKept'
        BY <2>14 DEF DestroyStreamer
    <2>15. CASE CloseLocked
        BY <2>15 DEF CloseLocked, ReleaseCapture
    <2> QED
        BY <1>2, <2>1, <2>2, <2>3, <2>4, <2>5, <2>6, <2>7, <2>8, <2>9, <2>10, <2>11, <2>12,
           <2>13, <2>14, <2>15 DEF MainStep
<1>3. ASSUME NEW c \in Cameras, Request(c) PROVE TransferKept'
    <2>1. CASE StartRefused(c)
        BY <2>1 DEF StartRefused
    <2>2. CASE OpenMedia(c)
        BY <2>2 DEF OpenMedia, OpenDone, OpenFailed, SetUpCapture
    <2>3. CASE StopRefused(c)
        BY <2>3 DEF StopRefused
    <2>4. CASE StopStreaming(c)
        BY <2>4 DEF StopStreaming, RemoveMediaStreamer
    <2>5. CASE SetFeature(c)
        BY <2>5 DEF SetFeature, TransferDuringFeature
    <2> QED
        BY <1>3, <2>1, <2>2, <2>3, <2>4, <2>5 DEF Request
<1>4. ASSUME NEW c \in Cameras, ThreadStep(c) PROVE TransferKept'
    <2> USE ThreadFrame DEF Step
    <2>1. CASE LoopTest(c)
        BY <2>1 DEF LoopTest
    <2>2. CASE TakeTimer(c)
        BY <2>2 DEF TakeTimer
    <2>3. CASE ReleaseTimer(c)
        BY <2>3 DEF ReleaseTimer
    <2>4. CASE TakeCamera(c)
        BY <2>4 DEF TakeCamera
    <2>5. CASE Dequeue(c)
        BY <2>5 DEF Dequeue, Frames
    <2>6. CASE InspectFrame(c)
        BY <2>6 DEF InspectFrame, AfterInspection, Frames
    <2>7. CASE Enqueue(c)
        BY <2>7 DEF Enqueue
    <2>8. CASE Publish(c)
        BY <2>8 DEF Publish
    <2> QED
        BY <1>4, <2>1, <2>2, <2>3, <2>4, <2>5, <2>6, <2>7, <2>8 DEF ThreadStep
<1>5. ASSUME NEW c \in Cameras, FrameArrives(c) PROVE TransferKept'
    BY <1>5 DEF FrameArrives
<1>6. CASE UNCHANGED vars
    BY <1>6 DEF vars
<1> QED
    BY <1>1, <1>2, <1>3, <1>4, <1>5, <1>6 DEF Next, Terminated

\* What a stop relies on: a camera that has a streamer, or whose stop has not
\* looked at it yet, is STREAMING or ERROR.  So a camera that is not stopped for
\* want of STREAMING is one the thread has marked.
Leftovers ==
    /\ call # "shutdown" => \A c \in streamers : status[c] \in {"STREAMING", "ERROR"}
    /\ mainPc \in {"spawn", "advertise"} \/ (mainPc = "halt" /\ call = "stop") =>
           status[mainCam] \in {"STREAMING", "ERROR"}
    /\ call # "shutdown" =>
           \A c \in Cameras :
               transfer[c] =>
                   \/ c \in streamers
                   \/ status[c] = "ERROR"
                   \/ mainCam = c /\ mainPc \in {"switchOn", "spawn", "advertise", "halt", "off"}

LEMMA LeftoversInit == Init => Leftovers
BY DEF Init, Leftovers

LEMMA LeftoversNext == TypeInv /\ Control /\ Marks /\ Leftovers /\ [Next]_vars => Leftovers'
<1> SUFFICES ASSUME TypeInv, Control, Marks, Leftovers, [Next]_vars PROVE Leftovers'
    OBVIOUS
<1> USE DEF TypeInv, Typed, Unoccupied, Control, Halting, Marks, StreamingHasStreamer, Leftovers,
            Dc1394, Set, Idle, Accept, Answer, mainVars, exitVars, hardwareVars, lockVars,
            threadVars
<1>1. CASE Shutdown
    BY <1>1 DEF Shutdown
<1>2. CASE MainStep
    <2>1. CASE StartStreamingMedia
        BY <2>1 DEF StartStreamingMedia, SetStreamingModeOn
    <2>2. CASE SpawnStreamer
        BY <2>2 DEF SpawnStreamer, NewThread
    <2>3. CASE AddMediaStreamer
        BY <2>3 DEF AddMediaStreamer
    <2>4. CASE HaltMedia
        BY <2>4 DEF HaltMedia, AfterHalt, IsStreaming
    <2>5. CASE SetStreamingModeOff
        BY <2>5 DEF SetStreamingModeOff, AfterHalt, TransferOff
    <2>6. CASE ResetTimer
        BY <2>6 DEF ResetTimer, AfterHalt
    <2>7. CASE RaiseStopFlag
        BY <2>7 DEF RaiseStopFlag
    <2>8. CASE JoinThread
        BY <2>8 DEF JoinThread, Joinable
    <2>9. CASE FeatureDone
        BY <2>9 DEF FeatureDone, MustRestart
    <2>10. CASE Close
        BY <2>10 DEF Close
    <2>11. CASE CloseContext
        BY <2>11 DEF CloseContext, FreeDriver, LetGo
    <2>12. CASE Exit
        BY <2>12 DEF Exit
    <2>13. ASSUME NEW c \in Cameras, CloseNextCamera(c) PROVE Leftovers'
        BY <2>13 DEF CloseNextCamera
    <2>14. ASSUME NEW c \in Cameras, DestroyStreamer(c) PROVE Leftovers'
        BY <2>14 DEF DestroyStreamer
    <2>15. CASE CloseLocked
        BY <2>15 DEF CloseLocked, ReleaseCapture
    <2> QED
        BY <1>2, <2>1, <2>2, <2>3, <2>4, <2>5, <2>6, <2>7, <2>8, <2>9, <2>10, <2>11, <2>12,
           <2>13, <2>14, <2>15 DEF MainStep
<1>3. ASSUME NEW c \in Cameras, Request(c) PROVE Leftovers'
    <2>1. CASE StartRefused(c)
        BY <2>1 DEF StartRefused
    <2>2. CASE OpenMedia(c)
        BY <2>2 DEF OpenMedia, OpenDone, OpenFailed, SetUpCapture
    <2>3. CASE StopRefused(c)
        BY <2>3 DEF StopRefused
    <2>4. CASE StopStreaming(c)
        BY <2>4 DEF StopStreaming, RemoveMediaStreamer
    <2>5. CASE SetFeature(c)
        BY <2>5 DEF SetFeature, TransferDuringFeature
    <2> QED
        BY <1>3, <2>1, <2>2, <2>3, <2>4, <2>5 DEF Request
<1>4. ASSUME NEW c \in Cameras, ThreadStep(c) PROVE Leftovers'
    <2> USE ThreadFrame DEF Step
    <2>1. CASE LoopTest(c)
        BY <2>1 DEF LoopTest
    <2>2. CASE TakeTimer(c)
        BY <2>2 DEF TakeTimer
    <2>3. CASE ReleaseTimer(c)
        BY <2>3 DEF ReleaseTimer
    <2>4. CASE TakeCamera(c)
        BY <2>4 DEF TakeCamera
    <2>5. CASE Dequeue(c)
        BY <2>5 DEF Dequeue, Frames
    <2>6. CASE InspectFrame(c)
        BY <2>6 DEF InspectFrame, AfterInspection, Frames
    <2>7. CASE Enqueue(c)
        BY <2>7 DEF Enqueue
    <2>8. CASE Publish(c)
        BY <2>8 DEF Publish
    <2> QED
        BY <1>4, <2>1, <2>2, <2>3, <2>4, <2>5, <2>6, <2>7, <2>8 DEF ThreadStep
<1>5. ASSUME NEW c \in Cameras, FrameArrives(c) PROVE Leftovers'
    BY <1>5 DEF FrameArrives
<1>6. CASE UNCHANGED vars
    BY <1>6 DEF vars
<1> QED
    BY <1>1, <1>2, <1>3, <1>4, <1>5, <1>6 DEF Next, Terminated

-----------------------------------------------------------------------------
(* The theorems.                                                           *)

Inv == TypeInv /\ Control /\ Threads /\ Rings /\ Marks /\ TransferKept /\ Leftovers

\* The conjunction of the layers is inductive.
THEOREM InvHolds == Spec => []Inv
<1>1. Init => Inv
    BY TypedInit, ControlInit, ThreadsInit, RingsInit, MarksInit, TransferKeptInit,
       LeftoversInit DEF Inv
<1>2. Inv /\ [Next]_vars => Inv'
    BY TypedNext, ControlNext, ThreadsNext, RingsNext, MarksNext, TransferKeptNext,
       LeftoversNext DEF Inv
<1> QED
    BY <1>1, <1>2, PTL DEF Spec

\* Every reachable state is well typed; in particular no sequence of
\* acquisitions, failures, stops and restarts empties a capture ring below
\* zero or fills it beyond its buffers.
THEOREM TypeCorrect == Spec => []TypeOK
<1>1. Inv => TypeOK
    BY DEF Inv, TypeInv, Rings, TypeOK
<1> QED
    BY <1>1, InvHolds, PTL

\* No early return of NextImage or SetStreamingModeOff leaves a mutex locked.
THEOREM LocksOwned == Spec => []LockOwnership
<1>1. Inv => LockOwnership
    BY DEF Inv, Threads
<1> QED
    BY <1>1, InvHolds, PTL

\* Streamers and broadcast threads come and go together.
THEOREM ThreadPerStreamer == Spec => []OneThreadPerStreamer
<1>1. Inv => OneThreadPerStreamer
    BY DEF Inv, Threads
<1> QED
    BY <1>1, InvHolds, PTL

\* A thread has its stop flag up only while the main thread joins it.
THEOREM ThreadsJoined == Spec => []EndsOnlyWhenJoined
<1>1. Inv => EndsOnlyWhenJoined
    BY DEF Inv, Threads
<1> QED
    BY <1>1, InvHolds, PTL

\* A thread that has been given its topic keeps it to the end.
THEOREM TopicsOutlive == Spec => []TopicOutlivesThread
<1>1. Inv => TopicOutlivesThread
    BY DEF Inv, Threads
<1> QED
    BY <1>1, InvHolds, PTL

\* A thread does not outlive its camera.
THEOREM CamerasOutlive == Spec => []CameraOutlivesThread
<1>1. Inv => CameraOutlivesThread
    BY DEF Inv, Threads
<1> QED
    BY <1>1, InvHolds, PTL

\* Only a camera that has a streamer, or is about to be halted, is STREAMING.
THEOREM StreamersOfStreaming == Spec => []StreamingHasStreamer
<1>1. Inv => StreamingHasStreamer
    BY DEF Inv, Marks
<1> QED
    BY <1>1, InvHolds, PTL

\* StartStreaming finds the status that Open left.
THEOREM StartsOpen == Spec => []StartPath
<1>1. Inv => StartPath
    BY DEF Inv, Marks
<1> QED
    BY <1>1, InvHolds, PTL

\* Close finds no camera STREAMING, so that it never locks cam_access_ twice.
THEOREM ClosesUnlocked == Spec => []CloseNeverRelocks
<1>1. Inv => CloseNeverRelocks
    BY DEF Inv, Marks, CloseNeverRelocks
<1> QED
    BY <1>1, InvHolds, PTL

\* STREAMING means that images are sent, if no start of a transfer fails in a way
\* the code does not test: that excludes every failed restart in a setter.
THEOREM TransferOfStreaming == Spec => []StreamingMeansTransfer
<1>1. Inv => StreamingMeansTransfer
    BY DEF Inv, TransferKept, StreamingMeansTransfer
<1> QED
    BY <1>1, InvHolds, PTL

\* However a stop, the thread's marks and a feature call interleave, and
\* whatever the driver does, a camera that goes on sending images when its
\* stream is gone is marked ERROR.
THEOREM LeftoversMarked == Spec => []LeftoverMarked
<1>1. Inv => LeftoverMarked
    BY DEF Inv, Control, Leftovers, LeftoverMarked
<1> QED
    BY <1>1, InvHolds, PTL

-----------------------------------------------------------------------------
(* The rings when frames are converted and enqueued without error.         *)

LEMMA RingKeptNext ==
    ASSUME Faults \intersect {"convert", "enqueue"} = {}
    PROVE TypeInv /\ Control /\ Threads /\ Rings /\ RingKept /\ [Next]_vars => RingKept'
<1> SUFFICES ASSUME TypeInv, Control, Threads, Rings, RingKept, [Next]_vars PROVE RingKept'
    OBVIOUS
<1> USE ConstantsAssumption
    DEF TypeInv, Typed, Unoccupied, Control, Threads, OneThreadPerStreamer, InTransit, Halting,
        Rings, RingKept, InHand, Dc1394, Set, Idle, Accept, Answer, hardwareVars, lockVars,
        threadVars, mainVars, exitVars
<1>1. CASE Shutdown
    BY <1>1 DEF Shutdown
<1>2. CASE MainStep
    <2>1. CASE StartStreamingMedia
        BY <2>1 DEF StartStreamingMedia, SetStreamingModeOn
    <2>2. CASE SpawnStreamer
        BY <2>2 DEF SpawnStreamer, NewThread
    <2>3. CASE AddMediaStreamer
        BY <2>3 DEF AddMediaStreamer
    <2>4. CASE HaltMedia
        BY <2>4 DEF HaltMedia, AfterHalt
    <2>5. CASE SetStreamingModeOff
        BY <2>5 DEF SetStreamingModeOff, AfterHalt
    <2>6. CASE ResetTimer
        BY <2>6 DEF ResetTimer, AfterHalt
    <2>7. CASE RaiseStopFlag
        BY <2>7 DEF RaiseStopFlag
    <2>8. CASE JoinThread
        BY <2>8 DEF JoinThread, Joinable
    <2>9. CASE FeatureDone
        BY <2>9 DEF FeatureDone
    <2>10. CASE Close
        BY <2>10 DEF Close
    <2>11. CASE CloseContext
        BY <2>11 DEF CloseContext, FreeDriver, LetGo
    <2>12. CASE Exit
        BY <2>12 DEF Exit
    <2>13. ASSUME NEW c \in Cameras, CloseNextCamera(c) PROVE RingKept'
        BY <2>13 DEF CloseNextCamera
    <2>14. ASSUME NEW c \in Cameras, DestroyStreamer(c) PROVE RingKept'
        BY <2>14 DEF DestroyStreamer
    <2>15. CASE CloseLocked
        BY <2>15 DEF CloseLocked, ReleaseCapture
    <2> QED
        BY <1>2, <2>1, <2>2, <2>3, <2>4, <2>5, <2>6, <2>7, <2>8, <2>9, <2>10, <2>11, <2>12,
           <2>13, <2>14, <2>15 DEF MainStep
<1>3. ASSUME NEW c \in Cameras, Request(c) PROVE RingKept'
    <2>1. CASE StartRefused(c)
        BY <2>1 DEF StartRefused
    <2>2. CASE OpenMedia(c)
        BY <2>2 DEF OpenMedia, OpenDone, OpenFailed, SetUpCapture
    <2>3. CASE StopRefused(c)
        BY <2>3 DEF StopRefused
    <2>4. CASE StopStreaming(c)
        BY <2>4 DEF StopStreaming, RemoveMediaStreamer
    <2>5. CASE SetFeature(c)
        BY <2>5 DEF SetFeature, TransferDuringFeature
    <2> QED
        BY <1>3, <2>1, <2>2, <2>3, <2>4, <2>5 DEF Request
<1>4. ASSUME NEW c \in Cameras, ThreadStep(c) PROVE RingKept'
    <2> USE DEF Step
    <2>1. CASE LoopTest(c)
        BY <2>1 DEF LoopTest
    <2>2. CASE TakeTimer(c)
        BY <2>2 DEF TakeTimer
    <2>3. CASE ReleaseTimer(c)
        BY <2>3 DEF ReleaseTimer
    <2>4. CASE TakeCamera(c)
        BY <2>4 DEF TakeCamera
    <2>5. CASE Dequeue(c)
        BY <2>5 DEF Dequeue, Frames
    <2>6. CASE InspectFrame(c)
        BY <2>6 DEF InspectFrame, AfterInspection, Frames
    <2>7. CASE Enqueue(c)
        BY <2>7 DEF Enqueue, GiveBack
    <2>8. CASE Publish(c)
        BY <2>8 DEF Publish
    <2> QED
        BY <1>4, <2>1, <2>2, <2>3, <2>4, <2>5, <2>6, <2>7, <2>8 DEF ThreadStep
<1>5. ASSUME NEW c \in Cameras, FrameArrives(c) PROVE RingKept'
    BY <1>5 DEF FrameArrives
<1>6. CASE UNCHANGED vars
    BY <1>6 DEF vars
<1> QED
    BY <1>1, <1>2, <1>3, <1>4, <1>5, <1>6 DEF Next, Terminated

\* A ring loses no buffer unless a conversion or an enqueue fails, whatever
\* else fails and however often the stream is stopped and started.
THEOREM RingsWhole ==
    ASSUME Faults \intersect {"convert", "enqueue"} = {}
    PROVE Spec => []RingKept
<1>1. Init => RingKept
    BY DEF Init, RingKept, InHand, Dc1394
<1>2. Inv /\ RingKept /\ [Next]_vars => RingKept'
    BY RingKeptNext DEF Inv
<1> QED
    BY <1>1, <1>2, InvHolds, PTL DEF Spec
=============================================================================
