--------------------------- MODULE CameraStreaming ---------------------------
(***************************************************************************)
(* The streaming core of provider_vision.                                  *)
(*                                                                         *)
(* One main thread (main.cc) runs every ROS callback in turn: start, stop  *)
(* and feature calls, and at the end the destruction of MediaManager.      *)
(* Every streaming camera has a MediaStreamer, whose BroadcastThread loops *)
(* on NextImage and publishes what it gets.  The two threads of a camera   *)
(* share the camera object: two mutexes (cam_access_, timer_access_), the  *)
(* status_ field, which is written with and without the mutex, and the     *)
(* hardware behind the driver library (image transfer, ring of buffers).   *)
(*                                                                         *)
(* A camera is either a DC1394 (Firewire) or a GigE one; where the two     *)
(* classes differ, the action says so.                                     *)
(***************************************************************************)
EXTENDS Naturals

CONSTANTS
    Cameras,  \* the cameras the contexts found when the node started
    Gige,     \* those of the GigeContext; the others are the DC1394Context's
    Buffers,  \* DMA_BUFFER, the buffers of a camera's capture ring
    Faults,   \* the driver calls that may fail in this model
    None      \* no camera

\* Some the code does not see: "unchecked" is an error of GevInitImageTransfer in
\* Open, or of GevStartImageTransfer in SetStreamingModeOn, that is not one of
\* the two it tests; "restart" is any error of GevStartImageTransfer in a GigE
\* setter.  "empty" is a frame without an image, which no driver call reports.
FaultKinds ==
    {"open", "on", "unchecked", "off", "restart", "dequeue", "empty", "convert", "enqueue", "close"}

ASSUME ConstantsAssumption ==
    /\ Gige \subseteq Cameras
    /\ Buffers \in Nat \ {0}
    /\ Faults \subseteq FaultKinds
    /\ None \notin Cameras

Dc1394 == Cameras \ Gige

VARIABLES
    status,     \* BaseMedia::status_
    camLock,    \* who holds cam_access_: "free", "main" or "thread"
    timerLock,  \* who holds timer_access_
    capture,    \* the device is opened and its capture set up
    transfer,   \* the hardware is sending images
    ring,       \* buffers the driver can fill or has filled
    filled,     \* those that hold an image
    streamers,  \* the cameras of MediaManager::media_streamers_
    pc,         \* where the camera's broadcast thread is
    got,        \* what the driver last handed to that thread
    stopThread, \* MediaStreamer::stop_thread_
    topic,      \* MediaStreamer::image_publisher_
    mainPc,     \* where the main thread is
    mainCam,    \* the camera it works on
    call,       \* the callback it runs, or ran last
    reply,      \* what that start or stop answered
    unclosed,   \* cameras CloseContext has not come to yet
    drivers,    \* the driver libraries not yet freed
    alive       \* the camera objects not yet destroyed

hardwareVars == <<capture, transfer, ring, filled>>
lockVars     == <<camLock, timerLock>>
threadVars   == <<pc, got, stopThread, topic>>
mainVars     == <<mainPc, mainCam, call, reply>>
exitVars     == <<unclosed, drivers, alive>>
vars == <<status, hardwareVars, lockVars, threadVars, mainVars, streamers, exitVars>>

Status == {"OPEN", "STREAMING", "CLOSE", "ERROR"}

MainSteps ==
    {"idle",                          \* between two spinOnce
     "switchOn", "spawn", "advertise", \* StartStreaming
     "halt", "off", "timer",          \* BaseMedia::StopStreaming
     "flag", "join",                  \* ~MediaStreamer
     "feature",                       \* SetFeature
     "contexts", "close", "closing", "streamers", "exited"} \* ~MediaManager

ThreadSteps ==
    {"none", "check",                 \* no thread; the loop test
     "timer1", "nap1", "cam", "dequeue", "timer2", "nap2", "inspect", "enqueue",
     "publish", "done"}

Set(f, c, v) == f' = [f EXCEPT ![c] = v]

-----------------------------------------------------------------------------
(* The main thread: StartStreaming.                                        *)

\* The main loop takes the next callback.
Idle == mainPc = "idle"

Accept(op, c, step) ==
    /\ Idle
    /\ call' = op
    /\ mainCam' = c
    /\ reply' = "none"
    /\ mainPc' = step

Answer(op, c, r) ==
    /\ Idle
    /\ call' = op
    /\ mainCam' = c
    /\ reply' = r
    /\ mainPc' = "idle"

\* The camera already has a streamer.
StartRefused(c) ==
    /\ c \in streamers
    /\ Answer("start", c, "false")
    /\ UNCHANGED <<status, hardwareVars, lockVars, threadVars, streamers, exitVars>>

\* The driver sets the capture up with an empty ring.
SetUpCapture(c) ==
    /\ Set(capture, c, TRUE)
    /\ Set(ring, c, Buffers)
    /\ Set(filled, c, 0)
    /\ UNCHANGED transfer

\* Slip: Open forgets to write the status of a camera it has set up.
OpenDoneUnmarked(c) ==
    /\ Accept("start", c, "switchOn")
    /\ UNCHANGED status
    /\ IF status[c] = "OPEN" THEN UNCHANGED hardwareVars ELSE SetUpCapture(c)

\* Open leaves an opened camera alone, and sets any other one up; GigE does not
\* test whether GevInitImageTransfer did.
OpenDone(c) ==
    /\ Accept("start", c, "switchOn")
    /\ Set(status, c, "OPEN")
    /\ \/ status[c] # "OPEN" /\ SetUpCapture(c)
       \/ status[c] = "OPEN" /\ UNCHANGED hardwareVars
       \/ "unchecked" \in Faults /\ c \in Gige /\ UNCHANGED hardwareVars

\* It may fail, and may always fail on a device that is set up already: the
\* code never closes a camera before it opens it again.  DC1394 then marks the
\* camera, and may have set the capture up all the same; GigE changes nothing.
OpenFailed(c) ==
    /\ Answer("start", c, "false")
    /\ status[c] # "OPEN"
    /\ "open" \in Faults \/ capture[c]
    /\ \/ /\ c \in Gige
          /\ UNCHANGED <<status, hardwareVars>>
       \/ /\ c \in Dc1394
          /\ Set(status, c, "ERROR")
          /\ UNCHANGED hardwareVars \/ SetUpCapture(c)

\* Both take cam_access_.
OpenMedia(c) ==
    /\ c \notin streamers
    /\ camLock[c] = "free"
    /\ OpenDone(c) \/ OpenFailed(c)
    /\ UNCHANGED <<lockVars, threadVars, streamers, exitVars>>

\* It writes the status the hardware answered, GigE even one it did not test.
SetStreamingModeOn(c) ==
    \/ /\ Set(status, c, "STREAMING")
       /\ Set(transfer, c, TRUE)
    \/ /\ "on" \in Faults
       /\ Set(status, c, "ERROR")
       /\ UNCHANGED transfer
    \/ /\ "unchecked" \in Faults /\ c \in Gige
       /\ Set(status, c, "STREAMING")
       /\ UNCHANGED transfer

\* BaseMedia::StartStreaming on the camera Open has just left OPEN (StartPath
\* below).  StartStreaming does not look at the result: a streamer is made
\* whether the hardware started or not.
StartStreamingMedia ==
    /\ mainPc = "switchOn"
    /\ camLock[mainCam] = "free"
    /\ mainPc' = "spawn"
    /\ SetStreamingModeOn(mainCam)
    /\ UNCHANGED <<capture, ring, filled, lockVars, threadVars, mainCam, call, reply,
                   streamers, exitVars>>

\* Slip: the flag that stopped the last thread is not lowered.
NewThreadFlagged(c) ==
    /\ Set(pc, c, "check")
    /\ Set(got, c, "none")
    /\ Set(topic, c, "none")
    /\ UNCHANGED stopThread

\* The members of a new MediaStreamer: the flag is down, the thread runs.
NewThread(c) ==
    /\ Set(pc, c, "check")
    /\ Set(got, c, "none")
    /\ Set(topic, c, "none")
    /\ Set(stopThread, c, FALSE)

\* The constructor's initialiser list starts the thread ...
SpawnStreamer ==
    /\ mainPc = "spawn"
    /\ mainPc' = "advertise"
    /\ NewThread(mainCam)
    /\ UNCHANGED <<status, hardwareVars, lockVars, mainCam, call, reply, streamers, exitVars>>

\* ... and its body advertises the topic the thread publishes on.
AddMediaStreamer ==
    /\ mainPc = "advertise"
    /\ mainPc' = "idle"
    /\ reply' = "true"
    /\ Set(topic, mainCam, "up")
    /\ streamers' = streamers \union {mainCam}
    /\ UNCHANGED <<status, hardwareVars, lockVars, pc, got, stopThread, mainCam, call, exitVars>>

-----------------------------------------------------------------------------
(* The main thread: StopStreaming and the end of a streamer.               *)

StopRefused(c) ==
    /\ c \notin streamers
    /\ Answer("stop", c, "false")
    /\ UNCHANGED <<status, hardwareVars, lockVars, threadVars, streamers, exitVars>>

\* Slip: the streamer stays in the list.
RemoveNothing(c) == UNCHANGED streamers

RemoveMediaStreamer(c) == streamers' = streamers \ {c}

\* The streamer leaves the list; a local pointer keeps it, and its thread,
\* alive until the function returns.
StopStreaming(c) ==
    /\ c \in streamers
    /\ Accept("stop", c, "halt")
    /\ RemoveMediaStreamer(c)
    /\ UNCHANGED <<status, hardwareVars, lockVars, threadVars, exitVars>>

AfterHalt == IF call = "shutdown" THEN "close" ELSE "flag"

\* Slip: CloseContext closes a camera without stopping it.
NeverStreams == FALSE

IsStreaming == status[mainCam] = "STREAMING"

\* BaseMedia::StopStreaming reads the status without the mutex, and leaves the
\* hardware as it is unless it reads STREAMING.
HaltMedia ==
    /\ mainPc = "halt"
    /\ mainPc' = IF IsStreaming THEN "off" ELSE AfterHalt
    /\ UNCHANGED <<status, hardwareVars, lockVars, threadVars, mainCam, call, reply,
                   streamers, exitVars>>

\* Slip: the transfer stops, the status does not follow.
TransferOffUnmarked(c) ==
    /\ Set(transfer, c, FALSE)
    /\ UNCHANGED status

\* Slip: the status says that the transfer stops, and nobody tells the driver.
TransferOffUnsent(c) ==
    /\ Set(status, c, "OPEN")
    /\ UNCHANGED transfer

TransferOff(c) ==
    /\ Set(transfer, c, FALSE)
    /\ Set(status, c, "OPEN")

\* SetStreamingModeOff under cam_access_.  DC1394 goes on to the timer in both
\* outcomes and keeps the mutex; GigE returns at once when the driver fails.
SetStreamingModeOff ==
    /\ mainPc = "off"
    /\ camLock[mainCam] = "free"
    /\ \/ /\ TransferOff(mainCam)
          /\ Set(camLock, mainCam, "main")
          /\ mainPc' = "timer"
       \/ /\ "off" \in Faults /\ mainCam \in Dc1394
          /\ Set(status, mainCam, "ERROR")
          /\ Set(camLock, mainCam, "main")
          /\ mainPc' = "timer"
          /\ UNCHANGED transfer
       \/ /\ "off" \in Faults /\ mainCam \in Gige
          /\ Set(status, mainCam, "ERROR")
          /\ mainPc' = AfterHalt
          /\ UNCHANGED <<transfer, camLock>>
    /\ UNCHANGED <<capture, ring, filled, timerLock, threadVars, mainCam, call, reply,
                   streamers, exitVars>>

\* The second mutex is taken while the first is held.
ResetTimer ==
    /\ mainPc = "timer"
    /\ timerLock[mainCam] = "free"
    /\ Set(camLock, mainCam, "free")
    /\ mainPc' = AfterHalt
    /\ UNCHANGED <<status, hardwareVars, timerLock, threadVars, mainCam, call, reply,
                   streamers, exitVars>>

\* Slip: the publisher is shut down before the thread has been joined.
RaiseStopFlagEarlyShutdown ==
    /\ mainPc = "flag"
    /\ mainPc' = "join"
    /\ Set(stopThread, mainCam, TRUE)
    /\ Set(topic, mainCam, "down")
    /\ UNCHANGED <<status, hardwareVars, lockVars, pc, got, mainCam, call, reply, streamers,
                   exitVars>>

\* ~MediaStreamer, when the last pointer goes.
RaiseStopFlag ==
    /\ mainPc = "flag"
    /\ mainPc' = "join"
    /\ Set(stopThread, mainCam, TRUE)
    /\ UNCHANGED <<status, hardwareVars, lockVars, pc, got, topic, mainCam, call, reply,
                   streamers, exitVars>>

\* Slip: the thread is detached instead of joined.
Detached == TRUE

Joinable == pc[mainCam] = "done"

\* In ~MediaManager the camera, which only the streamer still holds, goes too.
JoinThread ==
    /\ mainPc = "join"
    /\ Joinable
    /\ Set(pc, mainCam, "none")
    /\ Set(topic, mainCam, "down")
    /\ IF call = "shutdown"
       THEN /\ mainPc' = "streamers"
            /\ streamers' = streamers \ {mainCam}
            /\ alive' = alive \ {mainCam}
            /\ UNCHANGED reply
       ELSE /\ mainPc' = "idle"
            /\ reply' = "true"
            /\ UNCHANGED <<streamers, alive>>
    /\ UNCHANGED <<status, hardwareVars, lockVars, got, stopThread, mainCam, call,
                   unclosed, drivers>>

-----------------------------------------------------------------------------
(* The main thread: feature calls and dynamic reconfigure.                 *)

\* Slip: a DC1394 setter stops the transmission as well.
TransferDuringFeatureNone(c) == FALSE

TransferDuringFeature(c) == transfer[c] /\ c \in Dc1394

\* The GigE setters that cannot act on a running transfer stop it first, take no
\* mutex, and do not look whether it stopped.  A camera that was never opened
\* has no node map to ask.
SetFeature(c) ==
    /\ Accept("feature", c, "feature")
    /\ capture[c] \/ c \in Dc1394
    /\ \/ Set(transfer, c, TransferDuringFeature(c))
       \/ "off" \in Faults /\ UNCHANGED transfer
    /\ UNCHANGED <<status, capture, ring, filled, lockVars, threadVars, streamers, exitVars>>

\* Slip: the transfer is never started again.
NoRestart == FALSE

MustRestart == status[mainCam] = "STREAMING"

\* GigE starts the transfer again if the status now reads STREAMING, and looks
\* at no result of it; DC1394 only had to wait for cam_access_.
FeatureDone ==
    /\ mainPc = "feature"
    /\ mainPc' = "idle"
    /\ \/ /\ mainCam \in Gige
          /\ transfer' = [transfer EXCEPT ![mainCam] = @ \/ MustRestart]
       \/ /\ mainCam \in Gige /\ "restart" \in Faults
          /\ UNCHANGED transfer
       \/ /\ mainCam \in Dc1394
          /\ camLock[mainCam] = "free"
          /\ UNCHANGED transfer
    /\ UNCHANGED <<status, capture, ring, filled, lockVars, threadVars, mainCam, call, reply,
                   streamers, exitVars>>

-----------------------------------------------------------------------------
(* The main thread: ~MediaManager.                                         *)

\* ros::ok() turned false.
Shutdown ==
    /\ Accept("shutdown", None, "contexts")
    /\ UNCHANGED <<status, hardwareVars, lockVars, threadVars, streamers, exitVars>>

\* CloseContext, camera by camera, the DC1394 context before the GigE one.
CloseNextCamera(c) ==
    /\ mainPc = "contexts"
    /\ c \in unclosed
    /\ "dc1394" \in drivers => c \in Dc1394
    /\ unclosed' = unclosed \ {c}
    /\ mainCam' = c
    /\ mainPc' = "halt"
    /\ UNCHANGED <<status, hardwareVars, lockVars, threadVars, call, reply, streamers,
                   drivers, alive>>

\* Slip: the images of the ring are not forgotten with it.
ReleaseRingOnly(c) ==
    /\ Set(capture, c, FALSE)
    /\ Set(ring, c, 0)
    /\ UNCHANGED <<filled, transfer>>

ReleaseCapture(c) ==
    /\ Set(capture, c, FALSE)
    /\ Set(ring, c, 0)
    /\ Set(filled, c, 0)
    /\ UNCHANGED transfer

LeftAsItIs ==
    IF mainCam \in Gige THEN status[mainCam] # "OPEN" ELSE status[mainCam] = "CLOSE"

\* Close tests the status before it takes cam_access_.
Close ==
    /\ mainPc = "close"
    /\ mainPc' = IF LeftAsItIs THEN "contexts" ELSE "closing"
    /\ UNCHANGED <<status, hardwareVars, lockVars, threadVars, mainCam, call, reply, streamers,
                   exitVars>>

\* It then closes what the thread may have marked meanwhile.  A camera that
\* reads STREAMING here would stop itself, and so wait for the mutex it holds:
\* it never gets further.
CloseLocked ==
    /\ mainPc = "closing"
    /\ mainPc' = "contexts"
    /\ camLock[mainCam] = "free"
    /\ status[mainCam] # "STREAMING"
    /\ \/ /\ Set(status, mainCam, "CLOSE")
          /\ ReleaseCapture(mainCam)
       \/ /\ "close" \in Faults
          /\ Set(status, mainCam, "ERROR")
          /\ UNCHANGED hardwareVars
    /\ UNCHANGED <<lockVars, threadVars, mainCam, call, reply, streamers, exitVars>>

\* Slip: the streamers do not share in the ownership of their camera.
LetGoOfAll(mine) == alive' = alive \ mine

\* The list lets go of its cameras; those that have a streamer live on.
LetGo(mine) == alive' = alive \ (mine \ streamers)

\* The end of CloseContext: the list is cleared and the library is freed.
FreeDriver(lib, mine) ==
    /\ mainPc = "contexts"
    /\ lib \in drivers
    /\ unclosed \intersect mine = {}
    /\ drivers' = drivers \ {lib}
    /\ LetGo(mine)
    /\ UNCHANGED <<status, hardwareVars, lockVars, threadVars, mainPc, mainCam, call, reply,
                   streamers, unclosed>>

CloseContext ==
    \/ FreeDriver("dc1394", Dc1394)
    \/ "dc1394" \notin drivers /\ FreeDriver("gige", Gige)

\* Then the members go, media_streamers_ among them.
DestroyStreamer(c) ==
    /\ mainPc \in {"contexts", "streamers"}
    /\ drivers = {}
    /\ c \in streamers
    /\ mainCam' = c
    /\ mainPc' = "flag"
    /\ UNCHANGED <<status, hardwareVars, lockVars, threadVars, call, reply, streamers, exitVars>>

Exit ==
    /\ mainPc \in {"contexts", "streamers"}
    /\ drivers = {} /\ streamers = {}
    /\ mainPc' = "exited"
    /\ UNCHANGED <<status, hardwareVars, lockVars, threadVars, mainCam, call, reply, streamers,
                   exitVars>>

-----------------------------------------------------------------------------
(* The broadcast thread of a camera: the loop and NextImage.               *)

Step(c, from, to) == pc[c] = from /\ Set(pc, c, to)

\* Slip: the loop does not look at its flag.
LoopForever(c) ==
    /\ Step(c, "check", "timer1")
    /\ UNCHANGED <<status, hardwareVars, lockVars, got, stopThread, topic, mainVars, streamers,
                   exitVars>>

LoopTest(c) ==
    /\ Step(c, "check", IF stopThread[c] THEN "done" ELSE "timer1")
    /\ UNCHANGED <<status, hardwareVars, lockVars, got, stopThread, topic, mainVars, streamers,
                   exitVars>>

\* It sleeps 3 ms with timer_access_ held, before and after the acquisition.
TakeTimer(c) ==
    /\ Step(c, "timer1", "nap1") \/ Step(c, "timer2", "nap2")
    /\ timerLock[c] = "free"
    /\ Set(timerLock, c, "thread")
    /\ UNCHANGED <<status, hardwareVars, camLock, got, stopThread, topic, mainVars, streamers,
                   exitVars>>

\* Slip: the second timer_access_.unlock() is missing.
ReleaseTimerOnce(c) ==
    /\ \/ Step(c, "nap1", "cam") /\ Set(timerLock, c, "free")
       \/ Step(c, "nap2", "inspect") /\ UNCHANGED timerLock
    /\ UNCHANGED <<status, hardwareVars, camLock, got, stopThread, topic, mainVars, streamers,
                   exitVars>>

ReleaseTimer(c) ==
    /\ Step(c, "nap1", "cam") \/ Step(c, "nap2", "inspect")
    /\ Set(timerLock, c, "free")
    /\ UNCHANGED <<status, hardwareVars, camLock, got, stopThread, topic, mainVars, streamers,
                   exitVars>>

TakeCamera(c) ==
    /\ Step(c, "cam", "dequeue")
    /\ camLock[c] = "free"
    /\ Set(camLock, c, "thread")
    /\ UNCHANGED <<status, hardwareVars, timerLock, got, stopThread, topic, mainVars, streamers,
                   exitVars>>

TimesOut(c) == c \in Gige /\ filled[c] = 0

\* What the driver can hand over: a frame, with an image in it or without.
Frames == {"frame", "empty"}

\* The driver call, made with cam_access_ held.  DC1394 waits for an image for
\* as long as it takes; GigE gives up after a second.  A frame leaves a DC1394
\* ring until it is enqueued again; a GigE ring takes its buffer back.
Dequeue(c) ==
    /\ Step(c, "dequeue", "timer2")
    /\ Set(camLock, c, "free")
    /\ \/ /\ capture[c] /\ filled[c] > 0
          /\ Set(filled, c, filled[c] - 1)
          /\ ring' = [ring EXCEPT ![c] = IF c \in Dc1394 THEN @ - 1 ELSE @]
          /\ Set(got, c, "frame") \/ ("empty" \in Faults /\ Set(got, c, "empty"))
       \/ /\ "dequeue" \in Faults \/ ~capture[c] \/ TimesOut(c)
          /\ Set(got, c, "error")
          /\ UNCHANGED <<ring, filled>>
    /\ UNCHANGED <<status, capture, transfer, timerLock, stopThread, topic, mainVars, streamers,
                   exitVars>>

\* A GigE frame is published, an empty one only logged; a DC1394 frame is given
\* back to its ring first.
AfterInspection(c) ==
    IF c \in Dc1394 THEN "enqueue" ELSE IF got[c] = "empty" THEN "check" ELSE "publish"

\* Slip: an error is logged and not marked.
InspectFrameUnmarked(c) ==
    /\ \/ got[c] \in Frames /\ Step(c, "inspect", AfterInspection(c))
       \/ got[c] = "error" /\ Step(c, "inspect", "check")
    /\ UNCHANGED <<status, hardwareVars, lockVars, got, stopThread, topic, mainVars, streamers,
                   exitVars>>

\* The result is looked at, and an error marked, with no mutex held.  A frame
\* whose conversion throws is not given back to the ring.
InspectFrame(c) ==
    /\ \/ /\ got[c] \in Frames
          /\ Step(c, "inspect", AfterInspection(c))
          /\ UNCHANGED status
       \/ /\ got[c] = "error" \/ "convert" \in Faults
          /\ Step(c, "inspect", "check")
          /\ Set(status, c, "ERROR")
    /\ UNCHANGED <<hardwareVars, lockVars, got, stopThread, topic, mainVars, streamers, exitVars>>

\* Slip: a frame that was converted is not given back either.
GiveBackNothing(c) == UNCHANGED ring

GiveBack(c) == Set(ring, c, ring[c] + 1)

\* An empty frame is given back and not published; nothing is marked.
Enqueue(c) ==
    /\ camLock[c] = "free"
    /\ \/ /\ Step(c, "enqueue", IF got[c] = "empty" THEN "check" ELSE "publish")
          /\ capture[c]
          /\ GiveBack(c)
          /\ UNCHANGED status
       \/ /\ Step(c, "enqueue", "check")
          /\ "enqueue" \in Faults \/ ~capture[c]
          /\ Set(status, c, "ERROR")
          /\ UNCHANGED ring
    /\ UNCHANGED <<capture, transfer, filled, lockVars, got, stopThread, topic, mainVars,
                   streamers, exitVars>>

Publish(c) ==
    /\ Step(c, "publish", "check")
    /\ UNCHANGED <<status, hardwareVars, lockVars, got, stopThread, topic, mainVars, streamers,
                   exitVars>>

\* The camera fills the next buffer; a DC1394 with none left drops the image.
FrameArrives(c) ==
    /\ capture[c] /\ transfer[c]
    /\ filled[c] < ring[c]
    /\ Set(filled, c, filled[c] + 1)
    /\ UNCHANGED <<status, capture, transfer, ring, lockVars, threadVars, mainVars, streamers,
                   exitVars>>

-----------------------------------------------------------------------------

\* The contexts have run: the GigE context has tried to open its cameras, the
\* DC1394 context has only listed its own.
Init ==
    /\ capture \in [Cameras -> BOOLEAN]
    /\ \A c \in Dc1394 : ~capture[c]
    /\ status \in [Cameras -> {"OPEN", "CLOSE"}]
    /\ \A c \in Cameras : capture[c] => status[c] = "OPEN"
    /\ \A c \in Cameras :
          status[c] = "OPEN" => capture[c] \/ (c \in Gige /\ "unchecked" \in Faults)
    /\ ring = [c \in Cameras |-> IF capture[c] THEN Buffers ELSE 0]
    /\ filled = [c \in Cameras |-> 0]
    /\ transfer = [c \in Cameras |-> FALSE]
    /\ camLock = [c \in Cameras |-> "free"]
    /\ timerLock = [c \in Cameras |-> "free"]
    /\ streamers = {}
    /\ pc = [c \in Cameras |-> "none"]
    /\ got = [c \in Cameras |-> "none"]
    /\ stopThread = [c \in Cameras |-> FALSE]
    /\ topic = [c \in Cameras |-> "none"]
    /\ mainPc = "idle" /\ mainCam = None /\ call = "none" /\ reply = "none"
    /\ unclosed = Cameras
    /\ drivers = {"dc1394", "gige"}
    /\ alive = Cameras

\* What a client may ask for.
Request(c) ==
    \/ StartRefused(c) \/ OpenMedia(c)
    \/ StopRefused(c) \/ StopStreaming(c)
    \/ SetFeature(c)

\* What the main thread does by itself once it has taken a callback.
MainStep ==
    \/ StartStreamingMedia \/ SpawnStreamer \/ AddMediaStreamer
    \/ HaltMedia \/ SetStreamingModeOff \/ ResetTimer \/ RaiseStopFlag \/ JoinThread
    \/ FeatureDone
    \/ Close \/ CloseLocked \/ CloseContext \/ Exit
    \/ \E c \in Cameras : CloseNextCamera(c) \/ DestroyStreamer(c)

ThreadStep(c) ==
    \/ LoopTest(c) \/ TakeTimer(c) \/ ReleaseTimer(c) \/ TakeCamera(c)
    \/ Dequeue(c) \/ InspectFrame(c) \/ Enqueue(c) \/ Publish(c)

\* The process is gone.
Terminated == mainPc = "exited" /\ UNCHANGED vars

Next ==
    \/ Shutdown
    \/ MainStep
    \/ \E c \in Cameras : Request(c) \/ ThreadStep(c) \/ FrameArrives(c)
    \/ Terminated

Spec == Init /\ [][Next]_vars

(* A thread that wants a mutex gets it once it is free often enough: the    *)
(* broadcast thread sleeps 3 ms twice per image with cam_access_ free, the  *)
(* main thread 20 ms between two callbacks.  A camera that transmits sends  *)
(* images.  Clients owe nothing, and no driver call has to fail.            *)
Fairness ==
    /\ SF_vars(MainStep)
    /\ \A c \in Cameras : SF_vars(ThreadStep(c)) /\ WF_vars(FrameArrives(c))

FairSpec == Spec /\ Fairness

-----------------------------------------------------------------------------
(* Properties.                                                             *)

Typed ==
    /\ status \in [Cameras -> Status]
    /\ camLock \in [Cameras -> {"free", "main", "thread"}]
    /\ timerLock \in [Cameras -> {"free", "thread"}]
    /\ capture \in [Cameras -> BOOLEAN]
    /\ transfer \in [Cameras -> BOOLEAN]
    /\ ring \in [Cameras -> Nat]
    /\ filled \in [Cameras -> Nat]
    /\ streamers \subseteq Cameras
    /\ pc \in [Cameras -> ThreadSteps]
    /\ got \in [Cameras -> {"none", "error"} \union Frames]
    /\ stopThread \in [Cameras -> BOOLEAN]
    /\ topic \in [Cameras -> {"none", "up", "down"}]
    /\ mainPc \in MainSteps
    /\ mainCam \in Cameras \union {None}
    /\ call \in {"none", "start", "stop", "feature", "shutdown"}
    /\ reply \in {"none", "true", "false"}
    /\ unclosed \subseteq Cameras
    /\ drivers \subseteq {"dc1394", "gige"}
    /\ alive \subseteq Cameras

\* Every variable has its type; a ring never holds more than its buffers, nor
\* more images than buffers.
TypeOK ==
    /\ Typed
    /\ \A c \in Cameras : filled[c] <= ring[c] /\ ring[c] <= Buffers

Halting == {"halt", "off", "timer", "flag", "join"}

\* The main thread holds a streamer of c that the list does not: it has just
\* made it, or it is taking it down.
InTransit(c) ==
    /\ mainCam = c
    /\ mainPc = "advertise" \/ (call = "stop" /\ mainPc \in Halting)

\* Each mutex is held exactly where the code is between lock and unlock, on
\* every path: the early returns of SetStreamingModeOff release it too, and no
\* thread ends, and no callback returns, with a mutex held.
LockOwnership ==
    \A c \in Cameras :
        /\ camLock[c] = "thread" <=> pc[c] = "dequeue"
        /\ camLock[c] = "main" <=> mainPc = "timer" /\ mainCam = c
        /\ timerLock[c] = "thread" <=> pc[c] \in {"nap1", "nap2"}

\* A camera has a broadcast thread exactly while a streamer of it exists, in
\* the list or in the hands of the main thread: the local pointer of
\* StopStreaming leaks no thread, and a start never meets the thread of an
\* earlier stream.
OneThreadPerStreamer ==
    \A c \in Cameras : pc[c] # "none" <=> c \in streamers \/ InTransit(c)

\* A thread ends only when the main thread is waiting for it, so the stop flag
\* of an earlier stream never reaches the next one.
EndsOnlyWhenJoined ==
    \A c \in Cameras :
        pc[c] # "none" /\ stopThread[c] => mainPc = "join" /\ mainCam = c

\* A thread has its topic for as long as it lives, but for the moment between
\* the two halves of the constructor: the publisher is shut down only after
\* the join.
TopicOutlivesThread ==
    \A c \in Cameras :
        pc[c] # "none" => topic[c] = "up" \/ (mainPc = "advertise" /\ mainCam = c)

\* A broadcast thread never outlives its camera, whichever way the context and
\* the streamer let go of it.
CameraOutlivesThread == \A c \in Cameras : pc[c] # "none" => c \in alive

\* A camera is marked STREAMING only while a streamer of it is being made,
\* runs, or has yet to be halted, whatever the thread writes meanwhile.
StreamingHasStreamer ==
    \A c \in Cameras :
        status[c] = "STREAMING" =>
            \/ c \in streamers
            \/ mainCam = c /\ mainPc \in {"spawn", "advertise", "halt", "off"}

\* StartStreaming finds the camera OPEN, as Open left it: nobody touches it
\* between the two calls.
StartPath == mainPc = "switchOn" => status[mainCam] = "OPEN"

\* Close never finds the camera STREAMING: if it did, a DC1394 camera would
\* lock cam_access_ twice and the node would never end.
CloseNeverRelocks == mainPc \in {"close", "closing"} => status[mainCam] # "STREAMING"

\* A camera marked STREAMING sends images, unless a feature call has it
\* stopped, provided no start of its transfer fails in a way the code does not
\* test.  The setters test no result of the restart, so there that is any failure.
StreamingMeansTransfer ==
    Faults \intersect {"unchecked", "restart"} = {} =>
        \A c \in Cameras :
            status[c] = "STREAMING" => transfer[c] \/ (mainPc = "feature" /\ mainCam = c)

\* The thread holds a frame the ring is short of.
InHand(c) == got[c] \in Frames /\ pc[c] \in {"timer2", "nap2", "inspect", "enqueue"}

\* No buffer of a capture ring is ever lost.
RingKept ==
    \A c \in Cameras :
        capture[c] => ring[c] = IF c \in Dc1394 /\ InHand(c) THEN Buffers - 1 ELSE Buffers

\* While no stream of a camera exists or is being made or stopped, its
\* hardware sends nothing.
StopStopsTransfer == mainPc = "idle" => \A c \in Cameras : transfer[c] => c \in streamers

\* Images that go on after their stream has ended come from a camera marked
\* ERROR: the thread marks it with no mutex while the main thread stops it, and
\* whatever the two do, no such camera is left OPEN.
LeftoverMarked ==
    mainPc = "idle" => \A c \in Cameras : transfer[c] => c \in streamers \/ status[c] = "ERROR"

\* A feature call on a camera that streams leaves it sending images.
FeatureKeepsTransfer ==
    mainPc = "idle" /\ call = "feature" /\ mainCam \in streamers => transfer[mainCam]

\* Every callback returns, and the node ends once it is told to.
CallsReturn == mainPc # "idle" ~> mainPc \in {"idle", "exited"}

\* A stop returns: the thread it waits for sees the flag and stops.
StopReturns == mainPc = "join" ~> mainPc # "join"

\* A GigE stream that publishes nothing is marked ERROR within the time limit
\* of its wait, whatever fails and whichever locks the main thread takes, unless
\* what it is handed are frames without an image: NextImage only logs these.
SilenceMarked ==
    \A c \in Gige :
        c \in streamers ~>
            \/ pc[c] = "publish" \/ status[c] = "ERROR" \/ got[c] = "empty"
            \/ c \notin streamers \/ call = "shutdown"
=============================================================================
