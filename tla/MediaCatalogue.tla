---------------------------- MODULE MediaCatalogue ----------------------------
(***************************************************************************)
(* Names, contexts and the media that need no hardware.                    *)
(*                                                                         *)
(* A client names a medium; the last context that claims the name owns it. *)
(* The camera contexts and the webcam context claim what they listed when  *)
(* the node started, the file context every name that looks like a file,   *)
(* listed or not: a file is listed when its first start opens it.  Files   *)
(* and the webcam are streamed by the same MediaStreamer as the cameras,   *)
(* without a mutex and without a status that its thread could mark ERROR.  *)
(*                                                                         *)
(* What a camera does when it is opened, started and stopped is in         *)
(* CameraStreaming; here it only succeeds or fails.                        *)
(***************************************************************************)
EXTENDS Naturals, Sequences

CONSTANTS
    Names,   \* what clients ask for
    Images,  \* names with .jpg, .png or .bmp in them
    Videos,  \* other names, with .avi or .mp4 in them
    Webcam,  \* WEBCAM_NAME
    Dc1394,  \* the names the node was configured with for each kind of camera
    Gige,
    None     \* no medium, no context

ASSUME ConstantsAssumption ==
    /\ Images \union Videos \union Dc1394 \union Gige \union {Webcam} \subseteq Names
    /\ Images \intersect Videos = {}
    /\ Webcam \notin Images \union Videos
    /\ None \notin Names \union {"webcam", "dc1394", "gige", "file"}

\* In the order in which MediaManager makes them.
Contexts == {"webcam", "dc1394", "gige", "file"}
Position == [webcam |-> 1, dc1394 |-> 2, gige |-> 3, file |-> 4]

Files == Images \union Videos
Software == Files \union {Webcam}

VARIABLES
    listed,    \* the media the webcam and camera contexts list
    files,     \* the media_list_ of the file context
    loaded,    \* the software media that hold an image or an opened capture
    status,    \* BaseMedia::status_ of the software media
    atEnd,     \* the videos whose position is behind their last image
    source,    \* the context the streamed medium came from
    streamers, \* the names of MediaManager::media_streamers_
    thread,    \* where the broadcast thread of a name is
    image,     \* the thread of a video holds an image
    stopThread,
    mainPc, mainName, call, reply

catalogueVars == <<listed, files>>
mediaVars == <<loaded, status, atEnd>>
threadVars == <<thread, image, stopThread>>
mainVars == <<mainPc, mainName, call, reply>>
vars == <<catalogueVars, mediaVars, source, streamers, threadVars, mainVars>>

Set(f, n, v) == f' = [f EXCEPT ![n] = v]

-----------------------------------------------------------------------------
(* Who owns a name.                                                        *)

Opened == {files[i] : i \in DOMAIN files}

\* Slip: the file context claims any name.
ClaimsAll(c, n) == c = "file" \/ n \in listed[c]

ContainsMedia(c, n) == IF c = "file" THEN n \in Opened \union Files ELSE n \in listed[c]

Claims(n) == {c \in Contexts : ContainsMedia(c, n)}

GetContextFromMedia(n) ==
    IF Claims(n) = {} THEN None
    ELSE CHOOSE c \in Claims(n) : \A d \in Claims(n) : Position[d] <= Position[c]

\* Slip: the search for the medium ends at the first context that claims it.
FirstMedia(n) ==
    IF Claims(n) = {} THEN None
    ELSE CHOOSE c \in Claims(n) : \A d \in Claims(n) : Position[c] <= Position[d]

\* A search of its own, for the medium: the context it is found in.  There is
\* none if the file context claims the name of a file it has not opened.
GetMedia(n) ==
    IF Claims(n) = {} \/ ("file" \in Claims(n) /\ n \notin Opened) THEN None
    ELSE CHOOSE c \in Claims(n) : \A d \in Claims(n) : Position[d] <= Position[c]

-----------------------------------------------------------------------------
(* The main thread: StartStreaming.                                        *)

Idle == mainPc = "idle"

Accept(op, n, step) ==
    /\ Idle
    /\ call' = op /\ mainName' = n /\ reply' = "none" /\ mainPc' = step

Refuse(op, n) ==
    /\ Idle
    /\ call' = op /\ mainName' = n /\ reply' = "false" /\ UNCHANGED mainPc

\* Slip: the list of streamers is not searched.
NeverStreaming(n) == FALSE

IsMediaStreaming(n) == n \in streamers

StartRefused(n) ==
    /\ IsMediaStreaming(n) \/ GetContextFromMedia(n) \in {None, "dc1394", "gige"}
    /\ Refuse("start", n)
    /\ UNCHANGED <<catalogueVars, mediaVars, source, streamers, threadVars>>

\* Slip: the list is not searched for the file first.
OpenFileAgain(n) ==
    /\ files' = Append(files, n)
    /\ \E read \in BOOLEAN : Set(loaded, n, read)
    /\ Set(status, n, IF n \in Images THEN "OPEN" ELSE "CLOSE")

\* A file that is not listed is read; an image is OPEN even if there was
\* nothing to read, a video is still CLOSE.
OpenFile(n) ==
    IF n \in Opened
    THEN UNCHANGED <<files, loaded, status>>
    ELSE /\ files' = Append(files, n)
         /\ \E read \in BOOLEAN : Set(loaded, n, read)
         /\ Set(status, n, IF n \in Images THEN "OPEN" ELSE "CLOSE")

\* The device is opened once; the webcam is OPEN whether that worked or not.
OpenWebcam ==
    /\ UNCHANGED files
    /\ Set(status, Webcam, "OPEN")
    /\ \/ status[Webcam] # "OPEN" /\ \E found \in BOOLEAN : Set(loaded, Webcam, found)
       \/ status[Webcam] = "OPEN" /\ UNCHANGED loaded

OpenMedia(n) ==
    /\ ~IsMediaStreaming(n)
    /\ Accept("start", n, "switchOn")
    /\ \/ GetContextFromMedia(n) = "file" /\ OpenFile(n)
       \/ GetContextFromMedia(n) = "webcam" /\ OpenWebcam
       \/ GetContextFromMedia(n) \in {"dc1394", "gige"} /\ UNCHANGED <<files, loaded, status>>
    /\ UNCHANGED <<listed, atEnd, source, streamers, threadVars>>

\* A video that is CLOSE tries to be read once more.
LoadVideo(n) ==
    \E read \in BOOLEAN :
        /\ loaded[n] => read
        /\ Set(loaded, n, read)
        /\ Set(status, n, IF read THEN "STREAMING" ELSE "CLOSE")

\* The result is ignored.
StartStreamingMedia ==
    /\ mainPc = "switchOn"
    /\ mainPc' = "spawn"
    /\ Set(source, mainName, GetContextFromMedia(mainName))
    /\ IF source'[mainName] \in {"dc1394", "gige"} THEN UNCHANGED <<loaded, status>>
       ELSE IF status[mainName] = "CLOSE" THEN LoadVideo(mainName)
       ELSE Set(status, mainName, "STREAMING") /\ UNCHANGED loaded
    /\ UNCHANGED <<catalogueVars, atEnd, streamers, threadVars, mainName, call, reply>>

\* MediaStreamer's constructor starts the thread ...
SpawnStreamer ==
    /\ mainPc = "spawn"
    /\ mainPc' = "advertise"
    /\ Set(thread, mainName, "check")
    /\ image' = [n \in Videos |-> n # mainName /\ image[n]]
    /\ Set(stopThread, mainName, FALSE)
    /\ UNCHANGED <<catalogueVars, mediaVars, source, streamers, mainName, call, reply>>

\* ... before the manager has it in its list.
AddMediaStreamer ==
    /\ mainPc = "advertise"
    /\ mainPc' = "idle"
    /\ reply' = "true"
    /\ streamers' = streamers \union {mainName}
    /\ UNCHANGED <<catalogueVars, mediaVars, source, threadVars, mainName, call>>

-----------------------------------------------------------------------------
(* The main thread: StopStreaming.                                         *)

StopRefused(n) ==
    /\ n \notin streamers
    /\ Refuse("stop", n)
    /\ UNCHANGED <<catalogueVars, mediaVars, source, streamers, threadVars>>

\* Slip: nothing is written when the stream ends.
SetStreamingModeOffUnmarked(n) == UNCHANGED status

\* A stopped video is CLOSE, and what it had opened stays open.
SetStreamingModeOff(n) == Set(status, n, IF n \in Videos THEN "CLOSE" ELSE "OPEN")

\* The medium is searched for by its name again, and stopped.
StopStreaming(n) ==
    /\ n \in streamers
    /\ Accept("stop", n, "flag")
    /\ streamers' = streamers \ {n}
    /\ IF GetMedia(n) \in {"file", "webcam"} /\ status[n] = "STREAMING"
       THEN SetStreamingModeOff(n)
       ELSE UNCHANGED status
    /\ UNCHANGED <<catalogueVars, loaded, atEnd, source, threadVars>>

RaiseStopFlag ==
    /\ mainPc = "flag"
    /\ mainPc' = "join"
    /\ Set(stopThread, mainName, TRUE)
    /\ UNCHANGED <<catalogueVars, mediaVars, source, streamers, thread, image, mainName, call, reply>>

JoinThread ==
    /\ mainPc = "join"
    /\ thread[mainName] = "done"
    /\ Set(thread, mainName, "none")
    /\ IF call = "shutdown"
       THEN /\ mainPc' = "streamers"
            /\ streamers' = streamers \ {mainName}
            /\ UNCHANGED reply
       ELSE /\ mainPc' = "idle"
            /\ reply' = "true"
            /\ UNCHANGED streamers
    /\ UNCHANGED <<catalogueVars, mediaVars, source, image, stopThread, mainName, call>>

-----------------------------------------------------------------------------
(* The main thread: ~MediaManager.                                         *)

\* CloseContext of every context: the lists are cleared, but for the webcam's,
\* which is a member.
Shutdown ==
    /\ Accept("shutdown", None, "streamers")
    /\ files' = <<>>
    /\ listed' = [c \in DOMAIN listed |-> IF c = "webcam" THEN listed[c] ELSE {}]
    /\ UNCHANGED <<mediaVars, source, streamers, threadVars>>

DestroyStreamer(n) ==
    /\ mainPc = "streamers"
    /\ n \in streamers
    /\ mainName' = n
    /\ mainPc' = "flag"
    /\ UNCHANGED <<catalogueVars, mediaVars, source, streamers, threadVars, call, reply>>

Exit ==
    /\ mainPc = "streamers" /\ streamers = {}
    /\ mainPc' = "exited"
    /\ UNCHANGED <<catalogueVars, mediaVars, source, streamers, threadVars, mainName,
                   call, reply>>

-----------------------------------------------------------------------------
(* The broadcast thread.                                                   *)

Step(n, from, to) ==
    /\ thread[n] = from
    /\ Set(thread, n, to)
    /\ UNCHANGED <<catalogueVars, mediaVars, source, streamers, image, stopThread, mainVars>>

LoopTest(n) == Step(n, "check", IF stopThread[n] THEN "done" ELSE "next")

\* Slip: a video stays at its end.
ReadVideoOnce(n) ==
    \/ /\ ~atEnd[n]
       /\ \E last \in BOOLEAN : Set(atEnd, n, last)
       /\ Set(image, n, TRUE)
    \/ /\ atEnd[n]
       /\ UNCHANGED <<atEnd, image>>

\* At its end a video rewinds and claims success: the thread then has the image
\* before, if this stream has had one.
ReadVideo(n) ==
    \/ /\ ~atEnd[n]
       /\ \E last \in BOOLEAN : Set(atEnd, n, last)
       /\ Set(image, n, TRUE)
    \/ /\ atEnd[n]
       /\ Set(atEnd, n, FALSE)
       /\ UNCHANGED image

NextVideoImage(n) ==
    /\ thread[n] = "next"
    /\ source[n] = "file" /\ n \in Videos /\ loaded[n]
    /\ ReadVideo(n)
    /\ Set(thread, n, IF image'[n] THEN "publish" ELSE "check")
    /\ UNCHANGED <<catalogueVars, loaded, status, source, streamers, stopThread, mainVars>>

\* What was read of an image file is there every time; a webcam or a camera may
\* have no image.
Delivers(n) == source[n] \in {"file", "webcam"} => loaded[n]

NextImage(n) ==
    \/ /\ Delivers(n)
       /\ source[n] = "file" => n \in Images
       /\ Step(n, "next", "publish")
    \/ /\ source[n] = "file" => ~loaded[n]
       /\ Step(n, "next", "check")

Publish(n) == Step(n, "publish", "check")

-----------------------------------------------------------------------------

\* InitContext lists the configured cameras that answer, and none when the
\* library finds none.
Dc1394Lists == SUBSET Dc1394

GigeLists == SUBSET Gige

\* The webcam is listed if it is active, plugged in or not.
Lists == [webcam : SUBSET {Webcam}, dc1394 : Dc1394Lists, gige : GigeLists]

\* The constructor of the webcam opens the device.
Init ==
    /\ listed \in Lists
    /\ files = <<>>
    /\ \E found \in SUBSET listed["webcam"] :
          /\ loaded = [n \in Software |-> n \in found]
          /\ status = [n \in Software |-> IF n \in found THEN "OPEN" ELSE "CLOSE"]
    /\ atEnd = [n \in Videos |-> FALSE]
    /\ source = [n \in Names |-> None]
    /\ streamers = {}
    /\ thread = [n \in Names |-> "none"]
    /\ image = [n \in Videos |-> FALSE]
    /\ stopThread = [n \in Names |-> FALSE]
    /\ mainPc = "idle" /\ mainName = None /\ call = "none" /\ reply = "none"

Request(n) == StartRefused(n) \/ OpenMedia(n) \/ StopRefused(n) \/ StopStreaming(n)

MainStep ==
    \/ StartStreamingMedia \/ SpawnStreamer \/ AddMediaStreamer
    \/ RaiseStopFlag \/ JoinThread
    \/ Exit \/ \E n \in Names : DestroyStreamer(n)

ThreadStep(n) == LoopTest(n) \/ NextVideoImage(n) \/ NextImage(n) \/ Publish(n)

\* The process is gone.
Terminated == mainPc = "exited" /\ UNCHANGED vars

Next ==
    \/ Shutdown \/ MainStep
    \/ \E n \in Names : Request(n) \/ ThreadStep(n)
    \/ Terminated

Spec == Init /\ [][Next]_vars

\* The threads are scheduled, and nothing that the code of files and of the
\* webcam calls waits for another thread.
Fairness == WF_vars(MainStep) /\ \A n \in Names : WF_vars(ThreadStep(n))

FairSpec == Spec /\ Fairness

-----------------------------------------------------------------------------
(* Properties.                                                             *)

\* Every variable has its type.
TypeOK ==
    /\ listed \in Lists
    /\ files \in Seq(Files)
    /\ loaded \in [Software -> BOOLEAN]
    /\ status \in [Software -> {"OPEN", "STREAMING", "CLOSE"}]
    /\ atEnd \in [Videos -> BOOLEAN]
    /\ source \in [Names -> Contexts \union {None}]
    /\ streamers \subseteq Names
    /\ thread \in [Names -> {"none", "check", "next", "publish", "done"}]
    /\ image \in [Videos -> BOOLEAN]
    /\ stopThread \in [Names -> BOOLEAN]
    /\ mainPc \in {"idle", "switchOn", "spawn", "advertise", "flag", "join", "streamers", "exited"}
    /\ mainName \in Names \union {None}
    /\ call \in {"none", "start", "stop", "shutdown"}
    /\ reply \in {"none", "true", "false"}

\* Until the node ends, the search by name that a stop makes finds a medium,
\* which the code does not check, and it is the one that streams, although
\* several contexts may claim the name and files are listed as they are opened.
StopFindsMedium ==
    call # "shutdown" => \A n \in streamers : GetMedia(n) # None /\ GetMedia(n) = source[n]

InTransit(n) == mainName = n /\ mainPc \in {"spawn", "advertise"}

\* Until the node ends, a file or the webcam is marked STREAMING exactly while
\* a streamer of it exists, but for a video nobody could read.
MarkedWhileStreamed ==
    call # "shutdown" =>
        \A n \in Software :
            status[n] = "STREAMING" <=>
                /\ n \in streamers \/ InTransit(n)
                /\ source[n] \in {"file", "webcam"}
                /\ n \in Videos => loaded[n]

\* A file that could be read is published again and again for as long as it
\* streams, a video from wherever an earlier stream left it, past its end too.
FilesDeliver ==
    \A n \in Files :
        n \in streamers /\ source[n] = "file" /\ loaded[n] ~>
            thread[n] = "publish" \/ n \notin streamers \/ call = "shutdown"

BeingStopped == IF call = "stop" /\ mainPc # "idle" THEN {mainName} ELSE {}

ServingCall ==
    IF mainPc \in {"idle", "exited"}
    THEN [op |-> IF mainPc = "idle" THEN "none" ELSE "exited", media |-> None]
    ELSE [op |-> call, media |-> IF call = "shutdown" THEN None ELSE mainName]

Service == INSTANCE MediaService WITH
    Media <- Names,
    active <- streamers \union BeingStopped,
    serving <- ServingCall,
    answer <- reply,
    publishing <- {n \in Names : thread[n] = "publish"}

\* Media of every context, under names that contexts share, give clients what
\* the service promises.
ImplementsService == Service!Spec
=============================================================================
