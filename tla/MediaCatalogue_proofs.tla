----------------------- MODULE MediaCatalogue_proofs -----------------------
(***************************************************************************)
(* Proofs about MediaCatalogue, for any names and any contexts that claim  *)
(* them.                                                                   *)
(*                                                                         *)
(* First what the two searches by name find, then the invariants in layers *)
(* (types, the main thread's steps, where a streamed medium came from, its *)
(* status, its thread), then the abstract service.                         *)
(***************************************************************************)
EXTENDS MediaCatalogue, TLAPS

-----------------------------------------------------------------------------
(* The searches by name.                                                   *)

LEMMA OpenedFiles == ASSUME TypeOK PROVE Opened \subseteq Files
BY DEF TypeOK, Opened

\* The owner of a name is the last context that claims it.
LEMMA OwnerIsLast ==
    ASSUME NEW n
    PROVE IF Claims(n) = {} THEN GetContextFromMedia(n) = None
          ELSE /\ GetContextFromMedia(n) \in Claims(n)
               /\ \A d \in Claims(n) : Position[d] <= Position[GetContextFromMedia(n)]
<1> CASE Claims(n) = {}
    BY DEF GetContextFromMedia
<1> CASE Claims(n) # {}
    <2>1. Claims(n) \subseteq Contexts
        BY DEF Claims
    <2>2. \E c \in Claims(n) : \A d \in Claims(n) : Position[d] <= Position[c]
        BY <2>1 DEF Contexts, Position
    <2> QED
        BY <2>2 DEF GetContextFromMedia
<1> QED
    OBVIOUS

\* The owner of a file is the file context, whatever else claims its name.
LEMMA Owner ==
    ASSUME TypeOK, NEW n
    PROVE /\ GetContextFromMedia(n) \in Contexts \union {None}
          /\ GetContextFromMedia(n) = "file" <=> n \in Files
          /\ GetContextFromMedia(n) = "webcam" => n = Webcam
          /\ GetContextFromMedia(n) = None <=> Claims(n) = {}
<1>1. "file" \in Claims(n) <=> n \in Files
    BY OpenedFiles DEF Claims, Contexts, ContainsMedia
<1>2. "webcam" \in Claims(n) => n = Webcam
    BY DEF TypeOK, Lists, Claims, ContainsMedia
<1>3. Claims(n) \subseteq Contexts /\ None \notin Contexts
    BY ConstantsAssumption DEF Claims, Contexts
<1>4. \A c \in Contexts : Position["file"] <= Position[c] => c = "file"
    BY DEF Contexts, Position
<1>5. CASE Claims(n) = {}
    BY <1>1, <1>3, <1>5, OwnerIsLast DEF Contexts
<1>6. CASE Claims(n) # {}
    <2>1. GetContextFromMedia(n) \in Claims(n)
        BY <1>6, OwnerIsLast
    <2>2. "file" \in Claims(n) => Position["file"] <= Position[GetContextFromMedia(n)]
        BY <1>6, OwnerIsLast
    <2> QED
        BY <1>1, <1>2, <1>3, <1>4, <1>6, <2>1, <2>2
<1> QED
    BY <1>5, <1>6

\* The search for the medium agrees with the search for its context, but for a
\* file that is not open yet.
LEMMA SearchesAgree ==
    ASSUME TypeOK, NEW n
    PROVE GetMedia(n) = IF n \in Files /\ n \notin Opened THEN None ELSE GetContextFromMedia(n)
<1>1. "file" \in Claims(n) <=> n \in Files
    BY OpenedFiles DEF Claims, Contexts, ContainsMedia
<1> QED
    BY <1>1 DEF GetMedia, GetContextFromMedia

\* No call but the end of the node changes who owns a name.
LEMMA OwnerStays ==
    ASSUME TypeOK, TypeOK', listed' = listed, NEW n
    PROVE GetContextFromMedia(n)' = GetContextFromMedia(n)
<1>1. Opened \subseteq Files /\ Opened' \subseteq Files
    BY DEF TypeOK, Opened
<1>2. Claims(n)' = Claims(n)
    BY <1>1 DEF Claims, ContainsMedia
<1> QED
    BY <1>2 DEF GetContextFromMedia

LEMMA OpenedGrows ==
    ASSUME NEW n, TypeOK, files' = Append(files, n) PROVE Opened' = Opened \union {n}
<1>1. DOMAIN files' = DOMAIN files \union {Len(files) + 1}
    BY DEF TypeOK
<1>2. /\ \A i \in DOMAIN files : files'[i] = files[i]
      /\ files'[Len(files) + 1] = n
    BY DEF TypeOK
<1> QED
    BY <1>1, <1>2 DEF Opened

-----------------------------------------------------------------------------
(* Types.                                                                  *)

Unoccupied == {"idle", "streamers", "exited"}

TypeInv == TypeOK /\ (mainPc \notin Unoccupied => mainName \in Names)

LEMMA TypeInit == Init => TypeInv
<1> SUFFICES ASSUME Init PROVE TypeInv
    OBVIOUS
<1>1. Names \subseteq Names \union {None} /\ files \in Seq(Files)
    BY DEF Init
<1>2. loaded \in [Software -> BOOLEAN] /\ status \in [Software -> {"OPEN", "STREAMING", "CLOSE"}]
    BY DEF Init
<1> QED
    BY <1>1, <1>2 DEF Init, TypeInv, TypeOK, Unoccupied

LEMMA TypeNext == TypeInv /\ [Next]_vars => TypeInv'
<1> SUFFICES ASSUME TypeInv, [Next]_vars PROVE TypeInv'
    OBVIOUS
<1> USE DEF TypeInv, TypeOK, Unoccupied, Set, Idle, Accept, Refuse,
            catalogueVars, mediaVars, threadVars, mainVars
<1>1. CASE Shutdown
    <2>1. listed' \in Lists
        BY <1>1 DEF Shutdown, Lists, Dc1394Lists, GigeLists
    <2>2. files' \in Seq(Files)
        BY <1>1 DEF Shutdown
    <2> QED
        BY <1>1, <2>1, <2>2 DEF Shutdown
<1>2. CASE MainStep
    <2>1. CASE StartStreamingMedia
        <3>1. source' \in [Names -> Contexts \union {None}]
            BY <2>1, Owner DEF StartStreamingMedia
        <3>2. loaded' \in [Software -> BOOLEAN] /\ status' \in [Software -> {"OPEN", "STREAMING", "CLOSE"}]
            BY <2>1 DEF StartStreamingMedia, LoadVideo
        <3> QED
            BY <2>1, <3>1, <3>2 DEF StartStreamingMedia
    <2>2. CASE SpawnStreamer
        BY <2>2 DEF SpawnStreamer
    <2>3. CASE AddMediaStreamer
        BY <2>3 DEF AddMediaStreamer
    <2>4. CASE RaiseStopFlag
        BY <2>4 DEF RaiseStopFlag
    <2>5. CASE JoinThread
        BY <2>5 DEF JoinThread
    <2>6. CASE Exit
        BY <2>6 DEF Exit
    <2>7. ASSUME NEW n \in Names, DestroyStreamer(n) PROVE TypeInv'
        BY <2>7 DEF DestroyStreamer
    <2> QED
        BY <1>2, <2>1, <2>2, <2>3, <2>4, <2>5, <2>6, <2>7 DEF MainStep
<1>3. ASSUME NEW n \in Names, Request(n) PROVE TypeInv'
    <2>1. CASE StartRefused(n)
        BY <2>1 DEF StartRefused
    <2>2. CASE OpenMedia(n)
        <3>1. CASE GetContextFromMedia(n) = "file" /\ OpenFile(n)
            <4>1. n \in Files
                BY <3>1, Owner
            <4>2. files' \in Seq(Files)
                <5>1. files' = files \/ files' = Append(files, n)
                    BY <3>1 DEF OpenFile
                <5>2. files \in Seq(Files)
                    OBVIOUS
                <5> QED
                    BY ONLY <4>1, <5>1, <5>2
            <4>3. loaded' \in [Software -> BOOLEAN] /\ status' \in [Software -> {"OPEN", "STREAMING", "CLOSE"}]
                BY <3>1, <4>1 DEF OpenFile
            <4> QED
                BY <2>2, <4>2, <4>3 DEF OpenMedia
        <3>2. CASE OpenWebcam
            BY <2>2, <3>2 DEF OpenMedia, OpenWebcam
        <3>3. CASE UNCHANGED <<files, loaded, status>>
            BY <2>2, <3>3 DEF OpenMedia
        <3> QED
            BY <2>2, <3>1, <3>2, <3>3 DEF OpenMedia
    <2>3. CASE StopRefused(n)
        BY <2>3 DEF StopRefused
    <2>4. CASE StopStreaming(n)
        BY <2>4 DEF StopStreaming, SetStreamingModeOff
    <2> QED
        BY <1>3, <2>1, <2>2, <2>3, <2>4 DEF Request
<1>4. ASSUME NEW n \in Names, ThreadStep(n) PROVE TypeInv'
    <2> USE DEF Step
    <2>1. CASE LoopTest(n)
        BY <2>1 DEF LoopTest
    <2>2. CASE NextVideoImage(n)
        BY <2>2 DEF NextVideoImage, ReadVideo
    <2>3. CASE NextImage(n)
        BY <2>3 DEF NextImage
    <2>4. CASE Publish(n)
        BY <2>4 DEF Publish
    <2> QED
        BY <1>4, <2>1, <2>2, <2>3, <2>4 DEF ThreadStep
<1>5. CASE UNCHANGED vars
    BY <1>5 DEF vars
<1> QED
    BY <1>1, <1>2, <1>3, <1>4, <1>5 DEF Next, Terminated

-----------------------------------------------------------------------------
(* The steps of the main thread.                                           *)

\* Before ~MediaManager, a name that is being started or stopped is not in the
\* list; in it, the streamer being destroyed still is.
Control ==
    /\ mainPc = "idle" => call # "shutdown"
    /\ mainPc \in {"switchOn", "spawn", "advertise"} => call = "start" /\ mainName \notin streamers
    /\ mainPc \in {"flag", "join"} =>
          /\ call \in {"stop", "shutdown"}
          /\ mainName \in streamers <=> call = "shutdown"
    /\ mainPc \in {"streamers", "exited"} => call = "shutdown"

LEMMA ControlInit == Init => Control
BY DEF Init, Control

LEMMA ControlNext == TypeInv /\ Control /\ [Next]_vars => Control'
<1> SUFFICES ASSUME TypeInv, Control, [Next]_vars PROVE Control'
    OBVIOUS
<1> USE DEF Control, Idle, Accept, Refuse, IsMediaStreaming, mainVars
<1>1. CASE Shutdown
    BY <1>1 DEF Shutdown
<1>2. CASE MainStep
    BY <1>2 DEF MainStep, StartStreamingMedia, SpawnStreamer, AddMediaStreamer, RaiseStopFlag,
                JoinThread, DestroyStreamer, Exit
<1>3. ASSUME NEW n \in Names, Request(n) PROVE Control'
    BY <1>3 DEF Request, StartRefused, OpenMedia, StopRefused, StopStreaming
<1>4. ASSUME NEW n \in Names, ThreadStep(n) PROVE Control'
    BY <1>4 DEF ThreadStep, Step, LoopTest, NextVideoImage, NextImage, Publish
<1>5. CASE UNCHANGED vars
    BY <1>5 DEF vars
<1> QED
    BY <1>1, <1>2, <1>3, <1>4, <1>5 DEF Next, Terminated

-----------------------------------------------------------------------------
(* Where media come from.                                                  *)

Streamed(n) == n \in streamers \/ InTransit(n)

\* The owner of the name has the medium: GetMedia will find it.
Found(n) == GetContextFromMedia(n) # None /\ (n \in Files => n \in Opened)

Sources ==
    call # "shutdown" =>
        /\ \A n \in Names : Streamed(n) => Found(n) /\ source[n] = GetContextFromMedia(n)
        /\ mainPc = "switchOn" => Found(mainName)

\* A medium that was found stays found: the catalogue only grows.
LEMMA FoundStays ==
    ASSUME TypeOK, TypeOK', listed' = listed, Opened \subseteq Opened', NEW n, Found(n)
    PROVE Found(n)' /\ GetContextFromMedia(n)' = GetContextFromMedia(n)
BY OwnerStays DEF Found

\* A start that is not refused finds its medium, in a file context that now
\* lists at most one file more.
LEMMA OpenMediaFinds ==
    ASSUME TypeOK, TypeOK', NEW n, OpenMedia(n)
    PROVE /\ Found(n)'
          /\ GetContextFromMedia(n)' = GetContextFromMedia(n)
          /\ Opened \subseteq Opened' /\ Opened' \subseteq Opened \union {n}
<1>1. GetContextFromMedia(n)' = GetContextFromMedia(n)
    BY OwnerStays DEF OpenMedia
<1>2. GetContextFromMedia(n) # None
    BY ConstantsAssumption DEF OpenMedia
<1>3. CASE GetContextFromMedia(n) = "file"
    <2>1. OpenFile(n)
        BY <1>3 DEF OpenMedia
    <2> QED
        BY <1>1, <1>2, <2>1, OpenedGrows DEF OpenFile, Found, Opened
<1>4. CASE GetContextFromMedia(n) # "file"
    <2>1. UNCHANGED files /\ n \notin Files
        BY <1>4, Owner DEF OpenMedia, OpenWebcam
    <2> QED
        BY <1>1, <1>2, <2>1 DEF Found, Opened
<1> QED
    BY <1>3, <1>4

LEMMA SourcesInit == Init => Sources
BY DEF Init, Sources, Streamed, InTransit

LEMMA SourcesNext == TypeInv /\ TypeInv' /\ Control /\ Sources /\ [Next]_vars => Sources'
<1> SUFFICES ASSUME TypeInv, TypeInv', Control, Sources, [Next]_vars, call' # "shutdown"
             PROVE Sources'
    BY DEF Sources
<1>a. TypeOK /\ TypeOK'
    BY DEF TypeInv
<1>b. ASSUME listed' = listed, files' = files, NEW n \in Names, Found(n)
      PROVE Found(n)' /\ GetContextFromMedia(n)' = GetContextFromMedia(n)
    BY <1>a, <1>b, FoundStays DEF Opened
<1> USE DEF Control, Sources, Streamed, InTransit, Idle, Accept, Refuse,
            catalogueVars, mediaVars, threadVars, mainVars
<1>1. CASE Shutdown
    BY <1>1 DEF Shutdown
<1>2. CASE MainStep
    <2>1. CASE StartStreamingMedia
        <3>1. source' = [source EXCEPT ![mainName] = GetContextFromMedia(mainName)]
            BY <2>1 DEF StartStreamingMedia, Set
        <3>2. mainName \in Names /\ source \in [Names -> Contexts \union {None}]
            BY <2>1 DEF StartStreamingMedia, TypeInv, TypeOK, Unoccupied
        <3> QED
            BY <1>b, <2>1, <3>1, <3>2 DEF StartStreamingMedia
    <2>2. CASE SpawnStreamer
        BY <1>b, <2>2 DEF SpawnStreamer
    <2>3. CASE AddMediaStreamer
        BY <1>b, <2>3 DEF AddMediaStreamer
    <2>4. CASE RaiseStopFlag
        BY <1>b, <2>4 DEF RaiseStopFlag
    <2>5. CASE JoinThread
        BY <1>b, <2>5 DEF JoinThread
    <2>6. CASE Exit
        BY <2>6 DEF Exit
    <2>7. ASSUME NEW n \in Names, DestroyStreamer(n) PROVE Sources'
        BY <2>7 DEF DestroyStreamer
    <2> QED
        BY <1>2, <2>1, <2>2, <2>3, <2>4, <2>5, <2>6, <2>7 DEF MainStep
<1>3. ASSUME NEW n \in Names, Request(n) PROVE Sources'
    <2>1. CASE StartRefused(n)
        BY <1>b, <2>1 DEF StartRefused
    <2>2. CASE OpenMedia(n)
        <3>1. Found(n)' /\ Opened \subseteq Opened' /\ listed' = listed
            BY <1>a, <2>2, OpenMediaFinds DEF OpenMedia
        <3>2. \A m \in Names : Found(m) => Found(m)' /\ GetContextFromMedia(m)' = GetContextFromMedia(m)
            BY <1>a, <3>1, FoundStays
        <3> QED
            BY <2>2, <3>1, <3>2 DEF OpenMedia
    <2>3. CASE StopRefused(n)
        BY <1>b, <2>3 DEF StopRefused
    <2>4. CASE StopStreaming(n)
        BY <1>b, <2>4 DEF StopStreaming
    <2> QED
        BY <1>3, <2>1, <2>2, <2>3, <2>4 DEF Request
<1>4. ASSUME NEW n \in Names, ThreadStep(n) PROVE Sources'
    BY <1>b, <1>4 DEF ThreadStep, Step, LoopTest, NextVideoImage, NextImage, Publish, TypeInv, Unoccupied
<1>5. CASE UNCHANGED vars
    BY <1>b, <1>5 DEF vars, TypeInv, Unoccupied
<1> QED
    BY <1>1, <1>2, <1>3, <1>4, <1>5 DEF Next, Terminated

-----------------------------------------------------------------------------
(* What is marked.                                                         *)

\* A start marks what is OPEN and reads what is CLOSE; an image that was opened
\* and an open webcam are never CLOSE, a video is never OPEN.
Marks ==
    call # "shutdown" =>
        /\ \A v \in Videos : status[v] # "OPEN"
        /\ \A n \in Images \intersect Opened : status[n] # "CLOSE"
        /\ mainPc = "switchOn" /\ GetContextFromMedia(mainName) = "webcam" => status[Webcam] = "OPEN"

LEMMA MarksInit == Init => Marks /\ MarkedWhileStreamed
<1> SUFFICES ASSUME Init PROVE Marks /\ MarkedWhileStreamed
    OBVIOUS
<1>1. PICK found \in SUBSET listed["webcam"] :
          status = [n \in Software |-> IF n \in found THEN "OPEN" ELSE "CLOSE"]
    BY DEF Init
<1>2. Webcam \notin Files /\ found \subseteq {Webcam}
    BY ConstantsAssumption DEF Init, Lists, Files
<1>3. Opened = {}
    BY DEF Init, Opened
<1> QED
    BY <1>1, <1>2, <1>3 DEF Init, Marks, MarkedWhileStreamed, InTransit, Software, Files

\* The medium a streamer owns is the one a stop finds.
LEMMA StopFinds ==
    ASSUME TypeInv, Sources, call # "shutdown", NEW n \in streamers
    PROVE GetMedia(n) # None /\ GetMedia(n) = source[n]
BY SearchesAgree DEF Sources, Streamed, Found, TypeInv, TypeOK

LEMMA MarksNext ==
    TypeInv /\ TypeInv' /\ Control /\ Sources /\ Marks /\ MarkedWhileStreamed /\ [Next]_vars
        => Marks' /\ MarkedWhileStreamed'
<1> SUFFICES ASSUME TypeInv, TypeInv', Control, Sources, Marks, MarkedWhileStreamed, [Next]_vars,
                    call' # "shutdown"
             PROVE Marks' /\ MarkedWhileStreamed'
    BY DEF Marks, MarkedWhileStreamed
<1>a. TypeOK /\ TypeOK' /\ Webcam \notin Files /\ Images \intersect Videos = {}
    BY ConstantsAssumption DEF TypeInv, Files
<1>b. status \in [Software -> {"OPEN", "STREAMING", "CLOSE"}] /\ loaded \in [Software -> BOOLEAN]
    BY <1>a DEF TypeOK
<1>c. source \in [Names -> Contexts \union {None}] /\ streamers \subseteq Names /\ Software \subseteq Names
    BY <1>a, ConstantsAssumption DEF TypeOK, Software, Files
<1>d. mainPc \in {"switchOn", "spawn", "advertise", "flag", "join"} => mainName \in Names
    BY DEF TypeInv, TypeOK, Unoccupied
<1>e. files' = files => Opened' = Opened
    BY DEF Opened
\* What neither opens nor marks a medium, nor adds or removes a streamer.
<1>f. ASSUME UNCHANGED <<status, loaded, source, files>>, call # "shutdown", mainPc' # "switchOn",
             \A n \in Names : Streamed(n)' <=> Streamed(n)
      PROVE Marks' /\ MarkedWhileStreamed'
    BY <1>c, <1>e, <1>f DEF Marks, MarkedWhileStreamed, Streamed, InTransit
<1> USE DEF Control, Streamed, InTransit, Idle, Accept, Refuse, Set, IsMediaStreaming,
            catalogueVars, mediaVars, threadVars, mainVars
<1>1. CASE Shutdown
    BY <1>1 DEF Shutdown
<1>2. CASE MainStep
    <2>1. CASE StartStreamingMedia
        <3> DEFINE n == mainName
        <3>1. /\ n \in Names /\ n \notin streamers /\ call # "shutdown" /\ mainPc = "switchOn"
              /\ Opened' = Opened /\ mainPc' = "spawn" /\ UNCHANGED <<streamers, mainName>>
              /\ source' = [source EXCEPT ![n] = GetContextFromMedia(n)]
              /\ Found(n)
            BY <1>d, <1>e, <2>1 DEF StartStreamingMedia, Sources
        <3>2. /\ GetContextFromMedia(n) \in Contexts
              /\ GetContextFromMedia(n) = "file" <=> n \in Files
              /\ GetContextFromMedia(n) = "webcam" => n = Webcam
              /\ n \in Files => n \in Opened
            BY <1>a, <3>1, Owner DEF Found
        <3>3. n \in Software => status[n] # "STREAMING"
            BY <3>1 DEF MarkedWhileStreamed
        <3>4. CASE GetContextFromMedia(n) \in {"dc1394", "gige"}
            <4>1. UNCHANGED <<loaded, status>>
                BY <1>c, <2>1, <3>1, <3>4 DEF StartStreamingMedia
            <4> QED
                BY <1>c, <3>1, <3>3, <3>4, <4>1 DEF Marks, MarkedWhileStreamed
        <3>5. CASE n \in Videos
            <4>1. status[n] = "CLOSE"
                BY <1>b, <3>1, <3>3, <3>5 DEF Marks, Software, Files
            <4>2. LoadVideo(n)
                BY <1>c, <2>1, <3>1, <3>2, <3>5, <4>1 DEF StartStreamingMedia, Files
            <4>3. PICK read \in BOOLEAN :
                      /\ loaded' = [loaded EXCEPT ![n] = read]
                      /\ status' = [status EXCEPT ![n] = IF read THEN "STREAMING" ELSE "CLOSE"]
                BY <4>2 DEF LoadVideo
            <4> QED
                BY <1>a, <1>b, <1>c, <3>1, <3>2, <3>5, <4>3 DEF Marks, MarkedWhileStreamed, Software, Files
        <3>6. CASE n \in Images \union {Webcam} /\ GetContextFromMedia(n) \in {"file", "webcam"}
            <4>1. status[n] = "OPEN"
                BY <1>a, <1>b, <3>1, <3>2, <3>3, <3>6 DEF Marks, Software, Files
            <4>2. status' = [status EXCEPT ![n] = "STREAMING"] /\ loaded' = loaded
                BY <1>c, <2>1, <3>1, <3>6, <4>1 DEF StartStreamingMedia
            <4> QED
                BY <1>a, <1>b, <1>c, <3>1, <3>2, <3>6, <4>2 DEF Marks, MarkedWhileStreamed, Software, Files
        <3> QED
            BY <3>2, <3>4, <3>5, <3>6 DEF Contexts, Files
    <2>2. CASE SpawnStreamer
        BY <1>f, <2>2 DEF SpawnStreamer
    <2>3. CASE AddMediaStreamer
        BY <1>f, <2>3 DEF AddMediaStreamer
    <2>4. CASE RaiseStopFlag
        BY <1>f, <2>4 DEF RaiseStopFlag
    <2>5. CASE JoinThread
        BY <1>f, <2>5 DEF JoinThread
    <2>6. CASE Exit
        BY <2>6 DEF Exit
    <2>7. ASSUME NEW n \in Names, DestroyStreamer(n) PROVE Marks' /\ MarkedWhileStreamed'
        BY <2>7 DEF DestroyStreamer
    <2> QED
        BY <1>2, <2>1, <2>2, <2>3, <2>4, <2>5, <2>6, <2>7 DEF MainStep
<1>3. ASSUME NEW n \in Names, Request(n) PROVE Marks' /\ MarkedWhileStreamed'
    <2>1. CASE StartRefused(n)
        BY <1>f, <2>1 DEF StartRefused
    <2>2. CASE OpenMedia(n)
        <3>1. /\ n \notin streamers /\ call # "shutdown" /\ mainPc = "idle" /\ mainPc' = "switchOn"
              /\ mainName' = n /\ UNCHANGED <<listed, source, streamers>>
            BY <2>2 DEF OpenMedia
        <3>2. /\ GetContextFromMedia(n)' = GetContextFromMedia(n)
              /\ Opened' \subseteq Opened \union {n}
            BY <1>a, <2>2, OpenMediaFinds
        <3>3. /\ GetContextFromMedia(n) = "file" <=> n \in Files
              /\ GetContextFromMedia(n) = "webcam" => n = Webcam
            BY <1>a, Owner
        <3>4. \A m \in Software : status[m] = "STREAMING" => m \in streamers
            BY <3>1 DEF MarkedWhileStreamed
        <3>5. CASE n \in Files
            <4>1. OpenFile(n)
                BY <2>2, <3>3, <3>5 DEF OpenMedia
            <4>2. CASE n \in Opened
                <5>1. UNCHANGED <<loaded, status>> /\ Opened' = Opened
                    BY <1>e, <4>1, <4>2 DEF OpenFile
                <5> QED
                    BY <3>1, <3>2, <3>3, <3>5, <5>1 DEF Marks, MarkedWhileStreamed
            <4>3. CASE n \notin Opened
                <5>1. PICK read \in BOOLEAN :
                          /\ loaded' = [loaded EXCEPT ![n] = read]
                          /\ status' = [status EXCEPT ![n] = IF n \in Images THEN "OPEN" ELSE "CLOSE"]
                    BY <4>1, <4>3 DEF OpenFile
                <5> QED
                    BY <1>a, <1>b, <3>1, <3>2, <3>3, <3>4, <3>5, <5>1
                       DEF Marks, MarkedWhileStreamed, Software, Files
            <4> QED
                BY <4>2, <4>3
        <3>6. CASE n \notin Files /\ GetContextFromMedia(n) = "webcam"
            <4>1. OpenWebcam /\ n = Webcam
                BY <2>2, <3>3, <3>6 DEF OpenMedia
            <4>2. status' = [status EXCEPT ![Webcam] = "OPEN"] /\ Opened' = Opened
                BY <1>e, <4>1 DEF OpenWebcam
            <4>3. \A m \in Software : m # Webcam => loaded'[m] = loaded[m]
                BY <1>b, <4>1 DEF OpenWebcam
            <4> QED
                BY <1>a, <1>b, <3>1, <3>2, <3>4, <4>1, <4>2, <4>3
                   DEF Marks, MarkedWhileStreamed, Software, Files
        <3>7. CASE n \notin Files /\ GetContextFromMedia(n) # "webcam"
            <4>1. UNCHANGED <<files, loaded, status>> /\ Opened' = Opened
                BY <1>e, <2>2, <3>3, <3>7 DEF OpenMedia
            <4> QED
                BY <3>1, <3>2, <3>7, <4>1 DEF Marks, MarkedWhileStreamed
        <3> QED
            BY <3>5, <3>6, <3>7
    <2>3. CASE StopRefused(n)
        BY <1>f, <2>3 DEF StopRefused
    <2>4. CASE StopStreaming(n)
        <3>1. /\ n \in streamers /\ call # "shutdown" /\ mainPc = "idle" /\ mainPc' = "flag"
              /\ mainName' = n /\ UNCHANGED <<files, loaded, source>> /\ streamers' = streamers \ {n}
            BY <2>4 DEF StopStreaming
        <3>2. GetMedia(n) = source[n] /\ Opened' = Opened
            BY <1>e, <3>1, StopFinds
        <3>3. CASE n \in Software /\ status[n] = "STREAMING"
            <4>1. source[n] \in {"file", "webcam"}
                BY <3>1, <3>3 DEF MarkedWhileStreamed
            <4>2. status' = [status EXCEPT ![n] = IF n \in Videos THEN "CLOSE" ELSE "OPEN"]
                BY <2>4, <3>2, <3>3, <4>1 DEF StopStreaming, SetStreamingModeOff
            <4> QED
                BY <1>a, <1>b, <3>1, <3>2, <3>3, <4>2 DEF Marks, MarkedWhileStreamed, Software, Files
        <3>4. CASE n \notin Software
            <4>1. source[n] \notin {"file", "webcam"}
                BY <1>a, <1>c, <3>1, <3>4, Owner DEF Sources, Software
            <4>2. status' = status
                BY <2>4, <3>2, <4>1 DEF StopStreaming
            <4> QED
                BY <3>1, <3>2, <3>4, <4>2 DEF Marks, MarkedWhileStreamed
        <3>5. CASE n \in Software /\ status[n] # "STREAMING"
            <4>1. status' = status
                BY <2>4, <3>5 DEF StopStreaming
            <4> QED
                BY <3>1, <3>2, <3>5, <4>1 DEF Marks, MarkedWhileStreamed
        <3> QED
            BY <3>3, <3>4, <3>5
    <2> QED
        BY <1>3, <2>1, <2>2, <2>3, <2>4 DEF Request
<1>4. ASSUME NEW n \in Names, ThreadStep(n) PROVE Marks' /\ MarkedWhileStreamed'
    <2>1. UNCHANGED <<files, listed, loaded, status, source, streamers, mainVars>>
        BY <1>4 DEF ThreadStep, Step, LoopTest, NextVideoImage, NextImage, Publish
    <2>2. GetContextFromMedia(mainName)' = GetContextFromMedia(mainName)
        BY <1>a, <2>1, OwnerStays
    <2> QED
        BY <1>e, <2>1, <2>2 DEF Marks, MarkedWhileStreamed
<1>5. CASE UNCHANGED vars
    <2>1. GetContextFromMedia(mainName)' = GetContextFromMedia(mainName)
        BY <1>a, <1>5, OwnerStays DEF vars
    <2> QED
        BY <1>e, <1>5, <2>1 DEF vars, Marks, MarkedWhileStreamed
<1> QED
    BY <1>1, <1>2, <1>3, <1>4, <1>5 DEF Next, Terminated

-----------------------------------------------------------------------------
(* The threads.                                                            *)

\* A thread runs for every streamer, from before it is in the list until after
\* it has left it.
Threads ==
    \A n \in Names :
        thread[n] # "none" <=>
            n \in streamers \/ (mainName = n /\ mainPc \in {"advertise", "flag", "join"})

LEMMA ThreadsInit == Init => Threads
BY DEF Init, Threads

LEMMA ThreadsNext == TypeInv /\ Control /\ Threads /\ [Next]_vars => Threads'
<1> SUFFICES ASSUME TypeInv, Control, Threads, [Next]_vars PROVE Threads'
    OBVIOUS
<1> USE DEF TypeInv, TypeOK, Unoccupied, Control, Threads, Set, Idle, Accept, Refuse, IsMediaStreaming,
            threadVars, mainVars
<1>1. CASE Shutdown
    BY <1>1 DEF Shutdown
<1>2. CASE MainStep
    <2>1. CASE StartStreamingMedia
        BY <2>1 DEF StartStreamingMedia
    <2>2. CASE SpawnStreamer
        BY <2>2 DEF SpawnStreamer
    <2>3. CASE AddMediaStreamer
        BY <2>3 DEF AddMediaStreamer
    <2>4. CASE RaiseStopFlag
        BY <2>4 DEF RaiseStopFlag
    <2>5. CASE JoinThread
        BY <2>5 DEF JoinThread
    <2>6. CASE Exit
        BY <2>6 DEF Exit
    <2>7. ASSUME NEW n \in Names, DestroyStreamer(n) PROVE Threads'
        BY <2>7 DEF DestroyStreamer
    <2> QED
        BY <1>2, <2>1, <2>2, <2>3, <2>4, <2>5, <2>6, <2>7 DEF MainStep
<1>3. ASSUME NEW n \in Names, Request(n) PROVE Threads'
    BY <1>3 DEF Request, StartRefused, OpenMedia, StopRefused, StopStreaming
<1>4. ASSUME NEW n \in Names, ThreadStep(n) PROVE Threads'
    BY <1>4 DEF ThreadStep, Step, LoopTest, NextVideoImage, NextImage, Publish
<1>5. CASE UNCHANGED vars
    BY <1>5 DEF vars
<1> QED
    BY <1>1, <1>2, <1>3, <1>4, <1>5 DEF Next, Terminated

-----------------------------------------------------------------------------
(* The invariant.                                                          *)

Inv == TypeInv /\ Control /\ Sources /\ Marks /\ MarkedWhileStreamed /\ Threads

LEMMA InvInit == Init => Inv
BY TypeInit, ControlInit, SourcesInit, MarksInit, ThreadsInit DEF Inv

LEMMA InvNext == Inv /\ [Next]_vars => Inv'
BY TypeNext, ControlNext, SourcesNext, MarksNext, ThreadsNext DEF Inv

\* The conjunction of the layers is inductive.
THEOREM InvHolds == Spec => []Inv
BY InvInit, InvNext, PTL DEF Spec

\* Every variable has its type, whatever names, files and cameras there are.
THEOREM TypeCorrect == Spec => []TypeOK
<1>1. Inv => TypeOK
    BY DEF Inv, TypeInv
<1> QED
    BY <1>1, InvHolds, PTL

\* However many contexts claim a name, and whatever files were opened since, a
\* stop finds the medium that its start found.
THEOREM StopFindsStarted == Spec => []StopFindsMedium
<1>1. Inv => StopFindsMedium
    BY StopFinds DEF Inv, StopFindsMedium
<1> QED
    BY <1>1, InvHolds, PTL

\* STREAMING is written exactly on the files and the webcam that have a
\* streamer, although nothing else keeps the two lists together.
THEOREM MarksFollowStreamers == Spec => []MarkedWhileStreamed
<1>1. Inv => MarkedWhileStreamed
    BY DEF Inv
<1> QED
    BY <1>1, InvHolds, PTL

-----------------------------------------------------------------------------
(* The service.                                                            *)

LEMMA ServiceInit == Init => Service!Init
BY DEF Init, Service!Init, Service!Idle, BeingStopped, ServingCall

\* A thread publishes only while its stream is active or being started.
LEMMA OnlyAudible ==
    ASSUME Inv, NEW n \in Names, thread[n] # "none"
    PROVE n \in Service!Audible
BY DEF Inv, TypeInv, TypeOK, Unoccupied, Control, Threads, Service!Audible, BeingStopped, ServingCall

LEMMA ServiceNext == Inv /\ [Next]_vars => [Service!Next]_(Service!vars)
<1> SUFFICES ASSUME Inv, [Next]_vars PROVE [Service!Next]_(Service!vars)
    OBVIOUS
<1> USE ConstantsAssumption
    DEF Inv, TypeInv, TypeOK, Unoccupied, Control, BeingStopped, ServingCall,
        Service!vars, Service!Idle, Service!Serve, Service!Ended, Idle, Accept, Refuse, Set,
        IsMediaStreaming, threadVars, mainVars
<1>1. CASE Shutdown
    <2>1. Service!Shutdown
        BY <1>1 DEF Shutdown, Service!Shutdown
    <2> QED
        BY <2>1 DEF Service!Next
<1>2. CASE MainStep
    <2>1. CASE StartStreamingMedia
        BY <2>1 DEF StartStreamingMedia
    <2>2. CASE SpawnStreamer
        <3>1. UNCHANGED {n \in Names : thread[n] = "publish"}
            BY <2>2 DEF SpawnStreamer, Threads
        <3> QED
            BY <2>2, <3>1 DEF SpawnStreamer
    <2>3. CASE AddMediaStreamer
        <3>1. Service!Started(mainName)
            BY <2>3 DEF AddMediaStreamer, Service!Started
        <3> QED
            BY <2>3, <3>1 DEF AddMediaStreamer, Service!Next
    <2>4. CASE RaiseStopFlag
        BY <2>4 DEF RaiseStopFlag
    <2>5. CASE JoinThread
        <3>1. UNCHANGED {n \in Names : thread[n] = "publish"} /\ mainName \in Names
            BY <2>5 DEF JoinThread
        <3>2. CASE call = "shutdown"
            <4>1. Service!EndStream(mainName)
                BY <2>5, <3>1, <3>2 DEF JoinThread, Service!EndStream
            <4> QED
                BY <3>1, <4>1 DEF Service!Next
        <3>3. CASE call # "shutdown"
            <4>1. Service!Stopped(mainName)
                BY <2>5, <3>1, <3>3 DEF JoinThread, Service!Stopped
            <4> QED
                BY <3>1, <4>1 DEF Service!Next
        <3> QED
            BY <3>2, <3>3
    <2>6. CASE Exit
        <3>1. Service!End
            BY <2>6 DEF Exit, Service!End
        <3> QED
            BY <3>1 DEF Service!Next
    <2>7. ASSUME NEW n \in Names, DestroyStreamer(n) PROVE UNCHANGED Service!vars
        BY <2>7 DEF DestroyStreamer
    <2> QED
        BY <1>2, <2>1, <2>2, <2>3, <2>4, <2>5, <2>6, <2>7 DEF MainStep
<1>3. ASSUME NEW n \in Names, Request(n) PROVE [Service!Next]_(Service!vars)
    <2>1. CASE StartRefused(n)
        <3>1. Service!Refuse(n)
            BY <2>1 DEF StartRefused, Service!Refuse
        <3> QED
            BY <3>1 DEF Service!Next
    <2>2. CASE OpenMedia(n)
        <3>1. Service!Begin("start", n)
            BY <2>2 DEF OpenMedia, Service!Begin
        <3> QED
            BY <3>1 DEF Service!Next
    <2>3. CASE StopRefused(n)
        <3>1. Service!Refuse(n)
            BY <2>3 DEF StopRefused, Service!Refuse
        <3> QED
            BY <3>1 DEF Service!Next
    <2>4. CASE StopStreaming(n)
        <3>1. Service!Begin("stop", n)
            BY <2>4 DEF StopStreaming, Service!Begin
        <3> QED
            BY <3>1 DEF Service!Next
    <2> QED
        BY <1>3, <2>1, <2>2, <2>3, <2>4 DEF Request
<1>4. ASSUME NEW n \in Names, ThreadStep(n) PROVE [Service!Next]_(Service!vars)
    <2>1. UNCHANGED <<mainPc, mainName, call, reply, streamers>>
        BY <1>4 DEF ThreadStep, Step, LoopTest, NextVideoImage, NextImage, Publish
    <2>2. thread[n] # "none" /\ thread' = [thread EXCEPT ![n] = thread'[n]]
        BY <1>4 DEF ThreadStep, Step, LoopTest, NextVideoImage, NextImage, Publish
    <2>3. n \in Service!Audible
        BY <2>2, OnlyAudible
    <2>4. CASE thread'[n] = "publish"
        <3>1. {m \in Names : thread'[m] = "publish"} = {m \in Names : thread[m] = "publish"} \union {n}
            BY <2>2, <2>4
        <3>2. Service!PublishBegins(n)
            BY <2>1, <2>3, <3>1 DEF Service!PublishBegins
        <3> QED
            BY <3>2 DEF Service!Next
    <2>5. CASE thread'[n] # "publish"
        <3>1. {m \in Names : thread'[m] = "publish"} = {m \in Names : thread[m] = "publish"} \ {n}
            BY <2>2, <2>5
        <3>2. Service!PublishEnds(n)
            BY <2>1, <3>1 DEF Service!PublishEnds
        <3> QED
            BY <3>2 DEF Service!Next
    <2> QED
        BY <2>4, <2>5
<1>5. CASE UNCHANGED vars
    BY <1>5 DEF vars
<1> QED
    BY <1>1, <1>2, <1>3, <1>4, <1>5 DEF Next, Terminated

\* Files, the webcam and cameras under shared names give clients and subscribers
\* what MediaService allows, whatever the names are.
THEOREM Implements == Spec => ImplementsService
BY ServiceInit, ServiceNext, InvHolds, PTL DEF Spec, ImplementsService, Service!Spec
=============================================================================
