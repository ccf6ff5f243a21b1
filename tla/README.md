# A verification project for provider_vision

`provider_vision` is a ROS node that opens the cameras of a submarine (GigE and
Firewire, "DC1394"), a webcam or files, and publishes their images on topics.
Clients start and stop the media, change the cameras' features, and configure
the cameras through dynamic reconfigure. Paths below are relative to
`src/src/provider_vision/` unless they start with `cfg/`, `docs/` or
`CHANGELOG.md`, which are relative to `src/`.

## 1. The system

| Component | State it keeps | Operations | Interacts with |
|---|---|---|---|
| Main loop (`main.cc`) | none | `ros::spinOnce` every 20 ms, until `ros::ok()` is false | runs every callback below, one at a time |
| `MediaManager` (`server/media_manager.*`) | `contexts_`, `media_streamers_`, `old_config_` | `start_stop_camera`, `get_available_camera`, `set_/get_camera_feature`, dynamic reconfigure, destructor | contexts, media, streamers |
| Contexts (`media/context/*`) | `media_list_`, the driver library | list the media at start, open, start, close | their cameras, the drivers |
| `BaseMedia` (`media/camera/base_media.h`) | `status_`: CLOSE, OPEN, STREAMING, ERROR | `StartStreaming`, `StopStreaming` | written by the main thread and by the broadcast thread |
| `DC1394Camera` | `cam_access_`, `timer_access_`; the libdc1394 capture ring | `Open`, `Close`, streaming on and off, `NextImage`, features | libdc1394 |
| `GigeCamera` | the same two mutexes; the GigE-V transfer | the same; some setters interrupt the transfer | GigE-V Framework |
| `MediaStreamer` (`media/media_streamer.*`) | `stop_thread_`, its thread, its publisher | constructor (starts the thread, then advertises), destructor (flag, join, shut down), `BroadcastThread` | `NextImage` of its medium, the subscribers |
| Files and webcam | status, image or `VideoCapture` | opened on demand, no mutex | the same streamer |
| `CameraConfiguration` (`media/camera_configuration.*`) | the saved settings of a camera | read from the parameter server, written to DC1394 cameras by `SetCameraParams` | the cameras |
| Undistortion matrices, `CameraCalibrator` | read and never used, or run by nothing | | |

There are two kinds of threads: the main thread and one broadcast thread for
each streaming medium. They share the medium, and for cameras two mutexes.

What is hard about it, and what would make it correct:

- **Start, stop and the thread.** The status is read and written with and
  without the mutex; the list, the status, the hardware, the thread and the topic
  change at different moments. A camera should have a thread exactly while it
  has a streamer, transmit exactly while it streams, never publish after its stop
  was answered, and neither camera nor topic may go before the thread.
- **Locks and blocking driver calls.** The driver's wait for an image runs with
  `cam_access_` held. Mutexes are not recursive. Every callback should return.
- **The capture ring.** A DC1394 frame is borrowed from a ring of `DMA_BUFFER`
  buffers and must be given back on every path. The ring survives a stop, with the
  images in it.
- **Failures.** Every driver call may fail, and the GigE wait gives up after a
  second; errors are logged and often ignored.
- **Shutdown** closes cameras while the threads still run.
- **Configuration.** Forty parameters are compared with `old_config_`, which
  starts uninitialised, written, and read back, while two services write and read
  the camera behind it; order and mode dependencies decide what the camera ends up
  with. The answer should be true, and what was set should hold.
- **Files.** A video keeps its position over a stop and must go on past its end.
- **Names.** Several contexts may claim a name, and a stop looks it up again.

`PROJECT.json` lists every hazard at its line, with the properties that watch it.

## 2. The modules

| Module | What it models |
|---|---|
| `MediaService` | Abstract: what clients and subscribers may observe of starts, stops, feature calls and published images. |
| `CameraStreaming` | The core: main thread, streamers, broadcast threads, status, mutexes, transfer and capture ring of cameras of both kinds, with driver failures and shutdown. |
| `CameraService` | The refinement mapping from `CameraStreaming` to `MediaService`. |
| `ImageAge` | History variables over `CameraStreaming`: which images of a ring an earlier stream left there. |
| `MediaCatalogue` | Lookup of names among the contexts, files opened on demand, the position of videos, the webcam; its own mapping to `MediaService`. |
| `CameraFeatures` | What every setter and getter of `GigeCamera` and `DC1394Camera` does to the camera's registers, and what it reports when it fails. |
| `DynamicReconfigure` | The settings of one camera of either kind: the saved configuration at start-up, `old_config_`, the callback step by step, and the two feature services beside it. |
| `SettingsService` | Abstract: what those who set up a camera may observe of its settings, of configurations and of single settings. |
| `CameraSettings` | The refinement mapping from `DynamicReconfigure` to `SettingsService`. |
| `CameraStreaming_proofs`, `CameraService_proofs` | Theorems about the core and about its refinement. |
| `MediaService_proofs` | What the abstract service promises, as theorems about it. |
| `MediaCatalogue_proofs` | Theorems about the catalogue and about its refinement, with lemmas about the two searches by name. |
| `CameraFeatures_proofs` | Lemmas about the setters and getters: what a write may touch, what a reading depends on. |
| `DynamicReconfigure_proofs`, `CameraSettings_proofs` | Theorems about the configuration, for both kinds of cameras, and about its refinement. |
| `MCCameraStreaming`, `MCImageAge`, `MCMediaCatalogue`, `MCDynamicReconfigure` | The sets TLC needs. |

`MediaService` is instantiated by `CameraService` and by `MediaCatalogue`: the
same promise, kept by two implementations with different states. `SettingsService`
knows neither `old_config_` nor the order of the callback: a camera that adjusts some
settings by itself and may refuse a write, a configuration that was asked for and
one that was told.

### CameraStreaming and the code

`mainPc` is the position of the main thread and `pc[c]` that of the broadcast
thread of camera `c`; a step ends wherever the code takes or gives back a mutex,
reads or writes something the other thread uses, or blocks. Sections under a
mutex that do not block are one step guarded by the mutex being free; where a
mutex is held across a wait (`dequeue`), a sleep (`nap1`, `nap2`) or another lock
(`timer`), the owner is a variable.

- `StartStreaming`: `StartRefused`, `OpenMedia` (`OpenDone`, `OpenFailed`),
  `StartStreamingMedia`, `SpawnStreamer`, `AddMediaStreamer`. The thread of
  `MediaStreamer` starts in the initialiser list, before the topic exists.
- `StopStreaming`: `StopRefused`, `StopStreaming` (leaves the list), `HaltMedia`
  (reads the status), `SetStreamingModeOff`, `ResetTimer` (second mutex),
  `RaiseStopFlag`, `JoinThread`.
- Features: `SetFeature`, `FeatureDone`. What they set is in
  `CameraFeatures`; here it matters that GigE setters interrupt the transfer
  without a mutex and restart it depending on the status, and that DC1394
  setters wait for `cam_access_`.
- `~MediaManager`: `Shutdown`, `CloseNextCamera`, `HaltMedia` ... `Close` (tests the
  status without the mutex on a GigE camera), `CloseLocked`, `CloseContext`,
  `DestroyStreamer`, `Exit`.
- `BroadcastThread` and `NextImage`: `LoopTest`, `TakeTimer`, `ReleaseTimer`,
  `TakeCamera`, `Dequeue`, `InspectFrame`, `Enqueue`, `Publish`.
- `FrameArrives` is the camera and its driver thread. It is modelled from the way
  the code uses the libraries (external).

`Faults` says which driver calls may fail in a run. Most kinds are failures the
code sees. Three it does not see:

- "unchecked": an error of `GevStartImageTransfer` other than the two that
  `media/camera/gige_camera.cc:169` tests for, or any error of `GevInitImageTransfer`
  (`:126`).
- "restart": any error of `GevStartImageTransfer` in a GigE setter. All eight setters
  that interrupt the transfer throw its result away (`:312`, `:445`, `:532`, `:618`,
  `:624`, `:695`, `:717`, `:754`), so that the camera stays STREAMING and sends nothing.
- "empty": a frame without an image. `NextImage` then returns false and leaves the
  status alone (`media/camera/gige_camera.cc:256`, `media/camera/dc1394_camera.cc:191`),
  and the thread publishes nothing.

A setter ignores a failed `GevStopImageTransfer`, too ("off"): the transfer then
goes on. `TestedFaults` is everything but "unchecked" and "restart".

### ImageAge and the code

`dc1394_capture_dequeue` hands out the images of the ring in the order in which
they came, and a stop without `Close` leaves the capture set up. `old` counts the
images of one camera's ring that were there when its latest stream began, `stale`
says that the image the thread has in hand is one of them. Every step of
`CameraStreaming` stays possible: the two variables only record.

### MediaCatalogue and the code

`listed` and `files` are the `media_list_` of the contexts, `source` the context a
streamed medium came from. Whether a file can be read is an environment choice at
every point where the code tries. Cameras only succeed or fail here. Of the position in a
video `atEnd` is kept, which a stop does not change; at its end `NextImage` rewinds
and reports success with whatever image the thread's variable still holds
(`image`), or none, which the thread does not publish.

### CameraFeatures, DynamicReconfigure and the code

A setter of `CameraFeatures` maps the registers to the registers it may leave: more
than one where the camera chooses (a white balance that is executed). A getter maps
them to a reading; one that fails reports any value, since the code converts an
uninitialised local (`Unset`, `Readings`). `SetFeature` and `GetFeature` are the
switches of `BaseCamera`.

**Conversions.** Parameters and services deal in doubles, and the code converts them
on the way to the driver and back. `Conversion` gives, for each conversion, what it
makes of every value; nothing is assumed of it.

| Conversion | Where | In the model |
|---|---|---|
| "uint32_t" | a DC1394 camera takes whole numbers: `dc1394_camera.cc:322`, `:337`, `:353`, `:368`, `:385`, the colours at `:551`, `:596` | `SetRegister`, `SetWhiteBalanceRedValue`, `SetWhiteBalanceBlueValue` |
| "rate" | a frame rate goes through `int32_t`, `float` and `uint32_t` and becomes the driver's code if it has one: `dc1394_camera.cc:421`, `:624` | `ConvertFramerateToEnum` |
| "float" | a GigE gain is written as a double and read through a `float`: `gige_camera.cc:486` | `GetGainValue` |
| "text" | `get_camera_feature` answers a number as text of six digits: `server/media_manager.cc:518` | `Printed` |

So a saved or requested gain of 10.5 is accepted by a DC1394 camera and held as 10,
and this is what the properties say: `HeldAs(f, v)` is what the register of `f` holds
after a set to `v`, `ReadAs` how that register is read. On a GigE camera `HeldAs` is
`v` itself. The values that registers hold (`Holdable`) and that clients give
(`Sendable`) differ by the codes of the frame rate.

In `DynamicReconfigure`, `camera` is what is in the camera's registers. Until
`started`, `SetCameraParams` writes the saved configuration of a DC1394 camera, one
step per write; for GigE cameras the call is commented out
(`media/context/gige_context.cc:83`). `dynamic_reconfigure::Server` is a member and
is constructed before the contexts (`server/media_manager.h:171`), so that the
parameters the cameras read are its own. Then `setCallback` makes the first call,
with an `old_config_` nobody initialised. Garbage matters in two ways: it may equal
the request, so that nothing is written, or be the -1 that an unreadable integer is
shown as; `Init` has both, for the parameters that clients change. `config` is the configuration object
that `CallBackDynamicReconfigure` edits in place, `request` what the client sent,
`at` the parameter reached. Every `UpdateIfChanged` is two steps, `Write` and
`ReadBack`, because the camera's automatic control runs in the 100 ms between
them (`Adjust`). `SetCameraFeatureCallback` and `GetCameraFeatureCallback` are the
services; they are served between two callbacks, since there is one main thread,
and `answer` is what the client has in hand until `Reply`. A `set_camera_feature`
whose type is unknown, whose text does not parse or whose cast throws fails and
changes nothing. `refused` is a history
variable: the writes the driver did not take.

## 3. Runs

| Run | Instance | Shows |
|---|---|---|
| `two` | one DC1394 and one GigE camera, one buffer each, every tested fault (1.7 M states) | type and ring bounds, lock ownership, one thread per streamer, threads end only when joined, topic and camera outlive the thread, status against streamer and transfer, what goes on transmitting is marked, `Close` never locks twice, refinement of `MediaService` |
| `gige` | one GigE camera, every fault, fairness (6 900 states) | every callback returns and the node ends; a stream publishes or is marked ERROR, unless its frames are empty |
| `dc` | two DC1394 cameras, two buffers, no fault, fairness (0.17 M states) | no buffer is lost over starts and stops; a stream keeps publishing images of its own |
| `gige_config` | a GigE camera, six parameters clients change, two values, one of which changes on its way through a `float` (5.1 M states) | the answer tells what the camera holds; changes take effect, by either way; a gain is held as it was set and read as a `float`; a write disturbs no other setting; values of another type get nowhere, and -1 is shown only if `old_config_` held it; refinement of `SettingsService` |
| `guppy_config` | a DC1394 camera from start-up on, four features, three values, one with a fraction, refused writes (3.2 M states) | the saved settings hold, without fractions; the answer tells what the camera holds even when writes are refused; changes take effect unless refused; refinement of `SettingsService` |
| `catalogue` | an image that a GigE camera is named after, a video, a webcam whose name both camera contexts know, fairness (0.47 M states) | a stop finds the medium that streams; marks match streamers; files that could be read are published for ever; refinement of `MediaService` |
| `stop_returns`, `stop_transfer`, `feature_transfer`, `ring_lost`, `guppy_balance`, `invalid_reading` | one camera | violations, section 6 |

**Bounds.** Cameras share only the main thread, which works on one at a time, so
two cameras show every interference there is, and one of each kind exercises both
classes and the order in which the contexts are closed. A ring of one buffer
reaches empty, full and lost; `dc` uses two, so that a frame in hand and a filled
buffer coexist. Nothing else in the core is counted, and no state is cut off. In
the configuration two values tell "changed" from "unchanged", and a register that
holds one value from one that holds the other. One value, `Half`, stands for a number
that every conversion changes (`Truncating`); a DC1394 camera needs a third, since
two would be held as one. The parameters clients change are picked so that every
mode dependency and the overwriting of the colours by the white balance occur, and
the others keep one value (`From`, `Untouched`). The gain stands for the exposure of
a GigE camera, which differs in that its setter leaves it alone in automatic mode.
In `guppy_config` the shutter and its mode stand for the exposure and the gain, which
have the same setters, the blue is the colour that overwrites the other, the red is
written at start-up and read back after every blue, and the frame rate becomes a
code; the white balance stays manual. The theorems of section 4 have no such bounds. Features of
the other class of cameras and unknown names are asked for in all of these runs. A video is
one image or many: `ReadVideo` may reach its end at any image. In the catalogue a name that two contexts claim occurs for every
pair of contexts next to each other in the order of search.

**Fairness** (`Fairness` in `CameraStreaming`). Strong for the main thread's own
steps and for each broadcast thread: what they wait for is a mutex that the other
side frees again and again. The thread sleeps 3 ms twice for every image with
`cam_access_` free, and the main loop sleeps 20 ms between callbacks, so a waiter
is not starved by a thread that unlocks and immediately locks. Weak for
`FrameArrives`: a camera that transmits and has a free buffer sends. None for
clients, for shutdown, and for failures. `CallsReturn` is checked for GigE cameras
only: DC1394 cameras do not have it (finding 1). `SilenceMarked` counts a publication
or an ERROR, since clients may interrupt a GigE transfer for ever, and an empty
frame, which the code does not mark. `AgeSpec` has the
same fairness. Files and the webcam have no mutex: the weak fairness of
`MediaCatalogue` says that the two threads are scheduled.

**Deadlock** is checked where the system may not stop (`gige`, the configuration
runs, `catalogue`); an ended process stutters (`Terminated`). It is not checked in
runs with DC1394 cameras (`two`, `dc`), where a stop can really hang for ever, nor
in the runs that look for one violation.

Each property has a slip in the model (comments "Slip:"), a change of one
definition such as a plausible bug would make, which TLC finds to break it.

## 4. What is proved

Every invariant and every action property the passing runs check, and the three
refinements. The only assumptions on the constants are those the modules state
(`ConstantsAssumption`, `FeaturesAssumption`) and the hypotheses named below. Every
strengthened invariant was checked by TLC before it was proved.

### The core

For any finite or infinite set of cameras of either kind, any ring size and any
set of faults:

- `TypeCorrect`, `LocksOwned`, `ThreadPerStreamer`, `ThreadsJoined`,
  `TopicsOutlive`, `CamerasOutlive`, `StreamersOfStreaming`, `StartsOpen`,
  `ClosesUnlocked`, `TransferOfStreaming`, `LeftoversMarked`
  and `RingsWhole`: the invariants of run `two` and the one of `dc`. `RingsWhole`
  assumes that neither the conversion nor the enqueueing of a frame fails, which
  finding 4 shows is needed for the first.
- `Implements`: `Spec => ImplementsService`, the refinement of `MediaService`, and
  `SilentExit`, which takes the theorem `SilentEnd` about the abstract service
  (`MediaService_proofs`) over to the cameras.

`TransferOfStreaming` assumes that no start of a transfer fails where the code ignores
it: neither "unchecked" nor "restart" is in `Faults`. Either leaves a camera STREAMING
that sends nothing. Every other fault may happen.

`LeftoversMarked` is what remains true where finding 2 says that a stop does not
stop the transfer: such a camera is always marked ERROR.

The invariants are not inductive. Read from the actions alone, `JoinThread` could
find any thread done, and `Enqueue` could overfill a ring. `CameraStreaming_proofs`
strengthens them in layers, each proved inductive with the help of those before:
`TypeInv` (types, a valid `mainCam` in every step that uses one, no more images
than buffers), `Control` (which call may be at which step, which camera's streamer
is in transit, what shutdown has already done), `Threads` (locks, flags and topics
tied to the two program counters), `Rings` (a ring is short by what the thread has
in hand), `Marks` (what a status says about streamers and the main thread's path),
`TransferKept`, and `Leftovers` (a camera with a streamer is STREAMING or ERROR, so
that one which is not stopped for want of STREAMING is marked). `Inv` is their
conjunction and each theorem follows from it. `CameraService_proofs` shows, under
`Inv`, that each action is a step of the abstract service or leaves its state
alone; `JoinThread` is the hard case, since a stop may be answered only when
nothing is being published.

### The catalogue

For any names, files and contexts that claim them, without any hypothesis:
`TypeCorrect`, `StopFindsStarted`, `MarksFollowStreamers` and `Implements`.

A stop searches the name again, and the search goes through lists that have grown
since. The argument is about the order of search: the owner of a name is the last
context that claims it (`OwnerIsLast`), a file belongs to the file context
whatever else claims its name (`Owner`), the lists only grow (`OpenedGrows`), and
so the owner of a name that was found never changes (`OwnerStays`, `FoundStays`).
The layers are `TypeInv`, `Control`, `Sources` (a medium with a streamer comes from
the context that owns its name now), `Marks` (an image that was opened is never
CLOSE, a video never OPEN, without which a start could leave a file unmarked) and
`Threads`.

### The configuration

The setters and getters are a case for every feature of two classes. The proofs
go through them once, in `CameraFeatures_proofs`: a write changes its own register
and those written `Together` with it (`SetFeatureKeeps`), it leaves `HeldAs` of what
was sent unless a mode excludes it (`SetFeatureTakes`), and a reading depends on the
registers in `ReadsFrom` and no other (`SameReading`). What the conversions make of a
number is a constant function, so nothing proved depends on it: "takes effect" means
that a GigE camera holds the number and a DC1394 camera the number it was converted
to. What a register holds can be sent again (`HoldableSendable`) only if it is no code
of a frame rate, which no configuration contains. What is left for `DynamicReconfigure_proofs`
is the order of the callback: no write of a later parameter disturbs what an
earlier one reads (`EarlierUndisturbed`), with one exception, the blue of a DC1394
camera, which is written before its mode (`Settled`).

| Theorem | Hypothesis | Why it is needed |
|---|---|---|
| `TypeCorrect`: among others, "unreadable" is shown only if `old_config_` started as it | none | |
| `SetsHold`, `SavedSettings`, `WritesTouchOwn` | none | |
| `SettledTakes`: every change but that of such a blue takes effect | none | |
| `ChangesTake`: all of them | a GigE camera, or clients leave the white balance mode alone | the blue before its mode |
| `SettledTells`: the answer is true, but for such a blue | no driver call that reads fails on a DC1394 camera | a getter that fails reports anything (finding 6) |
| `AnswersTell`: all of it | both of the above | both of the above |
| `OthersKept` | a GigE camera | finding 5: the blue of a DC1394 camera overwrites its red |

So each hypothesis is a known defect of the code and nothing else; the runs
`gige_config` and `guppy_config` satisfy them. `Implements` in `CameraSettings_proofs`,
the refinement of `SettingsService`, has no hypothesis: there the exceptions are
constants of the service (`Effective`, `Truthful`,
`Readable`, `Along`, and `HeldAs` and `ShownAs` for the conversions), which
`CameraSettings` gives the values the code deserves. It follows from the theorems
above and from `SetWrites`, that a call changes nothing but what it writes and what
goes along, and `AdjustAdjusts`, that the camera's own adjustments never touch a
mode. TLC checks it on both kinds of cameras. The layers are `TypeInv` (where the
callback may be when something is written, answered or not yet started),
`Requested` (what was not read back yet is as it was requested, and what clients do
not change equals `old_config_`), `WrittenTakes` and `ReadBackTells` (what was
written, or read back, so far still holds, the camera's own adjustments included),
`SetHolds`, and `SavedHeld` (the same for the start-up sequence).

### What is not proved

The liveness properties `CallsReturn`, `SilenceMarked`, `FreshImages` and
`FilesDeliver` are out of the prover's reach and only model-checked. The history
variables of `ImageAge` serve `FreshImages` alone. The six violations are
counterexamples and need no proof.

## 5. What is not modelled

- `NextImage` timers beyond their mutex, logging, frame formats and image data.
- GigE cameras that lack a feature node, that were never opened (their node map is
  dereferenced without a test, `media/camera/gige_camera.cc:303`), or whose GenApi
  calls throw: which do is a matter of the camera and of a library that is not here.
- Frame size and format of a configuration; cameras whose driver loses a setting, or
  which round a value to one they support.
- `get_available_camera` answers with the lists of the contexts and changes nothing:
  the lists are in `MediaCatalogue`, the call is no action.
- A video without any image, a frame that a webcam does not deliver.
- The four cameras of dynamic reconfigure beside each other: they share the callback
  and nothing else, so one stands for each kind.
- `Run`, `WatchDogFunc`, `CloseMedia`, `StopStreamingMedia` of the contexts, and
  the calibrator, `PublishCameraFeatures`, `GigeCamera::SetCameraParams`: nothing
  calls them. Calibration files: what is read of them is used by nothing.
- Two configured cameras that name the same device.

## 6. Disagreements found

1. `stop_returns`. A stop of a DC1394 camera may never return.
   `MediaManager::StopStreaming` turns the transmission off before the destructor
   raises the flag; the thread then enters `dc1394_capture_dequeue` with
   `DC1394_CAPTURE_POLICY_WAIT` and no image to come.
2. `stop_transfer`. If the thread has marked the camera ERROR, `BaseMedia::StopStreaming`
   does not turn the hardware off; the stop is answered true.
3. `feature_transfer`. A GigE setter that interrupts the transfer leaves it off if
   the thread's wait times out meanwhile and writes ERROR.
4. `ring_lost`. A DC1394 frame whose conversion throws is never given back.
5. `guppy_balance`. Setting the blue of a DC1394 white balance overwrites the red
   with the old blue.
6. `invalid_reading`. `media/camera/base_camera.h:79` promises `INVALID_DOUBLE` from
   a getter that fails; what it reports is an uninitialised local, and
   `get_camera_feature` answers true with it.

Seen and not run:

- `cfg/camera_dynamic_reconf.cfg:81` describes the guppy modes as "True = Manual,
  False = Auto", while the code takes true for automatic.
- `SetCameraParams` writes the exposure only in automatic mode
  (`media/camera/dc1394_camera.cc:827`), gain and shutter only in manual mode.
- The frame rate of a DC1394 camera is written as a code and read back as a number
  (`media/camera/dc1394_camera.cc:420`, `:468`); `ConvertFramerateToFloat` is unused.
- The callback writes the blue of a guppy before its white balance mode
  (`server/media_manager.cc:306`): a configuration that ends the automatic balance
  and sets the blue may lose the blue.
- `NextImage` is documented to copy the most recent image
  (`media/camera/base_media.h:75`), and takes the oldest of the ring.
- The parameters of a guppy are doubles (`cfg/camera_dynamic_reconf.cfg:82`) of which
  the driver takes the whole part (`media/camera/dc1394_camera.cc:322`); the callback
  then shows the client the number without its fraction.
- A GigE setter whose restart of the transfer fails leaves the camera STREAMING without
  images (`media/camera/gige_camera.cc:312`); only the thread's next wait marks it.
- `NextImage` returns false for an empty frame and leaves the status alone
  (`media/camera/gige_camera.cc:256`): such a stream is silent and not marked.
- `DC1394Context::GetFeature` returns false whatever the camera answered
  (`media/context/dc1394_context.cc:196`); nothing looks at the result.

## 7. Plan

Done: `CameraStreaming` with `MediaService`, `MediaCatalogue` with its liveness,
`CameraFeatures`, `DynamicReconfigure` with start-up and services and with
`SettingsService`, `ImageAge`; the proofs of every invariant and action property of
these modules and of the three refinements.

Next:
1. `ImageAge`: an image that is not stale was taken after its stream began, as an
   invariant and a theorem.
2. A promise of `SettingsService` about start-up: the saved settings are in effect
   when the first configuration begins, from `SavedSettings`.
3. The matching of configured cameras with enumerated devices (`InitContext`).
