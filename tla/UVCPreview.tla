----------------------------- MODULE UVCPreview -----------------------------
(***************************************************************************)
(* The native preview engine, UVCPreview.cpp: the Java threads that start  *)
(* and stop it, libuvc's callback thread that feeds it, its preview thread *)
(* and its capture thread.                                                 *)
(*                                                                         *)
(* A critical section that does not wait is one action.  capture_mutex is  *)
(* a variable because setFrameCallback and setCaptureDisplay hold it over  *)
(* several steps that unlocked code can observe; preview_mutex and         *)
(* pool_mutex are only ever held within one action.  A flag read without   *)
(* a lock (mIsRunning, mIsCapturing) is read in an action of its own, so   *)
(* everything can happen between the read and what is done with it.        *)
(***************************************************************************)
EXTENDS Integers, Sequences, FiniteSets

CONSTANTS
    Frames,      \* every uvc_frame_t the heap has room for
    CapThreads,  \* identities pthread_create gives to capture threads
    Callers,     \* Java threads that use one UVCCamera object
    Callbacks,   \* global references to IFrameCallback objects
    Windows,     \* ANativeWindows made from the Surfaces of startCapture
    NULL,
    MaxFrame,    \* MAX_FRAME, capacity of the preview queue
    MaxStamp,    \* frames are numbered up to here, later ones share MaxStamp
    Modes,       \* subset of BOOLEAN: may the camera be asked for MJPEG?
    Formats,     \* subset of BOOLEAN: does the pixel format need a converter?
    Displays,    \* subset of BOOLEAN: may setPreviewDisplay bring a window?
    EagerStop,   \* may stopPreview come before the capture thread exists?
    Spurious     \* may pthread_cond_wait return unsignalled?

PoolSize == MaxFrame + 2

ASSUME SizesAssumption == MaxFrame \in Nat \ {0} /\ MaxStamp \in Nat
ASSUME FlagsAssumption == /\ Modes \in (SUBSET BOOLEAN) \ {{}}
                          /\ Formats \in (SUBSET BOOLEAN) \ {{}}
                          /\ Displays \in (SUBSET BOOLEAN) \ {{}}
                          /\ EagerStop \in BOOLEAN /\ Spurious \in BOOLEAN
ASSUME NullAssumption  == NULL \notin Frames \cup CapThreads \cup Callers
                                      \cup Callbacks \cup Windows
ASSUME TargetsAssumption == Callbacks \cap Windows = {}
ASSUME FramesAssumption == IsFiniteSet(Frames)
\* The Java threads that call in are not the capture thread that calls back.
ASSUME ThreadsAssumption == ({"this", "uvc", "prev"} \cup Callers)
                               \cap CapThreads = {}

\* The frame pointers of the program: members of the object and locals.
QUEU   == <<"this", "captureQueu">>
COPY   == <<"uvc", "copy">>
MJPEG  == <<"prev", "frame_mjpeg">>
FRAME  == <<"prev", "frame">>
DRAWN  == <<"prev", "converted">>
Frame(t)     == <<t, "frame">>
Converted(t) == <<t, "converted">>
CbFrame(t)   == <<t, "callback_frame">>
Pointers == {QUEU, COPY, MJPEG, FRAME, DRAWN}
            \cup (CapThreads \X {"frame", "converted", "callback_frame"})

VARIABLES
    running, capturing,   \* mIsRunning, mIsCapturing
    previewWindow,        \* is mPreviewWindow set?
    captureWindow,        \* mCaptureWindow
    callbackObj,          \* mFrameCallbackObj
    callbackFunc,         \* is mFrameCallbackFunc set?
    pixelFormat,          \* does mPixelFormat need a converter?
    live,                 \* references and windows not deleted or released
    previewFrames,        \* the queue from libuvc to the preview thread
    hold,                 \* frame pointers
    pool, heap,           \* mFramePool; frames that are not allocated
    captureMutex,         \* holder of capture_mutex over several steps
    previewWaits,         \* does the preview thread wait on preview_sync?
    captureWaits,         \* threads that wait on capture_sync
    captureThread,        \* capture_thread, NULL while uninitialised
    streaming,            \* does libuvc's callback thread run?
    requestMode,          \* is MJPEG asked for?
    frameMode,            \* is MJPEG what do_preview decodes?
    uvc, prev, cap, caller,  \* where each thread is
    stamp, sent, delivered   \* frame numbers: of a frame, last sent, last seen

flags   == <<running, capturing>>
targets == <<previewWindow, captureWindow, callbackObj, callbackFunc,
             pixelFormat, live>>
store   == <<previewFrames, hold, pool, heap, stamp>>
sync    == <<captureMutex, previewWaits, captureWaits>>
world   == <<captureThread, streaming, requestMode, frameMode, sent, delivered>>
threads == <<uvc, prev, cap, caller>>
vars == <<flags, targets, store, sync, world, threads>>

CallerPc == {"idle", "spawn", "spawnFailed", "enter", "handshake", "waiting",
             "replace", "assign", "format", "converter", "window",
             "releaseWindow", "storeWindow", "stop", "signalPreview",
             "signalCapture", "joinCapture", "joinPreview", "clearPreview",
             "clearCapture", "closePreview", "closeCapture", "delete"}
PrevPc == {"none", "prepare", "stream", "clear", "spawn", "loop", "wait",
           "waiting", "decode", "decoded", "draw", "drawn", "add", "failed",
           "signal", "stopStream", "exited"}
CapPc == {"none", "clear", "format", "loop", "choose", "inner", "wait",
          "waiting", "surface", "blit", "post", "callback", "getOut",
          "convert", "invoke", "inCallback", "recycle", "closing", "release",
          "null", "broadcast", "exited"}
UvcPc == {"idle", "get", "add", "recycle"}
Stops == {"stop", "close"}
Op    == {"none", "start", "callback", "capture"} \cup Stops

-----------------------------------------------------------------------------
(* Frame pool: get_frame, recycle_frame                                    *)

\* get_frame: from the pool, else from the heap, else NULL.  The frame is
\* then filled with picture number n.
GetFrame(p, n) ==
    \/ \E f \in (IF pool # {} THEN pool ELSE heap) :
          /\ hold' = [hold EXCEPT ![p] = f]
          /\ stamp' = [stamp EXCEPT ![f] = n]
          /\ pool' = pool \ {f}
          /\ heap' = heap \ {f}
    \/ /\ pool = {} /\ heap = {}
       /\ UNCHANGED <<hold, stamp, pool, heap>>

\* recycle_frame on each frame of R: pooled while there is room, else freed.
\* Nobody reads the picture of a recycled frame.
RecycleAll(R) ==
    \E kept \in SUBSET R :
       /\ Cardinality(kept) =
             IF Cardinality(pool) + Cardinality(R) <= PoolSize
             THEN Cardinality(R)
             ELSE IF Cardinality(pool) >= PoolSize THEN 0
                  ELSE PoolSize - Cardinality(pool)
       /\ pool' = pool \cup kept
       /\ heap' = heap \cup (R \ kept)
       /\ stamp' = [f \in Frames |-> IF f \in R THEN 0 ELSE stamp[f]]

Recycle(p) ==
    /\ RecycleAll({hold[p]} \ {NULL})
    /\ hold' = [hold EXCEPT ![p] = NULL]

ClearCapture == Recycle(QUEU)

Queued == {previewFrames[i] : i \in DOMAIN previewFrames}

-----------------------------------------------------------------------------
(* Condition variables                                                     *)

SignalPreview == previewWaits' = FALSE

\* pthread_cond_signal wakes one waiter, whichever, if there is one.
SignalCapture == IF captureWaits = {}
                 THEN UNCHANGED captureWaits
                 ELSE \E w \in captureWaits : captureWaits' = captureWaits \ {w}
BroadcastCapture == captureWaits' = {}

SpuriousWake ==
    /\ Spurious
    /\ \/ previewWaits /\ previewWaits' = FALSE /\ UNCHANGED captureWaits
       \/ /\ \E w \in captureWaits : captureWaits' = captureWaits \ {w}
          /\ UNCHANGED previewWaits
    /\ UNCHANGED <<flags, targets, store, captureMutex, world, threads>>

-----------------------------------------------------------------------------
(* Java callers.  start/stopPreview and setPreviewDisplay are synchronized *)
(* methods of UVCCamera.java, setFrameCallback and startCapture are not.   *)

MonitorFree == \A c \in Callers : caller[c].op \notin {"start"} \cup Stops

Goto(c, l) == caller' = [caller EXCEPT ![c].pc = l]
Return(c)  == caller' = [caller EXCEPT ![c] =
                            [pc |-> "idle", op |-> "none", arg |-> NULL]]
Call(c, o, a, l) ==
    /\ caller[c].pc = "idle"
    /\ caller' = [caller EXCEPT ![c] = [pc |-> l, op |-> o, arg |-> a]]

SetPreviewDisplay(c) ==
    /\ caller[c].pc = "idle" /\ MonitorFree
    /\ previewWindow' \in Displays
    /\ UNCHANGED <<flags, captureWindow, callbackObj, callbackFunc,
                   pixelFormat, live, store, sync, world, threads>>

StartPreview(c) ==
    /\ MonitorFree /\ ~running
    /\ Call(c, "start", NULL, "spawn")
    /\ running' = TRUE
    /\ UNCHANGED <<capturing, targets, store, sync, world, uvc, prev, cap>>

\* pthread_create of the preview thread, if there is a window to draw on.
SpawnPreview(c) ==
    /\ caller[c].pc = "spawn"
    /\ \/ /\ previewWindow
          /\ prev' = "prepare"
          /\ Return(c)
       \/ Goto(c, "spawnFailed") /\ UNCHANGED prev
    /\ UNCHANGED <<flags, targets, store, sync, world, uvc, cap>>

StartFailed(c) ==
    /\ caller[c].pc = "spawnFailed"
    /\ running' = FALSE
    /\ SignalPreview
    /\ Return(c)
    /\ UNCHANGED <<capturing, targets, store, captureMutex, captureWaits,
                   world, uvc, prev, cap>>

\* Java's setPreviewSize takes no monitor; what the camera answers to the
\* request is not kept.
SetPreviewSize(c) ==
    /\ caller[c].pc = "idle"
    /\ requestMode' \in Modes
    /\ UNCHANGED <<flags, targets, store, sync, captureThread, streaming,
                   frameMode, sent, delivered, threads>>

\* Java's stopPreview first calls setFrameCallback(null, 0); close first
\* does what stopPreview does.
StopPreview(c) ==
    /\ MonitorFree
    /\ EagerStop \/ prev \notin {"prepare", "stream", "clear", "spawn"}
    /\ \E o \in Stops : Call(c, o, NULL, "enter")
    /\ UNCHANGED <<flags, targets, store, sync, world, uvc, prev, cap>>

\* nativeSetFrameCallback makes a global reference of its argument.
SetFrameCallback(c) ==
    /\ \E r \in (Callbacks \ live) \cup {NULL} :
          /\ Call(c, "callback", r, "enter")
          /\ live' = live \cup ({r} \ {NULL})
    /\ UNCHANGED <<flags, previewWindow, captureWindow, callbackObj,
                   callbackFunc, pixelFormat, store, sync, world, uvc, prev, cap>>

\* nativeSetCaptureDisplay acquires the window of its argument, a Surface
\* that is not in use yet.
SetCaptureDisplay(c) ==
    /\ \E w \in (Windows \ live) \cup {NULL} :
          /\ Call(c, "capture", w, "enter")
          /\ live' = live \cup ({w} \ {NULL})
    /\ UNCHANGED <<flags, previewWindow, captureWindow, callbackObj,
                   callbackFunc, pixelFormat, store, sync, world, uvc, prev, cap>>

Target(c) == IF caller[c].op = "capture" THEN captureWindow ELSE callbackObj
Then(c)   == IF caller[c].op = "capture" THEN "window" ELSE "replace"

\* Take capture_mutex; stop a capture loop that is under way.
EnterSetter(c) ==
    /\ caller[c].pc = "enter"
    /\ captureMutex = NULL
    /\ captureMutex' = c
    /\ IF running /\ capturing
       THEN /\ capturing' = FALSE
            /\ IF Target(c) # NULL THEN SignalCapture /\ Goto(c, "handshake")
                                   ELSE UNCHANGED captureWaits /\ Goto(c, Then(c))
       ELSE UNCHANGED <<capturing, captureWaits>> /\ Goto(c, Then(c))
    /\ UNCHANGED <<running, targets, store, previewWaits, world, uvc, prev, cap>>

\* "wait finishing capturing": one pthread_cond_wait, not in a loop.
Handshake(c) ==
    /\ caller[c].pc = "handshake"
    /\ captureMutex' = NULL
    /\ captureWaits' = captureWaits \cup {c}
    /\ Goto(c, "waiting")
    /\ UNCHANGED <<flags, targets, store, previewWaits, world, uvc, prev, cap>>

HandshakeDone(c) ==
    /\ caller[c].pc = "waiting" /\ c \notin captureWaits
    /\ captureMutex = NULL
    /\ captureMutex' = c
    /\ Goto(c, Then(c))
    /\ UNCHANGED <<flags, targets, store, previewWaits, captureWaits, world,
                   uvc, prev, cap>>

\* IsSameObject: the same Java object may come with a new reference, which
\* is then neither stored nor deleted.
ReplaceCallback(c) ==
    /\ caller[c].pc = "replace"
    /\ \/ /\ caller[c].arg # NULL \/ callbackObj # NULL
          /\ live' = live \ {callbackObj}
          /\ Goto(c, "assign")
       \/ /\ caller[c].arg = NULL <=> callbackObj = NULL
          /\ Goto(c, "format") /\ UNCHANGED live
    /\ UNCHANGED <<flags, previewWindow, captureWindow, callbackObj,
                   callbackFunc, pixelFormat, store, sync, world, uvc, prev, cap>>

\* Mutant: an object without onFrame is deleted but stays the callback.
AssignCallbackKeeps(c) ==
    /\ caller[c].pc = "assign"
    /\ callbackObj' = caller[c].arg
    /\ live' \in {live, live \ {caller[c].arg}}
    /\ Goto(c, "format")
    /\ UNCHANGED <<flags, previewWindow, captureWindow, callbackFunc,
                   pixelFormat, store, sync, world, uvc, prev, cap>>

\* The object has an onFrame method, or its reference is deleted too.
AssignCallback(c) ==
    /\ caller[c].pc = "assign"
    /\ \/ callbackObj' = caller[c].arg /\ UNCHANGED live
       \/ callbackObj' = NULL /\ live' = live \ {caller[c].arg}
    /\ Goto(c, "format")
    /\ UNCHANGED <<flags, previewWindow, captureWindow, callbackFunc,
                   pixelFormat, store, sync, world, uvc, prev, cap>>

\* callbackPixelFormatChanged clears the converter, then sets it; the lock
\* is released after it.
ClearFormat(c) ==
    /\ caller[c].pc = "format"
    /\ IF caller[c].arg # NULL /\ callbackObj # NULL
       THEN /\ pixelFormat' \in Formats
            /\ callbackFunc' = FALSE
       ELSE UNCHANGED <<pixelFormat, callbackFunc>>
    /\ Goto(c, "converter")
    /\ UNCHANGED <<flags, previewWindow, captureWindow, callbackObj, live,
                   store, sync, world, uvc, prev, cap>>

\* Mutant: the mutex is not unlocked on the way to the native stopPreview.
SetFormatLocked(c) ==
    /\ caller[c].pc = "converter"
    /\ callbackFunc' = IF caller[c].arg # NULL /\ callbackObj # NULL
                       THEN pixelFormat ELSE callbackFunc
    /\ IF caller[c].op \in Stops
       THEN Goto(c, "stop") /\ UNCHANGED captureMutex
       ELSE Return(c) /\ captureMutex' = NULL
    /\ UNCHANGED <<flags, previewWindow, captureWindow, callbackObj,
                   pixelFormat, live, store, previewWaits, captureWaits,
                   world, uvc, prev, cap>>

SetFormat(c) ==
    /\ caller[c].pc = "converter"
    /\ callbackFunc' = IF caller[c].arg # NULL /\ callbackObj # NULL
                       THEN pixelFormat ELSE callbackFunc
    /\ captureMutex' = NULL
    /\ IF caller[c].op \in Stops THEN Goto(c, "stop") ELSE Return(c)
    /\ UNCHANGED <<flags, previewWindow, captureWindow, callbackObj,
                   pixelFormat, live, store, previewWaits, captureWaits,
                   world, uvc, prev, cap>>

\* setCaptureDisplay compares mCaptureWindow with the new window, releases
\* it and stores the new one: three steps, for the capture thread reads,
\* releases and clears it without capture_mutex.
CompareWindow(c) ==
    /\ caller[c].pc = "window"
    /\ IF captureWindow = caller[c].arg
       THEN captureMutex' = NULL /\ Return(c)
       ELSE /\ Goto(c, IF captureWindow = NULL THEN "storeWindow"
                                             ELSE "releaseWindow")
            /\ UNCHANGED captureMutex
    /\ UNCHANGED <<flags, targets, store, previewWaits, captureWaits, world,
                   uvc, prev, cap>>

\* A capture thread may have cleared it since the comparison: to release
\* NULL is undefined, here nothing happens.
ReleaseWindow(c) ==
    /\ caller[c].pc = "releaseWindow"
    /\ live' = live \ {captureWindow}
    /\ Goto(c, "storeWindow")
    /\ UNCHANGED <<flags, previewWindow, captureWindow, callbackObj,
                   callbackFunc, pixelFormat, store, sync, world, uvc, prev, cap>>

\* previewFormat is RGBA_8888, so no window is refused.
AssignWindow(c) ==
    /\ caller[c].pc = "storeWindow"
    /\ captureWindow' = caller[c].arg
    /\ captureMutex' = NULL
    /\ Return(c)
    /\ UNCHANGED <<flags, previewWindow, callbackObj, callbackFunc,
                   pixelFormat, live, store, previewWaits, captureWaits, world,
                   uvc, prev, cap>>

\* The native stopPreview.
StopFlag(c) ==
    /\ caller[c].pc = "stop"
    /\ running' = FALSE
    /\ Goto(c, IF running THEN "signalPreview" ELSE "clearPreview")
    /\ UNCHANGED <<capturing, targets, store, sync, world, uvc, prev, cap>>

\* Mutant: preview_sync is not signalled.
StopSignalNobody(c) ==
    /\ caller[c].pc = "signalPreview"
    /\ Goto(c, "signalCapture")
    /\ UNCHANGED <<flags, targets, store, sync, world, uvc, prev, cap>>

\* Both signals are sent without holding the mutex.
StopSignalPreview(c) ==
    /\ caller[c].pc = "signalPreview"
    /\ SignalPreview
    /\ Goto(c, "signalCapture")
    /\ UNCHANGED <<flags, targets, store, captureMutex, captureWaits, world,
                   uvc, prev, cap>>

StopSignalCapture(c) ==
    /\ caller[c].pc = "signalCapture"
    /\ SignalCapture
    /\ Goto(c, "joinCapture")
    /\ UNCHANGED <<flags, targets, store, captureMutex, previewWaits, world,
                   uvc, prev, cap>>

\* pthread_join fails at once on a handle that is no thread: one that was
\* joined before, or is not initialised yet.
Joinable(t) == t # NULL /\ cap[t].pc # "none"

JoinCapture(c) ==
    /\ caller[c].pc = "joinCapture"
    /\ IF ~Joinable(captureThread)
       THEN UNCHANGED cap
       ELSE /\ cap[captureThread].pc = "exited"
            /\ cap' = [cap EXCEPT ![captureThread].pc = "none"]
    /\ Goto(c, "joinPreview")
    /\ UNCHANGED <<flags, targets, store, sync, world, uvc, prev>>

\* Mutant: the preview thread is not joined.
JoinNoPreview(c) ==
    /\ caller[c].pc = "joinPreview"
    /\ Goto(c, "clearPreview")
    /\ UNCHANGED <<flags, targets, store, sync, world, uvc, prev, cap>>

JoinPreview(c) ==
    /\ caller[c].pc = "joinPreview"
    /\ prev \in {"exited", "none"}
    /\ prev' = "none"
    /\ Goto(c, "clearPreview")
    /\ UNCHANGED <<flags, targets, store, sync, world, uvc, cap>>

\* clearPreviewFrame, clearCaptureFrame and the two windows.
ClearQueue ==
    /\ RecycleAll(Queued)
    /\ previewFrames' = <<>>

\* Mutant: clearPreviewFrame is left to the next preview, which calls it too.
StopClearsNoPreview(c) ==
    /\ caller[c].pc = "clearPreview"
    /\ Goto(c, "clearCapture")
    /\ UNCHANGED <<flags, targets, store, sync, world, uvc, prev, cap>>

StopClearPreview(c) ==
    /\ caller[c].pc = "clearPreview"
    /\ ClearQueue
    /\ Goto(c, "clearCapture")
    /\ UNCHANGED <<flags, targets, hold, sync, world, uvc, prev, cap>>

StopClearCapture(c) ==
    /\ caller[c].pc = "clearCapture"
    /\ captureMutex = NULL
    /\ ClearCapture
    /\ Goto(c, "closePreview")
    /\ UNCHANGED <<flags, targets, previewFrames, sync, world, uvc,
                   prev, cap>>

StopClosePreview(c) ==
    /\ caller[c].pc = "closePreview"
    /\ previewWindow' = FALSE
    /\ Goto(c, "closeCapture")
    /\ UNCHANGED <<flags, captureWindow, callbackObj, callbackFunc,
                   pixelFormat, live, store, sync, world, uvc, prev, cap>>

\* Mutant: mCaptureWindow is released and not set to NULL.
StopCloseCaptureKeeps(c) ==
    /\ caller[c].pc = "closeCapture"
    /\ captureMutex = NULL
    /\ live' = live \ {captureWindow}
    /\ IF caller[c].op = "close" THEN Goto(c, "delete") ELSE Return(c)
    /\ UNCHANGED <<flags, previewWindow, captureWindow, callbackObj, callbackFunc,
                   pixelFormat, store, sync, world, uvc, prev, cap>>

\* The capture thread was joined and setters are kept out by the mutex, so
\* nobody looks between the release and the NULL.
StopCloseCapture(c) ==
    /\ caller[c].pc = "closeCapture"
    /\ captureMutex = NULL
    /\ live' = live \ {captureWindow}
    /\ captureWindow' = NULL
    /\ IF caller[c].op = "close" THEN Goto(c, "delete") ELSE Return(c)
    /\ UNCHANGED <<flags, previewWindow, callbackObj, callbackFunc,
                   pixelFormat, store, sync, world, uvc, prev, cap>>

\* clearPreviewFrame, clearCaptureFrame, then clear_pool.
FreeFrames ==
    LET freed == pool \cup Queued \cup ({hold[QUEU]} \ {NULL})
    IN  /\ heap' = heap \cup freed
        /\ pool' = {} /\ previewFrames' = <<>>
        /\ hold' = [hold EXCEPT ![QUEU] = NULL]
        /\ stamp' = [f \in Frames |-> IF f \in freed THEN 0 ELSE stamp[f]]

\* The destructor; the next connect makes a new object.  With somebody else
\* inside the object what follows is undefined: UVCCameraLifecycle has that
\* end.
DeletePreview(c) ==
    /\ caller[c].pc = "delete"
    /\ \A d \in Callers \ {c} : caller[d].pc = "idle"
    /\ \A t \in CapThreads : cap[t].pc = "none"
    /\ FreeFrames
    /\ live' = live \ {captureWindow}
    /\ previewWindow' = FALSE /\ captureWindow' = NULL
    /\ callbackObj' = NULL /\ callbackFunc' = FALSE /\ pixelFormat' \in Formats
    /\ capturing' = FALSE /\ captureThread' = NULL
    /\ requestMode' = FALSE /\ frameMode' = FALSE
    /\ Return(c)
    /\ UNCHANGED <<running, sync, streaming, sent, delivered, uvc, prev, cap>>

-----------------------------------------------------------------------------
(* libuvc's callback thread: uvc_preview_frame_callback, addPreviewFrame   *)

\* A picture arrives and the callback sees the preview running; broken
\* pictures and pictures seen after the stop are dropped without a trace.
UvcPicture ==
    /\ uvc = "idle" /\ streaming /\ running
    /\ sent' = IF sent < MaxStamp THEN sent + 1 ELSE sent
    /\ uvc' = "get"
    /\ UNCHANGED <<flags, targets, store, sync, captureThread, streaming,
                   requestMode, frameMode, delivered, prev, cap, caller>>

UvcCopy ==
    /\ uvc = "get"
    /\ GetFrame(COPY, sent)
    /\ uvc' \in IF hold'[COPY] = NULL THEN {"idle"} ELSE {"add", "recycle"}
    /\ UNCHANGED <<flags, targets, previewFrames, sync, world, prev, cap,
                   caller>>

\* Mutant: one frame too many.
RoomOffByOne == Len(previewFrames) <= MaxFrame

Room == Len(previewFrames) < MaxFrame

\* Mutant: the frame is queued and recycled, without frame = NULL between.
AddPreviewFrameTwice ==
    /\ uvc = "add"
    /\ IF running /\ Room
       THEN /\ previewFrames' = Append(previewFrames, hold[COPY])
            /\ SignalPreview
       ELSE UNCHANGED <<previewFrames, previewWaits>>
    /\ uvc' = "recycle"
    /\ UNCHANGED <<flags, targets, hold, pool, heap, stamp, captureMutex,
                   captureWaits, world, prev, cap, caller>>

\* Mutant: preview_sync is not signalled.
AddPreviewFrameQuietly ==
    /\ uvc = "add"
    /\ IF running /\ Room
       THEN /\ previewFrames' = Append(previewFrames, hold[COPY])
            /\ hold' = [hold EXCEPT ![COPY] = NULL]
            /\ uvc' = "idle"
       ELSE uvc' = "recycle" /\ UNCHANGED <<previewFrames, hold>>
    /\ UNCHANGED <<flags, targets, pool, heap, stamp, sync, world, prev, cap,
                   caller>>

AddPreviewFrame ==
    /\ uvc = "add"
    /\ IF running /\ Room
       THEN /\ previewFrames' = Append(previewFrames, hold[COPY])
            /\ hold' = [hold EXCEPT ![COPY] = NULL]
            /\ SignalPreview
            /\ uvc' = "idle"
       ELSE /\ uvc' = "recycle"
            /\ UNCHANGED <<previewFrames, hold, previewWaits>>
    /\ UNCHANGED <<flags, targets, pool, heap, stamp, captureMutex,
                   captureWaits, world, prev, cap, caller>>

\* Mutant: an early return without recycle_frame.
UvcRecycleForgets ==
    /\ uvc = "recycle"
    /\ hold' = [hold EXCEPT ![COPY] = NULL]
    /\ uvc' = "idle"
    /\ UNCHANGED <<flags, targets, previewFrames, pool, heap, stamp, sync,
                   world, prev, cap, caller>>

UvcRecycle ==
    /\ uvc = "recycle"
    /\ Recycle(COPY)
    /\ uvc' = "idle"
    /\ UNCHANGED <<flags, targets, previewFrames, sync, world, prev,
                   cap, caller>>

-----------------------------------------------------------------------------
(* The preview thread: preview_thread_func, do_preview                     *)

\* prepare_preview negotiates with the camera; a failure, before frameMode
\* is set or (no descriptor of the frame) after it, ends the thread and
\* leaves mIsRunning set.  Of its reads of requestMode the last decides how
\* do_preview takes the pictures for good; a picture that is not of that
\* kind fails to decode, or is dropped for its size.
PrevPrepare ==
    /\ prev = "prepare"
    /\ \/ prev' = "stream" /\ frameMode' = requestMode
       \/ prev' = "exited" /\ frameMode' \in {frameMode, requestMode}
    /\ UNCHANGED <<flags, targets, store, sync, captureThread, streaming,
                   requestMode, sent, delivered, uvc, cap, caller>>

PrevStartStreaming ==
    /\ prev = "stream"
    /\ \/ prev' = "clear" /\ streaming' = TRUE
       \/ prev' = "exited" /\ UNCHANGED streaming
    /\ UNCHANGED <<flags, targets, store, sync, captureThread, requestMode,
                   frameMode, sent, delivered, uvc, cap, caller>>

PrevClear ==
    /\ prev = "clear"
    /\ ClearQueue
    /\ prev' = "spawn"
    /\ UNCHANGED <<flags, targets, hold, sync, world, uvc, cap, caller>>

\* Out of threads, pthread_create fails; its result is not looked at.
PrevSpawnCapture ==
    /\ prev = "spawn"
    /\ \/ \E t \in CapThreads :
             /\ cap[t].pc = "none"
             /\ cap' = [cap EXCEPT ![t].pc = "clear"]
             /\ captureThread' = t
       \/ /\ \A t \in CapThreads : cap[t].pc # "none"
          /\ UNCHANGED <<cap, captureThread>>
    /\ prev' = "loop"
    /\ UNCHANGED <<flags, targets, store, sync, streaming, requestMode,
                   frameMode, sent, delivered, uvc, caller>>

PrevLoop ==
    /\ prev = "loop"
    /\ prev' = IF running THEN "wait" ELSE "signal"
    /\ UNCHANGED <<flags, targets, store, sync, world, uvc, cap, caller>>

PrevWait ==
    /\ prev = "wait" /\ previewFrames = <<>>
    /\ previewWaits' = TRUE
    /\ prev' = "waiting"
    /\ UNCHANGED <<flags, targets, store, captureMutex, captureWaits, world,
                   uvc, cap, caller>>

\* Mutant: the newest frame of the queue is taken.
PrevTakeNewest ==
    /\ \/ prev = "wait" /\ previewFrames # <<>>
       \/ prev = "waiting" /\ ~previewWaits
    /\ IF running /\ previewFrames # <<>>
       THEN /\ hold' = [hold EXCEPT ![IF frameMode THEN MJPEG ELSE FRAME] =
                                       previewFrames[Len(previewFrames)]]
            /\ previewFrames' = SubSeq(previewFrames, 1, Len(previewFrames) - 1)
            /\ prev' = IF frameMode THEN "decode" ELSE "draw"
       ELSE prev' = "loop" /\ UNCHANGED <<hold, previewFrames>>
    /\ UNCHANGED <<flags, targets, pool, heap, stamp, sync, world, uvc, cap,
                   caller>>

\* After the wait, if there was one: a single test, not a loop.
PrevTake ==
    /\ \/ prev = "wait" /\ previewFrames # <<>>
       \/ prev = "waiting" /\ ~previewWaits
    /\ IF running /\ previewFrames # <<>>
       THEN /\ hold' = [hold EXCEPT ![IF frameMode THEN MJPEG ELSE FRAME] =
                                       Head(previewFrames)]
            /\ previewFrames' = Tail(previewFrames)
            /\ prev' = IF frameMode THEN "decode" ELSE "draw"
       ELSE prev' = "loop" /\ UNCHANGED <<hold, previewFrames>>
    /\ UNCHANGED <<flags, targets, pool, heap, stamp, sync, world, uvc, cap,
                   caller>>

\* uvc_mjpeg2yuyv into NULL is undefined: without memory there is no step.
PrevDecode ==
    /\ prev = "decode"
    /\ GetFrame(FRAME, stamp[hold[MJPEG]])
    /\ hold'[FRAME] # NULL
    /\ prev' = "decoded"
    /\ UNCHANGED <<flags, targets, previewFrames, sync, world, uvc, cap, caller>>

PrevDecoded ==
    /\ prev = "decoded"
    /\ Recycle(MJPEG)
    /\ prev' \in {"draw", "failed"}
    /\ UNCHANGED <<flags, targets, previewFrames, sync, world, uvc,
                   cap, caller>>

PrevDropFailed ==
    /\ prev = "failed"
    /\ Recycle(FRAME)
    /\ prev' = "loop"
    /\ UNCHANGED <<flags, targets, previewFrames, sync, world, uvc,
                   cap, caller>>

\* draw_preview_one converts into a second frame, if there is a window.
PrevDraw ==
    /\ prev = "draw"
    /\ IF previewWindow
       THEN /\ GetFrame(DRAWN, stamp[hold[FRAME]])
            /\ prev' = IF hold'[DRAWN] = NULL THEN "add" ELSE "drawn"
       ELSE prev' = "add" /\ UNCHANGED <<hold, stamp, pool, heap>>
    /\ UNCHANGED <<flags, targets, previewFrames, sync, world, uvc, cap, caller>>

PrevDrawn ==
    /\ prev = "drawn"
    /\ Recycle(DRAWN)
    /\ prev' = "add"
    /\ UNCHANGED <<flags, targets, previewFrames, sync, world, uvc,
                   cap, caller>>

\* Mutant: capture_sync is not signalled.
AddCaptureFrameQuietly ==
    /\ prev = "add"
    /\ captureMutex = NULL
    /\ IF running
       THEN /\ RecycleAll({hold[QUEU]} \ {NULL})
            /\ hold' = [hold EXCEPT ![QUEU] = hold[FRAME], ![FRAME] = NULL]
       ELSE /\ hold' = [hold EXCEPT ![FRAME] = NULL]
            /\ UNCHANGED <<pool, heap, stamp>>
    /\ prev' = "loop"
    /\ UNCHANGED <<flags, targets, previewFrames, sync, world, uvc, cap, caller>>

\* "keep only latest one".  Once the preview is stopped the frame is
\* neither queued nor recycled.
AddCaptureFrame ==
    /\ prev = "add"
    /\ captureMutex = NULL
    /\ IF running
       THEN /\ RecycleAll({hold[QUEU]} \ {NULL})
            /\ hold' = [hold EXCEPT ![QUEU] = hold[FRAME], ![FRAME] = NULL]
            /\ BroadcastCapture
       ELSE /\ hold' = [hold EXCEPT ![FRAME] = NULL]
            /\ UNCHANGED <<pool, heap, stamp, captureWaits>>
    /\ prev' = "loop"
    /\ UNCHANGED <<flags, targets, previewFrames, captureMutex,
                   previewWaits, world, uvc, cap, caller>>

PrevSignal ==
    /\ prev = "signal"
    /\ SignalCapture
    /\ prev' = "stopStream"
    /\ UNCHANGED <<flags, targets, store, captureMutex, previewWaits, world,
                   uvc, cap, caller>>

\* uvc_stop_streaming joins libuvc's callback thread.
PrevStopStreaming ==
    /\ prev = "stopStream" /\ uvc = "idle"
    /\ streaming' = FALSE
    /\ prev' = "exited"
    /\ UNCHANGED <<flags, targets, store, sync, captureThread, requestMode,
                   frameMode, sent, delivered, uvc, cap, caller>>

-----------------------------------------------------------------------------
(* The capture thread: do_capture                                          *)

At(t, l)   == cap[t].pc = l
CapGoto(t, l) == cap' = [cap EXCEPT ![t].pc = l]

CapClear(t) ==
    /\ At(t, "clear")
    /\ captureMutex = NULL
    /\ ClearCapture
    /\ CapGoto(t, "format")
    /\ UNCHANGED <<flags, targets, previewFrames, sync, world, uvc, prev, caller>>

\* callbackPixelFormatChanged, without a lock.  Only this thread reads the
\* converter, so the two values it stores in turn are one step.
CapFormat(t) ==
    /\ At(t, "format")
    /\ callbackFunc' = pixelFormat
    /\ CapGoto(t, "loop")
    /\ UNCHANGED <<flags, previewWindow, captureWindow, callbackObj,
                   pixelFormat, live, store, sync, world, uvc, prev, caller>>

\* The test of isRunning and mIsCapturing = true are one step: no setter
\* changes mIsRunning, and without it nobody looks at mIsCapturing.
CapLoop(t) ==
    /\ At(t, "loop")
    /\ IF running
       THEN capturing' = TRUE /\ CapGoto(t, "choose")
       ELSE CapGoto(t, "exited") /\ UNCHANGED capturing
    /\ UNCHANGED <<running, targets, store, sync, world, uvc, prev, caller>>

\* do_capture_surface or do_capture_idle_loop, by an unlocked read.
CapChoose(t) ==
    /\ At(t, "choose")
    /\ cap' = [cap EXCEPT ![t].pc = "inner", ![t].surface = captureWindow # NULL]
    /\ UNCHANGED <<flags, targets, store, sync, world, uvc, prev, caller>>

CapInner(t) ==
    /\ At(t, "inner")
    /\ CapGoto(t, IF running /\ capturing THEN "wait"
                  ELSE IF cap[t].surface THEN "closing" ELSE "broadcast")
    /\ UNCHANGED <<flags, targets, store, sync, world, uvc, prev, caller>>

CapWait(t) ==
    /\ At(t, "wait") /\ hold[QUEU] = NULL
    /\ captureMutex = NULL
    /\ captureWaits' = captureWaits \cup {t}
    /\ CapGoto(t, "waiting")
    /\ UNCHANGED <<flags, targets, store, captureMutex, previewWaits, world,
                   uvc, prev, caller>>

CapTake(t) ==
    /\ \/ At(t, "wait") /\ hold[QUEU] # NULL
       \/ At(t, "waiting") /\ t \notin captureWaits
    /\ captureMutex = NULL
    /\ IF running /\ hold[QUEU] # NULL
       THEN /\ hold' = [hold EXCEPT ![Frame(t)] = hold[QUEU], ![QUEU] = NULL]
            /\ CapGoto(t, IF cap[t].surface THEN "surface" ELSE "callback")
       ELSE CapGoto(t, "inner") /\ UNCHANGED hold
    /\ UNCHANGED <<flags, targets, previewFrames, pool, heap, stamp, sync,
                   world, uvc, prev, caller>>

\* do_capture_surface keeps one converted frame for the whole loop.
CapConvertForSurface(t) ==
    /\ At(t, "surface")
    /\ IF capturing
       THEN /\ IF hold[Converted(t)] = NULL
               THEN GetFrame(Converted(t), stamp[hold[Frame(t)]])
               ELSE UNCHANGED <<hold, pool, heap, stamp>>
            /\ CapGoto(t, IF hold'[Converted(t)] = NULL THEN "callback"
                                                        ELSE "blit")
       ELSE CapGoto(t, "callback") /\ UNCHANGED <<hold, pool, heap, stamp>>
    /\ UNCHANGED <<flags, targets, previewFrames, sync, world, uvc, prev, caller>>

\* copyToSurface on mCaptureWindow, without capture_mutex.
CapBlit(t) ==
    /\ At(t, "blit")
    /\ \/ /\ captureWindow # NULL
          /\ cap' = [cap EXCEPT ![t].pc = "post", ![t].use = captureWindow]
       \/ CapGoto(t, "callback")
    /\ UNCHANGED <<flags, targets, store, sync, world, uvc, prev, caller>>

CapPost(t) ==
    /\ At(t, "post")
    /\ cap' = [cap EXCEPT ![t].pc = "callback", ![t].use = NULL]
    /\ UNCHANGED <<flags, targets, store, sync, world, uvc, prev, caller>>

\* do_capture_callback
CapCallback(t) ==
    /\ At(t, "callback")
    /\ CapGoto(t, IF callbackObj = NULL THEN "recycle"
                  ELSE IF callbackFunc THEN "getOut" ELSE "invoke")
    /\ UNCHANGED <<flags, targets, store, sync, world, uvc, prev, caller>>

CapGetOut(t) ==
    /\ At(t, "getOut")
    /\ GetFrame(CbFrame(t), stamp[hold[Frame(t)]])
    /\ CapGoto(t, IF hold'[CbFrame(t)] = NULL THEN "recycle" ELSE "convert")
    /\ UNCHANGED <<flags, targets, previewFrames, sync, world, uvc, prev, caller>>

\* The converted frame takes the place of the frame, which is recycled.
CapConvert(t) ==
    /\ At(t, "convert")
    /\ RecycleAll({hold[Frame(t)]})
    /\ hold' = [hold EXCEPT ![Frame(t)] = hold[CbFrame(t)], ![CbFrame(t)] = NULL]
    /\ \E l \in {"invoke", "recycle"} : CapGoto(t, l)
    /\ UNCHANGED <<flags, targets, previewFrames, sync, world, uvc,
                   prev, caller>>

\* CallVoidMethod(mFrameCallbackObj, onFrame): the member is read again.
CapInvoke(t) ==
    /\ At(t, "invoke")
    /\ cap' = [cap EXCEPT ![t].pc = "inCallback", ![t].use = callbackObj]
    /\ delivered' = stamp[hold[Frame(t)]]
    /\ UNCHANGED <<flags, targets, store, sync, captureThread, streaming,
                   requestMode, frameMode, sent, uvc, prev, caller>>

CapReturn(t) ==
    /\ At(t, "inCallback")
    /\ cap' = [cap EXCEPT ![t].pc = "recycle", ![t].use = NULL]
    /\ UNCHANGED <<flags, targets, store, sync, world, uvc, prev, caller>>

CapRecycle(t) ==
    /\ At(t, "recycle")
    /\ Recycle(Frame(t))
    /\ CapGoto(t, "inner")
    /\ UNCHANGED <<flags, targets, previewFrames, sync, world, uvc,
                   prev, caller>>

\* Mutant: the converted frame is recycled only if there still is a window.
CapClosingLate(t) ==
    /\ At(t, "closing")
    /\ IF captureWindow = NULL
       THEN UNCHANGED <<hold, pool, heap, stamp>> /\ CapGoto(t, "broadcast")
       ELSE Recycle(Converted(t)) /\ CapGoto(t, "release")
    /\ UNCHANGED <<flags, targets, previewFrames, sync, world, uvc,
                   prev, caller>>

\* End of do_capture_surface: the converted frame, then the window, which
\* is released and cleared without capture_mutex.
CapClosing(t) ==
    /\ At(t, "closing")
    /\ Recycle(Converted(t))
    /\ CapGoto(t, IF captureWindow = NULL THEN "broadcast" ELSE "release")
    /\ UNCHANGED <<flags, targets, previewFrames, sync, world, uvc,
                   prev, caller>>

CapRelease(t) ==
    /\ At(t, "release")
    /\ live' = live \ {captureWindow}
    /\ CapGoto(t, "null")
    /\ UNCHANGED <<flags, previewWindow, captureWindow, callbackObj,
                   callbackFunc, pixelFormat, store, sync, world, uvc, prev,
                   caller>>

CapNull(t) ==
    /\ At(t, "null")
    /\ captureWindow' = NULL
    /\ CapGoto(t, "broadcast")
    /\ UNCHANGED <<flags, previewWindow, callbackObj, callbackFunc,
                   pixelFormat, live, store, sync, world, uvc, prev, caller>>

CapBroadcast(t) ==
    /\ At(t, "broadcast")
    /\ BroadcastCapture
    /\ CapGoto(t, "loop")
    /\ UNCHANGED <<flags, targets, store, captureMutex, previewWaits, world,
                   uvc, prev, caller>>

-----------------------------------------------------------------------------

Init ==
    /\ running = FALSE /\ capturing = FALSE
    /\ previewWindow = FALSE /\ captureWindow = NULL
    /\ callbackObj = NULL /\ callbackFunc = FALSE
    /\ pixelFormat \in Formats
    /\ live = {}
    /\ previewFrames = <<>> /\ hold = [p \in Pointers |-> NULL]
    /\ pool = {} /\ heap = Frames
    /\ stamp = [f \in Frames |-> 0]
    /\ captureMutex = NULL /\ previewWaits = FALSE /\ captureWaits = {}
    /\ captureThread = NULL /\ streaming = FALSE
    /\ requestMode = FALSE /\ frameMode = FALSE
    /\ sent = 0 /\ delivered = 0
    /\ uvc = "idle" /\ prev = "none"
    /\ cap = [t \in CapThreads |-> [pc |-> "none", surface |-> FALSE, use |-> NULL]]
    /\ caller = [c \in Callers |-> [pc |-> "idle", op |-> "none", arg |-> NULL]]

\* What an application asks for, and what goes on without it.
Request(c) == \/ SetPreviewDisplay(c) \/ SetPreviewSize(c)
              \/ StartPreview(c) \/ StopPreview(c)
              \/ SetFrameCallback(c) \/ SetCaptureDisplay(c)

CallerStep(c) ==
    \/ SpawnPreview(c) \/ StartFailed(c)
    \/ EnterSetter(c) \/ Handshake(c) \/ HandshakeDone(c)
    \/ ReplaceCallback(c) \/ AssignCallback(c) \/ ClearFormat(c)
    \/ SetFormat(c)
    \/ CompareWindow(c) \/ ReleaseWindow(c) \/ AssignWindow(c)
    \/ StopFlag(c) \/ StopSignalPreview(c) \/ StopSignalCapture(c)
    \/ JoinCapture(c) \/ JoinPreview(c) \/ StopClearPreview(c)
    \/ StopClearCapture(c) \/ StopClosePreview(c) \/ StopCloseCapture(c)
    \/ DeletePreview(c)

UvcStep == UvcCopy \/ AddPreviewFrame \/ UvcRecycle

PrevStep ==
    \/ PrevPrepare \/ PrevStartStreaming \/ PrevClear \/ PrevSpawnCapture
    \/ PrevLoop \/ PrevWait \/ PrevTake \/ PrevDecode \/ PrevDecoded
    \/ PrevDropFailed \/ PrevDraw \/ PrevDrawn \/ AddCaptureFrame
    \/ PrevSignal \/ PrevStopStreaming

CapStep(t) ==
    \/ CapClear(t) \/ CapFormat(t) \/ CapLoop(t) \/ CapChoose(t)
    \/ CapInner(t) \/ CapWait(t) \/ CapTake(t)
    \/ CapConvertForSurface(t) \/ CapBlit(t) \/ CapPost(t) \/ CapCallback(t)
    \/ CapGetOut(t) \/ CapConvert(t) \/ CapInvoke(t) \/ CapReturn(t)
    \/ CapRecycle(t) \/ CapClosing(t) \/ CapRelease(t) \/ CapNull(t)
    \/ CapBroadcast(t)

Next ==
    \/ \E c \in Callers : Request(c) \/ CallerStep(c)
    \/ UvcPicture \/ UvcStep
    \/ PrevStep
    \/ \E t \in CapThreads : CapStep(t)
    \/ SpuriousWake

Spec == Init /\ [][Next]_vars

\* Threads that can run do run, and win capture_mutex if they try for ever;
\* callers finish the call they are in, but need not make another.
Fairness ==
    /\ WF_vars(UvcStep)
    /\ SF_vars(PrevStep)
    /\ \A t \in CapThreads : SF_vars(CapStep(t))
    /\ \A c \in Callers : SF_vars(CallerStep(c))

FairSpec == Spec /\ Fairness

-----------------------------------------------------------------------------

Targets   == Callbacks \cup Windows \cup {NULL}
CapRec    == [pc : CapPc, surface : BOOLEAN, use : Targets]
CallerRec == [pc : CallerPc, op : Op, arg : Targets]

TargetType ==
    /\ running \in BOOLEAN /\ capturing \in BOOLEAN
    /\ previewWindow \in BOOLEAN
    /\ captureWindow \in Targets /\ callbackObj \in Targets
    /\ callbackFunc \in BOOLEAN /\ pixelFormat \in Formats
    /\ live \subseteq Callbacks \cup Windows

StoreType ==
    /\ previewFrames \in Seq(Frames) /\ Len(previewFrames) <= MaxFrame
    /\ hold \in [Pointers -> Frames \cup {NULL}]
    /\ pool \subseteq Frames /\ Cardinality(pool) <= PoolSize
    /\ heap \subseteq Frames
    /\ stamp \in [Frames -> 0..MaxStamp]

SyncType ==
    /\ captureMutex \in Callers \cup {NULL}
    /\ previewWaits \in BOOLEAN
    /\ captureWaits \subseteq Callers \cup CapThreads

ThreadType ==
    /\ captureThread \in CapThreads \cup {NULL}
    /\ streaming \in BOOLEAN
    /\ requestMode \in BOOLEAN /\ frameMode \in BOOLEAN
    /\ sent \in 0..MaxStamp /\ delivered \in 0..MaxStamp
    /\ uvc \in UvcPc /\ prev \in PrevPc
    /\ cap \in [CapThreads -> CapRec]
    /\ caller \in [Callers -> CallerRec]

TypeOK == TargetType /\ StoreType /\ SyncType /\ ThreadType

-----------------------------------------------------------------------------
(* What must hold                                                          *)

Held == {hold[p] : p \in Pointers} \ {NULL}

(* A frame is in one place: in one pointer, in the preview queue, in the   *)
(* pool or not allocated.  A second owner would be a frame drawn while it  *)
(* is overwritten, or recycled twice by recycle_frame.                     *)
FrameOwnership ==
    /\ \A p, q \in Pointers : hold[p] = hold[q] /\ hold[p] # NULL => p = q
    /\ \A i, j \in DOMAIN previewFrames :
          previewFrames[i] = previewFrames[j] => i = j
    /\ Held \cap Queued = {}
    /\ (pool \cup heap) \cap (Held \cup Queued) = {}
    /\ pool \cap heap = {}

UvcAtHand == uvc \in {"add", "recycle"} => hold[COPY] # NULL
PrevAtHand ==
    /\ prev \in {"decode", "decoded"} => hold[MJPEG] # NULL
    /\ prev \in {"decoded", "failed", "draw", "drawn", "add"} => hold[FRAME] # NULL
    /\ prev = "drawn" => hold[DRAWN] # NULL
CapAtHand(t) ==
    /\ cap[t].pc \in {"surface", "blit", "post", "callback", "getOut",
                      "convert", "invoke", "inCallback", "recycle"}
          => hold[Frame(t)] # NULL
    /\ cap[t].pc \in {"blit", "post"} => hold[Converted(t)] # NULL
    /\ cap[t].pc = "convert" => hold[CbFrame(t)] # NULL

(* A thread never passes on or reads a frame it does not have: the early   *)
(* returns of uvc_preview_frame_callback, do_preview, draw_preview_one and *)
(* do_capture_callback cover every failure of get_frame.                   *)
FramesAtHand == UvcAtHand /\ PrevAtHand /\ \A t \in CapThreads : CapAtHand(t)

(* Between get_frame and recycle_frame a frame has one owner, and who      *)
(* works on a frame owns one.                                              *)
FramesInPlace == FrameOwnership /\ FramesAtHand

Lost == Frames \ (Held \cup Queued \cup pool \cup heap)

(* While the preview runs no frame is lost by any of the early returns,    *)
(* failed conversions and dropped pictures (get_frame without a            *)
(* recycle_frame).  Once it is stopped addCaptureFrame loses one: it has   *)
(* no else branch.                                                         *)
NoLossWhileRunning == [][running /\ running' => Lost' = Lost]_vars

(* Once stopPreview has joined its threads none of them is left.           *)
QuietAfterJoin ==
    \A c \in Callers :
       caller[c].pc \in {"clearPreview", "clearCapture", "closePreview",
                         "closeCapture", "delete"} =>
          /\ uvc = "idle" /\ ~streaming /\ prev = "none"
          /\ \A t \in CapThreads : cap[t].pc = "none"

(* What stopPreview clears and releases, and close deletes, nobody uses    *)
(* any more, and when it has cleared both queues no frame is on its way:   *)
(* all are in the pool, which the destructor empties, or lost before       *)
(* (NoLossWhileRunning).                                                   *)
NothingInFlight ==
    /\ QuietAfterJoin
    /\ \A c \in Callers :
          caller[c].pc \in {"closePreview", "closeCapture", "delete"} =>
             Held \cup Queued = {}

(* do_preview decodes what was asked for when it was started: frameMode,   *)
(* which setPreviewSize and the next prepare_preview may give another      *)
(* value, changes only while no picture is waiting or arriving.            *)
ModeChangesAtRest ==
    [][frameMode' # frameMode =>
          uvc = "idle" /\ ~streaming /\ previewFrames = <<>>]_vars

(* Outside setFrameCallback's critical section mFrameCallbackObj is NULL   *)
(* or a reference that has not been deleted.                               *)
CallbackNotDangling ==
    captureMutex = NULL /\ callbackObj # NULL => callbackObj \in live

(* "wait finishing capturing": the object onFrame is called on is still     *)
(* there until the call ends.                                              *)
CallbackAlive ==
    \A t \in CapThreads : At(t, "inCallback") => cap[t].use \in live

\* startCapture takes no monitor; the application does not overlap its calls.
OneCapture ==
    \A c, d \in Callers :
       caller[c].op = "capture" /\ caller[d].op = "capture" => c = d

(* mCaptureWindow points to a window that was released only between a      *)
(* release and the assignment that follows it, where do_capture_surface    *)
(* ends, without a lock, and in setCaptureDisplay, whose lock the capture  *)
(* thread does not take to read it.  After every other step it is NULL or  *)
(* a window to draw on and to release, whatever setCaptureDisplay, the     *)
(* capture loop and stopPreview did to it at the same time.                *)
WindowHandover ==
    captureWindow \notin live \cup {NULL} =>
       \/ \E t \in CapThreads : At(t, "null")
       \/ \E c \in Callers : caller[c].pc = "storeWindow"

(* capture_mutex is held by a setter that is in its critical section and   *)
(* can always go on: never by a caller that joins the threads which need   *)
(* the mutex to end, nor by one that has returned.                         *)
HolderMoves ==
    \A c \in Callers :
       captureMutex = c <=> caller[c].pc \in {"handshake", "replace", "assign",
                                              "format", "converter", "window",
                                              "releaseWindow", "storeWindow"}

(* No thread sleeps over its work: the preview thread does not wait while  *)
(* a picture is queued, nor a capture thread while there is a latest one,  *)
(* although the tests are made once and setters share capture_sync.        *)
NoSleepOnWork ==
    /\ previewWaits => previewFrames = <<>>
    /\ captureWaits \cap CapThreads # {} => hold[QUEU] = NULL

(* A full preview queue is drained and the latest frame is taken: no       *)
(* wakeup is lost between addPreviewFrame and waitPreviewFrame, nor        *)
(* between addCaptureFrame and waitCaptureFrame, unless the preview stops  *)
(* or, for the latter, new calls keep the capture loop busy.               *)
QueueDrains ==
    /\ (Len(previewFrames) = MaxFrame) ~> (Len(previewFrames) < MaxFrame \/ ~running)
    /\ (hold[QUEU] # NULL) ~> \/ hold[QUEU] = NULL \/ ~running
                              \/ \E c \in Callers : caller[c].pc # "idle"

(* stopPreview returns when it finds both threads waiting on their         *)
(* condition variables.                                                    *)
StopWakesWaiters ==
    \A c \in Callers :
       (caller[c].pc = "signalPreview" /\ previewWaits
          /\ captureThread \in captureWaits)
       ~> caller[c].pc = "idle"

(* The engine opens one stream at a time, whoever starts and stops it and  *)
(* however often: what was opened has been closed, and its last callback   *)
(* is over.                                                                *)
OneStream == [][PrevStartStreaming => ~streaming /\ uvc = "idle"]_vars

(* The engine implements FramePipe: IFrameCallback.onFrame is given the    *)
(* pictures in the order the camera sent them, and none twice, through two *)
(* queues and three threads and over restarts of the preview.              *)
Stamp(p) == IF hold[p] = NULL THEN 0 ELSE stamp[hold[p]]
Taken == {t \in CapThreads :
             cap[t].pc \in {"surface", "blit", "post", "callback", "getOut",
                            "convert", "invoke"}}

PipeArriving == IF uvc \in {"get", "add"} THEN sent ELSE 0
PipeQueue    == [i \in 1..Len(previewFrames) |-> stamp[previewFrames[i]]]
PipeHand     == IF hold[FRAME] # NULL THEN Stamp(FRAME) ELSE Stamp(MJPEG)
PipeLatest   == Stamp(QUEU)
PipeTaken    == IF Taken = {} THEN 0 ELSE Stamp(Frame(CHOOSE t \in Taken : TRUE))

Pipe == INSTANCE FramePipe WITH
    Capacity <- MaxFrame, arriving <- PipeArriving, queue <- PipeQueue,
    hand <- PipeHand, latest <- PipeLatest, taken <- PipeTaken

ImplementsPipe == Pipe!Spec
=============================================================================
