----------------------- MODULE UVCPreviewThreadProofs -----------------------
(***************************************************************************)
(* Proofs about the threads of UVCPreview, for every number of callers,    *)
(* capture threads, references and windows: who may still run when         *)
(* stopPreview has joined its threads, who still knows a reference or a    *)
(* window that is released, who holds capture_mutex, who sleeps on a       *)
(* condition variable, and when a stream is opened.  What is said of       *)
(* joined threads and of the window needs stopPreview not to come before   *)
(* the capture thread exists (EagerStop = FALSE).                          *)
(***************************************************************************)
EXTENDS UVCPreviewProofs

Starting == {"spawn", "spawnFailed"}
Stopping == {"signalPreview", "signalCapture", "joinCapture", "joinPreview"}
Joined   == {"clearPreview", "clearCapture", "closePreview", "closeCapture",
             "delete"}

(* One caller at a time is in a synchronized method.                       *)
Monitor ==
    /\ \A c \in Callers : caller[c].pc \in Starting => caller[c].op = "start"
    /\ \A c \in Callers : caller[c].pc \in {"stop"} \cup Stopping \cup Joined =>
                             caller[c].op \in Stops
    /\ \A c, d \in Callers : /\ caller[c].op \in {"start"} \cup Stops
                             /\ caller[d].op \in {"start"} \cup Stops
                             => c = d

NoCapture == \A t \in CapThreads : cap[t].pc = "none"
Quiet     == uvc = "idle" /\ ~streaming /\ prev = "none" /\ NoCapture
(* The preview thread has not started its capture thread yet.              *)
Opening   == prev \in {"prepare", "stream", "clear", "spawn"}

(* Who is left at each stage of startPreview and stopPreview.              *)
Stages ==
    /\ ~running => Quiet \/ \E c \in Callers : caller[c].pc \in Stopping
    /\ \A c \in Callers :
          /\ caller[c].pc \in Starting => running
          /\ caller[c].pc \in Starting \cup Joined => Quiet
          /\ caller[c].pc = "joinPreview" => NoCapture
          /\ caller[c].op \in Stops => ~Opening
    /\ Opening => NoCapture
    /\ \A t \in CapThreads : cap[t].pc # "none" => t = captureThread
    /\ prev \in {"none", "exited", "prepare", "stream"} => ~streaming
    /\ uvc # "idle" => streaming

(* setCaptureDisplay once it has waited for the capture loop.              *)
Replacing == {"window", "releaseWindow", "storeWindow"}

(* Callbacks and windows are kept apart.                                   *)
Kinds ==
    /\ callbackObj \in Callbacks \cup {NULL}
    /\ captureWindow \in Windows \cup {NULL}
    /\ \A c \in Callers :
          /\ caller[c].arg \in (IF caller[c].op = "capture" THEN Windows
                                ELSE Callbacks) \cup {NULL}
          /\ caller[c].pc \in Replacing => caller[c].op = "capture"
          /\ caller[c].pc \in {"replace", "assign"} => caller[c].op # "capture"

(* capture_mutex is held in the critical section of a setter.              *)
Inside == {"handshake", "replace", "assign", "format", "converter", "window",
           "releaseWindow", "storeWindow"}
Exclusion == \A c \in Callers : caller[c].pc \in Inside => captureMutex = c

Assigning == \E c \in Callers : caller[c].pc = "assign"
(* c brings a reference that nobody else knows of yet.                     *)
Brings(c) == /\ caller[c].pc \in {"enter", "handshake", "waiting", "replace", "assign"}
             /\ caller[c].op # "capture" /\ caller[c].arg # NULL

References ==
    /\ callbackObj \notin live \cup {NULL} => Assigning
    /\ \A c \in Callers : Brings(c) =>
          /\ caller[c].arg \in live
          /\ caller[c].arg = callbackObj => Assigning
          /\ \A d \in Callers : Brings(d) /\ caller[d].arg = caller[c].arg => d = c

-----------------------------------------------------------------------------
(* How a step moves the caller it belongs to                               *)

LEMMA Moves ==
    ASSUME TypeOK, NEW c \in Callers
    PROVE  /\ \A l : Goto(c, l) =>
                 /\ caller'[c].pc = l /\ caller'[c].op = caller[c].op
                 /\ caller'[c].arg = caller[c].arg
                 /\ \A d \in Callers \ {c} : caller'[d] = caller[d]
           /\ \A o, a, l : Call(c, o, a, l) =>
                 /\ caller[c].pc = "idle"
                 /\ caller'[c].pc = l /\ caller'[c].op = o /\ caller'[c].arg = a
                 /\ \A d \in Callers \ {c} : caller'[d] = caller[d]
           /\ Return(c) =>
                 /\ caller'[c].pc = "idle" /\ caller'[c].op = "none"
                 /\ caller'[c].arg = NULL
                 /\ \A d \in Callers \ {c} : caller'[d] = caller[d]
<1>1. caller \in [Callers -> CallerRec] /\ caller[c] \in CallerRec
  BY DEF TypeOK, ThreadType
<1>2. ASSUME NEW l, Goto(c, l)
      PROVE  /\ caller'[c].pc = l /\ caller'[c].op = caller[c].op
             /\ caller'[c].arg = caller[c].arg
             /\ \A d \in Callers \ {c} : caller'[d] = caller[d]
  BY <1>1, <1>2 DEF Goto, CallerRec
<1>3. ASSUME NEW o, NEW a, NEW l, Call(c, o, a, l)
      PROVE  /\ caller[c].pc = "idle"
             /\ caller'[c].pc = l /\ caller'[c].op = o /\ caller'[c].arg = a
             /\ \A d \in Callers \ {c} : caller'[d] = caller[d]
  BY <1>1, <1>3 DEF Call
<1>4. ASSUME Return(c)
      PROVE  /\ caller'[c].pc = "idle" /\ caller'[c].op = "none"
             /\ caller'[c].arg = NULL
             /\ \A d \in Callers \ {c} : caller'[d] = caller[d]
  BY <1>1, <1>4 DEF Return
<1>. QED BY <1>2, <1>3, <1>4
LEMMA MonitorStep ==
    ASSUME TypeOK, Monitor, NEW c \in Callers, Request(c) \/ CallerStep(c)
    PROVE  Monitor'
<1>. USE DEF Starting, Stopping, Joined, Stops
<1>1. ASSUME NEW l, Goto(c, l), l \in Starting => caller[c].op = "start",
             l \in {"stop"} \cup Stopping \cup Joined => caller[c].op \in Stops
      PROVE  Monitor'
  BY <1>1, Moves DEF Monitor
<1>2. ASSUME NEW o, NEW a, NEW l, Call(c, o, a, l), l \in Starting => o = "start",
             l \notin {"stop"} \cup Stopping \cup Joined,
             o \in {"start"} \cup Stops => MonitorFree
      PROVE  Monitor'
  BY <1>2, Moves DEF Monitor, MonitorFree
<1>3. Return(c) => Monitor'
  BY Moves DEF Monitor
<1>4. CASE Request(c)
  <2>1. CASE SetPreviewDisplay(c) \/ SetPreviewSize(c)
    BY <2>1 DEF SetPreviewDisplay, SetPreviewSize, threads, Monitor
  <2>2. CASE StartPreview(c)
    BY <2>2, <1>2 DEF StartPreview
  <2>3. CASE StopPreview(c)
    BY <2>3, <1>2 DEF StopPreview
  <2>4. CASE SetFrameCallback(c)
    BY <2>4, <1>2 DEF SetFrameCallback
  <2>5. CASE SetCaptureDisplay(c)
    BY <2>5, <1>2 DEF SetCaptureDisplay
  <2>. QED BY <1>4, <2>1, <2>2, <2>3, <2>4, <2>5 DEF Request
<1>5. CASE SpawnPreview(c)
  BY <1>5, <1>1, <1>3 DEF SpawnPreview, Monitor
<1>6. CASE \/ StartFailed(c) \/ DeletePreview(c)
           \/ CompareWindow(c) \/ ReleaseWindow(c) \/ AssignWindow(c)
  BY <1>6, <1>1, <1>3 DEF StartFailed, DeletePreview, CompareWindow,
                          ReleaseWindow, AssignWindow
<1>7. CASE EnterSetter(c)
  BY <1>7, <1>1 DEF EnterSetter, Then
<1>8. CASE Handshake(c) \/ HandshakeDone(c)
  BY <1>8, <1>1 DEF Handshake, HandshakeDone, Then
<1>9. CASE ReplaceCallback(c) \/ AssignCallback(c) \/ ClearFormat(c)
  BY <1>9, <1>1 DEF ReplaceCallback, AssignCallback, ClearFormat
<1>10. CASE SetFormat(c)
  BY <1>10, <1>1, <1>3 DEF SetFormat
<1>11. CASE StopFlag(c)
  BY <1>11, <1>1 DEF StopFlag, Monitor
<1>12. CASE StopSignalPreview(c) \/ StopSignalCapture(c) \/ JoinCapture(c) \/ JoinPreview(c)
  BY <1>12, <1>1 DEF StopSignalPreview, StopSignalCapture, JoinCapture, JoinPreview,
                     Monitor
<1>13. CASE \/ StopClearPreview(c) \/ StopClearCapture(c) \/ StopClosePreview(c)
            \/ StopCloseCapture(c)
  BY <1>13, <1>1, <1>3
     DEF StopClearPreview, StopClearCapture, StopClosePreview, StopCloseCapture,
         Monitor
<1>. QED BY <1>4, <1>5, <1>6, <1>7, <1>8, <1>9, <1>10, <1>11, <1>12, <1>13
         DEF CallerStep

-----------------------------------------------------------------------------
(* stopPreview and the threads                                             *)

LEMMA StagesCaller ==
    ASSUME EagerStop = FALSE, TypeOK, Monitor, Stages,
           NEW c \in Callers, Request(c) \/ CallerStep(c)
    PROVE  Stages'
<1>. USE DEF Starting, Stopping, Joined, Stops
<1>. DEFINE Threads == <<uvc, prev, cap, captureThread, streaming>>
\* steps of c that leave mIsRunning and the threads alone
<1>1. ASSUME NEW l, Goto(c, l), UNCHANGED <<running, Threads>>,
             l \notin Starting \cup Stopping \cup Joined, caller[c].pc \notin Stopping
      PROVE  Stages'
  BY <1>1, Moves DEF Stages, Quiet, NoCapture, Opening
<1>2. ASSUME Return(c), UNCHANGED <<running, Threads>>, caller[c].pc \notin Stopping
      PROVE  Stages'
  BY <1>2, Moves DEF Stages, Quiet, NoCapture, Opening
<1>3. CASE SetPreviewDisplay(c) \/ SetPreviewSize(c)
  BY <1>3 DEF SetPreviewDisplay, SetPreviewSize, flags, world, threads, Stages, Quiet, NoCapture, Opening
<1>4. CASE StartPreview(c)
  <2>1. Quiet
    BY <1>4 DEF StartPreview, MonitorFree, Monitor, Stages
  <2>. QED BY <1>4, <2>1, Moves DEF StartPreview, world, Stages, Quiet, NoCapture, Opening
<1>5. CASE StopPreview(c)
  BY <1>5, Moves DEF StopPreview, flags, world, Stages, Quiet, NoCapture, Opening
<1>6. CASE SetFrameCallback(c) \/ SetCaptureDisplay(c)
  <2>1. PICK o \in {"callback", "capture"} : \E a : Call(c, o, a, "enter")
    BY <1>6 DEF SetFrameCallback, SetCaptureDisplay
  <2>2. UNCHANGED <<running, Threads>>
    BY <1>6 DEF SetFrameCallback, SetCaptureDisplay, flags, world
  <2>. QED BY <2>1, <2>2, Moves DEF Stages, Quiet, NoCapture, Opening
<1>7. CASE SpawnPreview(c)
  <2>1. Quiet /\ caller[c].op = "start"
    BY <1>7 DEF SpawnPreview, Stages, Monitor
  <2>2. \A d \in Callers \ {c} : caller[d].op \notin {"start"} \cup Stops
    BY <2>1 DEF Monitor
  <2>3. \A d \in Callers : caller'[d].op \notin Stops /\ caller'[d].pc \notin Joined \cup {"joinPreview"}
                           /\ (caller'[d].pc \in Starting => d = c /\ UNCHANGED prev)
    BY <1>7, <2>1, <2>2, Moves DEF SpawnPreview, Monitor
  <2>4. UNCHANGED <<running, uvc, cap, captureThread, streaming>>
    BY <1>7 DEF SpawnPreview, flags, world
  <2>5. running
    BY <1>7, <2>1 DEF SpawnPreview, Stages
  <2>. QED BY <1>7, <2>1, <2>3, <2>4, <2>5 DEF SpawnPreview, Stages, Quiet, NoCapture, Opening
<1>8. CASE StartFailed(c)
  <2>1. Quiet
    BY <1>8 DEF StartFailed, Stages
  <2>2. \A d \in Callers \ {c} : caller[d].op \notin {"start"} \cup Stops
    BY <1>8 DEF StartFailed, Monitor
  <2>3. \A d \in Callers : caller'[d].op \notin Stops /\ caller'[d].pc \notin Joined \cup {"joinPreview"}
                           /\ caller'[d].pc \notin Starting
    BY <1>8, <2>2, Moves DEF StartFailed, Monitor
  <2>4. UNCHANGED Threads
    BY <1>8 DEF StartFailed, world
  <2>. QED BY <2>1, <2>3, <2>4 DEF Stages, Quiet, NoCapture, Opening
<1>9. CASE EnterSetter(c)
  BY <1>9, <1>1 DEF EnterSetter, Then, world
<1>10. CASE Handshake(c) \/ HandshakeDone(c)
  BY <1>10, <1>1 DEF Handshake, HandshakeDone, Then, flags, world
<1>11. CASE ReplaceCallback(c) \/ AssignCallback(c) \/ ClearFormat(c)
  BY <1>11, <1>1 DEF ReplaceCallback, AssignCallback, ClearFormat, flags, world
<1>12. CASE SetFormat(c)
  BY <1>12, <1>1, <1>2 DEF SetFormat, flags, world
<1>13. CASE CompareWindow(c) \/ ReleaseWindow(c) \/ AssignWindow(c)
  BY <1>13, <1>1, <1>2 DEF CompareWindow, ReleaseWindow, AssignWindow, flags, world
<1>14. CASE StopFlag(c)
  <2>1. caller[c].op \in Stops
    BY <1>14 DEF StopFlag, Monitor
  <2>2. \A d \in Callers \ {c} : caller[d].op \notin {"start"} \cup Stops
    BY <2>1 DEF Monitor
  <2>3. \A d \in Callers \ {c} : /\ caller[d].pc \notin Starting \cup Stopping \cup Joined
                                 /\ caller'[d] = caller[d]
    BY <1>14, <2>2, Moves DEF StopFlag, Monitor
  <2>4. /\ UNCHANGED Threads /\ ~running'
        /\ caller'[c].op \in Stops
        /\ caller'[c].pc = IF running THEN "signalPreview" ELSE "clearPreview"
    BY <1>14, <2>1, Moves DEF StopFlag, world
  <2>5. ~running => Quiet
    BY <1>14, <2>3 DEF StopFlag, Stages
  <2>. QED BY <2>1, <2>2, <2>3, <2>4, <2>5 DEF Stages, Quiet, NoCapture, Opening
<1>15. CASE StopSignalPreview(c) \/ StopSignalCapture(c)
  <2>1. PICK l \in {"signalCapture", "joinCapture"} : Goto(c, l)
    BY <1>15 DEF StopSignalPreview, StopSignalCapture
  <2>2. UNCHANGED <<running, Threads>>
    BY <1>15 DEF StopSignalPreview, StopSignalCapture, flags, world
  <2>. QED BY <2>1, <2>2, Moves DEF Stages, Quiet, NoCapture, Opening
<1>16. CASE JoinCapture(c)
  <2>1. NoCapture'
    <3>1. cap \in [CapThreads -> CapRec] /\ NULL \notin CapThreads
      BY NullAssumption DEF TypeOK, ThreadType
    <3>. QED BY <1>16, <3>1 DEF JoinCapture, Joinable, NoCapture, Stages, CapRec
  <2>2. UNCHANGED <<running, uvc, prev, captureThread, streaming>>
    BY <1>16 DEF JoinCapture, flags, world
  <2>3. NoCapture => NoCapture'
    BY <2>1
  <2>. QED BY <1>16, <2>1, <2>2, Moves
           DEF JoinCapture, Stages, Quiet, NoCapture, Opening
<1>17. CASE JoinPreview(c)
  <2>1. Quiet'
    BY <1>17 DEF JoinPreview, Stages, Quiet, NoCapture, world
  <2>. QED BY <1>17, <2>1, Moves
           DEF JoinPreview, Stages, Quiet, NoCapture, Opening, flags, world
<1>18. CASE StopClearPreview(c) \/ StopClearCapture(c) \/ StopClosePreview(c)
  <2>1. PICK l \in {"clearCapture", "closePreview", "closeCapture"} : Goto(c, l)
    BY <1>18 DEF StopClearPreview, StopClearCapture, StopClosePreview
  <2>2. UNCHANGED <<running, Threads>> /\ caller[c].pc \in Joined
    BY <1>18 DEF StopClearPreview, StopClearCapture, StopClosePreview, flags, world
  <2>. QED BY <2>1, <2>2, Moves DEF Stages, Quiet, NoCapture, Opening
<1>19. CASE StopCloseCapture(c)
  <2>1. UNCHANGED <<running, Threads>> /\ caller[c].pc \in Joined
    BY <1>19 DEF StopCloseCapture, flags, world
  <2>. QED BY <1>19, <2>1, Moves
           DEF StopCloseCapture, Stages, Quiet, NoCapture, Opening
<1>20. CASE DeletePreview(c)
  <2>1. Quiet /\ Quiet'
    BY <1>20 DEF DeletePreview, Stages, Quiet, NoCapture
  <2>2. UNCHANGED running
    BY <1>20 DEF DeletePreview
  <2>. QED BY <1>20, <2>1, <2>2, Moves
           DEF DeletePreview, Stages, Quiet, NoCapture, Opening
<1>. QED BY <1>3, <1>4, <1>5, <1>6, <1>7, <1>8, <1>9, <1>10, <1>11, <1>12,
            <1>13, <1>14, <1>15, <1>16, <1>17, <1>18, <1>19, <1>20
         DEF Request, CallerStep

LEMMA StagesUvc == ASSUME Stages, UvcPicture \/ UvcStep PROVE Stages'
<1>1. UNCHANGED <<running, prev, cap, caller, captureThread, streaming>>
  BY DEF UvcPicture, UvcStep, UvcCopy, AddPreviewFrame, UvcRecycle, flags, world
<1>2. streaming
  BY DEF Stages, UvcPicture, UvcStep, UvcCopy, AddPreviewFrame, UvcRecycle
<1>. QED BY <1>1, <1>2 DEF Stages, Quiet, NoCapture, Opening

LEMMA StagesPrev == ASSUME TypeOK, Monitor, Stages, PrevStep PROVE Stages'
<1>1. CASE PrevPrepare
  BY <1>1 DEF PrevPrepare, flags, world, Stages, Quiet, NoCapture, Opening
<1>2. CASE PrevStartStreaming
  BY <1>2 DEF PrevStartStreaming, flags, Stages, Quiet, NoCapture, Opening
<1>3. CASE PrevClear
  BY <1>3 DEF PrevClear, flags, world, Stages, Quiet, NoCapture, Opening
<1>4. CASE PrevSpawnCapture
  <2>1. cap \in [CapThreads -> CapRec]
    BY DEF TypeOK, ThreadType
  <2>2. NoCapture /\ prev' = "loop" /\ UNCHANGED <<running, streaming, uvc, caller>>
    BY <1>4 DEF PrevSpawnCapture, Stages, Opening, flags
  <2>3. \A t \in CapThreads : cap'[t].pc # "none" => t = captureThread'
    BY <1>4, <2>1, <2>2 DEF PrevSpawnCapture, NoCapture, Opening
  <2>4. \A c \in Callers : caller[c].pc # "joinPreview" \/ caller[c].op \notin Stops
    BY <1>4 DEF PrevSpawnCapture, Stages, Opening
  <2>5. \A c \in Callers : caller[c].pc # "joinPreview"
    BY <2>4 DEF Monitor, Stopping
  <2>. QED BY <1>4, <2>2, <2>3, <2>5 DEF PrevSpawnCapture, Stages, Quiet, Opening
<1>5. CASE PrevStopStreaming
  BY <1>5 DEF PrevStopStreaming, flags, Stages, Quiet, NoCapture, Opening
<1>6. ASSUME prev \notin {"none", "exited", "prepare", "stream", "clear", "spawn"},
             prev' \notin {"none", "exited", "prepare", "stream", "clear", "spawn"},
             UNCHANGED <<running, uvc, cap, caller, captureThread, streaming>>
      PROVE  Stages'
  BY <1>6 DEF Stages, Quiet, NoCapture, Opening
<1>7. CASE PrevLoop \/ PrevWait \/ PrevTake \/ PrevSignal
  BY <1>6, <1>7 DEF PrevLoop, PrevWait, PrevTake, PrevSignal, flags, world
<1>8. CASE PrevDecode \/ PrevDecoded \/ PrevDropFailed
  BY <1>6, <1>8 DEF PrevDecode, PrevDecoded, PrevDropFailed, flags, world
<1>9. CASE PrevDraw \/ PrevDrawn \/ AddCaptureFrame
  BY <1>6, <1>9 DEF PrevDraw, PrevDrawn, AddCaptureFrame, flags, world
<1>. QED BY <1>1, <1>2, <1>3, <1>4, <1>5, <1>7, <1>8, <1>9 DEF PrevStep

LEMMA StagesCap == ASSUME TypeOK, Stages, NEW t \in CapThreads, CapStep(t) PROVE Stages'
<1>1. UNCHANGED <<running, uvc, prev, caller, captureThread, streaming>>
  BY DEF CapStep, CapClear, CapFormat, CapLoop, CapChoose,
         CapInner, CapWait, CapTake,
         CapConvertForSurface, CapBlit, CapPost, CapCallback, CapGetOut,
         CapConvert, CapInvoke, CapReturn, CapRecycle, CapClosing, CapRelease,
         CapNull, CapBroadcast, flags, world
<1>2. cap[t].pc # "none" /\ \A u \in CapThreads \ {t} : cap'[u] = cap[u]
  <2>1. cap \in [CapThreads -> CapRec]
    BY DEF TypeOK, ThreadType
  <2>. USE <2>1 DEF At, CapGoto
  <2>2. CASE \/ CapClear(t) \/ CapFormat(t) \/ CapLoop(t) \/ CapChoose(t)
             \/ CapInner(t) \/ CapWait(t) \/ CapTake(t)
    BY <2>2 DEF CapClear, CapFormat, CapLoop, CapChoose, CapInner, CapWait, CapTake
  <2>3. CASE CapConvertForSurface(t) \/ CapBlit(t) \/ CapPost(t) \/ CapCallback(t)
    BY <2>3 DEF CapConvertForSurface, CapBlit, CapPost, CapCallback
  <2>4. CASE CapGetOut(t) \/ CapConvert(t) \/ CapInvoke(t) \/ CapReturn(t)
    BY <2>4 DEF CapGetOut, CapConvert, CapInvoke, CapReturn
  <2>5. CASE CapRecycle(t) \/ CapClosing(t) \/ CapRelease(t) \/ CapNull(t) \/ CapBroadcast(t)
    BY <2>5 DEF CapRecycle, CapClosing, CapRelease, CapNull, CapBroadcast
  <2>. QED BY <2>2, <2>3, <2>4, <2>5 DEF CapStep
<1>3. ~NoCapture
  BY <1>2 DEF NoCapture
<1>. QED BY <1>1, <1>2, <1>3 DEF Stages, Quiet, Opening

LEMMA Joining ==
    ASSUME EagerStop = FALSE
    PROVE  Spec => [](TypeOK /\ Monitor /\ Stages)
<1>. DEFINE Inv == TypeOK /\ Monitor /\ Stages
<1>1. Init => Monitor /\ Stages
  BY DEF Init, Monitor, Stages, Quiet, NoCapture, Opening, Starting, Stopping, Joined, Stops
<1>2. ASSUME TypeOK, Monitor, Stages, [Next]_vars PROVE Monitor' /\ Stages'
  <2>1. ASSUME NEW c \in Callers, Request(c) \/ CallerStep(c) PROVE Monitor' /\ Stages'
    BY <1>2, <2>1, MonitorStep, StagesCaller
  <2>2. ASSUME UNCHANGED caller PROVE Monitor'
    BY <1>2, <2>2 DEF Monitor
  <2>3. CASE UvcPicture \/ UvcStep
    <3>1. UNCHANGED caller
      BY <2>3 DEF UvcPicture, UvcStep, UvcCopy, AddPreviewFrame, UvcRecycle
    <3>. QED BY <1>2, <2>2, <2>3, <3>1, StagesUvc
  <2>4. CASE PrevStep
    <3>1. UNCHANGED caller
      BY <2>4 DEF PrevStep, PrevPrepare, PrevStartStreaming, PrevClear,
             PrevSpawnCapture, PrevLoop, PrevWait, PrevTake, PrevDecode,
             PrevDecoded, PrevDropFailed, PrevDraw, PrevDrawn,
             AddCaptureFrame, PrevSignal, PrevStopStreaming
    <3>. QED BY <1>2, <2>2, <2>4, <3>1, StagesPrev
  <2>5. ASSUME NEW t \in CapThreads, CapStep(t) PROVE Monitor' /\ Stages'
    <3>1. UNCHANGED caller
      BY <2>5 DEF CapStep, CapClear, CapFormat, CapLoop, CapChoose,
         CapInner, CapWait, CapTake,
         CapConvertForSurface, CapBlit, CapPost, CapCallback, CapGetOut,
         CapConvert, CapInvoke, CapReturn, CapRecycle, CapClosing, CapRelease,
         CapNull, CapBroadcast
    <3>. QED BY <1>2, <2>2, <2>5, <3>1, StagesCap
  <2>6. CASE SpuriousWake \/ UNCHANGED vars
    <3>1. UNCHANGED <<caller, running, uvc, prev, cap, captureThread, streaming>>
      BY <2>6 DEF SpuriousWake, vars, flags, world, threads
    <3>. QED BY <1>2, <2>2, <3>1 DEF Stages, Quiet, NoCapture, Opening
  <2>. QED BY <1>2, <2>1, <2>3, <2>4, <2>5, <2>6 DEF Next
<1>3. Init => Inv
  BY <1>1, InitIInv DEF IInv
<1>4. IInv /\ Inv /\ [Next]_vars => Inv'
  BY <1>2, NextIInv DEF IInv
<1>. QED BY <1>3, <1>4, Invariance, PTL DEF Spec

(* When stopPreview clears the queues and releases the windows, no thread  *)
(* of the preview is left, however starts, stops and failures follow each  *)
(* other.                                                                  *)
THEOREM QuietAlways ==
    ASSUME EagerStop = FALSE
    PROVE  Spec => []QuietAfterJoin
<1>1. Monitor /\ Stages => QuietAfterJoin
  BY DEF Stages, Quiet, NoCapture, Joined, QuietAfterJoin
<1>. QED BY <1>1, Joining, PTL

-----------------------------------------------------------------------------
(* The references of setFrameCallback                                      *)

LEMMA KindsCaller ==
    ASSUME TypeOK, Kinds, NEW c \in Callers, Request(c) \/ CallerStep(c)
    PROVE  Kinds'
<1>. USE DEF Replacing
<1>1. ASSUME NEW l, Goto(c, l), UNCHANGED <<callbackObj, captureWindow>>,
             l \in Replacing => caller[c].op = "capture",
             l \in {"replace", "assign"} => caller[c].op # "capture"
      PROVE  Kinds'
  BY <1>1, Moves DEF Kinds
<1>2. ASSUME NEW o, NEW a, NEW l, Call(c, o, a, l),
             l \notin Replacing \cup {"replace", "assign"},
             a \in (IF o = "capture" THEN Windows ELSE Callbacks) \cup {NULL},
             UNCHANGED <<callbackObj, captureWindow>>
      PROVE  Kinds'
  BY <1>2, Moves DEF Kinds
<1>3. ASSUME Return(c), callbackObj' \in {callbackObj, NULL},
             captureWindow' \in Windows \cup {NULL}
      PROVE  Kinds'
  BY <1>3, Moves DEF Kinds
<1>4. CASE SetPreviewDisplay(c) \/ SetPreviewSize(c)
  BY <1>4 DEF SetPreviewDisplay, SetPreviewSize, targets, threads, Kinds
<1>5. CASE StartPreview(c) \/ StopPreview(c)
  BY <1>5, <1>2 DEF StartPreview, StopPreview, targets
<1>6. CASE SetFrameCallback(c)
  BY <1>6, <1>2 DEF SetFrameCallback
<1>7. CASE SetCaptureDisplay(c)
  BY <1>7, <1>2 DEF SetCaptureDisplay
<1>8. CASE SpawnPreview(c) \/ StartFailed(c)
  BY <1>8, <1>1, <1>3 DEF SpawnPreview, StartFailed, targets, Kinds
<1>9. CASE EnterSetter(c) \/ Handshake(c) \/ HandshakeDone(c)
  BY <1>9, <1>1 DEF EnterSetter, Handshake, HandshakeDone, Then, targets
<1>10. CASE ReplaceCallback(c) \/ ClearFormat(c)
  BY <1>10, <1>1 DEF ReplaceCallback, ClearFormat, Kinds
<1>11. CASE AssignCallback(c)
  <2>1. caller[c].arg \in Callbacks \cup {NULL}
    BY <1>11 DEF AssignCallback, Kinds
  <2>. QED BY <1>11, <2>1, Moves DEF AssignCallback, Kinds
<1>12. CASE SetFormat(c)
  BY <1>12, <1>1, <1>3 DEF SetFormat, Kinds
<1>13. CASE \/ CompareWindow(c) \/ ReleaseWindow(c) \/ AssignWindow(c)
            \/ DeletePreview(c)
  <2>1. CASE CompareWindow(c) \/ ReleaseWindow(c)
    BY <2>1, <1>1, <1>3 DEF CompareWindow, ReleaseWindow, targets, Kinds
  <2>2. CASE AssignWindow(c) \/ DeletePreview(c)
    BY <2>2, <1>3 DEF AssignWindow, DeletePreview, Kinds
  <2>. QED BY <1>13, <2>1, <2>2
<1>14. CASE StopFlag(c)
  BY <1>14, <1>1 DEF StopFlag, targets
<1>15. CASE StopSignalPreview(c) \/ StopSignalCapture(c) \/ JoinCapture(c) \/ JoinPreview(c)
  BY <1>15, <1>1 DEF StopSignalPreview, StopSignalCapture, JoinCapture,
                     JoinPreview, targets
<1>16. CASE StopClearPreview(c) \/ StopClearCapture(c) \/ StopClosePreview(c)
  BY <1>16, <1>1 DEF StopClearPreview, StopClearCapture, StopClosePreview, targets
<1>17. CASE StopCloseCapture(c)
  BY <1>17, <1>3, Moves DEF StopCloseCapture, Kinds
<1>. QED BY <1>4, <1>5, <1>6, <1>7, <1>8, <1>9, <1>10, <1>11, <1>12, <1>13,
            <1>14, <1>15, <1>16, <1>17 DEF Request, CallerStep

LEMMA ExclusionCaller ==
    ASSUME TypeOK, Exclusion, NEW c \in Callers, Request(c) \/ CallerStep(c)
    PROVE  Exclusion'
<1>. USE DEF Inside
\* nobody else is inside where c takes the mutex, or gives it back
<1>1. ASSUME \A d \in Callers \ {c} : caller'[d] = caller[d],
             caller'[c].pc \in Inside => captureMutex' = c,
             UNCHANGED captureMutex \/ captureMutex = NULL \/ captureMutex = c
      PROVE  Exclusion'
  BY <1>1, NullAssumption DEF Exclusion
<1>2. CASE Request(c)
  BY <1>2, <1>1, Moves
     DEF Request, SetPreviewDisplay, SetPreviewSize, StartPreview, StopPreview, SetFrameCallback,
         SetCaptureDisplay, sync, threads, Exclusion
<1>3. CASE SpawnPreview(c) \/ StartFailed(c)
  BY <1>3, <1>1, Moves DEF SpawnPreview, StartFailed, sync
<1>4. CASE EnterSetter(c)
  BY <1>4, <1>1, Moves DEF EnterSetter
<1>5. CASE Handshake(c) \/ HandshakeDone(c)
  BY <1>5, <1>1, Moves DEF Handshake, HandshakeDone, Exclusion
<1>6. CASE ReplaceCallback(c) \/ AssignCallback(c) \/ ClearFormat(c)
  BY <1>6, <1>1, Moves DEF ReplaceCallback, AssignCallback, ClearFormat, sync, Exclusion
<1>7. CASE \/ SetFormat(c)
           \/ CompareWindow(c) \/ ReleaseWindow(c) \/ AssignWindow(c)
  BY <1>7, <1>1, Moves DEF SetFormat, CompareWindow, ReleaseWindow,
                           AssignWindow, sync, Exclusion
<1>8. CASE StopFlag(c) \/ StopSignalPreview(c) \/ StopSignalCapture(c)
  BY <1>8, <1>1, Moves DEF StopFlag, StopSignalPreview, StopSignalCapture, sync
<1>9. CASE JoinCapture(c) \/ JoinPreview(c) \/ StopClearPreview(c)
  BY <1>9, <1>1, Moves DEF JoinCapture, JoinPreview, StopClearPreview, sync
<1>10. CASE StopClearCapture(c) \/ StopClosePreview(c) \/ StopCloseCapture(c)
  BY <1>10, <1>1, Moves DEF StopClearCapture, StopClosePreview, StopCloseCapture, sync
<1>11. CASE DeletePreview(c)
  BY <1>11, <1>1, Moves DEF DeletePreview, sync
<1>. QED BY <1>2, <1>3, <1>4, <1>5, <1>6, <1>7, <1>8, <1>9, <1>10, <1>11
         DEF CallerStep

\* A window is deleted, or nothing, by a step that leaves the callers alone.
LEMMA ReferencesStay ==
    ASSUME Kinds, References, UNCHANGED <<caller, callbackObj>>,
           live' = live \/ live' = live \ {captureWindow}
    PROVE  References'
<1>1. \A r \in Callbacks : r \in live => r \in live'
  BY TargetsAssumption, NullAssumption DEF Kinds
<1>2. \A c \in Callers : Brings(c) => caller[c].arg \in Callbacks
  BY DEF Kinds, Brings
<1>3. callbackObj \in Callbacks \cup {NULL}
  BY DEF Kinds
<1>. QED BY <1>1, <1>2, <1>3 DEF References, Brings, Assigning

LEMMA ReferencesCaller ==
    ASSUME TypeOK, Kinds, Exclusion, References,
           NEW c \in Callers, Request(c) \/ CallerStep(c)
    PROVE  References'
<1>. USE DEF Brings, Assigning
\* c is not at the point where it stores its reference, and brings none new
<1>1. ASSUME \A d \in Callers \ {c} : caller'[d] = caller[d],
             caller[c].pc # "assign" /\ caller'[c].pc # "assign",
             Brings(c)' => Brings(c) /\ caller'[c].arg = caller[c].arg,
             UNCHANGED callbackObj,
             live' = live \/ live' = live \ {captureWindow}
      PROVE  References'
  <2>1. \A r \in Callbacks : r \in live => r \in live'
    BY <1>1, TargetsAssumption, NullAssumption DEF Kinds
  <2>2. \A d \in Callers : Brings(d) => caller[d].arg \in Callbacks
    BY DEF Kinds
  <2>3. callbackObj \in Callbacks \cup {NULL}
    BY DEF Kinds
  <2>4. Assigning' <=> Assigning
    BY <1>1
  <2>5. \A d \in Callers : Brings(d)' => Brings(d) /\ caller'[d].arg = caller[d].arg
    BY <1>1
  <2>. HIDE DEF Brings, Assigning
  <2>. QED BY <1>1, <2>1, <2>2, <2>3, <2>4, <2>5 DEF References
<1>2. CASE SetPreviewDisplay(c) \/ SetPreviewSize(c)
  BY <1>2, ReferencesStay DEF SetPreviewDisplay, SetPreviewSize, targets, threads
<1>3. CASE StartPreview(c) \/ StopPreview(c)
  BY <1>3, <1>1, Moves DEF StartPreview, StopPreview, targets
<1>4. CASE SetFrameCallback(c)
  <2>1. PICK r \in (Callbacks \ live) \cup {NULL} :
             Call(c, "callback", r, "enter") /\ live' = live \cup ({r} \ {NULL})
    BY <1>4 DEF SetFrameCallback
  <2>2. callbackObj' = callbackObj
    BY <1>4 DEF SetFrameCallback
  <2>3. caller[c].pc = "idle" /\ (Assigning' <=> Assigning)
    BY <2>1, Moves
  <2>4. Brings(c)' => r # NULL /\ r \notin live /\ caller'[c].arg = r
    BY <2>1, Moves
  <2>5. \A d \in Callers \ {c} : (Brings(d)' <=> Brings(d)) /\ caller'[d] = caller[d]
    BY <2>1, Moves
  <2>6. \A d \in Callers \ {c} : Brings(d) => caller[d].arg \in live
    BY DEF References
  <2>. HIDE DEF Brings, Assigning
  <2>. QED BY <2>1, <2>2, <2>3, <2>4, <2>5, <2>6 DEF References
<1>5. CASE SetCaptureDisplay(c)
  <2>1. PICK w : Call(c, "capture", w, "enter") /\ live' = live \cup ({w} \ {NULL})
    BY <1>5 DEF SetCaptureDisplay
  <2>2. callbackObj' = callbackObj
    BY <1>5 DEF SetCaptureDisplay
  <2>3. caller[c].pc = "idle" /\ (Assigning' <=> Assigning) /\ ~Brings(c)'
    BY <2>1, Moves
  <2>4. \A d \in Callers \ {c} : (Brings(d)' <=> Brings(d)) /\ caller'[d] = caller[d]
    BY <2>1, Moves
  <2>. HIDE DEF Brings, Assigning
  <2>. QED BY <2>1, <2>2, <2>3, <2>4 DEF References
<1>6. CASE SpawnPreview(c) \/ StartFailed(c)
  BY <1>6, <1>1, Moves DEF SpawnPreview, StartFailed, targets
<1>7. CASE EnterSetter(c) \/ Handshake(c) \/ HandshakeDone(c)
  BY <1>7, <1>1, Moves DEF EnterSetter, Handshake, HandshakeDone, Then, targets
<1>8. CASE ReplaceCallback(c)
  <2>1. callbackObj' = callbackObj
    BY <1>8 DEF ReplaceCallback
  <2>2. CASE live' = live \ {callbackObj} /\ Goto(c, "assign")
    <3>1. ~Assigning
      BY <1>8 DEF ReplaceCallback, Exclusion, Inside
    <3>2. caller'[c].pc = "assign" /\ Assigning'
      BY <2>2, Moves
    <3>3. \A d \in Callers : (Brings(d)' <=> Brings(d)) /\ caller'[d].arg = caller[d].arg
      BY <1>8, <2>2, Moves DEF ReplaceCallback
    <3>. HIDE DEF Brings, Assigning
    <3>. QED BY <2>1, <2>2, <3>1, <3>2, <3>3 DEF References
  <2>3. CASE Goto(c, "format") /\ UNCHANGED live
    BY <1>8, <1>1, <2>1, <2>3, Moves DEF ReplaceCallback
  <2>. QED BY <1>8, <2>2, <2>3 DEF ReplaceCallback
<1>9. CASE AssignCallback(c)
  <2>1. /\ \A d \in Callers \ {c} : caller[d].pc # "assign"
        /\ caller'[c].pc = "format"
        /\ \A d \in Callers \ {c} : caller'[d] = caller[d]
    BY <1>9, Moves DEF AssignCallback, Exclusion, Inside
  <2>2. ~Assigning' /\ ~Brings(c)'
    BY <2>1
  <2>3. \A d \in Callers \ {c} : Brings(d)' <=> Brings(d)
    BY <2>1
  <2>4. caller[c].arg # NULL => Brings(c)
    BY <1>9 DEF AssignCallback, Kinds
  <2>5. \A d \in Callers \ {c} : Brings(d) => caller[d].arg \notin {caller[c].arg, NULL}
    BY <2>4 DEF References
  <2>6. \/ callbackObj' = caller[c].arg /\ UNCHANGED live
        \/ callbackObj' = NULL /\ live' = live \ {caller[c].arg}
    BY <1>9 DEF AssignCallback
  <2>. HIDE DEF Brings, Assigning
  <2>. QED BY <2>1, <2>2, <2>3, <2>4, <2>5, <2>6 DEF References
<1>10. CASE ClearFormat(c) \/ SetFormat(c)
  BY <1>10, <1>1, Moves DEF ClearFormat, SetFormat
<1>11. CASE \/ CompareWindow(c) \/ ReleaseWindow(c) \/ AssignWindow(c)
            \/ StopCloseCapture(c)
  BY <1>11, <1>1, Moves DEF CompareWindow, ReleaseWindow, AssignWindow,
                            StopCloseCapture, targets
<1>12. CASE StopFlag(c) \/ StopSignalPreview(c) \/ StopSignalCapture(c)
  BY <1>12, <1>1, Moves DEF StopFlag, StopSignalPreview, StopSignalCapture, targets
<1>13. CASE JoinCapture(c) \/ JoinPreview(c) \/ StopClearPreview(c)
  BY <1>13, <1>1, Moves DEF JoinCapture, JoinPreview, StopClearPreview, targets
<1>14. CASE StopClearCapture(c) \/ StopClosePreview(c)
  BY <1>14, <1>1, Moves DEF StopClearCapture, StopClosePreview, targets
<1>15. CASE DeletePreview(c)
  <2>1. /\ \A d \in Callers : caller'[d].pc = "idle"
        /\ callbackObj' = NULL
    BY <1>15, Moves DEF DeletePreview
  <2>. QED BY <2>1 DEF References
<1>. QED BY <1>2, <1>3, <1>4, <1>5, <1>6, <1>7, <1>8, <1>9, <1>10, <1>11,
            <1>12, <1>13, <1>14, <1>15 DEF Request, CallerStep

LEMMA Referring == Spec => [](TypeOK /\ Kinds /\ Exclusion /\ References)
<1>. DEFINE Inv == TypeOK /\ Kinds /\ Exclusion /\ References
<1>1. Init => Kinds /\ Exclusion /\ References
  BY DEF Init, Kinds, Replacing, Exclusion, Inside, References, Brings
<1>2. ASSUME TypeOK, Kinds, Exclusion, References, [Next]_vars
      PROVE  Kinds' /\ Exclusion' /\ References'
  <2>1. ASSUME NEW c \in Callers, Request(c) \/ CallerStep(c)
        PROVE  Kinds' /\ Exclusion' /\ References'
    BY <1>2, <2>1, KindsCaller, ExclusionCaller, ReferencesCaller
  \* the other threads may delete a window, and clear captureWindow
  <2>2. ASSUME UNCHANGED <<caller, callbackObj, captureMutex>>,
               captureWindow' \in {captureWindow, NULL},
               live' = live \/ live' = live \ {captureWindow}
        PROVE  Kinds' /\ Exclusion' /\ References'
    BY <1>2, <2>2, ReferencesStay DEF Kinds, Exclusion
  <2>3. CASE UvcPicture \/ UvcStep
    BY <2>2, <2>3 DEF UvcPicture, UvcStep, UvcCopy, AddPreviewFrame, UvcRecycle,
                      targets, sync
  <2>4. CASE PrevStep
    BY <2>2, <2>4
       DEF PrevStep, PrevPrepare, PrevStartStreaming, PrevClear,
           PrevSpawnCapture, PrevLoop, PrevWait, PrevTake, PrevDecode,
           PrevDecoded, PrevDropFailed, PrevDraw, PrevDrawn,
           AddCaptureFrame, PrevSignal, PrevStopStreaming, targets, sync
  <2>5. ASSUME NEW t \in CapThreads, CapStep(t)
        PROVE  Kinds' /\ Exclusion' /\ References'
    BY <2>2, <2>5
       DEF CapStep, CapClear, CapFormat, CapLoop, CapChoose,
         CapInner, CapWait, CapTake,
         CapConvertForSurface, CapBlit, CapPost, CapCallback, CapGetOut,
         CapConvert, CapInvoke, CapReturn, CapRecycle, CapClosing, CapRelease,
         CapNull, CapBroadcast, targets, sync
  <2>6. CASE SpuriousWake \/ UNCHANGED vars
    BY <2>2, <2>6 DEF SpuriousWake, vars, targets, sync, threads
  <2>. QED BY <1>2, <2>1, <2>3, <2>4, <2>5, <2>6 DEF Next
<1>3. Init => Inv
  BY <1>1, InitIInv DEF IInv
<1>4. IInv /\ Inv /\ [Next]_vars => Inv'
  BY <1>2, NextIInv DEF IInv
<1>. QED BY <1>3, <1>4, Invariance, PTL DEF Spec

(* Whatever threads set callbacks, start and stop at the same time, the    *)
(* callback that is left when the lock is free is NULL or a reference      *)
(* nobody has deleted.                                                     *)
THEOREM NotDanglingAlways == Spec => []CallbackNotDangling
<1>1. Exclusion /\ References => CallbackNotDangling
  BY NullAssumption DEF Exclusion, Inside, References, Assigning, CallbackNotDangling
<1>. QED BY <1>1, Referring, PTL

-----------------------------------------------------------------------------
(* Who holds capture_mutex                                                 *)

LEMMA HolderCaller ==
    ASSUME TypeOK, HolderMoves, NEW c \in Callers, Request(c) \/ CallerStep(c)
    PROVE  HolderMoves'
\* c takes the mutex, gives it back, or leaves it to whoever has it
<1>1. ASSUME \A d \in Callers \ {c} : caller'[d] = caller[d],
             caller'[c].pc \in Inside <=> captureMutex' = c,
             \/ UNCHANGED captureMutex
             \/ captureMutex \in {NULL, c} /\ captureMutex' \in {NULL, c}
      PROVE  HolderMoves'
  BY <1>1, NullAssumption DEF HolderMoves, Inside
<1>2. captureMutex = c <=> caller[c].pc \in Inside
  BY DEF HolderMoves, Inside
<1>3. NULL # c
  BY NullAssumption
<1>. USE <1>2, <1>3 DEF Inside
<1>4. CASE SetPreviewDisplay(c) \/ SetPreviewSize(c)
  BY <1>4, <1>1 DEF SetPreviewDisplay, SetPreviewSize, sync, threads
<1>5. CASE StartPreview(c) \/ StopPreview(c)
  BY <1>5, <1>1, Moves DEF StartPreview, StopPreview, sync
<1>6. CASE SetFrameCallback(c) \/ SetCaptureDisplay(c)
  BY <1>6, <1>1, Moves DEF SetFrameCallback, SetCaptureDisplay, sync
<1>7. CASE SpawnPreview(c) \/ StartFailed(c)
  BY <1>7, <1>1, Moves DEF SpawnPreview, StartFailed, sync
<1>8. CASE EnterSetter(c)
  BY <1>8, <1>1, Moves DEF EnterSetter, Then
<1>9. CASE Handshake(c) \/ HandshakeDone(c)
  BY <1>9, <1>1, Moves DEF Handshake, HandshakeDone, Then
<1>10. CASE ReplaceCallback(c) \/ AssignCallback(c) \/ ClearFormat(c)
  BY <1>10, <1>1, Moves DEF ReplaceCallback, AssignCallback, ClearFormat, sync
<1>11. CASE \/ SetFormat(c)
            \/ CompareWindow(c) \/ ReleaseWindow(c) \/ AssignWindow(c)
  BY <1>11, <1>1, Moves DEF SetFormat, CompareWindow, ReleaseWindow,
                            AssignWindow, sync
<1>12. CASE StopFlag(c) \/ StopSignalPreview(c) \/ StopSignalCapture(c)
  BY <1>12, <1>1, Moves DEF StopFlag, StopSignalPreview, StopSignalCapture, sync
<1>13. CASE JoinCapture(c) \/ JoinPreview(c) \/ StopClearPreview(c)
  BY <1>13, <1>1, Moves DEF JoinCapture, JoinPreview, StopClearPreview, sync
<1>14. CASE StopClearCapture(c) \/ StopClosePreview(c) \/ StopCloseCapture(c)
  BY <1>14, <1>1, Moves DEF StopClearCapture, StopClosePreview, StopCloseCapture, sync
<1>15. CASE DeletePreview(c)
  BY <1>15, <1>1, Moves DEF DeletePreview, sync
<1>. QED BY <1>4, <1>5, <1>6, <1>7, <1>8, <1>9, <1>10, <1>11, <1>12, <1>13,
            <1>14, <1>15 DEF Request, CallerStep

\* Only callers hold the mutex from one action to the next.
LEMMA OthersLeave ==
    ASSUME \/ UvcPicture \/ UvcStep
           \/ PrevStep
           \/ \E t \in CapThreads : CapStep(t)
           \/ SpuriousWake
           \/ UNCHANGED vars
    PROVE  UNCHANGED <<caller, captureMutex>>
<1>1. CASE UvcPicture \/ UvcStep
  BY <1>1 DEF UvcPicture, UvcStep, UvcCopy, AddPreviewFrame, UvcRecycle, sync
<1>2. CASE PrevStep
  BY <1>2 DEF PrevStep, PrevPrepare, PrevStartStreaming, PrevClear,
              PrevSpawnCapture, PrevLoop, PrevWait, PrevTake, PrevDecode,
              PrevDecoded, PrevDropFailed, PrevDraw, PrevDrawn,
              AddCaptureFrame, PrevSignal, PrevStopStreaming, sync
<1>3. ASSUME NEW t \in CapThreads, CapStep(t)
      PROVE  UNCHANGED <<caller, captureMutex>>
  BY <1>3 DEF CapStep, CapClear, CapFormat, CapLoop, CapChoose,
              CapInner, CapWait, CapTake,
              CapConvertForSurface, CapBlit, CapPost, CapCallback, CapGetOut,
              CapConvert, CapInvoke, CapReturn, CapRecycle, CapClosing,
              CapRelease, CapNull, CapBroadcast, sync
<1>4. CASE SpuriousWake \/ UNCHANGED vars
  BY <1>4 DEF SpuriousWake, vars, sync, threads
<1>. QED BY <1>1, <1>2, <1>3, <1>4

(* Nobody keeps capture_mutex out of its critical section: no caller joins *)
(* the threads, or returns to Java, with the mutex they need, whatever     *)
(* calls overlap.                                                          *)
THEOREM HolderAlways == Spec => []HolderMoves
<1>1. Init => HolderMoves
  BY NullAssumption DEF Init, HolderMoves
<1>2. ASSUME TypeOK, HolderMoves, [Next]_vars PROVE HolderMoves'
  <2>1. ASSUME NEW c \in Callers, Request(c) \/ CallerStep(c) PROVE HolderMoves'
    BY <1>2, <2>1, HolderCaller
  <2>2. ASSUME UNCHANGED <<caller, captureMutex>> PROVE HolderMoves'
    BY <1>2, <2>2 DEF HolderMoves
  <2>. QED BY <1>2, <2>1, <2>2, OthersLeave DEF Next
<1>3. IInv /\ HolderMoves /\ [Next]_vars => HolderMoves'
  BY <1>2 DEF IInv
<1>. QED BY <1>1, <1>3, Invariance, PTL DEF Spec
-----------------------------------------------------------------------------
(* Who sleeps on a condition variable                                      *)

\* The latest frame comes from the preview thread only.
LEMMA NoneLatest ==
    ASSUME TypeOK, NEW p \in Pointers, p # QUEU
    PROVE  /\ \A n : GetFrame(p, n) => hold'[QUEU] = hold[QUEU]
           /\ Recycle(p) => hold'[QUEU] = hold[QUEU]
           /\ ClearCapture => hold'[QUEU] = NULL
           /\ FreeFrames => hold'[QUEU] = NULL
<1>. hold \in [Pointers -> Frames \cup {NULL}] /\ QUEU \in Pointers
  BY PointersDistinct DEF TypeOK, StoreType
<1>. QED BY DEF GetFrame, Recycle, ClearCapture, FreeFrames

\* Nothing to sleep over appears, and nobody falls asleep.
LEMMA SleepStays ==
    ASSUME TypeOK, NoSleepOnWork, hold'[QUEU] \in {hold[QUEU], NULL},
           previewWaits' => previewWaits,
           previewFrames' \in {previewFrames, <<>>},
           captureWaits' \cap CapThreads \subseteq captureWaits
    PROVE  NoSleepOnWork'
BY DEF NoSleepOnWork

LEMMA SleepCaller ==
    ASSUME TypeOK, NoSleepOnWork, NEW c \in Callers, Request(c) \/ CallerStep(c)
    PROVE  NoSleepOnWork'
<1>1. /\ hold \in [Pointers -> Frames \cup {NULL}] /\ QUEU \in Pointers
      /\ COPY \in Pointers /\ COPY # QUEU
  BY PointersDistinct DEF TypeOK, StoreType
<1>2. CASE Request(c)
  BY <1>2, SleepStays
     DEF Request, SetPreviewDisplay, SetPreviewSize, StartPreview, StopPreview,
         SetFrameCallback, SetCaptureDisplay, store, sync
<1>3. CASE SpawnPreview(c) \/ StartFailed(c)
  BY <1>3, SleepStays DEF SpawnPreview, StartFailed, SignalPreview, store, sync
<1>4. CASE EnterSetter(c) \/ HandshakeDone(c)
  BY <1>4, SleepStays DEF EnterSetter, HandshakeDone, SignalCapture, store
<1>5. CASE Handshake(c)
  <2>1. c \notin CapThreads
    BY ThreadsAssumption
  <2>. QED BY <1>5, <2>1, SleepStays DEF Handshake, store
<1>6. CASE ReplaceCallback(c) \/ AssignCallback(c) \/ ClearFormat(c)
  BY <1>6, SleepStays DEF ReplaceCallback, AssignCallback, ClearFormat, store, sync
<1>7. CASE \/ SetFormat(c)
           \/ CompareWindow(c) \/ ReleaseWindow(c) \/ AssignWindow(c)
  BY <1>7, SleepStays DEF SetFormat, CompareWindow, ReleaseWindow,
                          AssignWindow, store, sync
<1>8. CASE StopFlag(c) \/ StopSignalPreview(c) \/ StopSignalCapture(c)
  BY <1>8, SleepStays
     DEF StopFlag, StopSignalPreview, StopSignalCapture, SignalPreview,
         SignalCapture, store, sync
<1>9. CASE JoinCapture(c) \/ JoinPreview(c)
  BY <1>9, SleepStays DEF JoinCapture, JoinPreview, store, sync
<1>10. CASE StopClearPreview(c)
  BY <1>10, SleepStays DEF StopClearPreview, ClearQueue, sync
<1>11. CASE StopClearCapture(c)
  BY <1>1, <1>11, NoneLatest, SleepStays DEF StopClearCapture, sync
<1>12. CASE StopClosePreview(c) \/ StopCloseCapture(c)
  BY <1>12, SleepStays DEF StopClosePreview, StopCloseCapture, store, sync
<1>13. CASE DeletePreview(c)
  <2>1. previewFrames' = <<>> /\ UNCHANGED sync
    BY <1>13 DEF DeletePreview, FreeFrames
  <2>2. hold'[QUEU] = NULL
    BY <1>1, <1>13, NoneLatest DEF DeletePreview
  <2>. QED BY <2>1, <2>2, SleepStays DEF sync
<1>. QED BY <1>2, <1>3, <1>4, <1>5, <1>6, <1>7, <1>8, <1>9, <1>10, <1>11,
            <1>12, <1>13 DEF Request, CallerStep

LEMMA SleepUvc ==
    ASSUME TypeOK, NoSleepOnWork, UvcPicture \/ UvcStep
    PROVE  NoSleepOnWork'
<1>1. /\ hold \in [Pointers -> Frames \cup {NULL}] /\ QUEU \in Pointers
      /\ COPY \in Pointers /\ COPY # QUEU
  BY PointersDistinct DEF TypeOK, StoreType
<1>2. CASE UvcPicture
  BY <1>2, SleepStays DEF UvcPicture, store, sync
<1>3. CASE UvcCopy
  BY <1>1, <1>3, NoneLatest, SleepStays DEF UvcCopy, sync
<1>4. CASE AddPreviewFrame
  <2>1. CASE running /\ Room
    <3>1. ~previewWaits' /\ hold'[QUEU] = hold[QUEU] /\ UNCHANGED captureWaits
      BY <1>1, <1>4, <2>1 DEF AddPreviewFrame, SignalPreview
    <3>. QED BY <3>1 DEF NoSleepOnWork
  <2>2. CASE ~(running /\ Room)
    BY <1>4, <2>2, SleepStays DEF AddPreviewFrame
  <2>. QED BY <2>1, <2>2
<1>5. CASE UvcRecycle
  BY <1>1, <1>5, NoneLatest, SleepStays DEF UvcRecycle, sync
<1>. QED BY <1>2, <1>3, <1>4, <1>5 DEF UvcStep

LEMMA SleepPrev ==
    ASSUME TypeOK, NoSleepOnWork, PrevStep
    PROVE  NoSleepOnWork'
<1>1. /\ hold \in [Pointers -> Frames \cup {NULL}]
      /\ {QUEU, FRAME, MJPEG, DRAWN} \subseteq Pointers
      /\ QUEU \notin {FRAME, MJPEG, DRAWN}
  BY PointersDistinct DEF TypeOK, StoreType
<1>2. CASE PrevPrepare \/ PrevStartStreaming \/ PrevSpawnCapture
  BY <1>2, SleepStays DEF PrevPrepare, PrevStartStreaming, PrevSpawnCapture, store, sync
<1>3. CASE PrevClear
  BY <1>3, SleepStays DEF PrevClear, ClearQueue, sync
<1>4. CASE PrevLoop \/ PrevStopStreaming
  BY <1>4, SleepStays DEF PrevLoop, PrevStopStreaming, store, sync
<1>5. CASE PrevWait
  BY <1>5 DEF PrevWait, NoSleepOnWork, store
<1>6. CASE PrevTake
  <2>1. UNCHANGED sync
    BY <1>6 DEF PrevTake
  <2>2. hold'[QUEU] = hold[QUEU]
    BY <1>1, <1>6 DEF PrevTake
  <2>3. previewWaits => UNCHANGED previewFrames
    BY <1>6 DEF PrevTake, NoSleepOnWork
  <2>. QED BY <2>1, <2>2, <2>3 DEF NoSleepOnWork, sync
<1>7. CASE PrevDecode
  BY <1>1, <1>7, NoneLatest, SleepStays DEF PrevDecode, sync
<1>8. CASE PrevDecoded \/ PrevDropFailed \/ PrevDrawn
  <2>1. PICK p \in {MJPEG, FRAME, DRAWN} : Recycle(p)
    BY <1>8 DEF PrevDecoded, PrevDropFailed, PrevDrawn
  <2>2. UNCHANGED <<previewFrames, sync>>
    BY <1>8 DEF PrevDecoded, PrevDropFailed, PrevDrawn
  <2>. QED BY <1>1, <2>1, <2>2, NoneLatest, SleepStays DEF sync
<1>9. CASE PrevDraw
  <2>1. hold'[QUEU] = hold[QUEU]
    BY <1>1, <1>9, NoneLatest DEF PrevDraw
  <2>. QED BY <1>9, <2>1, SleepStays DEF PrevDraw, sync
<1>10. CASE AddCaptureFrame
  <2>1. CASE running
    <3>1. captureWaits' = {} /\ UNCHANGED <<previewWaits, previewFrames>>
      BY <1>10, <2>1 DEF AddCaptureFrame, BroadcastCapture
    <3>. QED BY <3>1 DEF NoSleepOnWork
  <2>2. CASE ~running
    <3>1. hold'[QUEU] = hold[QUEU]
      BY <1>1, <1>10, <2>2 DEF AddCaptureFrame
    <3>. QED BY <1>10, <2>2, <3>1, SleepStays DEF AddCaptureFrame
  <2>. QED BY <2>1, <2>2
<1>11. CASE PrevSignal
  BY <1>11, SleepStays DEF PrevSignal, SignalCapture, store
<1>. QED BY <1>2, <1>3, <1>4, <1>5, <1>6, <1>7, <1>8, <1>9, <1>10, <1>11
         DEF PrevStep

LEMMA SleepCap ==
    ASSUME TypeOK, NoSleepOnWork, NEW t \in CapThreads, CapStep(t)
    PROVE  NoSleepOnWork'
<1>1. /\ hold \in [Pointers -> Frames \cup {NULL}] /\ QUEU \in Pointers
      /\ {Frame(t), Converted(t), CbFrame(t)} \subseteq Pointers
      /\ QUEU \notin {Frame(t), Converted(t), CbFrame(t)}
  BY PointersDistinct DEF TypeOK, StoreType
<1>2. CASE CapClear(t)
  BY <1>1, <1>2, NoneLatest, SleepStays DEF CapClear, sync
<1>3. CASE CapFormat(t) \/ CapLoop(t) \/ CapChoose(t) \/ CapInner(t)
  BY <1>3, SleepStays DEF CapFormat, CapLoop, CapChoose, CapInner, store, sync
<1>4. CASE CapWait(t)
  BY <1>4 DEF CapWait, NoSleepOnWork, store
<1>5. CASE CapTake(t)
  <2>1. hold'[QUEU] \in {hold[QUEU], NULL}
    BY <1>1, <1>5 DEF CapTake
  <2>. QED BY <1>5, <2>1, SleepStays DEF CapTake, sync
<1>6. CASE CapConvertForSurface(t)
  <2>1. hold'[QUEU] = hold[QUEU]
    BY <1>1, <1>6, NoneLatest DEF CapConvertForSurface
  <2>. QED BY <1>6, <2>1, SleepStays DEF CapConvertForSurface, sync
<1>7. CASE CapBlit(t) \/ CapPost(t) \/ CapCallback(t)
  BY <1>7, SleepStays DEF CapBlit, CapPost, CapCallback, store, sync
<1>8. CASE CapGetOut(t)
  BY <1>1, <1>8, NoneLatest, SleepStays DEF CapGetOut, sync
<1>9. CASE CapConvert(t)
  <2>1. hold'[QUEU] = hold[QUEU]
    BY <1>1, <1>9 DEF CapConvert
  <2>. QED BY <1>9, <2>1, SleepStays DEF CapConvert, sync
<1>10. CASE CapInvoke(t) \/ CapReturn(t) \/ CapRelease(t) \/ CapNull(t)
  BY <1>10, SleepStays DEF CapInvoke, CapReturn, CapRelease, CapNull, store, sync
<1>11. CASE CapRecycle(t)
  BY <1>1, <1>11, NoneLatest, SleepStays DEF CapRecycle, sync
<1>12. CASE CapClosing(t)
  BY <1>1, <1>12, NoneLatest, SleepStays DEF CapClosing, sync
<1>13. CASE CapBroadcast(t)
  BY <1>13, SleepStays DEF CapBroadcast, BroadcastCapture, store
<1>. QED BY <1>2, <1>3, <1>4, <1>5, <1>6, <1>7, <1>8, <1>9, <1>10, <1>11,
            <1>12, <1>13 DEF CapStep

(* No wakeup is lost: whatever signals, broadcasts and spurious wakeups    *)
(* come in whatever order, and with setters waiting on the same condition  *)
(* variable, no thread of the preview sleeps while its queue has a frame.  *)
THEOREM NoSleepAlways == Spec => []NoSleepOnWork
<1>1. Init => NoSleepOnWork
  BY DEF Init, NoSleepOnWork
<1>2. ASSUME TypeOK, NoSleepOnWork, [Next]_vars PROVE NoSleepOnWork'
  <2>1. CASE SpuriousWake
    BY <1>2, <2>1, SleepStays DEF SpuriousWake, store
  <2>2. CASE UNCHANGED vars
    BY <1>2, <2>2 DEF NoSleepOnWork, vars, store, sync
  <2>. QED BY <1>2, <2>1, <2>2, SleepCaller, SleepUvc, SleepPrev, SleepCap DEF Next
<1>3. IInv /\ NoSleepOnWork /\ [Next]_vars => NoSleepOnWork'
  BY <1>2 DEF IInv
<1>. QED BY <1>1, <1>3, Invariance, PTL DEF Spec

-----------------------------------------------------------------------------
(* The stream of the preview thread                                        *)

(* Who may open a stream while another one is open: nobody.  A preview     *)
(* thread that has not opened its stream, or has ended, leaves none open;  *)
(* startPreview starts a thread only where no other is left.               *)
Opened ==
    /\ prev \in {"none", "exited", "prepare", "stream"} => ~streaming
    /\ uvc # "idle" => streaming
    /\ \A c \in Callers : caller[c].pc \in Starting => running /\ prev = "none"
    /\ ~running => prev = "none" \/ \E c \in Callers : caller[c].pc \in Stopping

LEMMA OpenedCaller ==
    ASSUME TypeOK, Monitor, Opened, NEW c \in Callers, Request(c) \/ CallerStep(c)
    PROVE  Opened'
<1>. USE DEF Starting, Stopping, Joined, Stops
<1>1. ASSUME NEW l, Goto(c, l), UNCHANGED <<running, prev, streaming, uvc>>,
             l \notin Starting, caller[c].pc \in Stopping => l \in Stopping
      PROVE  Opened'
  BY <1>1, Moves DEF Opened
<1>2. ASSUME Return(c), UNCHANGED <<running, prev, streaming, uvc>>,
             caller[c].pc \notin Stopping
      PROVE  Opened'
  BY <1>2, Moves DEF Opened
<1>3. CASE SetPreviewDisplay(c) \/ SetPreviewSize(c)
  BY <1>3 DEF SetPreviewDisplay, SetPreviewSize, flags, world, threads, Opened
<1>4. CASE StartPreview(c)
  <2>1. prev = "none"
    BY <1>4 DEF StartPreview, MonitorFree, Monitor, Opened
  <2>. QED BY <1>4, <2>1, Moves DEF StartPreview, world, Opened
<1>5. CASE StopPreview(c)
  BY <1>5, Moves DEF StopPreview, flags, world, Opened
<1>6. CASE SetFrameCallback(c) \/ SetCaptureDisplay(c)
  BY <1>6, Moves DEF SetFrameCallback, SetCaptureDisplay, flags, world, Opened
<1>7. CASE SpawnPreview(c)
  <2>1. caller[c].op = "start" /\ running /\ ~streaming
    BY <1>7 DEF SpawnPreview, Opened, Monitor
  <2>2. \A d \in Callers \ {c} : caller[d].pc \notin Starting \cup Stopping
    BY <2>1 DEF Monitor
  <2>. QED BY <1>7, <2>1, <2>2, Moves DEF SpawnPreview, flags, world, Opened
<1>8. CASE StartFailed(c)
  <2>1. caller[c].op = "start" /\ prev = "none"
    BY <1>8 DEF StartFailed, Opened, Monitor
  <2>2. \A d \in Callers \ {c} : caller[d].pc \notin Starting \cup Stopping
    BY <2>1 DEF Monitor
  <2>. QED BY <1>8, <2>1, <2>2, Moves DEF StartFailed, world, Opened
<1>9. CASE EnterSetter(c) \/ Handshake(c) \/ HandshakeDone(c)
  BY <1>9, <1>1 DEF EnterSetter, Handshake, HandshakeDone, Then, flags, world
<1>10. CASE ReplaceCallback(c) \/ AssignCallback(c) \/ ClearFormat(c)
  BY <1>10, <1>1 DEF ReplaceCallback, AssignCallback, ClearFormat, flags, world
<1>11. CASE \/ SetFormat(c)
            \/ CompareWindow(c) \/ ReleaseWindow(c) \/ AssignWindow(c)
  BY <1>11, <1>1, <1>2 DEF SetFormat, CompareWindow, ReleaseWindow,
                           AssignWindow, flags, world
<1>12. CASE StopFlag(c)
  <2>1. caller[c].op \in Stops
    BY <1>12 DEF StopFlag, Monitor
  <2>2. \A d \in Callers \ {c} : caller[d].pc \notin Starting \cup Stopping
    BY <2>1 DEF Monitor
  <2>. QED BY <1>12, <2>2, Moves DEF StopFlag, world, Opened
<1>13. CASE StopSignalPreview(c) \/ StopSignalCapture(c) \/ JoinCapture(c)
  BY <1>13, <1>1 DEF StopSignalPreview, StopSignalCapture, JoinCapture, flags, world
<1>14. CASE JoinPreview(c)
  BY <1>14, Moves DEF JoinPreview, flags, world, Opened
<1>15. CASE \/ StopClearPreview(c) \/ StopClearCapture(c) \/ StopClosePreview(c)
            \/ StopCloseCapture(c)
  BY <1>15, <1>1, <1>2
     DEF StopClearPreview, StopClearCapture, StopClosePreview, StopCloseCapture,
         flags, world
<1>16. CASE DeletePreview(c)
  BY <1>16, <1>2 DEF DeletePreview
<1>. QED BY <1>3, <1>4, <1>5, <1>6, <1>7, <1>8, <1>9, <1>10, <1>11, <1>12,
            <1>13, <1>14, <1>15, <1>16 DEF Request, CallerStep

LEMMA OpenedUvc == ASSUME Opened, UvcPicture \/ UvcStep PROVE Opened'
<1>1. UNCHANGED <<running, prev, caller, streaming>>
  BY DEF UvcPicture, UvcStep, UvcCopy, AddPreviewFrame, UvcRecycle, flags, world
<1>2. streaming
  BY DEF Opened, UvcPicture, UvcStep, UvcCopy, AddPreviewFrame, UvcRecycle
<1>. QED BY <1>1, <1>2 DEF Opened

LEMMA OpenedPrev == ASSUME Opened, PrevStep PROVE Opened'
<1>1. /\ prev # "none" /\ prev' # "none"
      /\ UNCHANGED <<running, caller, uvc>>
  BY DEF PrevStep, PrevPrepare, PrevStartStreaming, PrevClear,
         PrevSpawnCapture, PrevLoop, PrevWait, PrevTake, PrevDecode,
         PrevDecoded, PrevDropFailed, PrevDraw, PrevDrawn, AddCaptureFrame,
         PrevSignal, PrevStopStreaming, flags
<1>2. CASE PrevPrepare \/ PrevStartStreaming \/ PrevStopStreaming
  BY <1>1, <1>2 DEF PrevPrepare, PrevStartStreaming, PrevStopStreaming, Opened
<1>3. ASSUME UNCHANGED streaming, prev' \notin {"exited", "prepare", "stream"}
      PROVE  Opened'
  BY <1>1, <1>3 DEF Opened
<1>4. CASE PrevClear \/ PrevSpawnCapture \/ PrevLoop \/ PrevWait \/ PrevTake
  BY <1>3, <1>4 DEF PrevClear, PrevSpawnCapture, PrevLoop, PrevWait, PrevTake, world
<1>5. CASE PrevDecode \/ PrevDecoded \/ PrevDropFailed \/ PrevDraw
  BY <1>3, <1>5 DEF PrevDecode, PrevDecoded, PrevDropFailed, PrevDraw, world
<1>6. CASE PrevDrawn \/ AddCaptureFrame \/ PrevSignal
  BY <1>3, <1>6 DEF PrevDrawn, AddCaptureFrame, PrevSignal, world
<1>. QED BY <1>2, <1>4, <1>5, <1>6 DEF PrevStep

LEMMA OpenedAlways == Spec => [](TypeOK /\ Monitor /\ Opened)
<1>. DEFINE Inv == TypeOK /\ Monitor /\ Opened
<1>1. Init => Monitor /\ Opened
  BY DEF Init, Monitor, Opened, Starting, Stopping, Joined, Stops
<1>2. ASSUME TypeOK, Monitor, Opened, [Next]_vars PROVE Monitor' /\ Opened'
  <2>1. ASSUME NEW c \in Callers, Request(c) \/ CallerStep(c) PROVE Monitor' /\ Opened'
    BY <1>2, <2>1, MonitorStep, OpenedCaller
  <2>2. ASSUME UNCHANGED caller PROVE Monitor'
    BY <1>2, <2>2 DEF Monitor
  <2>3. CASE UvcPicture \/ UvcStep \/ PrevStep
    BY <1>2, <2>2, <2>3, OthersLeave, OpenedUvc, OpenedPrev
  <2>4. ASSUME NEW t \in CapThreads, CapStep(t) PROVE Monitor' /\ Opened'
    <3>1. UNCHANGED <<running, prev, uvc, streaming>>
      BY <2>4 DEF CapStep, CapClear, CapFormat, CapLoop, CapChoose,
         CapInner, CapWait, CapTake,
         CapConvertForSurface, CapBlit, CapPost, CapCallback, CapGetOut,
         CapConvert, CapInvoke, CapReturn, CapRecycle, CapClosing, CapRelease,
         CapNull, CapBroadcast, flags, world
    <3>. QED BY <1>2, <2>2, <2>4, <3>1, OthersLeave DEF Opened
  <2>5. CASE SpuriousWake \/ UNCHANGED vars
    <3>1. UNCHANGED <<caller, running, prev, uvc, streaming>>
      BY <2>5 DEF SpuriousWake, vars, flags, world, threads
    <3>. QED BY <1>2, <2>2, <3>1 DEF Opened
  <2>. QED BY <1>2, <2>1, <2>3, <2>4, <2>5 DEF Next
<1>3. Init => Inv
  BY <1>1, InitIInv DEF IInv
<1>4. IInv /\ Inv /\ [Next]_vars => Inv'
  BY <1>2, NextIInv DEF IInv
<1>. QED BY <1>3, <1>4, Invariance, PTL DEF Spec

(* The engine opens a second stream only after it has closed the first and *)
(* the last callback of that one is over, whoever starts and stops the     *)
(* preview, an early stopPreview included.                                 *)
THEOREM OneStreamAlways == Spec => OneStream
<1>1. Opened => [PrevStartStreaming => ~streaming /\ uvc = "idle"]_vars
  BY DEF Opened, PrevStartStreaming
<1>. QED BY <1>1, OpenedAlways, PTL DEF OneStream

\* The engine's view of libuvc's stream.
Source == INSTANCE FrameSource WITH inCallback <- uvc # "idle"

(* The engine sees the stream do only what FrameSource allows, which       *)
(* UVCStream implements: callbacks one at a time on the open stream, and   *)
(* none once uvc_stop_streaming has returned.                              *)
THEOREM UsesFrameSource == Spec => Source!Spec
<1>1. Init => Source!Init
  BY DEF Init, Source!Init
<1>2. ASSUME Opened, [Next]_vars PROVE [Source!Next]_(Source!vars)
  <2>. USE DEF Source!Next, Source!Start, Source!Deliver, Source!Return,
               Source!Stop, Source!vars
  <2>1. ASSUME NEW c \in Callers, Request(c) \/ CallerStep(c)
        PROVE  UNCHANGED <<streaming, uvc>>
    BY <2>1 DEF Request, SetPreviewDisplay, SetPreviewSize, StartPreview,
         StopPreview, SetFrameCallback, SetCaptureDisplay, CallerStep,
         SpawnPreview, StartFailed, EnterSetter, Handshake, HandshakeDone,
         ReplaceCallback, AssignCallback, ClearFormat, SetFormat,
         CompareWindow, ReleaseWindow, AssignWindow, StopFlag,
         StopSignalPreview, StopSignalCapture, JoinCapture, JoinPreview,
         StopClearPreview, StopClearCapture, StopClosePreview,
         StopCloseCapture, DeletePreview, world, threads
  <2>2. CASE UvcPicture \/ UvcStep
    <3>1. UNCHANGED streaming /\ (uvc = "idle" => streaming)
      BY <2>2 DEF UvcPicture, UvcStep, UvcCopy, AddPreviewFrame, UvcRecycle, world
    <3>. QED BY <3>1
  <2>3. CASE PrevStartStreaming \/ PrevStopStreaming
    BY <1>2, <2>3 DEF PrevStartStreaming, PrevStopStreaming, Opened
  <2>4. CASE PrevStep /\ ~PrevStartStreaming /\ ~PrevStopStreaming
    BY <2>4 DEF PrevStep, PrevPrepare, PrevClear, PrevSpawnCapture, PrevLoop,
         PrevWait, PrevTake, PrevDecode, PrevDecoded, PrevDropFailed, PrevDraw,
         PrevDrawn, AddCaptureFrame, PrevSignal, world
  <2>5. ASSUME NEW t \in CapThreads, CapStep(t) PROVE UNCHANGED <<streaming, uvc>>
    BY <2>5 DEF CapStep, CapClear, CapFormat, CapLoop, CapChoose,
         CapInner, CapWait, CapTake,
         CapConvertForSurface, CapBlit, CapPost, CapCallback, CapGetOut,
         CapConvert, CapInvoke, CapReturn, CapRecycle, CapClosing, CapRelease,
         CapNull, CapBroadcast, world
  <2>6. CASE SpuriousWake \/ UNCHANGED vars
    BY <2>6 DEF SpuriousWake, vars, world, threads
  <2>. QED BY <1>2, <2>1, <2>2, <2>3, <2>4, <2>5, <2>6 DEF Next
<1>. QED BY <1>1, <1>2, OpenedAlways, PTL DEF Spec, Source!Spec

-----------------------------------------------------------------------------
(* The window of the capture thread                                        *)

(* A capture thread is between the two statements that release and clear   *)
(* mCaptureWindow, or a setter between those that release and replace it.  *)
Clears   == \E t \in CapThreads : At(t, "null")
Replaces == \E c \in Callers : caller[c].pc = "storeWindow"

(* A window on its way into setCaptureDisplay is not released.  If it is   *)
(* the one that is stored, a capture thread is about to clear that, and    *)
(* the setter has not set out to release it.                               *)
Bringing ==
    \A c \in Callers : caller[c].op = "capture" /\ caller[c].arg # NULL =>
       /\ caller[c].arg \in live
       /\ caller[c].arg = captureWindow =>
             Clears /\ caller[c].pc \notin {"releaseWindow", "storeWindow"}

(* A step that leaves mCaptureWindow and the windows alone, ends no gap    *)
(* and has no setter set out to release the window it brings.              *)
LEMMA HandoverStays ==
    ASSUME WindowHandover, Bringing, Kinds, UNCHANGED captureWindow,
           live \cap Windows \subseteq live', Clears => Clears',
           Replaces => Replaces',
           \A d \in Callers : caller'[d].op = "capture" =>
              /\ caller[d].op = "capture" /\ caller'[d].arg = caller[d].arg
              /\ caller'[d].pc \in {"releaseWindow", "storeWindow"} =>
                    \/ caller[d].pc \in {"releaseWindow", "storeWindow"}
                    \/ caller[d].arg # captureWindow
    PROVE  WindowHandover' /\ Bringing'
<1>1. captureWindow \in Windows \cup {NULL}
  BY DEF Kinds
<1>2. \A c \in Callers : caller[c].op = "capture" => caller[c].arg \in Windows \cup {NULL}
  BY DEF Kinds
<1>3. WindowHandover'
  BY <1>1 DEF WindowHandover, Clears, Replaces
<1>4. Bringing'
  BY <1>2 DEF Bringing
<1>. QED BY <1>3, <1>4

LEMMA HandoverCaller ==
    ASSUME TypeOK, Monitor, Stages, Kinds, OneCapture, OneCapture',
           WindowHandover, Bringing,
           NEW c \in Callers, Request(c) \/ CallerStep(c)
    PROVE  WindowHandover' /\ Bringing'
<1>. USE DEF Replacing
\* c goes on with the window it brought, or returns
<1>1. ASSUME UNCHANGED <<captureWindow, cap>>, live \cap Windows \subseteq live',
             caller[c].pc # "storeWindow",
             \/ Return(c) \/ UNCHANGED caller
             \/ \E l : /\ Goto(c, l)
                      /\ \/ l \notin {"releaseWindow", "storeWindow"}
                         \/ caller[c].arg # captureWindow
      PROVE  WindowHandover' /\ Bringing'
  <2>1. \A d \in Callers : caller'[d].op = "capture" =>
           /\ caller[d].op = "capture" /\ caller'[d].arg = caller[d].arg
           /\ caller'[d].pc \in {"releaseWindow", "storeWindow"} =>
                 \/ caller[d].pc \in {"releaseWindow", "storeWindow"}
                 \/ caller[d].arg # captureWindow
    BY <1>1, Moves
  <2>2. Clears => Clears'
    BY <1>1 DEF Clears, At
  <2>3. Replaces => Replaces'
    BY <1>1, Moves DEF Replaces
  <2>. QED BY <1>1, <2>1, <2>2, <2>3, HandoverStays
<1>2. CASE SetPreviewDisplay(c) \/ SetPreviewSize(c)
  BY <1>2, <1>1 DEF SetPreviewDisplay, SetPreviewSize, targets, threads
<1>3. CASE StartPreview(c) \/ StopPreview(c) \/ SetFrameCallback(c)
  <2>1. /\ UNCHANGED <<captureWindow, cap>> /\ live \subseteq live'
        /\ \E o, a : o # "capture" /\ Call(c, o, a, caller'[c].pc)
    <3>1. CASE StartPreview(c) \/ StopPreview(c)
      BY <3>1, Moves DEF StartPreview, StopPreview, Stops, targets
    <3>2. CASE SetFrameCallback(c)
      BY <3>2, Moves DEF SetFrameCallback
    <3>. QED BY <1>3, <3>1, <3>2
  <2>2. Clears => Clears'
    BY <2>1 DEF Clears, At
  <2>3. PICK o, a : o # "capture" /\ Call(c, o, a, caller'[c].pc)
    BY <2>1
  <2>4. caller[c].pc = "idle" /\ caller'[c].op # "capture"
    BY <2>3, Moves
  <2>5. \A d \in Callers \ {c} : caller'[d] = caller[d]
    BY <2>3, Moves
  <2>6. Replaces => Replaces'
    BY <2>4, <2>5 DEF Replaces
  <2>. QED BY <2>1, <2>2, <2>4, <2>5, <2>6, HandoverStays
<1>4. CASE SetCaptureDisplay(c)
  <2>1. PICK w \in (Windows \ live) \cup {NULL} :
             Call(c, "capture", w, "enter") /\ live' = live \cup ({w} \ {NULL})
    BY <1>4 DEF SetCaptureDisplay
  <2>2. UNCHANGED <<captureWindow, cap>>
    BY <1>4 DEF SetCaptureDisplay
  <2>3. Clears => Clears'
    BY <2>2 DEF Clears, At
  <2>4. /\ caller[c].pc = "idle" /\ caller'[c].pc = "enter"
        /\ caller'[c].op = "capture" /\ caller'[c].arg = w
        /\ \A d \in Callers \ {c} : caller'[d] = caller[d]
    BY <2>1, Moves
  <2>5. ~Replaces
    BY <2>4 DEF Replaces, Kinds, OneCapture
  <2>6. w # NULL /\ w = captureWindow => Clears
    BY <2>1, <2>5 DEF WindowHandover, Clears, Replaces
  <2>7. WindowHandover'
    BY <2>1, <2>2, <2>3, <2>5 DEF WindowHandover, Clears, Replaces
  <2>8. Bringing'
    BY <2>1, <2>2, <2>3, <2>4, <2>6 DEF Bringing
  <2>. QED BY <2>7, <2>8
<1>5. CASE SpawnPreview(c) \/ StartFailed(c)
  BY <1>5, <1>1 DEF SpawnPreview, StartFailed, targets
<1>6. CASE EnterSetter(c) \/ Handshake(c) \/ HandshakeDone(c)
  BY <1>6, <1>1 DEF EnterSetter, Handshake, HandshakeDone, Then, targets
<1>7. CASE ReplaceCallback(c) \/ AssignCallback(c)
  <2>1. caller[c].arg \in Callbacks \cup {NULL} /\ callbackObj \in Callbacks \cup {NULL}
    BY <1>7 DEF Kinds, ReplaceCallback, AssignCallback
  <2>2. live \cap Windows \subseteq live'
    BY <1>7, <2>1, TargetsAssumption, NullAssumption DEF ReplaceCallback, AssignCallback
  <2>. QED BY <1>7, <2>2, <1>1 DEF ReplaceCallback, AssignCallback
<1>8. CASE ClearFormat(c) \/ SetFormat(c)
  BY <1>8, <1>1 DEF ClearFormat, SetFormat
<1>9. CASE CompareWindow(c)
  <2>1. CASE captureWindow = caller[c].arg
    BY <1>9, <2>1, <1>1 DEF CompareWindow, targets
  <2>2. CASE captureWindow # caller[c].arg
    BY <1>9, <2>2, <1>1 DEF CompareWindow, targets
  <2>. QED BY <2>1, <2>2
<1>15. CASE ReleaseWindow(c)
  <2>1. caller[c].op = "capture" /\ live' = live \ {captureWindow}
    BY <1>15 DEF ReleaseWindow, Kinds
  <2>2. /\ caller[c].pc = "releaseWindow" /\ caller'[c].pc = "storeWindow"
        /\ caller'[c].arg = caller[c].arg
        /\ \A d \in Callers \ {c} : caller'[d] = caller[d]
    BY <1>15, Moves DEF ReleaseWindow
  <2>3. captureWindow' = captureWindow
    BY <1>15 DEF ReleaseWindow
  <2>4. caller[c].arg # NULL => caller[c].arg # captureWindow
    BY <2>1, <2>2 DEF Bringing
  <2>5. \A d \in Callers : caller'[d].op = "capture" => d = c
    BY <2>1, <2>2 DEF OneCapture
  <2>6. Bringing'
    BY <2>1, <2>2, <2>3, <2>4, <2>5 DEF Bringing
  <2>. QED BY <2>2, <2>6 DEF WindowHandover
<1>16. CASE AssignWindow(c)
  <2>1. caller[c].op = "capture" /\ captureWindow' = caller[c].arg
    BY <1>16 DEF AssignWindow, Kinds
  <2>2. \A d \in Callers : caller'[d].op # "capture"
    BY <1>16, <2>1, Moves DEF AssignWindow, OneCapture
  <2>3. caller[c].arg # NULL => caller[c].arg \in live'
    BY <1>16, <2>1 DEF AssignWindow, Bringing
  <2>. QED BY <2>1, <2>2, <2>3 DEF WindowHandover, Bringing
<1>10. CASE StopFlag(c) \/ StopSignalPreview(c) \/ StopSignalCapture(c)
  BY <1>10, <1>1 DEF StopFlag, StopSignalPreview, StopSignalCapture, targets
<1>11. CASE JoinCapture(c)
  <2>1. Clears => Clears'
    <3>1. cap \in [CapThreads -> CapRec]
      BY DEF TypeOK, ThreadType
    <3>. QED BY <1>11, <3>1 DEF JoinCapture, Clears, At, CapRec
  <2>2. caller[c].pc = "joinCapture" /\ Goto(c, "joinPreview")
    BY <1>11 DEF JoinCapture
  <2>3. Replaces => Replaces'
    BY <2>2, Moves DEF Replaces
  <2>. QED BY <1>11, <2>1, <2>2, <2>3, Moves, HandoverStays DEF JoinCapture, targets
<1>12. CASE JoinPreview(c) \/ StopClearPreview(c) \/ StopClearCapture(c)
  BY <1>12, <1>1 DEF JoinPreview, StopClearPreview, StopClearCapture, targets
<1>13. CASE StopClosePreview(c)
  BY <1>13, <1>1 DEF StopClosePreview
<1>14. CASE StopCloseCapture(c) \/ DeletePreview(c)
  <2>1. ~Clears
    BY <1>14 DEF StopCloseCapture, DeletePreview, Stages, Joined, Quiet,
                 NoCapture, Clears, At
  <2>2. captureWindow' = NULL /\ live' = live \ {captureWindow}
    BY <1>14 DEF StopCloseCapture, DeletePreview
  <2>3. \A d \in Callers : caller'[d].op = "capture" =>
           caller[d].op = "capture" /\ caller'[d].arg = caller[d].arg
    BY <1>14, Moves DEF StopCloseCapture, DeletePreview
  <2>. QED BY <2>1, <2>2, <2>3 DEF WindowHandover, Bringing
<1>. QED BY <1>2, <1>3, <1>4, <1>5, <1>6, <1>7, <1>8, <1>9, <1>10, <1>11,
            <1>12, <1>13, <1>14, <1>15, <1>16 DEF Request, CallerStep

LEMMA HandoverCap ==
    ASSUME TypeOK, Stages, Kinds, WindowHandover, Bringing,
           NEW t \in CapThreads, CapStep(t)
    PROVE  WindowHandover' /\ Bringing'
<1>1. UNCHANGED caller
  BY OthersLeave
<1>2. CASE CapRelease(t)
  <2>1. cap \in [CapThreads -> CapRec]
    BY DEF TypeOK, ThreadType
  <2>2. \A u \in CapThreads : At(u, "null") => u = t
    BY <1>2 DEF CapRelease, Stages, At
  <2>3. ~Clears
    BY <1>2, <2>2 DEF CapRelease, Clears, At
  <2>4. Clears'
    BY <1>2, <2>1 DEF CapRelease, Clears, At, CapGoto
  <2>5. captureWindow' = captureWindow /\ live' = live \ {captureWindow}
    BY <1>2 DEF CapRelease
  <2>. QED BY <1>1, <2>3, <2>4, <2>5 DEF WindowHandover, Bringing, Clears
<1>3. CASE CapNull(t)
  <2>1. captureWindow' = NULL /\ UNCHANGED live
    BY <1>3 DEF CapNull
  <2>. QED BY <1>1, <2>1 DEF WindowHandover, Bringing
<1>4. ASSUME UNCHANGED <<captureWindow, live>>, ~At(t, "null"),
             \A u \in CapThreads \ {t} : cap'[u] = cap[u]
      PROVE  WindowHandover' /\ Bringing'
  <2>1. Clears => Clears'
    BY <1>4 DEF Clears, At
  <2>. QED BY <1>1, <1>4, <2>1, HandoverStays DEF Replaces
<1>5. cap \in [CapThreads -> CapRec]
  BY DEF TypeOK, ThreadType
<1>. USE <1>5 DEF At, CapGoto, targets
<1>6. CASE \/ CapClear(t) \/ CapFormat(t) \/ CapLoop(t) \/ CapChoose(t)
           \/ CapInner(t) \/ CapWait(t) \/ CapTake(t)
  BY <1>4, <1>6 DEF CapClear, CapFormat, CapLoop, CapChoose, CapInner, CapWait,
                    CapTake
<1>7. CASE CapConvertForSurface(t) \/ CapBlit(t) \/ CapPost(t) \/ CapCallback(t)
  BY <1>4, <1>7 DEF CapConvertForSurface, CapBlit, CapPost, CapCallback
<1>8. CASE CapGetOut(t) \/ CapConvert(t) \/ CapInvoke(t) \/ CapReturn(t)
  BY <1>4, <1>8 DEF CapGetOut, CapConvert, CapInvoke, CapReturn
<1>9. CASE CapRecycle(t) \/ CapClosing(t) \/ CapBroadcast(t)
  BY <1>4, <1>9 DEF CapRecycle, CapClosing, CapBroadcast
<1>. QED BY <1>2, <1>3, <1>6, <1>7, <1>8, <1>9 DEF CapStep

(* As long as the application makes one startCapture call at a time, a     *)
(* window that was released is found in mCaptureWindow only by somebody    *)
(* who looks between the two statements that end do_capture_surface, or    *)
(* between the two of setCaptureDisplay that release and replace it.       *)
THEOREM HandoverAlways ==
    ASSUME EagerStop = FALSE
    PROVE  Spec /\ []OneCapture => []WindowHandover
<1>. DEFINE Inv == WindowHandover /\ Bringing
            Known == TypeOK /\ Monitor /\ Stages /\ Kinds
<1>1. Init => Inv
  BY DEF Init, WindowHandover, Bringing
<1>2. ASSUME Known, OneCapture, OneCapture', Inv, [Next]_vars PROVE Inv'
  <2>1. ASSUME NEW c \in Callers, Request(c) \/ CallerStep(c) PROVE Inv'
    BY <1>2, <2>1, HandoverCaller
  <2>2. ASSUME NEW t \in CapThreads, CapStep(t) PROVE Inv'
    BY <1>2, <2>2, HandoverCap
  <2>3. ASSUME UNCHANGED <<caller, captureWindow, live>>, Clears => Clears'
        PROVE  Inv'
    BY <1>2, <2>3, HandoverStays DEF Replaces
  <2>4. CASE UvcPicture \/ UvcStep
    BY <2>3, <2>4 DEF UvcPicture, UvcStep, UvcCopy, AddPreviewFrame, UvcRecycle,
                      targets, Clears, At
  <2>5. CASE PrevSpawnCapture
    <3>1. Clears => Clears'
      <4>1. cap \in [CapThreads -> CapRec]
        BY <1>2 DEF TypeOK, ThreadType
      <4>. QED BY <2>5, <4>1 DEF PrevSpawnCapture, Clears, At
    <3>. QED BY <2>3, <2>5, <3>1 DEF PrevSpawnCapture, targets
  <2>6. CASE PrevStep /\ ~PrevSpawnCapture
    BY <2>3, <2>6
       DEF PrevStep, PrevPrepare, PrevStartStreaming, PrevClear, PrevLoop,
           PrevWait, PrevTake, PrevDecode, PrevDecoded, PrevDropFailed,
           PrevDraw, PrevDrawn, AddCaptureFrame, PrevSignal,
           PrevStopStreaming, targets, Clears, At
  <2>7. CASE SpuriousWake \/ UNCHANGED vars
    BY <2>3, <2>7 DEF SpuriousWake, vars, targets, threads, Clears, At
  <2>. QED BY <1>2, <2>1, <2>2, <2>4, <2>5, <2>6, <2>7 DEF Next
<1>. HIDE DEF Inv
<1>3. Known /\ OneCapture /\ OneCapture' /\ Inv /\ [Next]_vars => Inv'
  BY <1>2
<1>4. Spec => []Known
  BY Joining, Referring, PTL
<1>5. Inv => WindowHandover
  BY DEF Inv
<1>. QED BY <1>1, <1>3, <1>4, <1>5, PTL DEF Spec

=============================================================================
