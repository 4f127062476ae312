------------------------ MODULE UVCPreviewFlowProofs ------------------------
(***************************************************************************)
(* Where frames go, for every number of frames, callers and capture        *)
(* threads, if stopPreview does not come before the capture thread exists  *)
(* (EagerStop = FALSE): none is lost while the preview runs, and the       *)
(* engine implements FramePipe, so that onFrame gets the pictures in the   *)
(* order the camera sent them.                                             *)
(*                                                                         *)
(* A frame can get lost in two ways: it is dropped, or its pointer is      *)
(* overwritten.  That no pointer is overwritten is the first invariant     *)
(* here: a thread that has no business with a frame has none.  The second  *)
(* says that what a thread works on carries a picture number.              *)
(***************************************************************************)
EXTENDS UVCPreviewThreadProofs, SequenceTheorems

Working == {"surface", "blit", "post", "callback", "getOut", "convert",
            "invoke", "inCallback", "recycle"}

UvcEmpty == uvc \notin {"add", "recycle"} => hold[COPY] = NULL
PrevEmpty ==
    /\ prev \notin {"decode", "decoded"} => hold[MJPEG] = NULL
    /\ prev \notin {"decoded", "failed", "draw", "drawn", "add"} => hold[FRAME] = NULL
    /\ prev # "drawn" => hold[DRAWN] = NULL
CapEmpty(t) ==
    /\ cap[t].pc \notin Working => hold[Frame(t)] = NULL
    /\ cap[t].pc # "convert" => hold[CbFrame(t)] = NULL

EmptyHands == UvcEmpty /\ PrevEmpty /\ \A t \in CapThreads : CapEmpty(t)

Somewhere == Held \cup Queued \cup pool \cup heap

-----------------------------------------------------------------------------
(* The ways a frame moves                                                  *)

LEMMA StaySomewhere == ASSUME UNCHANGED store PROVE Somewhere' = Somewhere
BY DEF Somewhere, Held, Queued, store

LEMMA RecycledSomewhere ==
    ASSUME NEW R, RecycleAll(R)
    PROVE  pool' \cup heap' = pool \cup heap \cup R
BY DEF RecycleAll

LEMMA GetSomewhere ==
    ASSUME StoreType, NEW p \in Pointers, NEW n, hold[p] = NULL,
           GetFrame(p, n), UNCHANGED previewFrames
    PROVE  /\ Somewhere' = Somewhere
           /\ \A q \in Pointers \ {p} : hold'[q] = hold[q]
<1>1. CASE UNCHANGED <<hold, stamp, pool, heap>>
  BY <1>1 DEF Somewhere, Held, Queued
<1>2. ASSUME NEW f \in pool \cup heap, hold' = [hold EXCEPT ![p] = f],
             pool' = pool \ {f}, heap' = heap \ {f}
      PROVE  /\ Somewhere' = Somewhere
             /\ \A q \in Pointers \ {p} : hold'[q] = hold[q]
  <2>1. f # NULL
    BY NullAssumption DEF StoreType
  <2>2. /\ hold'[p] = f
        /\ \A q \in Pointers \ {p} : hold'[q] = hold[q]
    BY <1>2 DEF StoreType
  <2>3. Held' = Held \cup {f} /\ Queued' = Queued
    BY <2>1, <2>2 DEF Held, Queued
  <2>. QED BY <1>2, <2>2, <2>3 DEF Somewhere
<1>. QED BY <1>1, <1>2 DEF GetFrame

LEMMA ReplaceSomewhere ==
    ASSUME StoreType, NEW p \in Pointers, NEW q \in Pointers,
           RecycleAll({hold[q]} \ {NULL}), UNCHANGED previewFrames,
           \/ p # q /\ hold' = [hold EXCEPT ![q] = hold[p], ![p] = NULL]
           \/ p = q /\ hold' = [hold EXCEPT ![q] = NULL]
    PROVE  /\ Somewhere' = Somewhere
           /\ \A r \in Pointers \ {p, q} : hold'[r] = hold[r]
           /\ hold'[p] = NULL
<1>1. /\ \A r \in Pointers \ {p, q} : hold'[r] = hold[r]
      /\ hold'[p] = NULL
      /\ p # q => hold'[q] = hold[p]
  BY DEF StoreType
<1>2. pool' \cup heap' = pool \cup heap \cup ({hold[q]} \ {NULL})
  BY RecycledSomewhere
<1>3. Held' \cup ({hold[q]} \ {NULL}) = Held
  BY <1>1 DEF Held
<1>4. Queued' = Queued
  BY DEF Queued
<1>. QED BY <1>1, <1>2, <1>3, <1>4 DEF Somewhere

LEMMA RecycleSomewhere ==
    ASSUME StoreType, NEW p \in Pointers, Recycle(p), UNCHANGED previewFrames
    PROVE  /\ Somewhere' = Somewhere
           /\ \A r \in Pointers \ {p} : hold'[r] = hold[r]
           /\ hold'[p] = NULL
<1>1. RecycleAll({hold[p]} \ {NULL}) /\ hold' = [hold EXCEPT ![p] = NULL]
  BY DEF Recycle
<1>2. /\ Somewhere' = Somewhere
      /\ \A r \in Pointers \ {p, p} : hold'[r] = hold[r]
      /\ hold'[p] = NULL
  BY <1>1, ReplaceSomewhere, Zenon
<1>. QED BY <1>2

LEMMA MoveSomewhere ==
    ASSUME StoreType, NEW p \in Pointers, NEW q \in Pointers, p # q,
           hold[q] = NULL, UNCHANGED <<previewFrames, pool, heap>>,
           hold' = [hold EXCEPT ![q] = hold[p], ![p] = NULL]
    PROVE  /\ Somewhere' = Somewhere
           /\ \A r \in Pointers \ {p, q} : hold'[r] = hold[r]
<1>1. /\ \A r \in Pointers \ {p, q} : hold'[r] = hold[r]
      /\ hold'[p] = NULL /\ hold'[q] = hold[p]
  BY DEF StoreType
<1>2. Held' = Held /\ Queued' = Queued
  BY <1>1 DEF Held, Queued
<1>. QED BY <1>1, <1>2 DEF Somewhere

LEMMA TakeSomewhere ==
    ASSUME StoreType, NEW p \in Pointers, hold[p] = NULL, previewFrames # <<>>,
           hold' = [hold EXCEPT ![p] = Head(previewFrames)],
           previewFrames' = Tail(previewFrames), UNCHANGED <<pool, heap>>
    PROVE  /\ Somewhere' = Somewhere
           /\ \A r \in Pointers \ {p} : hold'[r] = hold[r]
<1>. DEFINE h == Head(previewFrames)
<1>1. /\ h \in Frames /\ h # NULL /\ h = previewFrames[1] /\ 1 \in DOMAIN previewFrames
      /\ \A i \in DOMAIN previewFrames' :
            i + 1 \in DOMAIN previewFrames /\ previewFrames'[i] = previewFrames[i + 1]
      /\ \A i \in DOMAIN previewFrames \ {1} :
            i - 1 \in DOMAIN previewFrames' /\ previewFrames'[i - 1] = previewFrames[i]
  BY NullAssumption DEF StoreType
<1>2. Queued = Queued' \cup {h}
  <2>1. \A i \in DOMAIN previewFrames : previewFrames[i] \in Queued' \cup {h}
    BY <1>1 DEF Queued
  <2>2. \A i \in DOMAIN previewFrames' : previewFrames'[i] \in Queued
    BY <1>1 DEF Queued
  <2>3. h \in Queued
    BY <1>1 DEF Queued
  <2>. HIDE DEF h
  <2>. QED BY <2>1, <2>2, <2>3 DEF Queued
<1>3. hold'[p] = h /\ \A r \in Pointers \ {p} : hold'[r] = hold[r]
  BY DEF StoreType
<1>. HIDE DEF h
<1>4. Held' = Held \cup {h}
  BY <1>1, <1>3 DEF Held
<1>. QED BY <1>2, <1>3, <1>4 DEF Somewhere

LEMMA AddSomewhere ==
    ASSUME StoreType, NEW p \in Pointers, hold[p] # NULL,
           previewFrames' = Append(previewFrames, hold[p]),
           hold' = [hold EXCEPT ![p] = NULL], UNCHANGED <<pool, heap>>
    PROVE  /\ Somewhere' = Somewhere
           /\ \A r \in Pointers \ {p} : hold'[r] = hold[r]
           /\ hold'[p] = NULL
<1>1. /\ \A i \in DOMAIN previewFrames :
            i \in DOMAIN previewFrames' /\ previewFrames'[i] = previewFrames[i]
      /\ Len(previewFrames) + 1 \in DOMAIN previewFrames'
      /\ previewFrames'[Len(previewFrames) + 1] = hold[p]
      /\ \A i \in DOMAIN previewFrames' :
            \/ i \in DOMAIN previewFrames /\ previewFrames'[i] = previewFrames[i]
            \/ i = Len(previewFrames) + 1 /\ previewFrames'[i] = hold[p]
  <2>1. hold[p] \in Frames /\ previewFrames \in Seq(Frames)
    BY DEF StoreType
  <2>. QED BY <2>1
<1>2. Queued' = Queued \cup {hold[p]}
  BY <1>1 DEF Queued
<1>3. hold'[p] = NULL /\ \A r \in Pointers \ {p} : hold'[r] = hold[r]
  BY DEF StoreType
<1>4. Held' \cup {hold[p]} = Held
  BY <1>3 DEF Held
<1>. QED BY <1>2, <1>3, <1>4 DEF Somewhere

LEMMA ClearSomewhere ==
    ASSUME ClearQueue, UNCHANGED hold
    PROVE  Somewhere' = Somewhere
<1>1. pool' \cup heap' = pool \cup heap \cup Queued
  BY RecycledSomewhere DEF ClearQueue
<1>2. Queued' = {} /\ Held' = Held
  BY DEF ClearQueue, Queued, Held
<1>. QED BY <1>1, <1>2 DEF Somewhere

-----------------------------------------------------------------------------
(* libuvc's callback thread and the preview thread                         *)

LEMMA CapsEmptyStay ==
    ASSUME EmptyHands, UNCHANGED cap,
           \A r \in Pointers \ {QUEU, COPY, MJPEG, FRAME, DRAWN} : hold'[r] = hold[r]
    PROVE  \A t \in CapThreads : CapEmpty(t)'
<1>. TAKE t \in CapThreads
<1>1. hold'[Frame(t)] = hold[Frame(t)] /\ hold'[CbFrame(t)] = hold[CbFrame(t)]
  BY CapPointers, PointersDistinct
<1>. QED BY <1>1 DEF EmptyHands, CapEmpty, Frame, CbFrame

LEMMA UvcLosesNone ==
    ASSUME IInv, EmptyHands, UvcPicture \/ UvcStep
    PROVE  EmptyHands' /\ Somewhere' = Somewhere
<1>t. StoreType /\ UvcAtHand /\ UvcEmpty /\ PrevEmpty
  BY DEF IInv, TypeOK, FramesAtHand, EmptyHands
<1>p. /\ {QUEU, COPY, MJPEG, FRAME, DRAWN} \subseteq Pointers
      /\ COPY \notin {QUEU, MJPEG, FRAME, DRAWN}
  BY PointersDistinct
<1>u. UNCHANGED <<prev, cap>>
  BY DEF UvcPicture, UvcStep, UvcCopy, AddPreviewFrame, UvcRecycle
<1>e. ASSUME UvcEmpty', \A r \in Pointers \ {COPY} : hold'[r] = hold[r]
      PROVE  EmptyHands'
  <2>1. PrevEmpty'
    BY <1>t, <1>p, <1>u, <1>e DEF PrevEmpty
  <2>2. \A t \in CapThreads : CapEmpty(t)'
    BY <1>u, <1>e, CapsEmptyStay
  <2>. QED BY <1>e, <2>1, <2>2 DEF EmptyHands
<1>1. CASE UvcPicture
  <2>1. UNCHANGED store /\ uvc' = "get" /\ uvc = "idle"
    BY <1>1 DEF UvcPicture
  <2>2. UvcEmpty' /\ UNCHANGED hold
    BY <1>t, <2>1 DEF UvcEmpty, store
  <2>. QED BY <1>e, <2>1, <2>2, StaySomewhere
<1>2. CASE UvcCopy
  <2>1. /\ uvc = "get" /\ GetFrame(COPY, sent) /\ UNCHANGED previewFrames
        /\ uvc' \in IF hold'[COPY] = NULL THEN {"idle"} ELSE {"add", "recycle"}
    BY <1>2 DEF UvcCopy
  <2>2. /\ Somewhere' = Somewhere
        /\ \A r \in Pointers \ {COPY} : hold'[r] = hold[r]
    BY <1>t, <1>p, <2>1, GetSomewhere DEF UvcEmpty
  <2>3. UvcEmpty'
    BY <2>1 DEF UvcEmpty
  <2>. QED BY <1>e, <2>2, <2>3
<1>3. CASE AddPreviewFrame
  <2>1. CASE running /\ Room
    <3>1. /\ hold[COPY] # NULL
          /\ previewFrames' = Append(previewFrames, hold[COPY])
          /\ hold' = [hold EXCEPT ![COPY] = NULL] /\ UNCHANGED <<pool, heap>>
      BY <1>t, <1>3, <2>1 DEF AddPreviewFrame, UvcAtHand
    <3>2. /\ Somewhere' = Somewhere /\ hold'[COPY] = NULL
          /\ \A r \in Pointers \ {COPY} : hold'[r] = hold[r]
      BY <1>t, <1>p, <3>1, AddSomewhere
    <3>. QED BY <1>e, <3>2 DEF UvcEmpty, COPY
  <2>2. CASE ~(running /\ Room)
    <3>1. UNCHANGED store /\ uvc' = "recycle"
      BY <1>3, <2>2 DEF AddPreviewFrame, store
    <3>2. UNCHANGED hold /\ UvcEmpty'
      BY <3>1 DEF store, UvcEmpty
    <3>. QED BY <1>e, <3>1, <3>2, StaySomewhere
  <2>. QED BY <2>1, <2>2
<1>4. CASE UvcRecycle
  <2>1. /\ Somewhere' = Somewhere /\ hold'[COPY] = NULL
        /\ \A r \in Pointers \ {COPY} : hold'[r] = hold[r]
    BY <1>t, <1>p, <1>4, RecycleSomewhere DEF UvcRecycle
  <2>. QED BY <1>e, <2>1 DEF UvcEmpty, COPY
<1>. QED BY <1>1, <1>2, <1>3, <1>4 DEF UvcStep

LEMMA PrevLosesNone ==
    ASSUME IInv, EmptyHands, PrevStep
    PROVE  EmptyHands' /\ (running => Somewhere' = Somewhere)
<1>t. StoreType /\ PrevAtHand /\ UvcEmpty /\ PrevEmpty
  BY DEF IInv, TypeOK, FramesAtHand, EmptyHands
<1>p. /\ {QUEU, COPY, MJPEG, FRAME, DRAWN} \subseteq Pointers
      /\ QUEU # MJPEG /\ QUEU # FRAME /\ QUEU # DRAWN /\ QUEU # COPY
      /\ COPY # MJPEG /\ COPY # FRAME /\ COPY # DRAWN
      /\ MJPEG # FRAME /\ MJPEG # DRAWN /\ FRAME # DRAWN
  BY PointersDistinct
<1>u. UNCHANGED uvc
  BY DEF PrevStep, PrevPrepare, PrevStartStreaming, PrevClear, PrevSpawnCapture,
         PrevLoop, PrevWait, PrevTake, PrevDecode, PrevDecoded, PrevDropFailed,
         PrevDraw, PrevDrawn, AddCaptureFrame, PrevSignal, PrevStopStreaming
<1>e. ASSUME PrevEmpty', UNCHANGED cap,
             \A r \in Pointers \ {QUEU, MJPEG, FRAME, DRAWN} : hold'[r] = hold[r]
      PROVE  EmptyHands'
  <2>1. UvcEmpty'
    BY <1>t, <1>p, <1>u, <1>e DEF UvcEmpty
  <2>2. \A t \in CapThreads : CapEmpty(t)'
    BY <1>e, CapsEmptyStay
  <2>. QED BY <1>e, <2>1, <2>2 DEF EmptyHands
<1>1. CASE PrevPrepare \/ PrevStartStreaming \/ PrevLoop \/ PrevWait \/ PrevSignal
           \/ PrevStopStreaming
  <2>1. /\ UNCHANGED <<cap, store>>
        /\ prev \notin {"decode", "decoded", "failed", "draw", "drawn", "add"}
        /\ prev' \notin {"decode", "decoded", "failed", "draw", "drawn", "add"}
    BY <1>1 DEF PrevPrepare, PrevStartStreaming, PrevLoop, PrevWait, PrevSignal,
                PrevStopStreaming
  <2>2. UNCHANGED hold /\ PrevEmpty'
    BY <1>t, <2>1 DEF PrevEmpty, store
  <2>. QED BY <1>e, <2>1, <2>2, StaySomewhere
<1>2. CASE PrevClear
  <2>1. ClearQueue /\ UNCHANGED <<hold, cap>> /\ prev = "clear" /\ prev' = "spawn"
    BY <1>2 DEF PrevClear
  <2>2. PrevEmpty'
    BY <1>t, <2>1 DEF PrevEmpty
  <2>. QED BY <1>e, <2>1, <2>2, ClearSomewhere
<1>3. CASE PrevSpawnCapture
  <2>1. UNCHANGED store /\ prev = "spawn" /\ prev' = "loop"
    BY <1>3 DEF PrevSpawnCapture
  <2>2. \A t \in CapThreads : \/ cap'[t] = cap[t]
                              \/ cap[t].pc = "none" /\ cap'[t].pc = "clear"
    <3>1. cap \in [CapThreads -> CapRec]
      BY DEF IInv, TypeOK, ThreadType
    <3>2. ASSUME NEW t \in CapThreads, cap[t].pc = "none",
                 cap' = [cap EXCEPT ![t].pc = "clear"]
          PROVE  cap'[t].pc = "clear" /\ \A u \in CapThreads \ {t} : cap'[u] = cap[u]
      <4>1. cap[t] \in CapRec
        BY <3>1
      <4>. QED BY <3>1, <3>2, <4>1 DEF CapRec
    <3>. QED BY <1>3, <3>2 DEF PrevSpawnCapture
  <2>3. PrevEmpty' /\ UvcEmpty'
    BY <1>t, <1>u, <2>1 DEF PrevEmpty, UvcEmpty, store
  <2>4. ASSUME NEW t \in CapThreads PROVE CapEmpty(t)'
    <3>1. CapEmpty(t) /\ UNCHANGED hold
      BY <2>1 DEF EmptyHands, store
    <3>. QED BY <2>2, <3>1 DEF CapEmpty, Working, Frame, CbFrame
  <2>. QED BY <2>1, <2>3, <2>4, StaySomewhere DEF EmptyHands
<1>4. CASE PrevTake
  <2>1. prev \in {"wait", "waiting"} /\ UNCHANGED <<pool, heap, stamp, cap>>
    BY <1>4 DEF PrevTake
  <2>2. CASE running /\ previewFrames # <<>>
    <3>. DEFINE p == IF frameMode THEN MJPEG ELSE FRAME
    <3>1. /\ hold' = [hold EXCEPT ![p] = Head(previewFrames)]
          /\ previewFrames' = Tail(previewFrames)
          /\ prev' = IF frameMode THEN "decode" ELSE "draw"
      BY <1>4, <2>2 DEF PrevTake
    <3>2. p \in Pointers /\ hold[p] = NULL
      BY <1>t, <1>p, <2>1 DEF PrevEmpty
    <3>3. /\ Somewhere' = Somewhere
          /\ \A r \in Pointers \ {p} : hold'[r] = hold[r]
      BY <1>t, <2>1, <2>2, <3>1, <3>2, TakeSomewhere
    <3>4. PrevEmpty'
      BY <1>t, <1>p, <2>1, <3>1, <3>3 DEF PrevEmpty
    <3>. QED BY <1>e, <2>1, <3>3, <3>4
  <2>3. CASE ~(running /\ previewFrames # <<>>)
    <3>1. UNCHANGED store /\ prev' = "loop"
      BY <1>4, <2>1, <2>3 DEF PrevTake, store
    <3>2. UNCHANGED hold /\ PrevEmpty'
      BY <1>t, <2>1, <3>1 DEF PrevEmpty, store
    <3>. QED BY <1>e, <2>1, <3>1, <3>2, StaySomewhere
  <2>. QED BY <2>2, <2>3
<1>5. CASE PrevDecode
  <2>1. /\ GetFrame(FRAME, stamp[hold[MJPEG]]) /\ UNCHANGED <<previewFrames, cap>>
        /\ prev = "decode" /\ prev' = "decoded"
    BY <1>5 DEF PrevDecode
  <2>2. /\ Somewhere' = Somewhere
        /\ \A r \in Pointers \ {FRAME} : hold'[r] = hold[r]
    BY <1>t, <1>p, <2>1, GetSomewhere DEF PrevEmpty
  <2>3. PrevEmpty'
    BY <1>t, <1>p, <2>1, <2>2 DEF PrevEmpty
  <2>. QED BY <1>e, <2>1, <2>2, <2>3
<1>6. CASE PrevDecoded
  <2>1. /\ Recycle(MJPEG) /\ UNCHANGED <<previewFrames, cap>>
        /\ prev = "decoded" /\ prev' \in {"draw", "failed"}
    BY <1>6 DEF PrevDecoded
  <2>2. /\ Somewhere' = Somewhere /\ hold'[MJPEG] = NULL
        /\ \A r \in Pointers \ {MJPEG} : hold'[r] = hold[r]
    BY <1>t, <1>p, <2>1, RecycleSomewhere
  <2>3. PrevEmpty'
    BY <1>t, <1>p, <2>1, <2>2 DEF PrevEmpty, MJPEG
  <2>. QED BY <1>e, <2>1, <2>2, <2>3
<1>7. CASE PrevDropFailed
  <2>1. /\ Recycle(FRAME) /\ UNCHANGED <<previewFrames, cap>>
        /\ prev = "failed" /\ prev' = "loop"
    BY <1>7 DEF PrevDropFailed
  <2>2. /\ Somewhere' = Somewhere /\ hold'[FRAME] = NULL
        /\ \A r \in Pointers \ {FRAME} : hold'[r] = hold[r]
    BY <1>t, <1>p, <2>1, RecycleSomewhere
  <2>3. PrevEmpty'
    BY <1>t, <1>p, <2>1, <2>2 DEF PrevEmpty, FRAME
  <2>. QED BY <1>e, <2>1, <2>2, <2>3
<1>8. CASE PrevDraw
  <2>1. /\ UNCHANGED <<previewFrames, cap>> /\ prev = "draw"
        /\ \/ /\ GetFrame(DRAWN, stamp[hold[FRAME]])
              /\ prev' = IF hold'[DRAWN] = NULL THEN "add" ELSE "drawn"
           \/ prev' = "add" /\ UNCHANGED <<hold, stamp, pool, heap>>
    BY <1>8 DEF PrevDraw
  <2>2. /\ Somewhere' = Somewhere
        /\ \A r \in Pointers \ {DRAWN} : hold'[r] = hold[r]
        /\ prev' = "drawn" \/ (prev' = "add" /\ hold'[DRAWN] = NULL)
    BY <1>t, <1>p, <2>1, GetSomewhere, StaySomewhere DEF PrevEmpty, store
  <2>3. PrevEmpty'
    BY <1>t, <1>p, <2>1, <2>2 DEF PrevEmpty, DRAWN
  <2>. QED BY <1>e, <2>1, <2>2, <2>3
<1>9. CASE PrevDrawn
  <2>1. /\ Recycle(DRAWN) /\ UNCHANGED <<previewFrames, cap>>
        /\ prev = "drawn" /\ prev' = "add"
    BY <1>9 DEF PrevDrawn
  <2>2. /\ Somewhere' = Somewhere /\ hold'[DRAWN] = NULL
        /\ \A r \in Pointers \ {DRAWN} : hold'[r] = hold[r]
    BY <1>t, <1>p, <2>1, RecycleSomewhere
  <2>3. PrevEmpty'
    BY <1>t, <1>p, <2>1, <2>2 DEF PrevEmpty, DRAWN
  <2>. QED BY <1>e, <2>1, <2>2, <2>3
<1>10. CASE AddCaptureFrame
  <2>1. UNCHANGED <<previewFrames, cap>> /\ prev = "add" /\ prev' = "loop"
    BY <1>10 DEF AddCaptureFrame
  <2>2. /\ running => Somewhere' = Somewhere
        /\ hold'[FRAME] = NULL
        /\ \A r \in Pointers \ {QUEU, FRAME} : hold'[r] = hold[r]
    <3>1. CASE running
      BY <1>t, <1>p, <1>10, <2>1, <3>1, ReplaceSomewhere DEF AddCaptureFrame
    <3>2. CASE ~running
      BY <1>t, <1>p, <1>10, <3>2 DEF AddCaptureFrame, StoreType
    <3>. QED BY <3>1, <3>2
  <2>3. PrevEmpty'
    BY <1>t, <1>p, <2>1, <2>2 DEF PrevEmpty, FRAME
  <2>. QED BY <1>e, <2>1, <2>2, <2>3
<1>. QED BY <1>1, <1>2, <1>3, <1>4, <1>5, <1>6, <1>7, <1>8, <1>9, <1>10 DEF PrevStep

-----------------------------------------------------------------------------
(* The capture threads                                                     *)

LEMMA CapLosesNone ==
    ASSUME NEW t \in CapThreads, IInv, EmptyHands, CapStep(t)
    PROVE  EmptyHands' /\ Somewhere' = Somewhere
<1>t. /\ StoreType /\ CapAtHand(t) /\ UvcEmpty /\ PrevEmpty /\ CapEmpty(t)
      /\ cap \in [CapThreads -> CapRec] /\ cap[t] \in CapRec
  BY DEF IInv, TypeOK, ThreadType, FramesAtHand, EmptyHands
<1>p. /\ {QUEU, Frame(t), Converted(t), CbFrame(t)} \subseteq Pointers
      /\ Frame(t) # Converted(t) /\ Frame(t) # CbFrame(t)
      /\ Converted(t) # CbFrame(t)
      /\ QUEU \notin {Frame(t), Converted(t), CbFrame(t)}
  BY PointersDistinct
<1>u. UNCHANGED <<uvc, prev>>
  BY DEF CapStep, CapClear, CapFormat, CapLoop, CapChoose,
         CapInner, CapWait, CapTake,
         CapConvertForSurface, CapBlit, CapPost, CapCallback, CapGetOut,
         CapConvert, CapInvoke, CapReturn, CapRecycle, CapClosing, CapRelease,
         CapNull, CapBroadcast
\* what the step does with the program counter of t
<1>c. ASSUME NEW l, CapGoto(t, l)
      PROVE  cap'[t].pc = l /\ \A u \in CapThreads \ {t} : cap'[u] = cap[u]
  BY <1>t, <1>c DEF CapGoto, CapRec
<1>e. ASSUME CapEmpty(t)', \A u \in CapThreads \ {t} : cap'[u] = cap[u],
             \A r \in Pointers \ {QUEU, Frame(t), Converted(t), CbFrame(t)} :
                hold'[r] = hold[r]
      PROVE  EmptyHands'
  <2>1. \A r \in {COPY, MJPEG, FRAME, DRAWN} : hold'[r] = hold[r]
    BY <1>e, CapPointers, PointersDistinct
  <2>2. UvcEmpty' /\ PrevEmpty'
    BY <1>t, <1>u, <2>1 DEF UvcEmpty, PrevEmpty, COPY, MJPEG, FRAME, DRAWN
  <2>3. ASSUME NEW u \in CapThreads, u # t PROVE CapEmpty(u)'
    <3>1. CapEmpty(u) /\ cap'[u] = cap[u]
      BY <1>e, <2>3 DEF EmptyHands
    <3>2. hold'[Frame(u)] = hold[Frame(u)] /\ hold'[CbFrame(u)] = hold[CbFrame(u)]
      BY <1>e, <2>3, ThreadPointers, CapPointers, PointersDistinct
    <3>. QED BY <3>1, <3>2 DEF CapEmpty, Working, Frame, CbFrame
  <2>. QED BY <1>e, <2>2, <2>3 DEF EmptyHands
<1>1. CASE \/ CapFormat(t) \/ CapLoop(t) \/ CapChoose(t) \/ CapInner(t)
           \/ CapWait(t) \/ CapBlit(t)
           \/ CapPost(t) \/ CapCallback(t) \/ CapInvoke(t) \/ CapReturn(t)
           \/ CapRelease(t) \/ CapNull(t) \/ CapBroadcast(t)
  <2>1. UNCHANGED store
    BY <1>1 DEF CapFormat, CapLoop, CapChoose, CapInner, CapWait,
                CapBlit, CapPost, CapCallback, CapInvoke, CapReturn, CapRelease,
                CapNull, CapBroadcast
  <2>2. /\ cap[t].pc # "convert" /\ cap'[t].pc # "convert"
        /\ cap[t].pc \notin Working \/ cap'[t].pc \in Working
    BY <1>1, <1>t DEF CapFormat, CapLoop, CapChoose, CapInner, CapWait,
                CapBlit, CapPost, CapCallback, CapInvoke, CapReturn, CapRelease,
                CapNull, CapBroadcast, At,
                CapGoto, CapRec, Working
  <2>3. \A u \in CapThreads \ {t} : cap'[u] = cap[u]
    BY <1>1, <1>t DEF CapFormat, CapLoop, CapChoose, CapInner, CapWait,
                CapBlit, CapPost, CapCallback, CapInvoke, CapReturn, CapRelease,
                CapNull, CapBroadcast, CapGoto
  <2>4. UNCHANGED hold /\ CapEmpty(t)'
    BY <1>t, <2>1, <2>2 DEF CapEmpty, store, Frame, CbFrame
  <2>. QED BY <1>e, <2>1, <2>3, <2>4, StaySomewhere
<1>2. CASE CapClear(t)
  <2>1. /\ Recycle(QUEU) /\ CapGoto(t, "format") /\ UNCHANGED previewFrames
        /\ cap[t].pc = "clear"
    BY <1>2 DEF CapClear, ClearCapture, At
  <2>2. /\ Somewhere' = Somewhere
        /\ \A r \in Pointers \ {QUEU} : hold'[r] = hold[r]
    BY <1>t, <1>p, <2>1, RecycleSomewhere
  <2>3. CapEmpty(t)'
    BY <1>t, <1>p, <1>c, <2>1, <2>2 DEF CapEmpty, Working, Frame, CbFrame
  <2>. QED BY <1>c, <1>e, <2>1, <2>2, <2>3
<1>3. CASE CapTake(t)
  <2>1. /\ cap[t].pc \in {"wait", "waiting"}
        /\ UNCHANGED <<previewFrames, pool, heap, stamp>>
    BY <1>3 DEF CapTake, At
  <2>2. hold[Frame(t)] = NULL /\ hold[CbFrame(t)] = NULL
    BY <1>t, <2>1 DEF CapEmpty, Working
  <2>3. CASE running /\ hold[QUEU] # NULL
    <3>1. PICK l \in {"surface", "callback"} : CapGoto(t, l)
      BY <1>3, <2>3 DEF CapTake
    <3>2. hold' = [hold EXCEPT ![Frame(t)] = hold[QUEU], ![QUEU] = NULL]
      BY <1>3, <2>3 DEF CapTake
    <3>3. /\ Somewhere' = Somewhere
          /\ \A r \in Pointers \ {QUEU, Frame(t)} : hold'[r] = hold[r]
      BY <1>t, <1>p, <2>1, <2>2, <3>2, MoveSomewhere
    <3>4. CapEmpty(t)'
      BY <1>p, <1>c, <2>2, <3>1, <3>3 DEF CapEmpty, Working, Frame, CbFrame
    <3>. QED BY <1>c, <1>e, <3>1, <3>3, <3>4
  <2>4. CASE ~(running /\ hold[QUEU] # NULL)
    <3>1. CapGoto(t, "inner") /\ UNCHANGED hold
      BY <1>3, <2>4 DEF CapTake
    <3>2. CapEmpty(t)'
      BY <1>c, <2>2, <3>1 DEF CapEmpty, Frame, CbFrame
    <3>. QED BY <1>c, <1>e, <2>1, <3>1, <3>2, StaySomewhere DEF store
  <2>. QED BY <2>3, <2>4
<1>4. CASE CapConvertForSurface(t)
  <2>1. cap[t].pc = "surface" /\ UNCHANGED previewFrames
    BY <1>4 DEF CapConvertForSurface, At
  <2>2. \/ hold[Converted(t)] = NULL
           /\ GetFrame(Converted(t), stamp[hold[Frame(t)]])
        \/ UNCHANGED <<hold, pool, heap, stamp>>
    BY <1>4 DEF CapConvertForSurface
  <2>3. PICK l \in {"blit", "callback"} : CapGoto(t, l)
    BY <1>4 DEF CapConvertForSurface
  <2>4. /\ Somewhere' = Somewhere
        /\ \A r \in Pointers \ {Converted(t)} : hold'[r] = hold[r]
    BY <1>t, <1>p, <2>1, <2>2, GetSomewhere, StaySomewhere DEF store
  <2>5. CapEmpty(t)'
    BY <1>t, <1>p, <1>c, <2>1, <2>3, <2>4 DEF CapEmpty, Working, Frame, CbFrame
  <2>. QED BY <1>c, <1>e, <2>3, <2>4, <2>5
<1>5. CASE CapGetOut(t)
  <2>1. /\ cap[t].pc = "getOut" /\ UNCHANGED previewFrames
        /\ GetFrame(CbFrame(t), stamp[hold[Frame(t)]])
    BY <1>5 DEF CapGetOut, At
  <2>2. PICK l \in {"recycle", "convert"} :
           CapGoto(t, l) /\ (l = "recycle" => hold'[CbFrame(t)] = NULL)
    BY <1>5 DEF CapGetOut
  <2>3. /\ Somewhere' = Somewhere
        /\ \A r \in Pointers \ {CbFrame(t)} : hold'[r] = hold[r]
    BY <1>t, <1>p, <2>1, GetSomewhere DEF CapEmpty
  <2>4. CapEmpty(t)'
    BY <1>t, <1>p, <1>c, <2>1, <2>2, <2>3 DEF CapEmpty, Working, Frame, CbFrame
  <2>. QED BY <1>c, <1>e, <2>2, <2>3, <2>4
<1>6. CASE CapConvert(t)
  <2>1. /\ cap[t].pc = "convert" /\ UNCHANGED previewFrames
        /\ RecycleAll({hold[Frame(t)]})
        /\ hold' = [hold EXCEPT ![Frame(t)] = hold[CbFrame(t)], ![CbFrame(t)] = NULL]
    BY <1>6 DEF CapConvert, At
  <2>2. PICK l \in {"invoke", "recycle"} : CapGoto(t, l)
    BY <1>6 DEF CapConvert
  <2>3. RecycleAll({hold[Frame(t)]} \ {NULL})
    <3>1. {hold[Frame(t)]} = {hold[Frame(t)]} \ {NULL}
      BY <1>t, <2>1 DEF CapAtHand
    <3>. QED BY <2>1, <3>1, Zenon
  <2>4. /\ Somewhere' = Somewhere /\ hold'[CbFrame(t)] = NULL
        /\ \A r \in Pointers \ {CbFrame(t), Frame(t)} : hold'[r] = hold[r]
    BY <1>t, <1>p, <2>1, <2>3, ReplaceSomewhere
  <2>5. CapEmpty(t)'
    BY <1>c, <2>2, <2>4 DEF CapEmpty, Working, CbFrame
  <2>. QED BY <1>c, <1>e, <2>2, <2>4, <2>5
<1>7. CASE CapRecycle(t)
  <2>1. /\ Recycle(Frame(t)) /\ CapGoto(t, "inner") /\ UNCHANGED previewFrames
        /\ cap[t].pc = "recycle"
    BY <1>7 DEF CapRecycle, At
  <2>2. /\ Somewhere' = Somewhere /\ hold'[Frame(t)] = NULL
        /\ \A r \in Pointers \ {Frame(t)} : hold'[r] = hold[r]
    BY <1>t, <1>p, <2>1, RecycleSomewhere
  <2>3. CapEmpty(t)'
    BY <1>t, <1>p, <1>c, <2>1, <2>2 DEF CapEmpty, Frame, CbFrame
  <2>. QED BY <1>c, <1>e, <2>1, <2>2, <2>3
<1>8. CASE CapClosing(t)
  <2>1. /\ Recycle(Converted(t)) /\ UNCHANGED previewFrames /\ cap[t].pc = "closing"
    BY <1>8 DEF CapClosing, At
  <2>2. PICK l \in {"broadcast", "release"} : CapGoto(t, l)
    BY <1>8 DEF CapClosing
  <2>3. /\ Somewhere' = Somewhere
        /\ \A r \in Pointers \ {Converted(t)} : hold'[r] = hold[r]
    BY <1>t, <1>p, <2>1, RecycleSomewhere
  <2>4. CapEmpty(t)'
    BY <1>t, <1>p, <1>c, <2>1, <2>2, <2>3 DEF CapEmpty, Working, Frame, CbFrame
  <2>. QED BY <1>c, <1>e, <2>2, <2>3, <2>4
<1>. QED BY <1>1, <1>2, <1>3, <1>4, <1>5, <1>6, <1>7, <1>8 DEF CapStep

-----------------------------------------------------------------------------
(* The callers                                                             *)

LEMMA CallerLosesNone ==
    ASSUME IInv, EmptyHands, Monitor, Stages,
           NEW c \in Callers, Request(c) \/ CallerStep(c)
    PROVE  EmptyHands' /\ Somewhere' = Somewhere
<1>t. StoreType /\ UvcEmpty /\ PrevEmpty
  BY DEF IInv, TypeOK, EmptyHands
<1>p. /\ {QUEU, COPY, MJPEG, FRAME, DRAWN} \subseteq Pointers
      /\ QUEU \notin {COPY, MJPEG, FRAME, DRAWN}
  BY PointersDistinct
<1>e. ASSUME UNCHANGED <<uvc, prev, cap>>, \A r \in Pointers \ {QUEU} : hold'[r] = hold[r]
      PROVE  EmptyHands'
  <2>1. UvcEmpty' /\ PrevEmpty'
    BY <1>t, <1>p, <1>e DEF UvcEmpty, PrevEmpty
  <2>2. \A t \in CapThreads : CapEmpty(t)'
    BY <1>e, CapsEmptyStay
  <2>. QED BY <2>1, <2>2 DEF EmptyHands
<1>1. CASE \/ Request(c) \/ StartFailed(c) \/ EnterSetter(c) \/ Handshake(c)
           \/ HandshakeDone(c) \/ ReplaceCallback(c) \/ AssignCallback(c)
           \/ ClearFormat(c) \/ SetFormat(c)
           \/ CompareWindow(c) \/ ReleaseWindow(c) \/ AssignWindow(c)
           \/ StopFlag(c) \/ StopSignalPreview(c) \/ StopSignalCapture(c)
           \/ StopClosePreview(c) \/ StopCloseCapture(c)
  <2>1. UNCHANGED <<store, uvc, prev, cap>>
    BY <1>1 DEF Request, SetPreviewDisplay, SetPreviewSize, StartPreview, StopPreview,
         SetFrameCallback, SetCaptureDisplay, StartFailed, EnterSetter, Handshake,
         HandshakeDone, ReplaceCallback, AssignCallback, ClearFormat, SetFormat,
         CompareWindow, ReleaseWindow, AssignWindow, StopFlag,
         StopSignalPreview, StopSignalCapture, StopClosePreview,
         StopCloseCapture, threads
  <2>. QED BY <1>e, <2>1, StaySomewhere DEF store
<1>2. CASE SpawnPreview(c)
  <2>1. UNCHANGED <<store, uvc, cap>> /\ prev = "none" /\ prev' \in {"none", "prepare"}
    BY <1>2 DEF SpawnPreview, Stages, Quiet, Starting
  <2>2. UvcEmpty' /\ PrevEmpty'
    BY <1>t, <2>1 DEF UvcEmpty, PrevEmpty, store
  <2>3. \A t \in CapThreads : CapEmpty(t)'
    BY <2>1, CapsEmptyStay DEF store
  <2>. QED BY <2>1, <2>2, <2>3, StaySomewhere DEF EmptyHands
<1>3. CASE JoinPreview(c)
  <2>1. UNCHANGED <<store, uvc, cap>> /\ prev \in {"none", "exited"} /\ prev' = "none"
    BY <1>3 DEF JoinPreview
  <2>2. UvcEmpty' /\ PrevEmpty'
    BY <1>t, <2>1 DEF UvcEmpty, PrevEmpty, store
  <2>3. \A t \in CapThreads : CapEmpty(t)'
    BY <2>1, CapsEmptyStay DEF store
  <2>. QED BY <2>1, <2>2, <2>3, StaySomewhere DEF EmptyHands
<1>4. CASE JoinCapture(c)
  <2>1. UNCHANGED <<store, uvc, prev>>
    BY <1>4 DEF JoinCapture
  <2>2. \A t \in CapThreads : \/ cap'[t] = cap[t]
                              \/ cap[t].pc = "exited" /\ cap'[t].pc = "none"
    <3>1. cap \in [CapThreads -> CapRec] /\ captureThread \in CapThreads \cup {NULL}
      BY DEF IInv, TypeOK, ThreadType
    <3>2. CASE ~Joinable(captureThread)
      BY <1>4, <3>2 DEF JoinCapture
    <3>3. CASE Joinable(captureThread)
      <4>1. captureThread \in CapThreads /\ cap[captureThread] \in CapRec
        BY <3>1, <3>3 DEF Joinable
      <4>2. /\ cap[captureThread].pc = "exited"
            /\ cap' = [cap EXCEPT ![captureThread].pc = "none"]
        BY <1>4, <3>3 DEF JoinCapture
      <4>. QED BY <3>1, <4>1, <4>2 DEF CapRec
    <3>. QED BY <3>2, <3>3
  <2>3. ASSUME NEW t \in CapThreads PROVE CapEmpty(t)'
    <3>1. CapEmpty(t) /\ UNCHANGED hold
      BY <2>1 DEF EmptyHands, store
    <3>. QED BY <2>2, <3>1 DEF CapEmpty, Working, Frame, CbFrame
  <2>4. UvcEmpty' /\ PrevEmpty'
    BY <1>t, <2>1 DEF UvcEmpty, PrevEmpty, store
  <2>. QED BY <2>1, <2>3, <2>4, StaySomewhere DEF EmptyHands
<1>5. CASE StopClearPreview(c)
  BY <1>5, <1>e, ClearSomewhere DEF StopClearPreview
<1>6. CASE StopClearCapture(c)
  <2>1. Recycle(QUEU) /\ UNCHANGED <<previewFrames, uvc, prev, cap>>
    BY <1>6 DEF StopClearCapture, ClearCapture
  <2>2. /\ Somewhere' = Somewhere
        /\ \A r \in Pointers \ {QUEU} : hold'[r] = hold[r]
    BY <1>t, <1>p, <2>1, RecycleSomewhere
  <2>. QED BY <1>e, <2>1, <2>2
<1>7. CASE DeletePreview(c)
  <2>1. /\ UNCHANGED <<uvc, prev, cap>>
        /\ hold' = [hold EXCEPT ![QUEU] = NULL]
        /\ previewFrames' = <<>> /\ pool' = {}
        /\ heap' = heap \cup (pool \cup Queued \cup ({hold[QUEU]} \ {NULL}))
    BY <1>7 DEF DeletePreview, FreeFrames
  <2>2. hold'[QUEU] = NULL /\ \A r \in Pointers \ {QUEU} : hold'[r] = hold[r]
    BY <1>t, <1>p, <2>1 DEF StoreType
  <2>3. Held' \cup ({hold[QUEU]} \ {NULL}) = Held /\ Queued' = {}
    BY <1>p, <2>1, <2>2 DEF Held, Queued
  <2>4. Somewhere' = Somewhere
    BY <2>1, <2>3 DEF Somewhere
  <2>. QED BY <1>e, <2>1, <2>2, <2>4
<1>. QED BY <1>1, <1>2, <1>3, <1>4, <1>5, <1>6, <1>7 DEF CallerStep

-----------------------------------------------------------------------------

LEMMA InitEmpty == Init => EmptyHands
<1>1. ASSUME Init, NEW t \in CapThreads PROVE CapEmpty(t)
  BY <1>1, PointersDistinct DEF Init, CapEmpty
<1>2. Init => UvcEmpty /\ PrevEmpty
  BY PointersDistinct DEF Init, UvcEmpty, PrevEmpty
<1>. QED BY <1>1, <1>2 DEF EmptyHands

LEMMA EmptyStep ==
    ASSUME IInv, EmptyHands, Monitor, Stages, [Next]_vars
    PROVE  EmptyHands' /\ (running => Somewhere' = Somewhere)
<1>1. ASSUME NEW c \in Callers, Request(c) \/ CallerStep(c)
      PROVE  EmptyHands' /\ Somewhere' = Somewhere
  BY <1>1, CallerLosesNone
<1>2. CASE UvcPicture \/ UvcStep
  BY <1>2, UvcLosesNone
<1>3. CASE PrevStep
  BY <1>3, PrevLosesNone
<1>4. ASSUME NEW t \in CapThreads, CapStep(t) PROVE EmptyHands' /\ Somewhere' = Somewhere
  BY <1>4, CapLosesNone
<1>5. CASE SpuriousWake \/ UNCHANGED vars
  <2>1. UNCHANGED <<store, uvc, prev, cap>>
    BY <1>5 DEF SpuriousWake, vars, threads
  <2>2. UvcEmpty' /\ PrevEmpty'
    BY <2>1 DEF EmptyHands, UvcEmpty, PrevEmpty, store
  <2>3. \A t \in CapThreads : CapEmpty(t)'
    BY <2>1, CapsEmptyStay DEF store
  <2>. QED BY <2>1, <2>2, <2>3, StaySomewhere DEF EmptyHands
<1>. QED BY <1>1, <1>2, <1>3, <1>4, <1>5 DEF Next

(* However often get_frame, the decoder and the window fail, and whatever  *)
(* threads set callbacks and windows meanwhile, every path of the engine   *)
(* gives its frame on or recycles it while the preview runs.               *)
THEOREM NothingLost ==
    ASSUME EagerStop = FALSE
    PROVE  Spec => NoLossWhileRunning
<1>1. Init => EmptyHands
  BY InitEmpty
<1>2. IInv /\ Monitor /\ Stages /\ EmptyHands /\ [Next]_vars => EmptyHands'
  BY EmptyStep
<1>3. IInv /\ Monitor /\ Stages /\ EmptyHands /\ [Next]_vars
         => [running /\ running' => Lost' = Lost]_vars
  <2>1. Lost = Frames \ Somewhere /\ Lost' = Frames \ Somewhere'
    BY DEF Lost, Somewhere
  <2>. QED BY <2>1, EmptyStep
<1>. QED BY <1>1, <1>2, <1>3, Joining, Invariance, PTL DEF Spec, NoLossWhileRunning

-----------------------------------------------------------------------------
(* What is left when a preview has been stopped                            *)

(* The frame do_capture_surface converts into lives as long as its loop.   *)
ConverterEmpty(t) ==
    /\ \/ ~cap[t].surface
       \/ cap[t].pc \in {"none", "clear", "format", "loop", "choose",
                         "release", "null", "broadcast", "exited"}
       => hold[Converted(t)] = NULL
    /\ cap[t].pc = "surface" => cap[t].surface
Converters == \A t \in CapThreads : ConverterEmpty(t)

(* A queue that is not empty belongs to the running preview, or is about   *)
(* to be cleared; what stopPreview has cleared stays so.                   *)
Cleared ==
    /\ previewFrames # <<>> => \/ prev \notin {"none", "prepare", "stream"}
                               \/ \E c \in Callers : caller[c].pc = "clearPreview"
    /\ \A c \in Callers :
          /\ caller[c].pc \in Joined \ {"clearPreview"} => previewFrames = <<>>
          /\ caller[c].pc \in Joined \ {"clearPreview", "clearCapture"}
                => hold[QUEU] = NULL

\* Only a capture thread touches the frames of capture threads.
LEMMA CapFramesKept ==
    ASSUME IInv, \/ UvcPicture \/ UvcStep \/ PrevStep \/ SpuriousWake
                 \/ UNCHANGED vars
                 \/ \E c \in Callers : Request(c) \/ CallerStep(c)
    PROVE  \A t \in CapThreads : hold'[Converted(t)] = hold[Converted(t)]
<1>t. StoreType
  BY DEF IInv, TypeOK
<1>p. \A t \in CapThreads : /\ Converted(t) \in Pointers
                            /\ Converted(t) \notin {QUEU, COPY, MJPEG, FRAME, DRAWN}
  BY CapPointers, PointersDistinct
<1>1. ASSUME NEW q \in {QUEU, COPY, MJPEG, FRAME, DRAWN},
             NEW q2 \in {QUEU, COPY, MJPEG, FRAME, DRAWN}, NEW v, NEW v2,
             \/ UNCHANGED hold
             \/ hold' = [hold EXCEPT ![q] = v]
             \/ hold' = [hold EXCEPT ![q] = v, ![q2] = v2]
      PROVE  \A t \in CapThreads : hold'[Converted(t)] = hold[Converted(t)]
  BY <1>t, <1>p, <1>1 DEF StoreType
<1>2. CASE UvcPicture \/ UvcStep
  BY <1>1, <1>2 DEF UvcPicture, UvcStep, UvcCopy, AddPreviewFrame, UvcRecycle,
                    GetFrame, Recycle, store
<1>3. CASE PrevStep
  BY <1>1, <1>3 DEF PrevStep, PrevPrepare, PrevStartStreaming, PrevClear,
             PrevSpawnCapture, PrevLoop, PrevWait, PrevTake, PrevDecode,
             PrevDecoded, PrevDropFailed, PrevDraw, PrevDrawn,
             AddCaptureFrame, PrevSignal, PrevStopStreaming,
             GetFrame, Recycle, store
<1>4. ASSUME NEW c \in Callers, Request(c) \/ CallerStep(c)
      PROVE  \A t \in CapThreads : hold'[Converted(t)] = hold[Converted(t)]
  <2>1. \/ UNCHANGED hold
        \/ \E v : hold' = [hold EXCEPT ![QUEU] = v]
    BY <1>4 DEF Request, SetPreviewDisplay, SetPreviewSize, StartPreview, StopPreview,
         SetFrameCallback, SetCaptureDisplay, CallerStep, SpawnPreview, StartFailed,
         EnterSetter, Handshake, HandshakeDone, ReplaceCallback, AssignCallback,
         ClearFormat, SetFormat, CompareWindow, ReleaseWindow, AssignWindow,
         StopFlag, StopSignalPreview, StopSignalCapture, JoinCapture,
         JoinPreview, StopClearPreview,
         StopClearCapture, StopClosePreview, StopCloseCapture, DeletePreview,
         ClearCapture, FreeFrames, Recycle, store
  <2>. QED BY <1>1, <2>1
<1>5. CASE SpuriousWake \/ UNCHANGED vars
  BY <1>5 DEF SpuriousWake, vars, store
<1>. QED BY <1>2, <1>3, <1>4, <1>5

LEMMA ConverterStep ==
    ASSUME IInv, \A t \in CapThreads : ConverterEmpty(t), [Next]_vars
    PROVE  \A t \in CapThreads : ConverterEmpty(t)'
<1>t. /\ StoreType /\ cap \in [CapThreads -> CapRec]
      /\ captureThread \in CapThreads \cup {NULL}
  BY DEF IInv, TypeOK, ThreadType
\* a thread that is created or joined keeps its choice of loop
<1>1. ASSUME \A t \in CapThreads : hold'[Converted(t)] = hold[Converted(t)],
             \A t \in CapThreads :
                \/ cap'[t] = cap[t]
                \/ /\ cap[t].pc \in {"none", "exited"} /\ cap'[t].pc \in {"none", "clear"}
                   /\ cap'[t].surface = cap[t].surface
      PROVE  \A t \in CapThreads : ConverterEmpty(t)'
  BY <1>1 DEF ConverterEmpty, Converted
<1>2. CASE UvcPicture \/ UvcStep \/ SpuriousWake \/ UNCHANGED vars
  <2>1. UNCHANGED cap
    BY <1>2 DEF UvcPicture, UvcStep, UvcCopy, AddPreviewFrame, UvcRecycle,
                SpuriousWake, vars, threads
  <2>. QED BY <1>1, <1>2, <2>1, CapFramesKept
<1>3. CASE PrevStep
  <2>1. \A t \in CapThreads :
           \/ cap'[t] = cap[t]
           \/ /\ cap[t].pc = "none" /\ cap'[t].pc = "clear"
              /\ cap'[t].surface = cap[t].surface
    <3>1. CASE PrevSpawnCapture
      BY <1>t, <3>1 DEF PrevSpawnCapture, CapRec
    <3>2. CASE ~PrevSpawnCapture
      BY <1>3, <3>2 DEF PrevStep, PrevPrepare, PrevStartStreaming, PrevClear,
             PrevLoop, PrevWait, PrevTake, PrevDecode,
             PrevDecoded, PrevDropFailed, PrevDraw, PrevDrawn,
             AddCaptureFrame, PrevSignal, PrevStopStreaming
    <3>. QED BY <3>1, <3>2
  <2>. QED BY <1>1, <1>3, <2>1, CapFramesKept
<1>4. ASSUME NEW c \in Callers, Request(c) \/ CallerStep(c)
      PROVE  \A t \in CapThreads : ConverterEmpty(t)'
  <2>1. \A t \in CapThreads :
           \/ cap'[t] = cap[t]
           \/ /\ cap[t].pc = "exited" /\ cap'[t].pc = "none"
              /\ cap'[t].surface = cap[t].surface
    <3>1. CASE JoinCapture(c)
      BY <1>t, <3>1 DEF JoinCapture, Joinable, CapRec
    <3>2. CASE ~JoinCapture(c)
      BY <1>4, <3>2 DEF Request, SetPreviewDisplay, SetPreviewSize, StartPreview,
         StopPreview, SetFrameCallback, SetCaptureDisplay, CallerStep, SpawnPreview,
         StartFailed, EnterSetter, Handshake, HandshakeDone, ReplaceCallback,
         AssignCallback, ClearFormat, SetFormat, CompareWindow, ReleaseWindow,
         AssignWindow, StopFlag, StopSignalPreview, StopSignalCapture,
         JoinPreview, StopClearPreview,
         StopClearCapture, StopClosePreview, StopCloseCapture, DeletePreview, threads
    <3>. QED BY <3>1, <3>2
  <2>. QED BY <1>1, <1>4, <2>1, CapFramesKept
<1>5. ASSUME NEW t \in CapThreads, CapStep(t)
      PROVE  \A u \in CapThreads : ConverterEmpty(u)'
  <2>p. /\ {QUEU, Frame(t), Converted(t), CbFrame(t)} \subseteq Pointers
        /\ Converted(t) \notin {QUEU, Frame(t), CbFrame(t)}
        /\ \A u \in CapThreads \ {t} :
              /\ Converted(u) \in Pointers
              /\ Converted(u) \notin {QUEU, Frame(t), Converted(t), CbFrame(t)}
    BY PointersDistinct, CapPointers, ThreadPointers
  <2>e. ConverterEmpty(t)
    BY <1>5
  \* what the step does with pointers, and with the thread it belongs to
  <2>1. ASSUME NEW q \in {QUEU, Frame(t), CbFrame(t)},
               NEW q2 \in {QUEU, Frame(t), CbFrame(t)}, NEW v, NEW v2,
               \/ UNCHANGED hold
               \/ hold' = [hold EXCEPT ![q] = v]
               \/ hold' = [hold EXCEPT ![q] = v, ![q2] = v2]
        PROVE  \A u \in CapThreads : hold'[Converted(u)] = hold[Converted(u)]
    BY <1>t, <2>p, <2>1 DEF StoreType
  <2>2. ASSUME NEW v, hold' = [hold EXCEPT ![Converted(t)] = v]
        PROVE  /\ \A u \in CapThreads \ {t} : hold'[Converted(u)] = hold[Converted(u)]
               /\ hold'[Converted(t)] = v
    BY <1>t, <2>p, <2>2 DEF StoreType
  <2>3. \A u \in CapThreads \ {t} : hold'[Converted(u)] = hold[Converted(u)]
    BY <1>5, <2>1, <2>2
       DEF CapStep, CapClear, CapFormat, CapLoop, CapChoose,
         CapInner, CapWait, CapTake,
         CapConvertForSurface, CapBlit, CapPost, CapCallback, CapGetOut,
         CapConvert, CapInvoke, CapReturn, CapRecycle, CapClosing, CapRelease,
         CapNull, CapBroadcast, ClearCapture, Recycle, GetFrame, store
  <2>4. \A u \in CapThreads \ {t} : cap'[u] = cap[u]
    BY <1>t, <1>5
       DEF CapStep, CapClear, CapFormat, CapLoop, CapChoose,
         CapInner, CapWait, CapTake,
         CapConvertForSurface, CapBlit, CapPost, CapCallback, CapGetOut,
         CapConvert, CapInvoke, CapReturn, CapRecycle, CapClosing, CapRelease,
         CapNull, CapBroadcast, CapGoto
  <2>5. ConverterEmpty(t)'
    <3>1. ASSUME NEW l, CapGoto(t, l), l # "surface",
                 l \in {"none", "clear", "format", "loop", "choose", "release",
                        "null", "broadcast", "exited"}
                   => hold[Converted(t)] = NULL,
                 hold'[Converted(t)] = hold[Converted(t)]
          PROVE  ConverterEmpty(t)'
      BY <1>t, <2>e, <3>1 DEF CapGoto, CapRec, ConverterEmpty, Converted
    <3>2. CASE \/ CapClear(t) \/ CapFormat(t) \/ CapLoop(t)
               \/ CapWait(t) \/ CapCallback(t) \/ CapBroadcast(t)
      BY <2>1, <2>e, <3>1, <3>2
         DEF CapClear, CapFormat, CapLoop, CapWait, CapCallback, CapBroadcast,
             ClearCapture, Recycle, At, store, ConverterEmpty
    <3>3. CASE CapChoose(t)
      BY <1>t, <2>e, <3>3 DEF CapChoose, At, CapRec, store, ConverterEmpty, Converted
    <3>4. CASE CapInner(t)
      BY <2>e, <3>1, <3>4 DEF CapInner, At, store, ConverterEmpty
    <3>5. CASE CapTake(t)
      <4>1. hold'[Converted(t)] = hold[Converted(t)]
        BY <2>1, <3>5 DEF CapTake
      <4>. QED BY <1>t, <2>e, <3>5, <4>1
               DEF CapTake, At, CapGoto, CapRec, ConverterEmpty, Converted
    <3>6. CASE CapConvertForSurface(t)
      <4>1. /\ cap[t].surface
            /\ \E l \in {"blit", "callback"} : CapGoto(t, l)
        BY <2>e, <3>6 DEF CapConvertForSurface, At, ConverterEmpty
      <4>. QED BY <1>t, <4>1 DEF CapGoto, CapRec, ConverterEmpty
    <3>7. CASE CapBlit(t) \/ CapPost(t) \/ CapInvoke(t) \/ CapReturn(t)
      <4>1. /\ UNCHANGED hold /\ cap'[t].surface = cap[t].surface
            /\ cap'[t].pc \in {"post", "callback", "inCallback", "recycle"}
        BY <1>t, <3>7
           DEF CapBlit, CapPost, CapInvoke, CapReturn, CapGoto, CapRec, store
      <4>. QED BY <2>e, <4>1 DEF ConverterEmpty, Converted
    <3>8. CASE CapGetOut(t) \/ CapConvert(t) \/ CapRecycle(t)
      <4>1. hold'[Converted(t)] = hold[Converted(t)]
        BY <2>1, <3>8 DEF CapGetOut, CapConvert, CapRecycle, Recycle, GetFrame
      <4>2. PICK l \in {"recycle", "convert", "invoke", "inner"} : CapGoto(t, l)
        BY <3>8 DEF CapGetOut, CapConvert, CapRecycle
      <4>. QED BY <3>1, <4>1, <4>2
    <3>9. CASE CapClosing(t)
      <4>1. hold'[Converted(t)] = NULL
        BY <2>2, <3>9 DEF CapClosing, Recycle
      <4>2. PICK l \in {"broadcast", "release"} : CapGoto(t, l)
        BY <3>9 DEF CapClosing
      <4>. QED BY <1>t, <4>1, <4>2 DEF CapGoto, CapRec, ConverterEmpty, Converted
    <3>10. CASE CapRelease(t) \/ CapNull(t)
      BY <2>1, <2>e, <3>1, <3>10 DEF CapRelease, CapNull, At, store, ConverterEmpty
    <3>. QED BY <1>5, <3>2, <3>3, <3>4, <3>5, <3>6, <3>7, <3>8, <3>9, <3>10 DEF CapStep
  <2>6. ASSUME NEW u \in CapThreads \ {t} PROVE ConverterEmpty(u)'
    BY <2>3, <2>4, <2>6 DEF ConverterEmpty, Converted
  <2>. QED BY <2>5, <2>6
<1>. QED BY <1>2, <1>3, <1>4, <1>5 DEF Next

LEMMA ClearedStep ==
    ASSUME IInv, Monitor, Stages, Cleared, [Next]_vars
    PROVE  Cleared'
<1>. DEFINE Past(c) == caller[c].pc \in Joined \ {"clearPreview"}
<1>s. \A c \in Callers : caller[c].pc \in Joined => Quiet
  BY DEF Stages
<1>1. ASSUME UNCHANGED <<caller, previewFrames>>,
             prev' = prev \/ prev' \notin {"none", "prepare", "stream"} \/ prev = "prepare",
             hold'[QUEU] = hold[QUEU] \/ ~Quiet
      PROVE  Cleared'
  BY <1>1, <1>s DEF Cleared
<1>2. ASSUME UNCHANGED caller, ~Quiet, prev' \notin {"none", "prepare", "stream"}
      PROVE  Cleared'
  BY <1>2, <1>s DEF Cleared
<1>3. CASE UvcPicture \/ UvcStep
  <2>1. UNCHANGED <<caller, prev>> /\ ~Quiet /\ streaming
    BY <1>3 DEF UvcPicture, UvcStep, UvcCopy, AddPreviewFrame, UvcRecycle, Stages, Quiet
  <2>. QED BY <1>2, <2>1 DEF Stages
<1>4. CASE PrevStep
  <2>1. UNCHANGED caller /\ prev # "none"
    BY <1>4 DEF PrevStep, PrevPrepare, PrevStartStreaming, PrevClear,
             PrevSpawnCapture, PrevLoop, PrevWait, PrevTake, PrevDecode,
             PrevDecoded, PrevDropFailed, PrevDraw, PrevDrawn,
             AddCaptureFrame, PrevSignal, PrevStopStreaming
  <2>2. CASE PrevPrepare
    BY <1>1, <2>1, <2>2 DEF PrevPrepare, store
  <2>3. CASE ~PrevPrepare
    <3>1. prev' \notin {"none", "prepare", "stream"}
      BY <1>4, <2>3 DEF PrevStep, PrevStartStreaming, PrevClear,
             PrevSpawnCapture, PrevLoop, PrevWait, PrevTake, PrevDecode,
             PrevDecoded, PrevDropFailed, PrevDraw, PrevDrawn,
             AddCaptureFrame, PrevSignal, PrevStopStreaming
    <3>. QED BY <1>2, <2>1, <3>1 DEF Quiet
  <2>. QED BY <2>2, <2>3
<1>5. ASSUME NEW t \in CapThreads, CapStep(t) PROVE Cleared'
  <2>1. UNCHANGED <<caller, prev, previewFrames>> /\ cap[t].pc # "none"
    BY <1>5 DEF CapStep, CapClear, CapFormat, CapLoop, CapChoose,
         CapInner, CapWait, CapTake,
         CapConvertForSurface, CapBlit, CapPost, CapCallback, CapGetOut,
         CapConvert, CapInvoke, CapReturn, CapRecycle, CapClosing, CapRelease,
         CapNull, CapBroadcast, At, store
  <2>. QED BY <1>1, <2>1 DEF Quiet, NoCapture
<1>6. CASE SpuriousWake \/ UNCHANGED vars
  BY <1>1, <1>6 DEF SpuriousWake, vars, threads, store
<1>7. ASSUME NEW c \in Callers, Request(c) \/ CallerStep(c) PROVE Cleared'
  <2>t. TypeOK
    BY DEF IInv
  <2>1. ASSUME UNCHANGED <<previewFrames, hold, prev>>,
               caller[c].pc \notin Joined, caller'[c].pc \notin Joined,
               \A d \in Callers \ {c} : caller'[d] = caller[d]
        PROVE  Cleared'
    BY <2>1 DEF Cleared, Joined
  \* nobody else is between the monitor's calls
  <2>2. caller[c].op \in {"start"} \cup Stops =>
           \A d \in Callers \ {c} : caller[d].pc \notin Joined
    BY DEF Monitor, Stops
  <2>3. CASE Request(c)
    BY <2>t, <2>1, <2>3, Moves
       DEF Request, SetPreviewDisplay, SetPreviewSize, StartPreview, StopPreview,
           SetFrameCallback, SetCaptureDisplay, threads, store, Joined, Cleared
  <2>4. CASE SpawnPreview(c)
    <3>1. caller[c].op = "start" /\ prev = "none"
      BY <2>4 DEF SpawnPreview, Monitor, Stages, Quiet, Starting
    <3>2. previewFrames = <<>>
      BY <2>2, <2>4, <3>1 DEF Cleared, SpawnPreview, Joined
    <3>. QED BY <2>t, <2>2, <2>4, <3>1, <3>2, Moves
             DEF SpawnPreview, store, Joined, Cleared
  <2>5. CASE StartFailed(c) \/ EnterSetter(c) \/ Handshake(c) \/ HandshakeDone(c)
             \/ ReplaceCallback(c) \/ AssignCallback(c) \/ ClearFormat(c)
             \/ SetFormat(c) \/ CompareWindow(c) \/ ReleaseWindow(c)
             \/ AssignWindow(c)
    BY <2>t, <2>1, <2>5, Moves
       DEF StartFailed, EnterSetter, Handshake, HandshakeDone, ReplaceCallback,
           AssignCallback, ClearFormat, SetFormat, CompareWindow, ReleaseWindow,
           AssignWindow, Then, store, Joined
  <2>6. CASE StopFlag(c)
    BY <2>t, <2>6, Moves DEF StopFlag, store, Joined, Cleared
  <2>7. CASE StopSignalPreview(c) \/ StopSignalCapture(c) \/ JoinCapture(c)
    BY <2>t, <2>1, <2>7, Moves
       DEF StopSignalPreview, StopSignalCapture, JoinCapture, store, Joined
  <2>8. CASE JoinPreview(c)
    BY <2>t, <2>8, Moves DEF JoinPreview, store, Joined, Cleared
  <2>9. CASE StopClearPreview(c)
    <3>1. /\ previewFrames' = <<>> /\ caller'[c].pc = "clearCapture"
          /\ caller[c].op \in Stops
          /\ \A d \in Callers \ {c} : caller'[d] = caller[d]
      BY <2>t, <2>9, Moves DEF StopClearPreview, ClearQueue, Monitor, Joined
    <3>. QED BY <2>2, <3>1 DEF Joined, Cleared
  <2>10. CASE StopClearCapture(c) \/ StopClosePreview(c) \/ StopCloseCapture(c)
    <3>1. /\ previewFrames = <<>> /\ UNCHANGED previewFrames
          /\ caller[c].op \in Stops /\ caller'[c].pc # "clearPreview"
          /\ \A d \in Callers \ {c} : caller'[d] = caller[d]
      BY <2>t, <2>10, Moves
         DEF StopClearCapture, StopClosePreview, StopCloseCapture, Monitor, Joined,
             Cleared, store
    <3>2. hold'[QUEU] = NULL
      BY <2>10, PointersDistinct
         DEF StopClearCapture, StopClosePreview, StopCloseCapture, ClearCapture,
             Recycle, Cleared, Joined, store, IInv, TypeOK, StoreType
    <3>. QED BY <2>2, <3>1, <3>2 DEF Joined, Cleared
  <2>11. CASE DeletePreview(c)
    <3>1. previewFrames' = <<>> /\ \A d \in Callers : caller'[d].pc = "idle"
      BY <2>t, <2>11, Moves DEF DeletePreview, FreeFrames
    <3>. QED BY <3>1 DEF Joined, Cleared
  <2>. QED BY <1>7, <2>3, <2>4, <2>5, <2>6, <2>7, <2>8, <2>9, <2>10, <2>11 DEF CallerStep
<1>. QED BY <1>3, <1>4, <1>5, <1>6, <1>7 DEF Next

LEMMA Clearing ==
    ASSUME EagerStop = FALSE
    PROVE  Spec => [](IInv /\ Monitor /\ Stages /\ EmptyHands /\ Cleared /\ Converters)
<1>1. Init => EmptyHands /\ Cleared /\ Converters
  BY InitEmpty, PointersDistinct DEF Init, Cleared, Converters, ConverterEmpty, Joined
<1>2. IInv /\ Monitor /\ Stages /\ EmptyHands /\ [Next]_vars => EmptyHands'
  BY EmptyStep
<1>3. IInv /\ Converters /\ [Next]_vars => Converters'
  BY ConverterStep DEF Converters
<1>4. IInv /\ Monitor /\ Stages /\ Cleared /\ [Next]_vars => Cleared'
  BY ClearedStep
<1>. QED BY <1>1, <1>2, <1>3, <1>4, Joining, Invariance, PTL DEF Spec

(* The destructor deletes an object that no frame is on its way to or      *)
(* from: everything the two stages of stopPreview do not clear, somebody   *)
(* they have joined has recycled.                                          *)
THEOREM NothingInFlightAlways ==
    ASSUME EagerStop = FALSE
    PROVE  Spec => []NothingInFlight
<1>1. ASSUME IInv, Stages, EmptyHands, Cleared, Converters, QuietAfterJoin
      PROVE  NothingInFlight
  <2>. SUFFICES ASSUME NEW c \in Callers,
                       caller[c].pc \in {"closePreview", "closeCapture", "delete"}
                PROVE  Held \cup Queued = {}
    BY <1>1 DEF NothingInFlight
  <2>1. Quiet /\ previewFrames = <<>> /\ hold[QUEU] = NULL
    BY <1>1 DEF Stages, Cleared, Joined
  <2>2. hold[COPY] = NULL /\ hold[MJPEG] = NULL /\ hold[FRAME] = NULL /\ hold[DRAWN] = NULL
    BY <1>1, <2>1 DEF EmptyHands, UvcEmpty, PrevEmpty, Quiet
  <2>3. ASSUME NEW t \in CapThreads
        PROVE  hold[Frame(t)] = NULL /\ hold[CbFrame(t)] = NULL /\ hold[Converted(t)] = NULL
    BY <1>1, <2>1 DEF EmptyHands, CapEmpty, Working, Converters, ConverterEmpty,
                    Quiet, NoCapture
  <2>4. ASSUME NEW p \in CapThreads \X {"frame", "converted", "callback_frame"}
        PROVE  hold[p] = NULL
    <3>1. PICK t \in CapThreads : p \in {Frame(t), Converted(t), CbFrame(t)}
      BY DEF Frame, Converted, CbFrame
    <3>. QED BY <2>3, <3>1
  <2>5. \A p \in Pointers : hold[p] = NULL
    BY <2>1, <2>2, <2>4 DEF Pointers
  <2>. QED BY <2>1, <2>5 DEF Held, Queued
<1>. QED BY <1>1, QuietAlways, Clearing, PTL

(* The decoder is chosen anew only where no picture waits or arrives.      *)
THEOREM ModeAtRestAlways ==
    ASSUME EagerStop = FALSE
    PROVE  Spec => ModeChangesAtRest
<1>1. ASSUME Monitor, Stages, Cleared, Next, frameMode' # frameMode
      PROVE  uvc = "idle" /\ ~streaming /\ previewFrames = <<>>
  <2>1. CASE PrevPrepare
    <3>1. \A c \in Callers : caller[c].pc # "clearPreview"
      BY <1>1, <2>1 DEF PrevPrepare, Stages, Quiet, Joined
    <3>. QED BY <1>1, <2>1, <3>1 DEF PrevPrepare, Stages, Cleared
  <2>2. ASSUME NEW c \in Callers, DeletePreview(c)
        PROVE  uvc = "idle" /\ ~streaming /\ previewFrames = <<>>
    BY <1>1, <2>2 DEF DeletePreview, Stages, Quiet, Cleared, Joined
  <2>3. ASSUME ~PrevPrepare, \A c \in Callers : ~DeletePreview(c) PROVE FALSE
    <3>1. ASSUME NEW c \in Callers, Request(c) \/ CallerStep(c) PROVE UNCHANGED frameMode
      BY <2>3, <3>1
         DEF Request, SetPreviewDisplay, SetPreviewSize, StartPreview,
         StopPreview, SetFrameCallback, SetCaptureDisplay, CallerStep, SpawnPreview,
         StartFailed, EnterSetter, Handshake, HandshakeDone, ReplaceCallback,
         AssignCallback, ClearFormat, SetFormat, CompareWindow, ReleaseWindow,
         AssignWindow, StopFlag, StopSignalPreview, StopSignalCapture,
         JoinCapture, JoinPreview,
         StopClearPreview, StopClearCapture, StopClosePreview, StopCloseCapture, world
    <3>2. UvcPicture \/ UvcStep => UNCHANGED frameMode
      BY DEF UvcPicture, UvcStep, UvcCopy, AddPreviewFrame, UvcRecycle, world
    <3>3. PrevStep => UNCHANGED frameMode
      BY <2>3 DEF PrevStep, PrevStartStreaming, PrevClear,
             PrevSpawnCapture, PrevLoop, PrevWait, PrevTake, PrevDecode,
             PrevDecoded, PrevDropFailed, PrevDraw, PrevDrawn,
             AddCaptureFrame, PrevSignal, PrevStopStreaming, world
    <3>4. ASSUME NEW t \in CapThreads, CapStep(t) PROVE UNCHANGED frameMode
      BY <3>4 DEF CapStep, CapClear, CapFormat, CapLoop, CapChoose,
         CapInner, CapWait, CapTake,
         CapConvertForSurface, CapBlit, CapPost, CapCallback, CapGetOut,
         CapConvert, CapInvoke, CapReturn, CapRecycle, CapClosing, CapRelease,
         CapNull, CapBroadcast, world
    <3>5. SpuriousWake => UNCHANGED frameMode
      BY DEF SpuriousWake, world
    <3>. QED BY <1>1, <3>1, <3>2, <3>3, <3>4, <3>5 DEF Next
  <2>. QED BY <2>1, <2>2, <2>3
<1>2. Monitor /\ Stages /\ Cleared /\ [Next]_vars =>
         [frameMode' # frameMode =>
             uvc = "idle" /\ ~streaming /\ previewFrames = <<>>]_vars
  BY <1>1 DEF vars, world
<1>. QED BY <1>2, Clearing, PTL DEF Spec, ModeChangesAtRest

-----------------------------------------------------------------------------
(* Numbers of frames                                                       *)

InPipe == {"surface", "blit", "post", "callback", "getOut", "convert", "invoke"}

UvcNumbered ==
    /\ uvc \in {"get", "add"} => sent # 0
    /\ uvc = "add" => Stamp(COPY) = sent
QueueNumbered == \A i \in 1..Len(previewFrames) : PipeQueue[i] # 0
PrevNumbered  == \A p \in {QUEU, MJPEG, FRAME} : hold[p] # NULL => Stamp(p) # 0
CapNumbered(t) ==
    /\ cap[t].pc \in InPipe => Stamp(Frame(t)) # 0
    /\ cap[t].pc = "convert" => Stamp(CbFrame(t)) = Stamp(Frame(t))

(* What a thread works on has a number, and a copy that of its original.   *)
Numbered == /\ UvcNumbered /\ QueueNumbered /\ PrevNumbered
            /\ \A t \in CapThreads : CapNumbered(t)

LEMMA QueueShape ==
    ASSUME StoreType
    PROVE  /\ Len(previewFrames) \in Nat /\ PipeQueue \in Seq(0..MaxStamp)
           /\ Len(PipeQueue) = Len(previewFrames) /\ DOMAIN PipeQueue = 1..Len(previewFrames)
           /\ \A i \in 1..Len(previewFrames) : PipeQueue[i] = stamp[previewFrames[i]]
<1>1. Len(previewFrames) \in Nat /\ DOMAIN previewFrames = 1..Len(previewFrames)
  BY DEF StoreType
<1>2. \A i \in 1..Len(previewFrames) : stamp[previewFrames[i]] \in 0..MaxStamp
  BY <1>1 DEF StoreType
<1>. QED BY <1>1, <1>2 DEF PipeQueue

\* Frames that are held or queued keep their numbers.
LEMMA StampsStay ==
    ASSUME StoreType, UNCHANGED previewFrames,
           \A f \in Held \cup Queued : stamp'[f] = stamp[f]
    PROVE  /\ \A q \in Pointers : hold'[q] = hold[q] => Stamp(q)' = Stamp(q)
           /\ PipeQueue' = PipeQueue
<1>1. \A q \in Pointers : hold[q] # NULL => stamp'[hold[q]] = stamp[hold[q]]
  BY DEF Held
<1>2. \A i \in 1..Len(previewFrames) : stamp'[previewFrames[i]] = stamp[previewFrames[i]]
  BY DEF Queued, StoreType
<1>. QED BY <1>1, <1>2 DEF Stamp, PipeQueue

LEMMA GetStamps ==
    ASSUME StoreType, FrameOwnership, NEW p \in Pointers, NEW n, hold[p] = NULL,
           GetFrame(p, n), UNCHANGED previewFrames
    PROVE  /\ \A q \in Pointers \ {p} : hold'[q] = hold[q] /\ Stamp(q)' = Stamp(q)
           /\ hold'[p] # NULL => Stamp(p)' = n
           /\ PipeQueue' = PipeQueue
<1>1. /\ \A q \in Pointers \ {p} : hold'[q] = hold[q]
      /\ \A f \in Held \cup Queued : stamp'[f] = stamp[f]
      /\ hold'[p] # NULL => stamp'[hold'[p]] = n
  <2>1. CASE UNCHANGED <<hold, stamp, pool, heap>>
    BY <2>1
  <2>2. ASSUME NEW f \in pool \cup heap, hold' = [hold EXCEPT ![p] = f],
               stamp' = [stamp EXCEPT ![f] = n]
        PROVE  /\ \A q \in Pointers \ {p} : hold'[q] = hold[q]
               /\ \A g \in Held \cup Queued : stamp'[g] = stamp[g]
               /\ hold'[p] # NULL => stamp'[hold'[p]] = n
    <3>1. f \in Frames /\ f \notin Held \cup Queued
      BY DEF StoreType, FrameOwnership
    <3>2. /\ hold'[p] = f /\ \A q \in Pointers \ {p} : hold'[q] = hold[q]
          /\ stamp'[f] = n /\ \A g : g # f => stamp'[g] = stamp[g]
      BY <2>2, <3>1 DEF StoreType
    <3>. QED BY <3>1, <3>2
  <2>. QED BY <2>1, <2>2 DEF GetFrame
<1>2. hold'[p] # NULL => Stamp(p)' = n
  BY <1>1 DEF Stamp
<1>. QED BY <1>1, <1>2, StampsStay

LEMMA ReplaceStamps ==
    ASSUME StoreType, FrameOwnership, NEW p \in Pointers, NEW q \in Pointers,
           RecycleAll({hold[q]} \ {NULL}), UNCHANGED previewFrames,
           \/ p # q /\ hold' = [hold EXCEPT ![q] = hold[p], ![p] = NULL]
           \/ p = q /\ hold' = [hold EXCEPT ![q] = NULL]
    PROVE  /\ \A r \in Pointers \ {p, q} : hold'[r] = hold[r] /\ Stamp(r)' = Stamp(r)
           /\ p # q => hold'[q] = hold[p] /\ Stamp(q)' = Stamp(p)
           /\ hold'[p] = NULL /\ Stamp(p)' = 0
           /\ PipeQueue' = PipeQueue
<1>1. /\ \A r \in Pointers \ {p, q} : hold'[r] = hold[r]
      /\ hold'[p] = NULL
      /\ p # q => hold'[q] = hold[p]
  BY DEF StoreType
<1>2. \A f \in Frames : f # hold[q] => stamp'[f] = stamp[f]
  BY DEF RecycleAll, StoreType
<1>3. \A r \in Pointers \ {q} : hold[r] # NULL => hold[r] \in Frames /\ hold[r] # hold[q]
  BY DEF StoreType, FrameOwnership
<1>4. \A r \in Pointers \ {p, q} : Stamp(r)' = Stamp(r)
  BY <1>1, <1>2, <1>3 DEF Stamp
<1>5. Stamp(p)' = 0 /\ (p # q => Stamp(q)' = Stamp(p))
  BY <1>1, <1>2, <1>3 DEF Stamp
<1>6. PipeQueue' = PipeQueue
  <2>1. \A i \in 1..Len(previewFrames) :
           previewFrames[i] \in Frames /\ previewFrames[i] \in Queued
    BY DEF StoreType, Queued
  <2>2. hold[q] # NULL => hold[q] \notin Queued
    BY DEF FrameOwnership, Held
  <2>3. \A i \in 1..Len(previewFrames) : stamp'[previewFrames[i]] = stamp[previewFrames[i]]
    BY <1>2, <2>1, <2>2, NullAssumption
  <2>. QED BY <2>3 DEF PipeQueue
<1>. QED BY <1>1, <1>4, <1>5, <1>6

LEMMA RecycleStamps ==
    ASSUME StoreType, FrameOwnership, NEW p \in Pointers, Recycle(p),
           UNCHANGED previewFrames
    PROVE  /\ \A r \in Pointers \ {p} : hold'[r] = hold[r] /\ Stamp(r)' = Stamp(r)
           /\ hold'[p] = NULL /\ Stamp(p)' = 0
           /\ PipeQueue' = PipeQueue
<1>1. RecycleAll({hold[p]} \ {NULL}) /\ hold' = [hold EXCEPT ![p] = NULL]
  BY DEF Recycle
<1>2. /\ \A r \in Pointers \ {p, p} : hold'[r] = hold[r] /\ Stamp(r)' = Stamp(r)
      /\ hold'[p] = NULL /\ Stamp(p)' = 0
      /\ PipeQueue' = PipeQueue
  BY <1>1, ReplaceStamps, Zenon
<1>. QED BY <1>2

LEMMA MoveStamps ==
    ASSUME StoreType, NEW p \in Pointers, NEW q \in Pointers, p # q,
           UNCHANGED <<previewFrames, stamp>>,
           hold' = [hold EXCEPT ![q] = hold[p], ![p] = NULL]
    PROVE  /\ \A r \in Pointers \ {p, q} : hold'[r] = hold[r] /\ Stamp(r)' = Stamp(r)
           /\ hold'[q] = hold[p] /\ Stamp(q)' = Stamp(p)
           /\ hold'[p] = NULL /\ Stamp(p)' = 0
           /\ PipeQueue' = PipeQueue
<1>1. /\ \A r \in Pointers \ {p, q} : hold'[r] = hold[r]
      /\ hold'[p] = NULL /\ hold'[q] = hold[p]
  BY DEF StoreType
<1>2. PipeQueue' = PipeQueue
  BY DEF PipeQueue
<1>s. stamp' = stamp
  OBVIOUS
<1>3. \A r \in Pointers \ {p, q} : Stamp(r)' = Stamp(r)
  <2>. TAKE r \in Pointers \ {p, q}
  <2>1. hold'[r] = hold[r]
    BY <1>1
  <2>. QED BY <1>s, <2>1 DEF Stamp
<1>4. Stamp(q)' = Stamp(p) /\ Stamp(p)' = 0
  BY <1>1 DEF Stamp
<1>. QED BY <1>1, <1>2, <1>3, <1>4

LEMMA ClearStamps ==
    ASSUME StoreType, FrameOwnership, ClearQueue, UNCHANGED hold
    PROVE  /\ \A r \in Pointers : Stamp(r)' = Stamp(r)
           /\ previewFrames' = <<>> /\ PipeQueue' = <<>>
<1>1. \A f \in Frames \ Queued : stamp'[f] = stamp[f]
  BY DEF ClearQueue, RecycleAll
<1>2. \A r \in Pointers : hold[r] # NULL => hold[r] \in Frames \ Queued
  BY DEF StoreType, FrameOwnership, Held
<1>3. previewFrames' = <<>>
  BY DEF ClearQueue
<1>. QED BY <1>1, <1>2, <1>3 DEF Stamp, PipeQueue

LEMMA TakeStamps ==
    ASSUME StoreType, NEW p \in Pointers, previewFrames # <<>>,
           hold' = [hold EXCEPT ![p] = Head(previewFrames)],
           previewFrames' = Tail(previewFrames), UNCHANGED stamp
    PROVE  /\ \A r \in Pointers \ {p} : hold'[r] = hold[r] /\ Stamp(r)' = Stamp(r)
           /\ hold'[p] # NULL /\ Stamp(p)' = PipeQueue[1]
           /\ PipeQueue # <<>> /\ PipeQueue' = Tail(PipeQueue)
           /\ 1 \in 1..Len(previewFrames)
           /\ \A i \in 1..Len(previewFrames') :
                 i + 1 \in 1..Len(previewFrames) /\ PipeQueue'[i] = PipeQueue[i + 1]
<1>1. /\ Head(previewFrames) = previewFrames[1] /\ 1 \in 1..Len(previewFrames)
      /\ previewFrames[1] \in Frames
      /\ previewFrames' \in Seq(Frames)
      /\ Len(previewFrames) \in Nat /\ Len(previewFrames') = Len(previewFrames) - 1
      /\ \A i \in 1..Len(previewFrames') :
            i + 1 \in 1..Len(previewFrames) /\ previewFrames'[i] = previewFrames[i + 1]
  BY DEF StoreType
<1>2. hold'[p] = previewFrames[1] /\ \A r \in Pointers \ {p} : hold'[r] = hold[r]
  BY <1>1 DEF StoreType
<1>3. hold'[p] # NULL /\ Stamp(p)' = PipeQueue[1]
  BY <1>1, <1>2, QueueShape, NullAssumption DEF Stamp
<1>4. \A r \in Pointers \ {p} : Stamp(r)' = Stamp(r)
  BY <1>2 DEF Stamp
<1>5. \A i \in 1..Len(previewFrames') : PipeQueue'[i] = PipeQueue[i + 1]
  BY <1>1, QueueShape DEF PipeQueue
<1>6. PipeQueue # <<>> /\ PipeQueue' = Tail(PipeQueue)
  <2>1. /\ PipeQueue \in Seq(0..MaxStamp) /\ Len(PipeQueue) = Len(previewFrames)
        /\ PipeQueue # <<>>
    BY <1>1, QueueShape
  <2>2. /\ Tail(PipeQueue) \in Seq(0..MaxStamp) /\ Len(Tail(PipeQueue)) = Len(PipeQueue) - 1
        /\ \A i \in 1..(Len(PipeQueue) - 1) : Tail(PipeQueue)[i] = PipeQueue[i + 1]
    BY <2>1
  <2>3. PipeQueue' = [i \in 1..Len(previewFrames') |-> PipeQueue[i + 1]]
    BY <1>1, QueueShape DEF PipeQueue
  <2>4. Len(previewFrames') = Len(PipeQueue) - 1 /\ Len(PipeQueue) \in Nat
    BY <1>1, <2>1
  <2>5. /\ PipeQueue' \in Seq(0..MaxStamp) /\ Len(PipeQueue') = Len(PipeQueue) - 1
        /\ \A i \in 1..(Len(PipeQueue) - 1) : PipeQueue'[i] = PipeQueue[i + 1]
    <3>1. \A i \in 1..(Len(PipeQueue) - 1) : PipeQueue[i + 1] \in 0..MaxStamp
      <4>1. \A i \in 1..(Len(PipeQueue) - 1) : i + 1 \in 1..Len(PipeQueue)
        BY <2>4
      <4>2. \A j \in 1..Len(PipeQueue) : PipeQueue[j] \in 0..MaxStamp
        BY <2>1, ElementOfSeq
      <4>. QED BY <4>1, <4>2
    <3>. QED BY <2>3, <2>4, <3>1
  <2>. QED BY <2>1, <2>2, <2>5, SeqEqual
<1>. QED BY <1>1, <1>2, <1>3, <1>4, <1>5, <1>6

LEMMA AddStamps ==
    ASSUME StoreType, NEW p \in Pointers, hold[p] # NULL,
           previewFrames' = Append(previewFrames, hold[p]),
           hold' = [hold EXCEPT ![p] = NULL], UNCHANGED stamp
    PROVE  /\ \A r \in Pointers \ {p} : hold'[r] = hold[r] /\ Stamp(r)' = Stamp(r)
           /\ PipeQueue' = Append(PipeQueue, Stamp(p))
           /\ \A i \in 1..Len(previewFrames') :
                 \/ i \in 1..Len(previewFrames) /\ PipeQueue'[i] = PipeQueue[i]
                 \/ PipeQueue'[i] = Stamp(p)
<1>1. \A r \in Pointers \ {p} : hold'[r] = hold[r] /\ Stamp(r)' = Stamp(r)
  BY DEF StoreType, Stamp
<1>2. hold[p] \in Frames /\ Stamp(p) = stamp[hold[p]] /\ Stamp(p) \in 0..MaxStamp
  BY DEF StoreType, Stamp
<1>3. /\ Len(previewFrames) \in Nat /\ Len(previewFrames') = Len(previewFrames) + 1
      /\ \A i \in 1..Len(previewFrames) : previewFrames'[i] = previewFrames[i]
      /\ previewFrames'[Len(previewFrames) + 1] = hold[p]
  BY <1>2 DEF StoreType
<1>4. PipeQueue' = [i \in 1..(Len(previewFrames) + 1) |->
                       IF i <= Len(previewFrames) THEN PipeQueue[i] ELSE Stamp(p)]
  BY <1>2, <1>3, QueueShape DEF PipeQueue
<1>5. PipeQueue' = Append(PipeQueue, Stamp(p))
  <2>1. PipeQueue \in Seq(0..MaxStamp) /\ Len(PipeQueue) = Len(previewFrames)
    BY QueueShape
  <2>. QED BY <1>2, <1>3, <1>4, <2>1
<1>6. \A i \in 1..(Len(previewFrames) + 1) :
         \/ i \in 1..Len(previewFrames) /\ PipeQueue'[i] = PipeQueue[i]
         \/ PipeQueue'[i] = Stamp(p)
  BY <1>3, <1>4
<1>. QED BY <1>1, <1>3, <1>5, <1>6

-----------------------------------------------------------------------------
(* The steps of FramePipe                                                  *)

PipeStep == Pipe!Next \/ UNCHANGED Pipe!vars

\* Capture threads that do not move keep the picture that was taken.
LEMMA TakenStays ==
    ASSUME \A t \in CapThreads : cap'[t].pc \in InPipe <=> cap[t].pc \in InPipe,
           \A t \in CapThreads : Stamp(Frame(t))' = Stamp(Frame(t))
    PROVE  PipeTaken' = PipeTaken
<1>1. Taken' = Taken
  BY DEF Taken, At, InPipe
<1>2. Taken # {} => (CHOOSE t \in Taken : TRUE) \in CapThreads
  BY DEF Taken
<1>. DEFINE u == CHOOSE t \in Taken : TRUE
<1>3. Taken # {} => Stamp(Frame(u))' = Stamp(Frame(u))
  BY <1>1, <1>2
<1>. QED BY <1>1, <1>3 DEF PipeTaken

LEMMA ChooseOne == \A t : (CHOOSE u \in {t} : TRUE) = t
OBVIOUS

\* A capture thread that works is the only one.
LEMMA TakenOne ==
    ASSUME NEW t \in CapThreads,
           \A u \in CapThreads \ {t} : cap[u].pc \notin InPipe /\ cap'[u] = cap[u]
    PROVE  /\ PipeTaken = IF cap[t].pc \in InPipe THEN Stamp(Frame(t)) ELSE 0
           /\ PipeTaken' = IF cap'[t].pc \in InPipe THEN Stamp(Frame(t))' ELSE 0
<1>1. /\ Taken = IF cap[t].pc \in InPipe THEN {t} ELSE {}
      /\ Taken' = IF cap'[t].pc \in InPipe THEN {t} ELSE {}
  BY DEF Taken, At, InPipe
<1>. QED BY <1>1, ChooseOne DEF PipeTaken

\* Capture threads keep their frames, or have nothing to do with numbers.
LEMMA CapsStay ==
    ASSUME Numbered,
           \A t \in CapThreads : \/ cap'[t] = cap[t]
                                 \/ cap[t].pc \notin InPipe /\ cap'[t].pc \notin InPipe,
           \A r \in Pointers \ {QUEU, COPY, MJPEG, FRAME, DRAWN} : Stamp(r)' = Stamp(r)
    PROVE  (\A t \in CapThreads : CapNumbered(t)') /\ PipeTaken' = PipeTaken
<1>1. \A t \in CapThreads : /\ Stamp(Frame(t))' = Stamp(Frame(t))
                            /\ Stamp(CbFrame(t))' = Stamp(CbFrame(t))
  <2>. TAKE t \in CapThreads
  <2>1. {Frame(t), CbFrame(t)} \subseteq Pointers \ {QUEU, COPY, MJPEG, FRAME, DRAWN}
    BY CapPointers, PointersDistinct
  <2>. QED BY <2>1
<1>2. ASSUME NEW t \in CapThreads PROVE CapNumbered(t)'
  BY <1>1, <1>2 DEF Numbered, CapNumbered, InPipe
<1>3. PipeTaken' = PipeTaken
  BY <1>1, TakenStays
<1>. QED BY <1>2, <1>3

LEMMA UvcPipes ==
    ASSUME IInv, EmptyHands, Numbered, MaxStamp # 0, UvcPicture \/ UvcStep
    PROVE  Numbered' /\ PipeStep
<1>t. /\ StoreType /\ FrameOwnership /\ UvcAtHand /\ UvcEmpty
      /\ sent \in 0..MaxStamp /\ MaxStamp \in Nat
      /\ UvcNumbered /\ QueueNumbered /\ PrevNumbered
  BY SizesAssumption
     DEF IInv, TypeOK, ThreadType, FramesAtHand, EmptyHands, Numbered
<1>p. /\ {QUEU, COPY, MJPEG, FRAME, DRAWN} \subseteq Pointers
      /\ COPY \notin {QUEU, MJPEG, FRAME, DRAWN}
  BY PointersDistinct
<1>u. UNCHANGED <<prev, cap, delivered>>
  BY DEF UvcPicture, UvcStep, UvcCopy, AddPreviewFrame, UvcRecycle, world
<1>q. UNCHANGED <<previewFrames, PipeQueue>> => QueueNumbered'
  BY <1>t DEF QueueNumbered
<1>e. ASSUME \A r \in Pointers \ {COPY} : hold'[r] = hold[r] /\ Stamp(r)' = Stamp(r)
      PROVE  /\ UvcNumbered' /\ QueueNumbered' => Numbered'
             /\ UNCHANGED <<PipeHand, PipeLatest, PipeTaken, delivered>>
  <2>1. (\A t \in CapThreads : CapNumbered(t)') /\ PipeTaken' = PipeTaken
    BY <1>u, <1>e, CapsStay
  <2>2. PrevNumbered' /\ UNCHANGED <<PipeHand, PipeLatest>>
    BY <1>t, <1>p, <1>e DEF PrevNumbered, PipeHand, PipeLatest
  <2>. QED BY <1>u, <2>1, <2>2 DEF Numbered
<1>1. CASE UvcPicture
  <2>1. /\ UNCHANGED <<hold, stamp, previewFrames>> /\ uvc = "idle" /\ uvc' = "get"
        /\ sent' = IF sent < MaxStamp THEN sent + 1 ELSE sent
    BY <1>1 DEF UvcPicture, store
  <2>2. \A r \in Pointers : hold'[r] = hold[r] /\ Stamp(r)' = Stamp(r)
    BY <2>1 DEF Stamp
  <2>3. PipeQueue' = PipeQueue
    BY <2>1 DEF PipeQueue
  <2>4. sent' # 0
    BY <1>t, <2>1
  <2>5. UvcNumbered' /\ QueueNumbered'
    BY <1>q, <2>1, <2>3, <2>4 DEF UvcNumbered
  <2>6. PipeArriving = 0 /\ PipeArriving' = sent'
    BY <2>1 DEF PipeArriving
  <2>7. Pipe!Send
    BY <1>e, <2>1, <2>2, <2>3, <2>6 DEF Pipe!Send
  <2>. QED BY <1>e, <2>2, <2>5, <2>7 DEF PipeStep, Pipe!Next
<1>2. CASE UvcCopy
  <2>1. /\ uvc = "get" /\ GetFrame(COPY, sent) /\ UNCHANGED <<previewFrames, sent>>
        /\ uvc' \in IF hold'[COPY] = NULL THEN {"idle"} ELSE {"add", "recycle"}
    BY <1>2 DEF UvcCopy, world
  <2>2. hold[COPY] = NULL
    BY <1>t, <2>1 DEF UvcEmpty
  <2>3. /\ \A r \in Pointers \ {COPY} : hold'[r] = hold[r] /\ Stamp(r)' = Stamp(r)
        /\ hold'[COPY] # NULL => Stamp(COPY)' = sent
        /\ PipeQueue' = PipeQueue
    BY <1>t, <1>p, <2>1, <2>2, GetStamps
  <2>4. sent # 0
    BY <1>t, <2>1 DEF UvcNumbered
  <2>5. UvcNumbered' /\ QueueNumbered'
    BY <1>q, <2>1, <2>3, <2>4 DEF UvcNumbered
  <2>6. PipeArriving = sent /\ PipeArriving' \in {0, sent}
    BY <2>1 DEF PipeArriving
  <2>7. Pipe!DropArriving \/ UNCHANGED Pipe!vars
    BY <1>e, <2>1, <2>3, <2>4, <2>6 DEF Pipe!DropArriving, Pipe!vars
  <2>. QED BY <1>e, <2>3, <2>5, <2>7 DEF PipeStep, Pipe!Next
<1>3. CASE AddPreviewFrame
  <2>1. UNCHANGED <<sent, stamp>> /\ uvc = "add" /\ uvc' \in {"idle", "recycle"}
    BY <1>3 DEF AddPreviewFrame, world
  <2>2. UvcNumbered' /\ PipeArriving = sent /\ PipeArriving' = 0 /\ sent # 0
    BY <1>t, <2>1 DEF UvcNumbered, PipeArriving
  <2>3. CASE running /\ Room
    <3>1. /\ hold[COPY] # NULL /\ Stamp(COPY) = sent
          /\ previewFrames' = Append(previewFrames, hold[COPY])
          /\ hold' = [hold EXCEPT ![COPY] = NULL]
          /\ Len(previewFrames) < MaxFrame
      BY <1>t, <1>3, <2>1, <2>3 DEF AddPreviewFrame, UvcAtHand, UvcNumbered, Room
    <3>2. /\ \A r \in Pointers \ {COPY} : hold'[r] = hold[r] /\ Stamp(r)' = Stamp(r)
          /\ PipeQueue' = Append(PipeQueue, Stamp(COPY))
          /\ \A i \in 1..Len(previewFrames') :
                \/ i \in 1..Len(previewFrames) /\ PipeQueue'[i] = PipeQueue[i]
                \/ PipeQueue'[i] = Stamp(COPY)
      BY <1>t, <1>p, <2>1, <3>1, AddStamps
    <3>3. QueueNumbered'
      BY <1>t, <2>2, <3>1, <3>2 DEF QueueNumbered
    <3>4. Len(PipeQueue) < MaxFrame
      BY <1>t, <3>1, QueueShape
    <3>5. Pipe!Enqueue
      BY <1>e, <2>1, <2>2, <3>1, <3>2, <3>4 DEF Pipe!Enqueue
    <3>. QED BY <1>e, <2>2, <3>2, <3>3, <3>5 DEF PipeStep, Pipe!Next
  <2>4. CASE ~(running /\ Room)
    <3>1. UNCHANGED <<hold, previewFrames>>
      BY <1>3, <2>4 DEF AddPreviewFrame
    <3>2. \A r \in Pointers : hold'[r] = hold[r] /\ Stamp(r)' = Stamp(r)
      BY <2>1, <3>1 DEF Stamp
    <3>3. PipeQueue' = PipeQueue
      BY <2>1, <3>1 DEF PipeQueue
    <3>4. Pipe!DropArriving
      BY <1>e, <2>1, <2>2, <3>2, <3>3 DEF Pipe!DropArriving
    <3>. QED BY <1>e, <1>q, <2>2, <3>1, <3>2, <3>3, <3>4 DEF PipeStep, Pipe!Next
  <2>. QED BY <2>3, <2>4
<1>4. CASE UvcRecycle
  <2>1. /\ Recycle(COPY) /\ UNCHANGED <<previewFrames, sent>>
        /\ uvc = "recycle" /\ uvc' = "idle"
    BY <1>4 DEF UvcRecycle, world
  <2>2. /\ \A r \in Pointers \ {COPY} : hold'[r] = hold[r] /\ Stamp(r)' = Stamp(r)
        /\ PipeQueue' = PipeQueue
    BY <1>t, <1>p, <2>1, RecycleStamps
  <2>3. UvcNumbered' /\ PipeArriving' = PipeArriving
    BY <2>1 DEF UvcNumbered, PipeArriving
  <2>4. UNCHANGED Pipe!vars
    BY <1>e, <2>1, <2>2, <2>3 DEF Pipe!vars
  <2>. QED BY <1>e, <1>q, <2>1, <2>2, <2>3, <2>4 DEF PipeStep
<1>. QED BY <1>1, <1>2, <1>3, <1>4 DEF UvcStep

LEMMA ClearPipes ==
    ASSUME StoreType, FrameOwnership, Numbered, ClearQueue,
           UNCHANGED <<hold, uvc, sent, delivered, cap>>
    PROVE  Numbered' /\ PipeStep
<1>1. /\ \A r \in Pointers : Stamp(r)' = Stamp(r)
      /\ previewFrames' = <<>> /\ PipeQueue' = <<>>
  BY ClearStamps
<1>2. (\A t \in CapThreads : CapNumbered(t)') /\ PipeTaken' = PipeTaken
  BY <1>1, CapsStay
<1>3. /\ UvcNumbered' /\ PrevNumbered'
      /\ UNCHANGED <<PipeArriving, PipeHand, PipeLatest>>
  BY <1>1, PointersDistinct
     DEF Numbered, UvcNumbered, PrevNumbered, PipeArriving, PipeHand, PipeLatest
<1>4. QueueNumbered'
  BY <1>1 DEF QueueNumbered
<1>5. Pipe!DropQueue \/ UNCHANGED Pipe!vars
  BY <1>1, <1>2, <1>3 DEF Pipe!DropQueue, Pipe!vars
<1>. QED BY <1>2, <1>3, <1>4, <1>5 DEF Numbered, PipeStep, Pipe!Next

LEMMA StoreStays ==
    ASSUME Numbered, UNCHANGED <<store, uvc, sent, delivered>>,
           \A t \in CapThreads : \/ cap'[t] = cap[t]
                                 \/ cap[t].pc \notin InPipe /\ cap'[t].pc \notin InPipe
    PROVE  Numbered' /\ PipeStep
<1>1. /\ \A r \in Pointers : hold'[r] = hold[r] /\ Stamp(r)' = Stamp(r)
      /\ UNCHANGED previewFrames /\ PipeQueue' = PipeQueue
  BY DEF store, Stamp, PipeQueue
<1>2. (\A t \in CapThreads : CapNumbered(t)') /\ PipeTaken' = PipeTaken
  BY <1>1, CapsStay
<1>3. /\ UvcNumbered' /\ PrevNumbered' /\ QueueNumbered'
      /\ UNCHANGED <<PipeArriving, PipeHand, PipeLatest>>
  BY <1>1, PointersDistinct
     DEF Numbered, UvcNumbered, PrevNumbered, QueueNumbered, PipeArriving,
         PipeHand, PipeLatest
<1>4. UNCHANGED Pipe!vars
  BY <1>1, <1>2, <1>3 DEF Pipe!vars
<1>. QED BY <1>2, <1>3, <1>4 DEF Numbered, PipeStep

LEMMA PrevPipes ==
    ASSUME IInv, EmptyHands, Numbered, PrevStep
    PROVE  Numbered' /\ PipeStep
<1>t. /\ StoreType /\ FrameOwnership /\ PrevAtHand /\ PrevEmpty
      /\ UvcNumbered /\ QueueNumbered /\ PrevNumbered
  BY DEF IInv, TypeOK, FramesAtHand, EmptyHands, Numbered
<1>p. /\ {QUEU, COPY, MJPEG, FRAME, DRAWN} \subseteq Pointers
      /\ QUEU # MJPEG /\ QUEU # FRAME /\ QUEU # DRAWN /\ QUEU # COPY
      /\ COPY # MJPEG /\ COPY # FRAME /\ COPY # DRAWN
      /\ MJPEG # FRAME /\ MJPEG # DRAWN /\ FRAME # DRAWN
  BY PointersDistinct
<1>u. UNCHANGED <<uvc, sent, delivered>>
  BY DEF PrevStep, PrevPrepare, PrevStartStreaming, PrevClear, PrevSpawnCapture,
         PrevLoop, PrevWait, PrevTake, PrevDecode, PrevDecoded, PrevDropFailed,
         PrevDraw, PrevDrawn, AddCaptureFrame, PrevSignal, PrevStopStreaming, world
<1>e. ASSUME PrevNumbered', UNCHANGED cap,
             \A r \in Pointers \ {QUEU, MJPEG, FRAME, DRAWN} : Stamp(r)' = Stamp(r)
      PROVE  /\ QueueNumbered' => Numbered'
             /\ UNCHANGED <<PipeArriving, PipeTaken, sent, delivered>>
  <2>1. (\A t \in CapThreads : CapNumbered(t)') /\ PipeTaken' = PipeTaken
    BY <1>e, CapsStay
  <2>2. UvcNumbered' /\ PipeArriving' = PipeArriving
    BY <1>t, <1>p, <1>u, <1>e DEF UvcNumbered, PipeArriving
  <2>. QED BY <1>u, <1>e, <2>1, <2>2 DEF Numbered
<1>q. UNCHANGED <<previewFrames, PipeQueue>> => QueueNumbered'
  BY <1>t DEF QueueNumbered
<1>1. CASE PrevPrepare \/ PrevStartStreaming \/ PrevLoop \/ PrevWait \/ PrevSignal
           \/ PrevStopStreaming
  <2>1. UNCHANGED <<cap, store>>
    BY <1>1 DEF PrevPrepare, PrevStartStreaming, PrevLoop, PrevWait, PrevSignal,
                PrevStopStreaming
  <2>. QED BY <1>u, <2>1, StoreStays
<1>2. CASE PrevClear
  BY <1>t, <1>u, <1>2, ClearPipes DEF PrevClear
<1>3. CASE PrevSpawnCapture
  <2>1. UNCHANGED store
    BY <1>3 DEF PrevSpawnCapture
  <2>2. \A t \in CapThreads : \/ cap'[t] = cap[t]
                              \/ cap[t].pc = "none" /\ cap'[t].pc = "clear"
    <3>1. cap \in [CapThreads -> CapRec]
      BY DEF IInv, TypeOK, ThreadType
    <3>2. ASSUME NEW t \in CapThreads, cap[t].pc = "none",
                 cap' = [cap EXCEPT ![t].pc = "clear"]
          PROVE  cap'[t].pc = "clear" /\ \A u \in CapThreads \ {t} : cap'[u] = cap[u]
      <4>1. cap[t] \in CapRec
        BY <3>1
      <4>. QED BY <3>1, <3>2, <4>1 DEF CapRec
    <3>. QED BY <1>3, <3>2 DEF PrevSpawnCapture
  <2>. QED BY <1>u, <2>1, <2>2, StoreStays DEF InPipe
<1>4. CASE PrevTake
  <2>1. prev \in {"wait", "waiting"} /\ UNCHANGED <<pool, heap, stamp, cap>>
    BY <1>4 DEF PrevTake
  <2>2. CASE running /\ previewFrames # <<>>
    <3>1. PICK p \in {MJPEG, FRAME} :
             /\ hold' = [hold EXCEPT ![p] = Head(previewFrames)]
             /\ previewFrames' = Tail(previewFrames)
      BY <1>4, <2>2 DEF PrevTake
    <3>2. p \in Pointers /\ p \in {MJPEG, FRAME} /\ hold[MJPEG] = NULL /\ hold[FRAME] = NULL
      BY <1>t, <1>p, <2>1 DEF PrevEmpty
    <3>3. /\ \A r \in Pointers \ {p} : hold'[r] = hold[r] /\ Stamp(r)' = Stamp(r)
          /\ hold'[p] # NULL /\ Stamp(p)' = PipeQueue[1]
          /\ PipeQueue # <<>> /\ PipeQueue' = Tail(PipeQueue)
          /\ 1 \in 1..Len(previewFrames)
          /\ \A i \in 1..Len(previewFrames') :
                i + 1 \in 1..Len(previewFrames) /\ PipeQueue'[i] = PipeQueue[i + 1]
      BY <1>t, <2>1, <2>2, <3>1, <3>2, TakeStamps
    <3>4. PrevNumbered'
      BY <1>t, <1>p, <3>2, <3>3 DEF PrevNumbered, QueueNumbered
    <3>5. QueueNumbered'
      BY <1>t, <3>3 DEF QueueNumbered
    <3>6. PipeHand = 0 /\ PipeHand' = PipeQueue[1] /\ PipeLatest' = PipeLatest
      BY <1>p, <3>2, <3>3 DEF PipeHand, PipeLatest, Stamp
    <3>7. PipeQueue[1] = Head(PipeQueue)
      BY <1>t, <3>3, QueueShape
    <3>8. Pipe!Draw
      BY <1>e, <1>p, <2>1, <3>2, <3>3, <3>4, <3>6, <3>7 DEF Pipe!Draw
    <3>. QED BY <1>e, <1>p, <2>1, <3>2, <3>3, <3>4, <3>5, <3>8 DEF PipeStep, Pipe!Next
  <2>3. CASE ~(running /\ previewFrames # <<>>)
    <3>1. UNCHANGED store
      BY <1>4, <2>1, <2>3 DEF PrevTake, store
    <3>. QED BY <1>u, <2>1, <3>1, StoreStays
  <2>. QED BY <2>2, <2>3
<1>5. CASE PrevDecode
  <2>1. /\ GetFrame(FRAME, stamp[hold[MJPEG]]) /\ UNCHANGED <<previewFrames, cap>>
        /\ hold'[FRAME] # NULL /\ hold[FRAME] = NULL /\ hold[MJPEG] # NULL
    BY <1>t, <1>5 DEF PrevDecode, PrevEmpty, PrevAtHand
  <2>2. /\ \A r \in Pointers \ {FRAME} : hold'[r] = hold[r] /\ Stamp(r)' = Stamp(r)
        /\ Stamp(FRAME)' = Stamp(MJPEG)
        /\ PipeQueue' = PipeQueue
    <3>1. Stamp(MJPEG) = stamp[hold[MJPEG]]
      BY <2>1 DEF Stamp
    <3>. QED BY <1>t, <1>p, <2>1, <3>1, GetStamps
  <2>3. PrevNumbered' /\ UNCHANGED <<PipeHand, PipeLatest>>
    BY <1>t, <1>p, <2>1, <2>2 DEF PrevNumbered, PipeHand, PipeLatest, FRAME
  <2>4. UNCHANGED Pipe!vars
    BY <1>e, <1>p, <2>1, <2>2, <2>3 DEF Pipe!vars
  <2>. QED BY <1>e, <1>p, <1>q, <2>1, <2>2, <2>3, <2>4 DEF PipeStep
<1>6. CASE PrevDecoded
  <2>1. /\ Recycle(MJPEG) /\ UNCHANGED <<previewFrames, cap>> /\ hold[FRAME] # NULL
    BY <1>t, <1>6 DEF PrevDecoded, PrevAtHand
  <2>2. /\ \A r \in Pointers \ {MJPEG} : hold'[r] = hold[r] /\ Stamp(r)' = Stamp(r)
        /\ hold'[MJPEG] = NULL /\ PipeQueue' = PipeQueue
    BY <1>t, <1>p, <2>1, RecycleStamps
  <2>3. PrevNumbered' /\ UNCHANGED <<PipeHand, PipeLatest>>
    BY <1>t, <1>p, <2>1, <2>2 DEF PrevNumbered, PipeHand, PipeLatest, MJPEG
  <2>4. UNCHANGED Pipe!vars
    BY <1>e, <1>p, <2>1, <2>2, <2>3 DEF Pipe!vars
  <2>. QED BY <1>e, <1>p, <1>q, <2>1, <2>2, <2>3, <2>4 DEF PipeStep
<1>7. CASE PrevDropFailed
  <2>1. /\ Recycle(FRAME) /\ UNCHANGED <<previewFrames, cap>>
        /\ hold[FRAME] # NULL /\ hold[MJPEG] = NULL
    BY <1>t, <1>7 DEF PrevDropFailed, PrevAtHand, PrevEmpty
  <2>2. /\ \A r \in Pointers \ {FRAME} : hold'[r] = hold[r] /\ Stamp(r)' = Stamp(r)
        /\ hold'[FRAME] = NULL /\ PipeQueue' = PipeQueue
    BY <1>t, <1>p, <2>1, RecycleStamps
  <2>3. PrevNumbered' /\ PipeHand # 0 /\ PipeHand' = 0 /\ PipeLatest' = PipeLatest
    BY <1>t, <1>p, <2>1, <2>2 DEF PrevNumbered, PipeHand, PipeLatest, FRAME, Stamp
  <2>4. Pipe!DropHand
    BY <1>e, <1>p, <2>1, <2>2, <2>3 DEF Pipe!DropHand
  <2>. QED BY <1>e, <1>p, <1>q, <2>1, <2>2, <2>3, <2>4 DEF PipeStep, Pipe!Next
<1>8. CASE PrevDraw \/ PrevDrawn
  <2>1. UNCHANGED <<previewFrames, cap>>
    BY <1>8 DEF PrevDraw, PrevDrawn
  <2>2. /\ \A r \in Pointers \ {DRAWN} : hold'[r] = hold[r] /\ Stamp(r)' = Stamp(r)
        /\ PipeQueue' = PipeQueue
    <3>1. CASE PrevDrawn
      BY <1>t, <1>p, <2>1, <3>1, RecycleStamps DEF PrevDrawn
    <3>2. CASE PrevDraw /\ previewWindow
      <4>1. hold[DRAWN] = NULL /\ GetFrame(DRAWN, stamp[hold[FRAME]])
        BY <1>t, <3>2 DEF PrevDraw, PrevEmpty
      <4>. QED BY <1>t, <1>p, <2>1, <4>1, GetStamps
    <3>3. CASE PrevDraw /\ ~previewWindow
      BY <2>1, <3>3 DEF PrevDraw, Stamp, PipeQueue
    <3>. QED BY <1>8, <3>1, <3>2, <3>3
  <2>3. PrevNumbered' /\ UNCHANGED <<PipeHand, PipeLatest>>
    BY <1>t, <1>p, <2>2 DEF PrevNumbered, PipeHand, PipeLatest
  <2>4. UNCHANGED Pipe!vars
    BY <1>e, <1>p, <2>1, <2>2, <2>3 DEF Pipe!vars
  <2>. QED BY <1>e, <1>p, <1>q, <2>1, <2>2, <2>3, <2>4 DEF PipeStep
<1>9. CASE AddCaptureFrame
  <2>1. /\ UNCHANGED <<previewFrames, cap>>
        /\ hold[FRAME] # NULL /\ hold[MJPEG] = NULL /\ Stamp(FRAME) # 0
    BY <1>t, <1>9 DEF AddCaptureFrame, PrevAtHand, PrevEmpty, PrevNumbered
  <2>2. CASE running
    <3>1. /\ \A r \in Pointers \ {FRAME, QUEU} : hold'[r] = hold[r] /\ Stamp(r)' = Stamp(r)
          /\ hold'[QUEU] = hold[FRAME] /\ Stamp(QUEU)' = Stamp(FRAME)
          /\ hold'[FRAME] = NULL /\ PipeQueue' = PipeQueue
      BY <1>t, <1>p, <1>9, <2>1, <2>2, ReplaceStamps DEF AddCaptureFrame
    <3>2. /\ PrevNumbered' /\ PipeHand # 0 /\ PipeHand' = 0
          /\ PipeLatest' = PipeHand
      BY <1>t, <1>p, <2>1, <3>1
         DEF PrevNumbered, PipeHand, PipeLatest, FRAME, Stamp
    <3>3. Pipe!Offer
      BY <1>e, <1>p, <2>1, <3>1, <3>2 DEF Pipe!Offer
    <3>. QED BY <1>e, <1>p, <1>q, <2>1, <3>1, <3>2, <3>3 DEF PipeStep, Pipe!Next
  <2>3. CASE ~running
    <3>1. hold' = [hold EXCEPT ![FRAME] = NULL] /\ stamp' = stamp
      BY <1>9, <2>3 DEF AddCaptureFrame
    <3>2. hold'[FRAME] = NULL /\ \A r \in Pointers \ {FRAME} : hold'[r] = hold[r]
      BY <1>t, <1>p, <3>1 DEF StoreType
    <3>3. (\A r \in Pointers \ {FRAME} : Stamp(r)' = Stamp(r)) /\ PipeQueue' = PipeQueue
      BY <2>1, <3>1, <3>2 DEF Stamp, PipeQueue
    <3>4. PrevNumbered' /\ PipeHand # 0 /\ PipeHand' = 0 /\ PipeLatest' = PipeLatest
      BY <1>t, <1>p, <2>1, <3>2, <3>3
         DEF PrevNumbered, PipeHand, PipeLatest, FRAME, Stamp
    <3>5. Pipe!DropHand
      BY <1>e, <1>p, <2>1, <3>3, <3>4 DEF Pipe!DropHand
    <3>. QED BY <1>e, <1>p, <1>q, <2>1, <3>3, <3>4, <3>5 DEF PipeStep, Pipe!Next
  <2>. QED BY <2>2, <2>3
<1>. QED BY <1>1, <1>2, <1>3, <1>4, <1>5, <1>6, <1>7, <1>8, <1>9 DEF PrevStep

LEMMA CapPipes ==
    ASSUME NEW t \in CapThreads, IInv, EmptyHands, Stages, Numbered, CapStep(t)
    PROVE  Numbered' /\ PipeStep
<1>t. /\ StoreType /\ FrameOwnership /\ CapAtHand(t) /\ CapEmpty(t)
      /\ cap \in [CapThreads -> CapRec] /\ cap[t] \in CapRec
      /\ UvcNumbered /\ QueueNumbered /\ PrevNumbered /\ CapNumbered(t)
  BY DEF IInv, TypeOK, ThreadType, FramesAtHand, EmptyHands, Numbered
<1>p. /\ {QUEU, COPY, MJPEG, FRAME, DRAWN, Frame(t), Converted(t), CbFrame(t)}
            \subseteq Pointers
      /\ Frame(t) # Converted(t) /\ Frame(t) # CbFrame(t)
      /\ Converted(t) # CbFrame(t)
      /\ QUEU \notin {Frame(t), Converted(t), CbFrame(t), MJPEG, FRAME, COPY}
      /\ {COPY, MJPEG, FRAME} \cap {Frame(t), Converted(t), CbFrame(t)} = {}
  BY PointersDistinct, CapPointers
<1>u. UNCHANGED <<uvc, sent, prev, previewFrames>> /\ cap[t].pc # "none"
  BY DEF CapStep, CapClear, CapFormat, CapLoop, CapChoose,
         CapInner, CapWait, CapTake,
         CapConvertForSurface, CapBlit, CapPost, CapCallback, CapGetOut,
         CapConvert, CapInvoke, CapReturn, CapRecycle, CapClosing, CapRelease,
         CapNull, CapBroadcast, At, world, store
<1>o. \A u \in CapThreads \ {t} : cap[u].pc = "none"
  BY <1>u DEF Stages
<1>c. ASSUME NEW l, CapGoto(t, l)
      PROVE  cap'[t].pc = l /\ \A u \in CapThreads \ {t} : cap'[u] = cap[u]
  BY <1>t, <1>c DEF CapGoto, CapRec
\* steps that touch no other frame than captureQueu and those of t
<1>e. ASSUME CapNumbered(t)', PipeQueue' = PipeQueue,
             hold[QUEU] = hold'[QUEU] \/ hold'[QUEU] = NULL,
             hold[QUEU] = hold'[QUEU] => Stamp(QUEU)' = Stamp(QUEU),
             \A u \in CapThreads \ {t} : cap'[u] = cap[u],
             \A r \in Pointers \ {QUEU, Frame(t), Converted(t), CbFrame(t)} :
                hold'[r] = hold[r] /\ Stamp(r)' = Stamp(r)
      PROVE  /\ Numbered' /\ UNCHANGED <<sent, PipeArriving, PipeQueue, PipeHand>>
             /\ PipeTaken = IF cap[t].pc \in InPipe THEN Stamp(Frame(t)) ELSE 0
             /\ PipeTaken' = IF cap'[t].pc \in InPipe THEN Stamp(Frame(t))' ELSE 0
  <2>1. \A r \in {COPY, MJPEG, FRAME} : hold'[r] = hold[r] /\ Stamp(r)' = Stamp(r)
    BY <1>p, <1>e
  <2>2. UvcNumbered' /\ QueueNumbered' /\ PrevNumbered'
    BY <1>t, <1>u, <1>e, <2>1 DEF UvcNumbered, QueueNumbered, PrevNumbered
  <2>3. UNCHANGED <<PipeArriving, PipeHand>>
    BY <1>u, <2>1 DEF PipeArriving, PipeHand
  <2>4. \A u \in CapThreads \ {t} : CapNumbered(u)'
    BY <1>o, <1>e DEF CapNumbered, InPipe
  <2>5. \A u \in CapThreads \ {t} : cap[u].pc \notin InPipe /\ cap'[u] = cap[u]
    BY <1>o, <1>e DEF InPipe
  <2>. QED BY <1>u, <1>e, <2>2, <2>3, <2>4, <2>5, TakenOne DEF Numbered
<1>s. UNCHANGED <<hold, stamp>> => \A r : hold'[r] = hold[r] /\ Stamp(r)' = Stamp(r)
  BY DEF Stamp
<1>q. UNCHANGED stamp => PipeQueue' = PipeQueue
  BY <1>u DEF PipeQueue
<1>l. (hold'[QUEU] = hold[QUEU] /\ Stamp(QUEU)' = Stamp(QUEU)) => PipeLatest' = PipeLatest
  BY DEF PipeLatest
<1>1. CASE \/ CapFormat(t) \/ CapLoop(t) \/ CapChoose(t) \/ CapInner(t)
           \/ CapWait(t) \/ CapBlit(t)
           \/ CapPost(t) \/ CapCallback(t) \/ CapReturn(t)
           \/ CapRelease(t) \/ CapNull(t) \/ CapBroadcast(t)
  <2>1. UNCHANGED <<hold, stamp, delivered>>
    BY <1>1 DEF CapFormat, CapLoop, CapChoose, CapInner, CapWait,
                CapBlit, CapPost, CapCallback, CapReturn, CapRelease, CapNull,
                CapBroadcast, store, world
  <2>2. /\ cap'[t].pc # "convert"
        /\ cap[t].pc \in InPipe \/ cap'[t].pc \notin InPipe
    BY <1>1, <1>t DEF CapFormat, CapLoop, CapChoose, CapInner, CapWait,
                CapBlit, CapPost, CapCallback, CapReturn, CapRelease, CapNull,
                CapBroadcast, At,
                CapGoto, CapRec, InPipe
  <2>3. \A u \in CapThreads \ {t} : cap'[u] = cap[u]
    BY <1>1, <1>t DEF CapFormat, CapLoop, CapChoose, CapInner, CapWait,
                CapBlit, CapPost, CapCallback, CapReturn, CapRelease, CapNull,
                CapBroadcast, CapGoto
  <2>4. CapNumbered(t)'
    BY <1>t, <1>s, <2>1, <2>2 DEF CapNumbered
  <2>5. Pipe!DropTaken \/ UNCHANGED Pipe!vars
    BY <1>t, <1>e, <1>s, <1>q, <1>l, <2>1, <2>2, <2>3, <2>4
       DEF Pipe!DropTaken, Pipe!vars, CapNumbered
  <2>. QED BY <1>e, <1>s, <1>q, <2>1, <2>3, <2>4, <2>5 DEF PipeStep, Pipe!Next
<1>2. CASE CapClear(t)
  <2>1. /\ Recycle(QUEU) /\ CapGoto(t, "format") /\ cap[t].pc = "clear"
        /\ UNCHANGED delivered
    BY <1>2 DEF CapClear, ClearCapture, At, world
  <2>2. /\ \A r \in Pointers \ {QUEU} : hold'[r] = hold[r] /\ Stamp(r)' = Stamp(r)
        /\ hold'[QUEU] = NULL /\ Stamp(QUEU)' = 0
        /\ PipeQueue' = PipeQueue
    BY <1>t, <1>p, <1>u, <2>1, RecycleStamps
  <2>3. CapNumbered(t)'
    BY <1>c, <2>1 DEF CapNumbered, InPipe
  <2>4. hold[QUEU] = NULL => Stamp(QUEU) = 0
    BY DEF Stamp
  <2>5. Pipe!DropLatest \/ UNCHANGED Pipe!vars
    BY <1>c, <1>e, <2>1, <2>2, <2>3, <2>4
       DEF Pipe!DropLatest, Pipe!vars, PipeLatest, InPipe
  <2>. QED BY <1>c, <1>e, <2>1, <2>2, <2>3, <2>4, <2>5 DEF PipeStep, Pipe!Next
<1>3. CASE CapTake(t)
  <2>1. cap[t].pc \in {"wait", "waiting"} /\ UNCHANGED <<stamp, delivered>>
    BY <1>3 DEF CapTake, At, world
  <2>2. CASE running /\ hold[QUEU] # NULL
    <3>1. PICK l \in {"surface", "callback"} : CapGoto(t, l)
      BY <1>3, <2>2 DEF CapTake
    <3>2. hold' = [hold EXCEPT ![Frame(t)] = hold[QUEU], ![QUEU] = NULL]
      BY <1>3, <2>2 DEF CapTake
    <3>3. /\ \A r \in Pointers \ {QUEU, Frame(t)} : hold'[r] = hold[r] /\ Stamp(r)' = Stamp(r)
          /\ Stamp(Frame(t))' = Stamp(QUEU)
          /\ hold'[QUEU] = NULL /\ Stamp(QUEU)' = 0
          /\ PipeQueue' = PipeQueue
      BY <1>t, <1>p, <1>u, <2>1, <3>2, MoveStamps
    <3>4. Stamp(QUEU) # 0
      BY <1>t, <2>2 DEF PrevNumbered
    <3>5. CapNumbered(t)'
      BY <1>c, <3>1, <3>3, <3>4 DEF CapNumbered, InPipe
    <3>6. Pipe!Take
      BY <1>c, <1>e, <2>1, <2>2, <3>1, <3>3, <3>4, <3>5 DEF Pipe!Take, PipeLatest, InPipe
    <3>. QED BY <1>c, <1>e, <2>2, <3>1, <3>3, <3>5, <3>6 DEF PipeStep, Pipe!Next
  <2>3. CASE ~(running /\ hold[QUEU] # NULL)
    <3>1. CapGoto(t, "inner") /\ UNCHANGED hold
      BY <1>3, <2>3 DEF CapTake
    <3>2. CapNumbered(t)'
      BY <1>c, <3>1 DEF CapNumbered, InPipe
    <3>3. UNCHANGED Pipe!vars
      BY <1>c, <1>e, <1>s, <1>q, <1>l, <2>1, <3>1, <3>2 DEF Pipe!vars, InPipe
    <3>. QED BY <1>c, <1>e, <1>s, <1>q, <2>1, <3>1, <3>2, <3>3 DEF PipeStep
  <2>. QED BY <2>2, <2>3
<1>4. CASE CapConvertForSurface(t)
  <2>1. cap[t].pc = "surface" /\ UNCHANGED delivered
    BY <1>4 DEF CapConvertForSurface, At, world
  <2>2. \/ hold[Converted(t)] = NULL
           /\ GetFrame(Converted(t), stamp[hold[Frame(t)]])
        \/ UNCHANGED <<hold, pool, heap, stamp>>
    BY <1>4 DEF CapConvertForSurface
  <2>3. PICK l \in {"blit", "callback"} : CapGoto(t, l)
    BY <1>4 DEF CapConvertForSurface
  <2>4. /\ \A r \in Pointers \ {Converted(t)} : hold'[r] = hold[r] /\ Stamp(r)' = Stamp(r)
        /\ PipeQueue' = PipeQueue
    BY <1>t, <1>p, <1>u, <1>s, <1>q, <2>2, GetStamps
  <2>5. CapNumbered(t)'
    BY <1>t, <1>p, <1>c, <2>1, <2>3, <2>4 DEF CapNumbered, InPipe
  <2>6. UNCHANGED Pipe!vars
    BY <1>p, <1>c, <1>e, <1>l, <2>1, <2>3, <2>4, <2>5 DEF Pipe!vars, InPipe
  <2>. QED BY <1>p, <1>c, <1>e, <2>3, <2>4, <2>5, <2>6 DEF PipeStep
<1>5. CASE CapGetOut(t)
  <2>1. /\ cap[t].pc = "getOut" /\ UNCHANGED delivered
        /\ GetFrame(CbFrame(t), stamp[hold[Frame(t)]])
    BY <1>5 DEF CapGetOut, At, world
  <2>2. PICK l \in {"recycle", "convert"} :
           CapGoto(t, l) /\ (l = "convert" => hold'[CbFrame(t)] # NULL)
    BY <1>5 DEF CapGetOut
  <2>3. hold[CbFrame(t)] = NULL /\ Stamp(Frame(t)) = stamp[hold[Frame(t)]]
    BY <1>t, <2>1 DEF CapEmpty, CapAtHand, Stamp
  <2>4. /\ \A r \in Pointers \ {CbFrame(t)} : hold'[r] = hold[r] /\ Stamp(r)' = Stamp(r)
        /\ hold'[CbFrame(t)] # NULL => Stamp(CbFrame(t))' = Stamp(Frame(t))
        /\ PipeQueue' = PipeQueue
    BY <1>t, <1>p, <1>u, <2>1, <2>3, GetStamps
  <2>5. CapNumbered(t)'
    BY <1>t, <1>p, <1>c, <2>1, <2>2, <2>4 DEF CapNumbered, InPipe
  <2>6. Pipe!DropTaken \/ UNCHANGED Pipe!vars
    BY <1>t, <1>p, <1>c, <1>e, <1>l, <2>1, <2>2, <2>4, <2>5
       DEF Pipe!DropTaken, Pipe!vars, InPipe, CapNumbered
  <2>. QED BY <1>p, <1>c, <1>e, <2>2, <2>4, <2>5, <2>6 DEF PipeStep, Pipe!Next
<1>6. CASE CapConvert(t)
  <2>1. /\ cap[t].pc = "convert" /\ UNCHANGED delivered
        /\ RecycleAll({hold[Frame(t)]})
        /\ hold' = [hold EXCEPT ![Frame(t)] = hold[CbFrame(t)], ![CbFrame(t)] = NULL]
    BY <1>6 DEF CapConvert, At, world
  <2>2. PICK l \in {"invoke", "recycle"} : CapGoto(t, l)
    BY <1>6 DEF CapConvert
  <2>3. RecycleAll({hold[Frame(t)]} \ {NULL})
    <3>1. {hold[Frame(t)]} = {hold[Frame(t)]} \ {NULL}
      BY <1>t, <2>1 DEF CapAtHand
    <3>. QED BY <2>1, <3>1, Zenon
  <2>4. /\ \A r \in Pointers \ {CbFrame(t), Frame(t)} : hold'[r] = hold[r] /\ Stamp(r)' = Stamp(r)
        /\ Stamp(Frame(t))' = Stamp(CbFrame(t))
        /\ PipeQueue' = PipeQueue
    BY <1>t, <1>p, <1>u, <2>1, <2>3, ReplaceStamps
  <2>5. Stamp(CbFrame(t)) = Stamp(Frame(t)) /\ Stamp(Frame(t)) # 0
    BY <1>t, <2>1 DEF CapNumbered, InPipe
  <2>6. CapNumbered(t)'
    BY <1>c, <2>2, <2>4, <2>5 DEF CapNumbered, InPipe
  <2>7. Pipe!DropTaken \/ UNCHANGED Pipe!vars
    BY <1>p, <1>c, <1>e, <1>l, <2>1, <2>2, <2>4, <2>5, <2>6
       DEF Pipe!DropTaken, Pipe!vars, InPipe
  <2>. QED BY <1>p, <1>c, <1>e, <2>2, <2>4, <2>6, <2>7 DEF PipeStep, Pipe!Next
<1>7. CASE CapInvoke(t)
  <2>1. /\ UNCHANGED <<hold, stamp>> /\ cap[t].pc = "invoke"
        /\ delivered' = stamp[hold[Frame(t)]]
    BY <1>7 DEF CapInvoke, At, store
  <2>2. cap'[t].pc = "inCallback" /\ \A u \in CapThreads \ {t} : cap'[u] = cap[u]
    BY <1>7, <1>t DEF CapInvoke, CapRec
  <2>3. Stamp(Frame(t)) # 0 /\ delivered' = Stamp(Frame(t))
    BY <1>t, <2>1 DEF CapNumbered, InPipe, Stamp, CapAtHand
  <2>4. CapNumbered(t)'
    BY <2>2 DEF CapNumbered, InPipe
  <2>5. Pipe!Deliver
    BY <1>e, <1>s, <1>q, <1>l, <2>1, <2>2, <2>3, <2>4 DEF Pipe!Deliver, InPipe
  <2>. QED BY <1>e, <1>s, <1>q, <2>1, <2>2, <2>4, <2>5 DEF PipeStep, Pipe!Next
<1>8. CASE CapRecycle(t) \/ CapClosing(t)
  <2>1. PICK p \in {Frame(t), Converted(t)} : Recycle(p)
    BY <1>8 DEF CapRecycle, CapClosing
  <2>2. /\ \A r \in Pointers \ {p} : hold'[r] = hold[r] /\ Stamp(r)' = Stamp(r)
        /\ PipeQueue' = PipeQueue
    BY <1>t, <1>p, <1>u, <2>1, RecycleStamps
  <2>3. /\ cap[t].pc \notin InPipe /\ UNCHANGED delivered
        /\ \E l \in {"inner", "broadcast", "release"} : CapGoto(t, l)
    BY <1>8 DEF CapRecycle, CapClosing, At, InPipe, world
  <2>4. cap'[t].pc \notin InPipe /\ \A u \in CapThreads \ {t} : cap'[u] = cap[u]
    BY <1>c, <2>3 DEF InPipe
  <2>5. CapNumbered(t)'
    BY <2>4 DEF CapNumbered, InPipe
  <2>6. UNCHANGED Pipe!vars
    BY <1>p, <1>e, <1>l, <2>1, <2>2, <2>3, <2>4, <2>5 DEF Pipe!vars
  <2>. QED BY <1>p, <1>e, <2>1, <2>2, <2>4, <2>5, <2>6 DEF PipeStep
<1>. QED BY <1>1, <1>2, <1>3, <1>4, <1>5, <1>6, <1>7, <1>8 DEF CapStep

LEMMA CallerPipes ==
    ASSUME IInv, Cleared, Numbered, NEW c \in Callers, Request(c) \/ CallerStep(c)
    PROVE  Numbered' /\ PipeStep
<1>t. /\ StoreType /\ FrameOwnership /\ UvcNumbered /\ QueueNumbered /\ PrevNumbered
  BY DEF IInv, TypeOK, Numbered
<1>p. {QUEU, COPY, MJPEG, FRAME, DRAWN} \subseteq Pointers
      /\ QUEU \notin {COPY, MJPEG, FRAME, DRAWN}
  BY PointersDistinct
<1>1. CASE \/ Request(c) \/ SpawnPreview(c) \/ StartFailed(c) \/ EnterSetter(c)
           \/ Handshake(c) \/ HandshakeDone(c) \/ ReplaceCallback(c)
           \/ AssignCallback(c) \/ ClearFormat(c) \/ SetFormat(c)
           \/ CompareWindow(c) \/ ReleaseWindow(c) \/ AssignWindow(c)
           \/ StopFlag(c) \/ StopSignalPreview(c)
           \/ StopSignalCapture(c) \/ JoinPreview(c)
           \/ StopClosePreview(c) \/ StopCloseCapture(c)
  <2>1. UNCHANGED <<store, uvc, cap, sent, delivered>>
    BY <1>1 DEF Request, SetPreviewDisplay, SetPreviewSize, StartPreview, StopPreview,
         SetFrameCallback, SetCaptureDisplay, SpawnPreview, StartFailed, EnterSetter,
         Handshake, HandshakeDone, ReplaceCallback, AssignCallback, ClearFormat,
         SetFormat, CompareWindow, ReleaseWindow, AssignWindow, StopFlag,
         StopSignalPreview, StopSignalCapture, JoinPreview, StopClosePreview,
         StopCloseCapture, threads, world
  <2>. QED BY <2>1, StoreStays
<1>2. CASE JoinCapture(c)
  <2>1. UNCHANGED <<store, uvc, sent, delivered>>
    BY <1>2 DEF JoinCapture, world
  <2>2. \A t \in CapThreads : \/ cap'[t] = cap[t]
                              \/ cap[t].pc = "exited" /\ cap'[t].pc = "none"
    <3>1. cap \in [CapThreads -> CapRec] /\ captureThread \in CapThreads \cup {NULL}
      BY DEF IInv, TypeOK, ThreadType
    <3>2. CASE ~Joinable(captureThread)
      BY <1>2, <3>2 DEF JoinCapture
    <3>3. CASE Joinable(captureThread)
      <4>1. captureThread \in CapThreads /\ cap[captureThread] \in CapRec
        BY <3>1, <3>3 DEF Joinable
      <4>2. /\ cap[captureThread].pc = "exited"
            /\ cap' = [cap EXCEPT ![captureThread].pc = "none"]
        BY <1>2, <3>3 DEF JoinCapture
      <4>. QED BY <3>1, <4>1, <4>2 DEF CapRec
    <3>. QED BY <3>2, <3>3
  <2>. QED BY <2>1, <2>2, StoreStays DEF InPipe
<1>3. CASE StopClearPreview(c)
  BY <1>t, <1>3, ClearPipes DEF StopClearPreview, world
<1>4. CASE StopClearCapture(c)
  <2>1. Recycle(QUEU) /\ UNCHANGED <<previewFrames, uvc, cap, sent, delivered>>
    BY <1>4 DEF StopClearCapture, ClearCapture, world
  <2>2. /\ \A r \in Pointers \ {QUEU} : hold'[r] = hold[r] /\ Stamp(r)' = Stamp(r)
        /\ hold'[QUEU] = NULL /\ Stamp(QUEU)' = 0
        /\ PipeQueue' = PipeQueue
    BY <1>t, <1>p, <2>1, RecycleStamps
  <2>3. (\A t \in CapThreads : CapNumbered(t)') /\ PipeTaken' = PipeTaken
    BY <1>p, <2>1, <2>2, CapsStay
  <2>4. /\ UvcNumbered' /\ PrevNumbered' /\ QueueNumbered'
        /\ UNCHANGED <<PipeArriving, PipeHand>>
    BY <1>t, <1>p, <2>1, <2>2
       DEF UvcNumbered, PrevNumbered, QueueNumbered, PipeArriving, PipeHand
  <2>5. Pipe!DropLatest \/ UNCHANGED Pipe!vars
    BY <2>1, <2>2, <2>3, <2>4 DEF Pipe!DropLatest, Pipe!vars, PipeLatest
  <2>. QED BY <2>3, <2>4, <2>5 DEF Numbered, PipeStep, Pipe!Next
\* the destructor finds nothing in the pipe
<1>5. CASE DeletePreview(c)
  <2>1. /\ hold' = [hold EXCEPT ![QUEU] = NULL]
        /\ previewFrames' = <<>>
        /\ stamp' = [f \in Frames |->
              IF f \in pool \cup Queued \cup ({hold[QUEU]} \ {NULL})
              THEN 0 ELSE stamp[f]]
        /\ UNCHANGED <<uvc, cap, sent, delivered>>
    BY <1>5 DEF DeletePreview, FreeFrames
  <2>2. hold[QUEU] = NULL /\ previewFrames = <<>>
    BY <1>5 DEF DeletePreview, Cleared, Joined
  <2>3. UNCHANGED <<hold, previewFrames>> /\ Queued = {}
    BY <1>t, <1>p, <2>1, <2>2 DEF StoreType, Queued
  <2>4. \A f \in Held \cup Queued : f \in Frames /\ f \notin pool
    BY <1>t, <2>3 DEF FrameOwnership, Held, StoreType
  <2>5. \A f \in Held \cup Queued : stamp'[f] = stamp[f]
    BY <2>1, <2>2, <2>3, <2>4
  <2>6. (\A r \in Pointers : Stamp(r)' = Stamp(r)) /\ PipeQueue' = PipeQueue
    BY <1>t, <2>3, <2>5, StampsStay
  <2>7. (\A t \in CapThreads : CapNumbered(t)') /\ PipeTaken' = PipeTaken
    BY <2>1, <2>6, CapsStay
  <2>8. /\ UvcNumbered' /\ PrevNumbered' /\ QueueNumbered'
        /\ UNCHANGED <<PipeArriving, PipeHand, PipeLatest>>
    BY <1>t, <1>p, <2>1, <2>3, <2>6
       DEF UvcNumbered, PrevNumbered, QueueNumbered, PipeArriving, PipeHand, PipeLatest
  <2>9. UNCHANGED Pipe!vars
    BY <2>1, <2>6, <2>7, <2>8 DEF Pipe!vars
  <2>. QED BY <2>7, <2>8, <2>9 DEF Numbered, PipeStep
<1>. QED BY <1>1, <1>2, <1>3, <1>4, <1>5 DEF CallerStep

-----------------------------------------------------------------------------

LEMMA PipeStarts == ASSUME Init PROVE Pipe!Init /\ Numbered
<1>1. \A r \in Pointers : hold[r] = NULL /\ Stamp(r) = 0
  BY DEF Init, Stamp
<1>2. PipeTaken = 0 /\ \A t \in CapThreads : CapNumbered(t)
  BY DEF Init, PipeTaken, Taken, At, CapNumbered, InPipe
<1>3. PipeQueue = <<>> /\ QueueNumbered
  BY DEF Init, PipeQueue, QueueNumbered
<1>4. UvcNumbered /\ PrevNumbered
  BY PointersDistinct DEF Init, UvcNumbered, PrevNumbered
<1>5. PipeArriving = 0 /\ PipeHand = 0 /\ PipeLatest = 0
  BY <1>1, PointersDistinct DEF Init, PipeArriving, PipeHand, PipeLatest
<1>. QED BY <1>2, <1>3, <1>4, <1>5 DEF Init, Numbered, Pipe!Init

LEMMA PipeMoves ==
    ASSUME MaxStamp # 0, IInv, Stages, EmptyHands, Cleared, Numbered, [Next]_vars
    PROVE  Numbered' /\ PipeStep
<1>1. ASSUME NEW c \in Callers, Request(c) \/ CallerStep(c) PROVE Numbered' /\ PipeStep
  BY <1>1, CallerPipes
<1>2. CASE UvcPicture \/ UvcStep
  BY <1>2, UvcPipes
<1>3. CASE PrevStep
  BY <1>3, PrevPipes
<1>4. ASSUME NEW t \in CapThreads, CapStep(t) PROVE Numbered' /\ PipeStep
  BY <1>4, CapPipes
<1>5. CASE SpuriousWake \/ UNCHANGED vars
  BY <1>5, StoreStays DEF SpuriousWake, vars, threads, world
<1>. QED BY <1>1, <1>2, <1>3, <1>4, <1>5 DEF Next

LEMMA Numbering ==
    ASSUME EagerStop = FALSE, MaxStamp # 0
    PROVE  Spec => [](IInv /\ Stages /\ EmptyHands /\ Cleared /\ Numbered)
<1>1. Init => Numbered
  BY PipeStarts
<1>2. IInv /\ Stages /\ EmptyHands /\ Cleared /\ Numbered /\ [Next]_vars => Numbered'
  BY PipeMoves
<1>. QED BY <1>1, <1>2, Clearing, PTL DEF Spec

(* The engine implements FramePipe: what onFrame is given is in the order  *)
(* the camera sent it, for every number of frames, callers and capture     *)
(* threads and every capacity of the queue, if stopPreview does not come   *)
(* before the capture thread exists.  MaxStamp # 0 only says that the      *)
(* pictures are numbered.                                                  *)
THEOREM EngineImplementsPipe ==
    ASSUME EagerStop = FALSE, MaxStamp # 0
    PROVE  Spec => ImplementsPipe
<1>1. Init => Pipe!Init
  BY PipeStarts
<1>2. IInv /\ Stages /\ EmptyHands /\ Cleared /\ Numbered /\ [Next]_vars
         => [Pipe!Next]_(Pipe!vars)
  BY PipeMoves DEF PipeStep
<1>. QED BY <1>1, <1>2, Numbering, PTL DEF Spec, ImplementsPipe, Pipe!Spec

\* What is proved of FramePipe holds of the engine's pipe.
Proved == INSTANCE FramePipeProofs WITH
    Capacity <- MaxFrame, arriving <- PipeArriving, queue <- PipeQueue,
    hand <- PipeHand, latest <- PipeLatest, taken <- PipeTaken

LEMMA PipeOrdered ==
    ASSUME EagerStop = FALSE, MaxStamp # 0
    PROVE  Spec => []Pipe!Ordered
<1>1. MaxFrame \in Nat \ {0} /\ MaxStamp \in Nat \ {0}
  BY SizesAssumption
<1>2. Proved!Spec => []Proved!Ordered
  BY <1>1, Proved!NoOvertaking
     DEF Proved!CapacityAssumption, Proved!StampAssumption
<1>3. Pipe!Init <=> Proved!Init
  BY DEF Pipe!Init, Proved!Init
<1>4. Pipe!vars = Proved!vars /\ Pipe!vars' = Proved!vars'
  BY DEF Pipe!vars, Proved!vars
<1>5. Pipe!Next <=> Proved!Next
  BY DEF Pipe!Next, Pipe!Send, Pipe!Enqueue, Pipe!Draw, Pipe!Offer, Pipe!Take,
         Pipe!Deliver, Pipe!DropArriving, Pipe!DropQueue, Pipe!DropHand,
         Pipe!DropLatest, Pipe!DropTaken,
         Proved!Next, Proved!Send, Proved!Enqueue, Proved!Draw, Proved!Offer,
         Proved!Take, Proved!Deliver, Proved!DropArriving, Proved!DropQueue,
         Proved!DropHand, Proved!DropLatest, Proved!DropTaken
<1>6. [Pipe!Next]_(Pipe!vars) <=> [Proved!Next]_(Proved!vars)
  BY <1>4, <1>5
<1>7. Proved!Ordered => Pipe!Ordered
  BY DEF Proved!Ordered, Pipe!Ordered, Proved!Before, Pipe!Before
<1>8. Pipe!Spec => Proved!Spec
  BY <1>3, <1>6, PTL DEF Pipe!Spec, Proved!Spec
<1>. QED BY <1>2, <1>7, <1>8, EngineImplementsPipe, PTL DEF ImplementsPipe

(* Each time CallVoidMethod calls onFrame, the picture it is given was     *)
(* sent by the camera after the one that onFrame was given last, as far as *)
(* MaxStamp lets the numbers tell: over restarts of the preview, dropped   *)
(* pictures and failed conversions.                                        *)
THEOREM CallbackInOrder ==
    ASSUME EagerStop = FALSE, MaxStamp # 0
    PROVE  Spec => [][\A t \in CapThreads : CapInvoke(t) =>
                         delivered < delivered' \/ delivered' = MaxStamp]_vars
<1>. DEFINE Step == \A t \in CapThreads : CapInvoke(t) =>
                       delivered < delivered' \/ delivered' = MaxStamp
<1>1. ASSUME IInv, Stages, Numbered, Pipe!Ordered,
             NEW t \in CapThreads, CapInvoke(t)
      PROVE  delivered < delivered' \/ delivered' = MaxStamp
  <2>1. cap[t].pc = "invoke" /\ delivered' = stamp[hold[Frame(t)]]
    BY <1>1 DEF CapInvoke, At
  <2>2. \A u \in CapThreads \ {t} : cap[u].pc = "none"
    BY <1>1, <2>1 DEF Stages
  <2>3. Taken = {t}
    BY <2>1, <2>2 DEF Taken, At
  <2>4. PipeTaken = Stamp(Frame(t))
    BY <2>3, ChooseOne DEF PipeTaken
  <2>5. PipeTaken # 0 /\ hold[Frame(t)] # NULL
    BY <1>1, <2>1, <2>4
       DEF Numbered, CapNumbered, InPipe, IInv, FramesAtHand, CapAtHand
  <2>6. delivered' = PipeTaken
    BY <2>1, <2>4, <2>5 DEF Stamp
  <2>. QED BY <1>1, <2>5, <2>6 DEF Pipe!Ordered, Pipe!Before
<1>2. IInv /\ Stages /\ Numbered /\ Pipe!Ordered => [Step]_vars
  BY <1>1
<1>. HIDE DEF Step
<1>3. Spec => [][Step]_vars
  BY <1>2, Numbering, PipeOrdered, PTL
<1>. QED BY <1>3 DEF Step

=============================================================================
