-------------------------- MODULE UVCPreviewProofs --------------------------
(***************************************************************************)
(* Proofs about UVCPreview, for every number of frames, threads, callers,  *)
(* callbacks and windows and every size of the preview queue.              *)
(***************************************************************************)
EXTENDS UVCPreview, TLAPS, FiniteSetTheorems

-----------------------------------------------------------------------------
(* Frames                                                                  *)

\* The pointer variables of the program are different variables.
LEMMA PointersDistinct ==
    /\ {QUEU, COPY, MJPEG, FRAME, DRAWN} \subseteq Pointers
    /\ QUEU # COPY /\ QUEU # MJPEG /\ QUEU # FRAME /\ QUEU # DRAWN
    /\ COPY # MJPEG /\ COPY # FRAME /\ COPY # DRAWN
    /\ MJPEG # FRAME /\ MJPEG # DRAWN /\ FRAME # DRAWN
    /\ \A t \in CapThreads :
          /\ {Frame(t), Converted(t), CbFrame(t)} \subseteq Pointers
          /\ Frame(t) # Converted(t) /\ Frame(t) # CbFrame(t)
          /\ Converted(t) # CbFrame(t)
          /\ Frame(t) # QUEU /\ Converted(t) # QUEU /\ CbFrame(t) # QUEU
BY ThreadsAssumption, SMT
   DEF Pointers, QUEU, COPY, MJPEG, FRAME, DRAWN, Frame, Converted, CbFrame

\* recycle_frame keeps the pool within FRAME_POOL_SZ.
LEMMA RecycleType ==
    ASSUME StoreType, NEW R \in SUBSET Frames, RecycleAll(R)
    PROVE  /\ pool' \subseteq Frames /\ Cardinality(pool') <= PoolSize
           /\ heap' \subseteq Frames
           /\ stamp' \in [Frames -> 0..MaxStamp]
<1>1. PICK kept \in SUBSET R :
         /\ Cardinality(kept) =
               IF Cardinality(pool) + Cardinality(R) <= PoolSize
               THEN Cardinality(R)
               ELSE IF Cardinality(pool) >= PoolSize THEN 0
                    ELSE PoolSize - Cardinality(pool)
         /\ pool' = pool \cup kept
         /\ heap' = heap \cup (R \ kept)
         /\ stamp' = [f \in Frames |-> IF f \in R THEN 0 ELSE stamp[f]]
  BY DEF RecycleAll
<1>2. IsFiniteSet(pool) /\ IsFiniteSet(kept) /\ IsFiniteSet(R)
  BY FramesAssumption, FS_Subset DEF StoreType
<1>3. /\ Cardinality(pool) \in Nat /\ Cardinality(kept) \in Nat
      /\ Cardinality(R) \in Nat /\ Cardinality(pool \cap kept) \in Nat
  BY <1>2, FS_CardinalityType, FS_Intersection
<1>4. Cardinality(pool') = Cardinality(pool) + Cardinality(kept)
                           - Cardinality(pool \cap kept)
  BY <1>1, <1>2, FS_Union
<1>5. Cardinality(pool') <= PoolSize
  BY <1>1, <1>3, <1>4, SizesAssumption DEF StoreType, PoolSize
<1>6. stamp' \in [Frames -> 0..MaxStamp]
  BY <1>1, SizesAssumption DEF StoreType
<1> QED BY <1>1, <1>5, <1>6 DEF StoreType

LEMMA GetType ==
    ASSUME StoreType, NEW p \in Pointers, NEW n \in 0..MaxStamp, GetFrame(p, n)
    PROVE  /\ pool' \subseteq Frames /\ Cardinality(pool') <= PoolSize
           /\ heap' \subseteq Frames
           /\ stamp' \in [Frames -> 0..MaxStamp]
           /\ hold' \in [Pointers -> Frames \cup {NULL}]
<1>1. /\ pool' \subseteq pool /\ heap' \subseteq heap
      /\ stamp' \in [Frames -> 0..MaxStamp]
      /\ hold' \in [Pointers -> Frames \cup {NULL}]
  BY DEF GetFrame, StoreType
<1>2. IsFiniteSet(pool)
  BY FramesAssumption, FS_Subset DEF StoreType
<1>3. /\ Cardinality(pool') \in Nat /\ Cardinality(pool) \in Nat
      /\ Cardinality(pool') <= Cardinality(pool)
  BY <1>1, <1>2, FS_Subset, FS_CardinalityType
<1> QED BY <1>1, <1>3, SizesAssumption DEF StoreType, PoolSize

\* So it does when frames are taken from it, and the rest keeps its type.
LEMMA StoreGet ==
    ASSUME StoreType, FrameOwnership, NEW p \in Pointers,
           NEW n \in 0..MaxStamp, GetFrame(p, n), UNCHANGED previewFrames
    PROVE  /\ StoreType' /\ FrameOwnership'
           /\ \A q \in Pointers \ {p} : hold'[q] = hold[q]
<1>1. StoreType'
  BY GetType DEF StoreType
<1>2. CASE UNCHANGED <<hold, stamp, pool, heap>>
  BY <1>1, <1>2 DEF FrameOwnership, Held, Queued
<1>3. ASSUME NEW f \in pool \cup heap,
             hold' = [hold EXCEPT ![p] = f],
             pool' = pool \ {f}, heap' = heap \ {f}
      PROVE  FrameOwnership' /\ \A q \in Pointers \ {p} : hold'[q] = hold[q]
  <2>1. f \in Frames /\ f # NULL /\ f \notin Held /\ f \notin Queued
    BY NullAssumption DEF StoreType, FrameOwnership
  <2>2. /\ hold'[p] = f
        /\ \A q \in Pointers \ {p} : hold'[q] = hold[q] /\ hold[q] # f
    BY <1>3, <2>1 DEF StoreType, Held
  <2>3. Queued' = Queued /\ Held' \subseteq Held \cup {f}
    BY <1>3, <2>2 DEF Queued, Held
  <2> QED BY <1>3, <2>1, <2>2, <2>3 DEF FrameOwnership
<1> QED BY <1>1, <1>2, <1>3 DEF GetFrame

\* The recycled frames are in the pool or on the heap, none in both.
LEMMA RecycleOwn ==
    ASSUME NEW R \in SUBSET Frames, RecycleAll(R),
           R \cap (pool \cup heap) = {}, pool \cap heap = {}
    PROVE  pool' \cup heap' = pool \cup heap \cup R /\ pool' \cap heap' = {}
BY DEF RecycleAll

\* A pointer's frame is recycled and another pointer's frame, or none, takes
\* its place.
LEMMA StoreReplace ==
    ASSUME StoreType, FrameOwnership, NEW p \in Pointers, NEW q \in Pointers,
           RecycleAll({hold[q]} \ {NULL}), UNCHANGED previewFrames,
           \/ p # q /\ hold' = [hold EXCEPT ![q] = hold[p], ![p] = NULL]
           \/ p = q /\ hold' = [hold EXCEPT ![q] = NULL]
    PROVE  /\ StoreType' /\ FrameOwnership'
           /\ \A r \in Pointers \ {p, q} : hold'[r] = hold[r]
           /\ p # q => hold'[q] = hold[p]
<1> DEFINE R == {hold[q]} \ {NULL}
<1>1. R \in SUBSET Frames
  BY DEF StoreType
<1>2. hold' \in [Pointers -> Frames \cup {NULL}]
  BY DEF StoreType
<1>3. StoreType'
  BY <1>1, <1>2, RecycleType DEF StoreType
<1>4. R \subseteq Held
  BY DEF Held
<1>5. pool' \cup heap' = pool \cup heap \cup R /\ pool' \cap heap' = {}
  <2>1. R \cap (pool \cup heap) = {} /\ pool \cap heap = {}
    BY <1>4 DEF FrameOwnership
  <2> HIDE DEF R
  <2> QED BY <1>1, <2>1, RecycleOwn DEF R
<1>6. /\ \A r \in Pointers \ {p, q} : hold'[r] = hold[r]
      /\ p # q => hold'[q] = hold[p] /\ hold'[p] = NULL
      /\ p = q => hold'[q] = NULL
  BY DEF StoreType
<1>7. Queued' = Queued
  BY DEF Queued
<1>8. Held' \subseteq Held /\ hold[q] \notin Held'
  BY <1>6 DEF Held, FrameOwnership
<1>9. \A r, u \in Pointers : hold'[r] = hold'[u] /\ hold'[r] # NULL => r = u
  BY <1>6 DEF FrameOwnership
<1>10. (pool' \cup heap') \cap (Held' \cup Queued') = {}
  BY <1>4, <1>5, <1>7, <1>8 DEF FrameOwnership
<1> QED BY <1>3, <1>5, <1>6, <1>7, <1>8, <1>9, <1>10 DEF FrameOwnership

LEMMA StoreRecycle ==
    ASSUME StoreType, FrameOwnership, NEW p \in Pointers, Recycle(p),
           UNCHANGED previewFrames
    PROVE  /\ StoreType' /\ FrameOwnership'
           /\ \A r \in Pointers \ {p} : hold'[r] = hold[r]
<1>1. RecycleAll({hold[p]} \ {NULL}) /\ hold' = [hold EXCEPT ![p] = NULL]
  BY DEF Recycle
<1>2. /\ StoreType' /\ FrameOwnership'
      /\ \A r \in Pointers \ {p, p} : hold'[r] = hold[r]
  BY <1>1, StoreReplace, Zenon
<1> QED BY <1>2

\* Frames that move between pointers and the queue.
LEMMA StoreMove ==
    ASSUME StoreType, FrameOwnership, NEW p \in Pointers, NEW q \in Pointers,
           p # q, UNCHANGED <<previewFrames, pool, heap, stamp>>,
           \/ hold' = [hold EXCEPT ![q] = hold[p], ![p] = NULL]
           \/ hold' = [hold EXCEPT ![p] = NULL]
    PROVE  /\ StoreType' /\ FrameOwnership'
           /\ \A r \in Pointers \ {p, q} : hold'[r] = hold[r]
<1>1. StoreType'
  BY DEF StoreType
<1>2. /\ \A r \in Pointers \ {p, q} : hold'[r] = hold[r]
      /\ hold'[p] = NULL
      /\ hold'[q] = hold[p] \/ hold'[q] = hold[q]
  BY DEF StoreType
<1>3. Held' \subseteq Held /\ Queued' = Queued
  BY <1>2 DEF Held, Queued
<1> QED BY <1>1, <1>2, <1>3 DEF FrameOwnership

LEMMA StoreTake ==
    ASSUME StoreType, FrameOwnership, NEW p \in Pointers, previewFrames # <<>>,
           hold' = [hold EXCEPT ![p] = Head(previewFrames)],
           previewFrames' = Tail(previewFrames), UNCHANGED <<pool, heap, stamp>>
    PROVE  /\ StoreType' /\ FrameOwnership' /\ hold'[p] # NULL
           /\ \A r \in Pointers \ {p} : hold'[r] = hold[r]
<1> DEFINE h == Head(previewFrames)
<1>1. /\ h \in Frames /\ h \in Queued /\ h = previewFrames[1]
      /\ Len(previewFrames) \in Nat \ {0}
      /\ previewFrames' \in Seq(Frames)
      /\ Len(previewFrames') = Len(previewFrames) - 1
      /\ \A i \in DOMAIN previewFrames' :
            i + 1 \in DOMAIN previewFrames /\ previewFrames'[i] = previewFrames[i + 1]
  BY DEF StoreType, Queued
<1>2. StoreType'
  BY <1>1, SizesAssumption DEF StoreType
<1>3. \A i, j \in DOMAIN previewFrames' :
         previewFrames'[i] = previewFrames'[j] => i = j
  BY <1>1 DEF FrameOwnership
<1>4. Queued' \subseteq Queued /\ h \notin Queued'
  BY <1>1 DEF Queued, FrameOwnership
<1>5. hold'[p] = h /\ h # NULL /\ \A r \in Pointers \ {p} : hold'[r] = hold[r]
  BY <1>1, NullAssumption DEF StoreType
<1>6. Held' \subseteq Held \cup {h} /\ h \notin Held
  BY <1>1, <1>5 DEF Held, FrameOwnership
<1>7. \A r, u \in Pointers : hold'[r] = hold'[u] /\ hold'[r] # NULL => r = u
  BY <1>5, <1>6 DEF Held, FrameOwnership
<1> HIDE DEF h
<1>8. Held' \cap Queued' = {}
  BY <1>4, <1>6 DEF FrameOwnership
<1>9. (pool' \cup heap') \cap (Held' \cup Queued') = {} /\ pool' \cap heap' = {}
  BY <1>1, <1>4, <1>6 DEF FrameOwnership
<1> QED BY <1>2, <1>3, <1>5, <1>7, <1>8, <1>9 DEF FrameOwnership

LEMMA StoreAdd ==
    ASSUME StoreType, FrameOwnership, NEW p \in Pointers, hold[p] # NULL,
           Len(previewFrames) < MaxFrame,
           previewFrames' = Append(previewFrames, hold[p]),
           hold' = [hold EXCEPT ![p] = NULL], UNCHANGED <<pool, heap, stamp>>
    PROVE  /\ StoreType' /\ FrameOwnership'
           /\ \A r \in Pointers \ {p} : hold'[r] = hold[r]
<1> DEFINE f == hold[p]
<1>1. f \in Frames /\ f \in Held /\ f \notin Queued
  BY DEF StoreType, Held, FrameOwnership
<1>2. /\ previewFrames' \in Seq(Frames)
      /\ Len(previewFrames') = Len(previewFrames) + 1
      /\ \A i \in DOMAIN previewFrames' :
            \/ i \in DOMAIN previewFrames /\ previewFrames'[i] = previewFrames[i]
            \/ i = Len(previewFrames) + 1 /\ previewFrames'[i] = f
  BY <1>1 DEF StoreType
<1>3. StoreType'
  BY <1>2, SizesAssumption DEF StoreType
<1>4. \A i, j \in DOMAIN previewFrames' :
         previewFrames'[i] = previewFrames'[j] => i = j
  BY <1>1, <1>2 DEF FrameOwnership, Queued
<1>5. Queued' \subseteq Queued \cup {f}
  BY <1>2 DEF Queued
<1>6. hold'[p] = NULL /\ \A r \in Pointers \ {p} : hold'[r] = hold[r]
  BY DEF StoreType
<1>7. Held' \subseteq Held /\ f \notin Held'
  BY <1>6 DEF Held, FrameOwnership
<1>8. \A r, u \in Pointers : hold'[r] = hold'[u] /\ hold'[r] # NULL => r = u
  BY <1>6 DEF FrameOwnership
<1> HIDE DEF f
<1>9. Held' \cap Queued' = {}
  BY <1>5, <1>7 DEF FrameOwnership
<1>10. (pool' \cup heap') \cap (Held' \cup Queued') = {} /\ pool' \cap heap' = {}
  BY <1>1, <1>5, <1>7 DEF FrameOwnership
<1> QED BY <1>3, <1>4, <1>6, <1>8, <1>9, <1>10 DEF FrameOwnership

LEMMA StoreClear ==
    ASSUME StoreType, FrameOwnership, ClearQueue, UNCHANGED hold
    PROVE  StoreType' /\ FrameOwnership'
<1>1. Queued \in SUBSET Frames
  BY DEF Queued, StoreType
<1>2. StoreType'
  BY <1>1, RecycleType, SizesAssumption DEF StoreType, ClearQueue
<1>3. pool' \cup heap' = pool \cup heap \cup Queued /\ pool' \cap heap' = {}
  BY <1>1, RecycleOwn DEF ClearQueue, FrameOwnership
<1>4. Held' = Held /\ Queued' = {} /\ previewFrames' = <<>>
  BY DEF Held, Queued, ClearQueue
<1> QED BY <1>2, <1>3, <1>4 DEF FrameOwnership

\* The destructor frees what is in the pool, in the queue and latest.
LEMMA StoreFree ==
    ASSUME StoreType, FrameOwnership, FreeFrames
    PROVE  /\ StoreType' /\ FrameOwnership'
           /\ \A r \in Pointers \ {QUEU} : hold'[r] = hold[r]
<1>. DEFINE freed == pool \cup Queued \cup ({hold[QUEU]} \ {NULL})
<1>1. QUEU \in Pointers /\ freed \in SUBSET Frames
  BY DEF Pointers, StoreType, Queued
<1>2. /\ hold' \in [Pointers -> Frames \cup {NULL}]
      /\ hold'[QUEU] = NULL
      /\ \A r \in Pointers \ {QUEU} : hold'[r] = hold[r]
  BY <1>1 DEF FreeFrames, StoreType
<1>3. stamp' \in [Frames -> 0..MaxStamp]
  BY <1>1, SizesAssumption DEF FreeFrames, StoreType
<1>4. Cardinality(pool') <= PoolSize
  BY FS_EmptySet, SizesAssumption DEF FreeFrames, PoolSize
<1>5. StoreType'
  BY <1>1, <1>2, <1>3, <1>4, SizesAssumption DEF FreeFrames, StoreType
<1>6. Held' \subseteq Held /\ hold[QUEU] \notin Held' /\ Queued' = {}
  BY <1>1, <1>2 DEF Held, Queued, FreeFrames, FrameOwnership
<1>7. (pool' \cup heap') \cap Held' = {}
  BY <1>6 DEF FreeFrames, FrameOwnership
<1>8. \A p, q \in Pointers : hold'[p] = hold'[q] /\ hold'[p] # NULL => p = q
  BY <1>2 DEF FrameOwnership
<1>9. previewFrames' = <<>> /\ pool' = {}
  BY DEF FreeFrames
<1>. QED BY <1>2, <1>5, <1>6, <1>7, <1>8, <1>9 DEF FrameOwnership

-----------------------------------------------------------------------------
(* Types                                                                   *)

\* The program counters and the calls of the Java callers.
LEMMA CallerMoves ==
    ASSUME caller \in [Callers -> CallerRec], NEW c \in Callers
    PROVE  /\ caller[c] \in CallerRec /\ caller[c].arg \in Targets
           /\ \A l \in CallerPc : Goto(c, l) => caller' \in [Callers -> CallerRec]
           /\ Return(c) => caller' \in [Callers -> CallerRec]
           /\ \A o \in Op, a \in Targets, l \in CallerPc :
                 Call(c, o, a, l) => caller' \in [Callers -> CallerRec]
<1>1. caller[c] \in CallerRec /\ caller[c].arg \in Targets
  BY DEF CallerRec
<1>2. ASSUME NEW l \in CallerPc, Goto(c, l) PROVE caller' \in [Callers -> CallerRec]
  <2>1. [caller[c] EXCEPT !.pc = l] \in CallerRec
    BY <1>1, <1>2 DEF CallerRec
  <2> QED BY <2>1, <1>2 DEF Goto
<1>3. [pc |-> "idle", op |-> "none", arg |-> NULL] \in CallerRec
  BY DEF CallerRec, CallerPc, Op, Targets
<1>4. ASSUME NEW o \in Op, NEW a \in Targets, NEW l \in CallerPc, Call(c, o, a, l)
      PROVE caller' \in [Callers -> CallerRec]
  <2>1. [pc |-> l, op |-> o, arg |-> a] \in CallerRec
    BY DEF CallerRec
  <2> QED BY <2>1, <1>4 DEF Call
<1>5. Return(c) => caller' \in [Callers -> CallerRec]
  BY <1>3 DEF Return
<1> QED BY <1>1, <1>2, <1>4, <1>5

\* The strings that callers' steps go to.
LEMMA CallerPcs ==
    /\ {"spawn", "spawnFailed", "enter", "handshake", "waiting", "replace",
        "assign", "format", "converter", "window", "releaseWindow",
        "storeWindow", "stop", "signalPreview", "signalCapture",
        "joinCapture", "joinPreview", "clearPreview", "clearCapture",
        "closePreview", "closeCapture", "delete"} \subseteq CallerPc
    /\ {"start", "callback", "capture"} \cup Stops \subseteq Op /\ "none" \in Op
    /\ NULL \in Targets /\ Callbacks \subseteq Targets /\ Windows \subseteq Targets
BY DEF CallerPc, Op, Targets

\* The program counters of the capture threads.
LEMMA CapMoves ==
    ASSUME cap \in [CapThreads -> CapRec], NEW t \in CapThreads
    PROVE  /\ cap[t] \in CapRec
           /\ \A l \in CapPc :
                 /\ [cap EXCEPT ![t].pc = l] \in [CapThreads -> CapRec]
                 /\ \A b \in BOOLEAN :
                       [cap EXCEPT ![t].pc = l, ![t].surface = b]
                          \in [CapThreads -> CapRec]
                 /\ \A w \in Targets :
                       [cap EXCEPT ![t].pc = l, ![t].use = w]
                          \in [CapThreads -> CapRec]
<1>1. cap[t] \in CapRec
  OBVIOUS
<1>2. ASSUME NEW l \in CapPc PROVE [cap[t] EXCEPT !.pc = l] \in CapRec
  BY <1>1 DEF CapRec
<1>3. ASSUME NEW l \in CapPc, NEW b \in BOOLEAN
      PROVE [cap[t] EXCEPT !.pc = l, !.surface = b] \in CapRec
  BY <1>1 DEF CapRec
<1>4. ASSUME NEW l \in CapPc, NEW w \in Targets
      PROVE [cap[t] EXCEPT !.pc = l, !.use = w] \in CapRec
  BY <1>1 DEF CapRec
<1> QED BY <1>1, <1>2, <1>3, <1>4

LEMMA CapPcs ==
    {"none", "clear", "format", "loop", "choose", "inner", "wait", "waiting",
     "surface", "blit", "post", "callback", "getOut", "convert", "invoke", "inCallback",
     "recycle", "closing", "release", "null", "broadcast", "exited"}
    \subseteq CapPc
BY DEF CapPc

\* A caller's step that leaves the frames alone keeps the types.
LEMMA CallerType ==
    ASSUME TypeOK, NEW c \in Callers,
           \/ Request(c)
           \/ /\ CallerStep(c)
              /\ ~StopClearPreview(c) /\ ~StopClearCapture(c) /\ ~DeletePreview(c)
    PROVE  TypeOK'
<1> USE CallerMoves, CallerPcs
    DEF TypeOK, TargetType, StoreType, SyncType, ThreadType,
        flags, targets, store, sync, world, threads
<1>1. CASE SetPreviewDisplay(c)
  BY <1>1, FlagsAssumption DEF SetPreviewDisplay
<1>2. CASE StartPreview(c)
  BY <1>2 DEF StartPreview
<1>3. CASE StopPreview(c)
  BY <1>3 DEF StopPreview
<1>23. CASE SetPreviewSize(c)
  BY <1>23, FlagsAssumption DEF SetPreviewSize
<1>4. CASE SetFrameCallback(c)
  <2>1. PICK r \in (Callbacks \ live) \cup {NULL} :
             Call(c, "callback", r, "enter") /\ live' = live \cup ({r} \ {NULL})
    BY <1>4 DEF SetFrameCallback
  <2>2. r \in Targets
    BY DEF Targets
  <2>3. caller' \in [Callers -> CallerRec]
    BY <2>1, <2>2
  <2>. QED BY <1>4, <2>1, <2>3 DEF SetFrameCallback
<1>5. CASE SetCaptureDisplay(c)
  <2>1. PICK w \in (Windows \ live) \cup {NULL} :
             Call(c, "capture", w, "enter") /\ live' = live \cup ({w} \ {NULL})
    BY <1>5 DEF SetCaptureDisplay
  <2>2. w \in Targets
    BY DEF Targets
  <2>3. caller' \in [Callers -> CallerRec]
    BY <2>1, <2>2
  <2>. QED BY <1>5, <2>1, <2>3 DEF SetCaptureDisplay
<1>6. CASE SpawnPreview(c)
  BY <1>6 DEF SpawnPreview, PrevPc
<1>7. CASE StartFailed(c)
  BY <1>7 DEF StartFailed, SignalPreview
<1>8. CASE EnterSetter(c)
  <2>1. TargetType' BY <1>8 DEF EnterSetter
  <2>2. StoreType' BY <1>8 DEF EnterSetter
  <2>3. SyncType' BY <1>8 DEF EnterSetter, Then, SignalCapture
  <2>4. ThreadType' BY <1>8 DEF EnterSetter, Then, SignalCapture
  <2> QED BY <2>1, <2>2, <2>3, <2>4
<1>9. CASE Handshake(c)
  BY <1>9 DEF Handshake
<1>10. CASE HandshakeDone(c)
  BY <1>10 DEF HandshakeDone, Then
<1>11. CASE ReplaceCallback(c)
  BY <1>11 DEF ReplaceCallback
<1>12. CASE AssignCallback(c)
  BY <1>12 DEF AssignCallback
<1>13. CASE ClearFormat(c)
  <2>1. TargetType' BY <1>13 DEF ClearFormat
  <2>2. StoreType' BY <1>13 DEF ClearFormat
  <2>3. SyncType' BY <1>13 DEF ClearFormat
  <2>4. ThreadType' BY <1>13 DEF ClearFormat
  <2> QED BY <2>1, <2>2, <2>3, <2>4
<1>14. CASE SetFormat(c)
  <2>1. TargetType'
    <3>1. callbackFunc' \in BOOLEAN BY <1>14, FlagsAssumption DEF SetFormat
    <3> QED BY <3>1, <1>14 DEF SetFormat
  <2>2. StoreType' BY <1>14 DEF SetFormat
  <2>3. SyncType' BY <1>14 DEF SetFormat
  <2>4. ThreadType' BY <1>14 DEF SetFormat
  <2> QED BY <2>1, <2>2, <2>3, <2>4
<1>15. CASE CompareWindow(c) \/ ReleaseWindow(c) \/ AssignWindow(c)
  <2>1. CASE CompareWindow(c)
    BY <2>1 DEF CompareWindow
  <2>2. CASE ReleaseWindow(c)
    BY <2>2 DEF ReleaseWindow
  <2>3. CASE AssignWindow(c)
    BY <2>3 DEF AssignWindow
  <2> QED BY <1>15, <2>1, <2>2, <2>3
<1>16. CASE StopFlag(c)
  <2>1. TargetType' BY <1>16 DEF StopFlag
  <2>2. StoreType' BY <1>16 DEF StopFlag
  <2>3. SyncType' BY <1>16 DEF StopFlag
  <2>4. ThreadType' BY <1>16 DEF StopFlag
  <2> QED BY <2>1, <2>2, <2>3, <2>4
<1>17. CASE StopSignalPreview(c)
  <2>1. TargetType' BY <1>17 DEF StopSignalPreview
  <2>2. StoreType' BY <1>17 DEF StopSignalPreview
  <2>3. SyncType' BY <1>17 DEF StopSignalPreview, SignalPreview
  <2>4. ThreadType' BY <1>17 DEF StopSignalPreview, SignalPreview
  <2> QED BY <2>1, <2>2, <2>3, <2>4
<1>18. CASE StopSignalCapture(c)
  BY <1>18 DEF StopSignalCapture, SignalCapture
<1>19. CASE JoinCapture(c)
  <2>1. TargetType' BY <1>19 DEF JoinCapture
  <2>2. StoreType' BY <1>19 DEF JoinCapture
  <2>3. SyncType' BY <1>19 DEF JoinCapture
  <2>4. ThreadType'
    <3>1. cap' \in [CapThreads -> CapRec]
      <4>1. CASE ~Joinable(captureThread)
        BY <4>1, <1>19 DEF JoinCapture
      <4>2. CASE Joinable(captureThread)
        <5>1. captureThread \in CapThreads
          BY <4>2 DEF Joinable
        <5>2. cap' = [cap EXCEPT ![captureThread].pc = "none"]
          BY <4>2, <1>19 DEF JoinCapture
        <5> QED BY <5>1, <5>2, CapMoves, CapPcs
      <4> QED BY <4>1, <4>2
    <3> QED BY <3>1, <1>19 DEF JoinCapture
  <2> QED BY <2>1, <2>2, <2>3, <2>4
<1>20. CASE JoinPreview(c)
  BY <1>20 DEF JoinPreview, PrevPc
<1>21. CASE StopClosePreview(c)
  <2>1. TargetType' BY <1>21 DEF StopClosePreview
  <2>2. StoreType' BY <1>21 DEF StopClosePreview
  <2>3. SyncType' BY <1>21 DEF StopClosePreview
  <2>4. ThreadType' BY <1>21 DEF StopClosePreview
  <2> QED BY <2>1, <2>2, <2>3, <2>4
<1>22. CASE StopCloseCapture(c)
  BY <1>22 DEF StopCloseCapture
<1> QED BY <1>1, <1>2, <1>3, <1>4, <1>5, <1>6, <1>7, <1>8, <1>9, <1>10, <1>11, <1>12,
           <1>13, <1>14, <1>15, <1>16, <1>17, <1>18, <1>19, <1>20, <1>21, <1>22, <1>23
      DEF Request, CallerStep

\* So does a step of the capture thread that leaves them alone.
LEMMA CapTypeStays ==
    ASSUME TypeOK, cap' \in [CapThreads -> CapRec],
           UNCHANGED <<flags, targets, store, sync, world, uvc, prev, caller>>
    PROVE  TypeOK'
BY DEF TypeOK, TargetType, StoreType, SyncType, ThreadType,
       flags, targets, store, sync, world

LEMMA CapType ==
    ASSUME TypeOK, NEW t \in CapThreads,
           \/ CapFormat(t) \/ CapLoop(t) \/ CapChoose(t) \/ CapInner(t)
           \/ CapWait(t) \/ CapBlit(t) \/ CapPost(t) \/ CapCallback(t)
           \/ CapReturn(t) \/ CapRelease(t) \/ CapNull(t) \/ CapBroadcast(t)
    PROVE  TypeOK'
<1> USE CapMoves, CapPcs, CallerPcs
    DEF TypeOK, TargetType, StoreType, SyncType, ThreadType, CapGoto,
        flags, targets, store, sync, world, threads
<1>1. CASE CapLoop(t)
  <2>1. cap' \in [CapThreads -> CapRec]
    <3>1. CASE running
      <4>1. CapGoto(t, "choose")
        BY <1>1, <3>1 DEF CapLoop
      <4> QED BY <4>1
    <3>2. CASE ~running
      <4>1. CapGoto(t, "exited")
        BY <1>1, <3>2 DEF CapLoop
      <4> QED BY <4>1
    <3> QED BY <3>1, <3>2
  <2>2. capturing' \in BOOLEAN
    BY <1>1 DEF CapLoop
  <2> QED BY <1>1, <2>1, <2>2 DEF CapLoop
<1>2. CASE CapInner(t)
  <2>1. cap' \in [CapThreads -> CapRec]
    BY <1>2 DEF CapInner
  <2> QED BY <1>2, <2>1, CapTypeStays DEF CapInner
<1>3. CASE CapWait(t)
  <2>1. cap' \in [CapThreads -> CapRec]
    BY <1>3 DEF CapWait
  <2> QED BY <1>3, <2>1 DEF CapWait
<1>4. CASE CapBlit(t)
  <2>1. cap' \in [CapThreads -> CapRec]
    <3>1. CASE CapGoto(t, "callback")
      BY <3>1
    <3>2. CASE cap' = [cap EXCEPT ![t].pc = "post", ![t].use = captureWindow]
      <4>1. captureWindow \in Targets
        OBVIOUS
      <4> QED BY <3>2, <4>1
    <3> QED BY <1>4, <3>1, <3>2 DEF CapBlit
  <2> QED BY <1>4, <2>1, CapTypeStays DEF CapBlit
<1>5. CASE CapPost(t)
  <2>1. cap' \in [CapThreads -> CapRec]
    BY <1>5 DEF CapPost
  <2> QED BY <1>5, <2>1, CapTypeStays DEF CapPost
<1>6. CASE CapCallback(t)
  <2>1. cap' \in [CapThreads -> CapRec]
    BY <1>6 DEF CapCallback
  <2> QED BY <1>6, <2>1, CapTypeStays DEF CapCallback
<1>7. CASE CapReturn(t)
  <2>1. cap' \in [CapThreads -> CapRec]
    BY <1>7 DEF CapReturn
  <2> QED BY <1>7, <2>1, CapTypeStays DEF CapReturn
<1>8. CASE CapRelease(t)
  <2>1. cap' \in [CapThreads -> CapRec]
    BY <1>8 DEF CapRelease
  <2> QED BY <1>8, <2>1, ZenonT(40) DEF CapRelease
<1>9. CASE CapNull(t)
  <2>1. cap' \in [CapThreads -> CapRec]
    BY <1>9 DEF CapNull
  <2> QED BY <1>9, <2>1 DEF CapNull
<1>10. CASE CapBroadcast(t)
  <2>1. cap' \in [CapThreads -> CapRec]
    BY <1>10 DEF CapBroadcast
  <2> QED BY <1>10, <2>1, ZenonT(40) DEF CapBroadcast, BroadcastCapture
<1>11. CASE CapFormat(t)
  <2>1. cap' \in [CapThreads -> CapRec]
    BY <1>11 DEF CapFormat
  <2>2. callbackFunc' \in BOOLEAN
    BY <1>11, FlagsAssumption DEF CapFormat
  <2> QED BY <1>11, <2>1, <2>2 DEF CapFormat
<1>12. CASE CapChoose(t)
  <2>1. cap' \in [CapThreads -> CapRec]
    <3>1. cap' = [cap EXCEPT ![t].pc = "inner", ![t].surface = captureWindow # NULL]
      BY <1>12 DEF CapChoose
    <3> QED BY <3>1
  <2> QED BY <1>12, <2>1, CapTypeStays DEF CapChoose
<1> QED BY <1>1, <1>2, <1>3, <1>4, <1>5, <1>6, <1>7, <1>8, <1>9, <1>10,
           <1>11, <1>12

\* And one of libuvc's thread or the preview thread.
LEMMA PrevType ==
    ASSUME TypeOK,
           \/ UvcPicture \/ PrevPrepare \/ PrevStartStreaming
           \/ PrevSpawnCapture \/ PrevLoop \/ PrevWait \/ PrevSignal
           \/ PrevStopStreaming \/ SpuriousWake
    PROVE  TypeOK'
<1> USE DEF TypeOK, TargetType, StoreType, SyncType, ThreadType,
            flags, targets, store, sync, world, threads
<1>1. CASE UvcPicture
  BY <1>1, SizesAssumption DEF UvcPicture, UvcPc
<1>2. CASE PrevPrepare
  BY <1>2, FlagsAssumption DEF PrevPrepare, PrevPc
<1>3. CASE PrevStartStreaming
  <2>1. prev' \in PrevPc /\ streaming' \in BOOLEAN
    BY <1>3 DEF PrevStartStreaming, PrevPc
  <2> QED BY <1>3, <2>1 DEF PrevStartStreaming
<1>4. CASE PrevSpawnCapture
  <2>1. cap' \in [CapThreads -> CapRec] /\ captureThread' \in CapThreads \cup {NULL}
    <3>1. CASE UNCHANGED <<cap, captureThread>>
      BY <3>1
    <3>2. ASSUME NEW t \in CapThreads, cap' = [cap EXCEPT ![t].pc = "clear"],
                 captureThread' = t
          PROVE  cap' \in [CapThreads -> CapRec] /\ captureThread' \in CapThreads
      BY <3>2, CapMoves, CapPcs
    <3> QED BY <1>4, <3>1, <3>2 DEF PrevSpawnCapture
  <2>2. prev' \in PrevPc
    BY <1>4 DEF PrevSpawnCapture, PrevPc
  <2> QED BY <1>4, <2>1, <2>2 DEF PrevSpawnCapture
<1>5. CASE PrevLoop
  BY <1>5 DEF PrevLoop, PrevPc
<1>6. CASE PrevWait
  BY <1>6 DEF PrevWait, PrevPc
<1>7. CASE PrevSignal
  BY <1>7 DEF PrevSignal, SignalCapture, PrevPc
<1>8. CASE PrevStopStreaming
  BY <1>8 DEF PrevStopStreaming, PrevPc
<1>9. CASE SpuriousWake
  <2>1. SyncType'
    BY <1>9 DEF SpuriousWake
  <2> QED BY <1>9, <2>1 DEF SpuriousWake
<1> QED BY <1>1, <1>2, <1>3, <1>4, <1>5, <1>6, <1>7, <1>8, <1>9

-----------------------------------------------------------------------------
(* The inductive invariant.  TypeOK alone is not inductive: that a frame   *)
(* appended to the queue or recycled is a frame and not NULL follows from  *)
(* FramesAtHand, and that the pool does not outgrow FRAME_POOL_SZ and no   *)
(* frame is recycled twice from FrameOwnership.                            *)
IInv == TypeOK /\ FrameOwnership /\ FramesAtHand

\* The locals of one capture thread are not those of another.
LEMMA ThreadPointers ==
    \A t, u \in CapThreads : t # u =>
       {Frame(t), Converted(t), CbFrame(t)}
          \cap {Frame(u), Converted(u), CbFrame(u)} = {}
BY SMT DEF Frame, Converted, CbFrame

\* Nor those of the other threads.
LEMMA CapPointers ==
    \A t \in CapThreads :
       {Frame(t), Converted(t), CbFrame(t)}
          \cap {QUEU, COPY, MJPEG, FRAME, DRAWN} = {}
BY ThreadsAssumption, SMT
   DEF Frame, Converted, CbFrame, QUEU, COPY, MJPEG, FRAME, DRAWN

\* A thread keeps its frames while it stands still and nobody touches them.
LEMMA CapUndisturbed ==
    ASSUME NEW t \in CapThreads, CapAtHand(t), cap'[t].pc = cap[t].pc,
           \A r \in {Frame(t), Converted(t), CbFrame(t)} : hold'[r] = hold[r]
    PROVE  CapAtHand(t)'
BY DEF CapAtHand, Frame, Converted, CbFrame

LEMMA CapsUndisturbed ==
    ASSUME FramesAtHand, UNCHANGED cap,
           \A r \in Pointers \ {QUEU, COPY, MJPEG, FRAME, DRAWN} :
              hold'[r] = hold[r]
    PROVE  \A t \in CapThreads : CapAtHand(t)'
<1> TAKE t \in CapThreads
<1>1. \A r \in {Frame(t), Converted(t), CbFrame(t)} : hold'[r] = hold[r]
  BY CapPointers, PointersDistinct
<1> QED BY <1>1, CapUndisturbed DEF FramesAtHand

\* Whoever lets go of nothing keeps what it has.
LEMMA OwnershipStays ==
    ASSUME FrameOwnership, UNCHANGED store
    PROVE  FrameOwnership'
BY DEF FrameOwnership, Held, Queued, store

\* libuvc's callback thread.
LEMMA UvcKeeps == IInv /\ (UvcPicture \/ UvcStep) => IInv'
<1> SUFFICES ASSUME IInv, UvcPicture \/ UvcStep PROVE IInv'
  OBVIOUS
<1> USE DEF IInv
<1>c. COPY \in Pointers /\ COPY # MJPEG /\ COPY # FRAME /\ COPY # DRAWN
  BY PointersDistinct
<1>1. CASE UvcPicture
  <2>1. TypeOK' BY <1>1, PrevType
  <2>2. UNCHANGED <<store, prev, cap>> /\ uvc' = "get"
    BY <1>1 DEF UvcPicture
  <2>3. FramesAtHand'
    BY <2>2 DEF FramesAtHand, UvcAtHand, PrevAtHand, CapAtHand, store
  <2> QED BY <2>1, <2>2, <2>3, OwnershipStays
<1>2. CASE UvcCopy
  <2>1. /\ GetFrame(COPY, sent) /\ UNCHANGED previewFrames
        /\ uvc' \in IF hold'[COPY] = NULL THEN {"idle"} ELSE {"add", "recycle"}
        /\ UNCHANGED <<flags, targets, sync, world, prev, cap, caller>>
    BY <1>2 DEF UvcCopy
  <2>2. sent \in 0..MaxStamp
    BY DEF TypeOK, ThreadType
  <2>3. /\ StoreType' /\ FrameOwnership'
        /\ \A q \in Pointers \ {COPY} : hold'[q] = hold[q]
    BY <1>c, <2>1, <2>2, StoreGet DEF TypeOK
  <2>4. TypeOK'
    <3>1. uvc' \in UvcPc BY <2>1 DEF UvcPc
    <3> QED BY <2>1, <2>3, <3>1
        DEF TypeOK, TargetType, SyncType, ThreadType, flags, targets, sync, world
  <2>5. UvcAtHand' /\ PrevAtHand'
    BY <1>c, <2>1, <2>3, PointersDistinct DEF FramesAtHand, UvcAtHand, PrevAtHand
  <2>6. \A t \in CapThreads : CapAtHand(t)'
    BY <1>c, <2>1, <2>3, CapsUndisturbed
  <2> QED BY <2>3, <2>4, <2>5, <2>6 DEF FramesAtHand
<1>3. CASE AddPreviewFrame
  <2>1. /\ uvc = "add"
        /\ uvc' \in {"idle", "recycle"} /\ previewWaits' \in BOOLEAN
        /\ UNCHANGED <<flags, targets, pool, heap, stamp, captureMutex,
                       captureWaits, world, prev, cap, caller>>
    BY <1>3 DEF AddPreviewFrame, SignalPreview, TypeOK, SyncType
  <2>2. hold[COPY] # NULL
    BY <2>1 DEF FramesAtHand, UvcAtHand
  <2>3. /\ StoreType' /\ FrameOwnership'
        /\ uvc' = "recycle" => hold'[COPY] # NULL
        /\ \A q \in Pointers \ {COPY} : hold'[q] = hold[q]
    <3>1. CASE running /\ Room
      <4>1. /\ previewFrames' = Append(previewFrames, hold[COPY])
            /\ hold' = [hold EXCEPT ![COPY] = NULL]
            /\ uvc' = "idle" /\ Len(previewFrames) < MaxFrame
        BY <1>3, <3>1 DEF AddPreviewFrame, Room
      <4> QED BY <1>c, <2>1, <2>2, <4>1, StoreAdd DEF TypeOK
    <3>2. CASE ~(running /\ Room)
      <4>1. UNCHANGED store
        BY <1>3, <3>2, <2>1 DEF AddPreviewFrame, store
      <4> QED BY <2>2, <4>1, OwnershipStays DEF TypeOK, StoreType, store
    <3> QED BY <3>1, <3>2
  <2>4. TypeOK'
    <3>1. uvc' \in UvcPc BY <2>1 DEF UvcPc
    <3> QED BY <2>1, <2>3, <3>1
        DEF TypeOK, TargetType, SyncType, ThreadType, flags, targets, world
  <2>5. UvcAtHand' /\ PrevAtHand'
    BY <1>c, <2>1, <2>2, <2>3, PointersDistinct
       DEF FramesAtHand, UvcAtHand, PrevAtHand
  <2>6. \A t \in CapThreads : CapAtHand(t)'
    BY <1>c, <2>1, <2>3, CapsUndisturbed
  <2> QED BY <2>3, <2>4, <2>5, <2>6 DEF FramesAtHand
<1>4. CASE UvcRecycle
  <2>1. /\ Recycle(COPY) /\ uvc' = "idle"
        /\ UNCHANGED <<flags, targets, previewFrames, sync, world, prev, cap, caller>>
    BY <1>4 DEF UvcRecycle
  <2>2. /\ StoreType' /\ FrameOwnership'
        /\ \A q \in Pointers \ {COPY} : hold'[q] = hold[q]
    BY <1>c, <2>1, StoreRecycle DEF TypeOK
  <2>3. TypeOK'
    <3>1. uvc' \in UvcPc BY <2>1 DEF UvcPc
    <3> QED BY <2>1, <2>2, <3>1
        DEF TypeOK, TargetType, SyncType, ThreadType, flags, targets, sync, world
  <2>4. UvcAtHand' /\ PrevAtHand'
    BY <1>c, <2>1, <2>2, PointersDistinct DEF FramesAtHand, UvcAtHand, PrevAtHand
  <2>5. \A t \in CapThreads : CapAtHand(t)'
    BY <1>c, <2>1, <2>2, CapsUndisturbed
  <2> QED BY <2>2, <2>3, <2>4, <2>5 DEF FramesAtHand
<1> QED BY <1>1, <1>2, <1>3, <1>4 DEF UvcStep

\* The preview thread.  What it does to the frames is one of the lemmas of
\* the first section; the rest of TypeOK is untouched.
LEMMA PrevStore ==
    ASSUME IInv, StoreType', FrameOwnership', PrevAtHand', prev' \in PrevPc,
           captureWaits' \subseteq Callers \cup CapThreads,
           UNCHANGED <<flags, targets, captureMutex, previewWaits, world, uvc,
                       cap, caller>>,
           \A r \in Pointers \ {QUEU, MJPEG, FRAME, DRAWN} : hold'[r] = hold[r]
    PROVE  IInv'
<1>1. TypeOK'
  BY DEF IInv, TypeOK, TargetType, SyncType, ThreadType, flags, targets, world
<1>2. UvcAtHand'
  BY PointersDistinct DEF IInv, FramesAtHand, UvcAtHand
<1>3. \A t \in CapThreads : CapAtHand(t)'
  BY CapsUndisturbed DEF IInv
<1> QED BY <1>1, <1>2, <1>3 DEF IInv, FramesAtHand

LEMMA PrevKeeps == IInv /\ PrevStep => IInv'
<1> SUFFICES ASSUME IInv, PrevStep PROVE IInv'
  OBVIOUS
<1>t. TypeOK /\ StoreType /\ FrameOwnership /\ PrevAtHand /\ SyncType
  BY DEF IInv, TypeOK, FramesAtHand
<1>p. /\ {QUEU, COPY, MJPEG, FRAME, DRAWN} \subseteq Pointers
      /\ QUEU # MJPEG /\ QUEU # FRAME /\ QUEU # DRAWN
      /\ MJPEG # FRAME /\ MJPEG # DRAWN /\ FRAME # DRAWN
  BY PointersDistinct
<1>s. \A r \in Pointers : hold[r] # NULL => stamp[hold[r]] \in 0..MaxStamp
  BY <1>t DEF StoreType
<1>1. CASE \/ PrevPrepare \/ PrevStartStreaming \/ PrevSpawnCapture \/ PrevLoop
           \/ PrevWait \/ PrevSignal \/ PrevStopStreaming
  <2>1. TypeOK' BY <1>1, <1>t, PrevType
  <2>2. /\ UNCHANGED <<store, uvc>>
        /\ prev' \notin {"decode", "decoded", "failed", "draw", "drawn", "add"}
    BY <1>1, <1>t DEF PrevPrepare, PrevStartStreaming, PrevSpawnCapture, PrevLoop,
       PrevWait, PrevSignal, PrevStopStreaming
  <2>3. \A t \in CapThreads : cap'[t].pc = cap[t].pc \/ cap'[t].pc = "clear"
    <3>1. CASE UNCHANGED cap
      BY <3>1
    <3>2. CASE \E t \in CapThreads : cap' = [cap EXCEPT ![t].pc = "clear"]
      BY <1>t, <3>2 DEF TypeOK, ThreadType, CapRec
    <3> QED BY <1>1, <3>1, <3>2 DEF PrevPrepare, PrevStartStreaming,
            PrevSpawnCapture, PrevLoop, PrevWait, PrevSignal, PrevStopStreaming
  <2>4. UvcAtHand' /\ PrevAtHand'
    BY <2>2 DEF IInv, FramesAtHand, UvcAtHand, PrevAtHand, store
  <2>5. \A t \in CapThreads : CapAtHand(t)'
    BY <2>2, <2>3 DEF IInv, FramesAtHand, CapAtHand, store
  <2> QED BY <1>t, <2>1, <2>2, <2>4, <2>5, OwnershipStays DEF IInv, FramesAtHand
<1>2. CASE PrevClear
  <2>1. ClearQueue /\ UNCHANGED hold /\ prev' = "spawn"
    BY <1>2 DEF PrevClear
  <2>2. StoreType' /\ FrameOwnership'
    BY <1>t, <2>1, StoreClear
  <2>3. PrevAtHand' BY <2>1 DEF PrevAtHand
  <2> QED BY <1>2, <2>1, <2>2, <2>3, <1>t, PrevStore
      DEF PrevClear, PrevPc, sync, SyncType
<1>3. CASE PrevTake
  <2>1. CASE running /\ previewFrames # <<>>
    <3> DEFINE p == IF frameMode THEN MJPEG ELSE FRAME
    <3>1. /\ hold' = [hold EXCEPT ![p] = Head(previewFrames)]
          /\ previewFrames' = Tail(previewFrames)
          /\ prev' = IF frameMode THEN "decode" ELSE "draw"
          /\ UNCHANGED <<flags, targets, pool, heap, stamp, sync, world, uvc,
                         cap, caller>>
      BY <1>3, <2>1 DEF PrevTake
    <3>2. p \in Pointers BY <1>p
    <3>3. /\ StoreType' /\ FrameOwnership' /\ hold'[p] # NULL
          /\ \A r \in Pointers \ {p} : hold'[r] = hold[r]
      <4> HIDE DEF p
      <4> QED BY <1>t, <2>1, <3>1, <3>2, StoreTake
    <3>4. PrevAtHand' BY <3>1, <3>3 DEF PrevAtHand
    <3>5. prev' \in PrevPc BY <3>1 DEF PrevPc
    <3>6. \A r \in Pointers \ {QUEU, MJPEG, FRAME, DRAWN} : hold'[r] = hold[r]
      BY <3>3
    <3> QED BY <1>t, <3>1, <3>3, <3>4, <3>5, <3>6, PrevStore DEF sync, SyncType
  <2>2. CASE ~(running /\ previewFrames # <<>>)
    <3>1. /\ UNCHANGED <<store, flags, targets, sync, world, uvc, cap, caller>>
          /\ prev' = "loop"
      BY <1>3, <2>2 DEF PrevTake, store
    <3>2. StoreType' /\ FrameOwnership'
      BY <1>t, <3>1, OwnershipStays DEF StoreType, store
    <3>3. PrevAtHand' BY <3>1 DEF PrevAtHand
    <3> QED BY <1>t, <3>1, <3>2, <3>3, PrevStore DEF sync, SyncType, store, PrevPc
  <2> QED BY <2>1, <2>2
<1>4. CASE PrevDecode
  <2>1. /\ GetFrame(FRAME, stamp[hold[MJPEG]]) /\ UNCHANGED previewFrames
        /\ hold'[FRAME] # NULL /\ prev = "decode" /\ prev' = "decoded"
        /\ UNCHANGED <<flags, targets, sync, world, uvc, cap, caller>>
    BY <1>4 DEF PrevDecode
  <2>2. hold[MJPEG] # NULL BY <1>t, <2>1 DEF PrevAtHand
  <2>3. /\ StoreType' /\ FrameOwnership'
        /\ \A q \in Pointers \ {FRAME} : hold'[q] = hold[q]
    BY <1>t, <1>p, <1>s, <2>1, <2>2, StoreGet
  <2>4. PrevAtHand' BY <1>p, <2>1, <2>2, <2>3 DEF PrevAtHand
  <2> QED BY <1>t, <2>1, <2>3, <2>4, PrevStore DEF sync, SyncType, PrevPc
<1>5. CASE PrevDecoded
  <2>1. /\ Recycle(MJPEG) /\ UNCHANGED previewFrames
        /\ prev = "decoded" /\ prev' \in {"draw", "failed"}
        /\ UNCHANGED <<flags, targets, sync, world, uvc, cap, caller>>
    BY <1>5 DEF PrevDecoded
  <2>2. /\ StoreType' /\ FrameOwnership'
        /\ \A q \in Pointers \ {MJPEG} : hold'[q] = hold[q]
    BY <1>t, <1>p, <2>1, StoreRecycle
  <2>3. PrevAtHand' BY <1>t, <1>p, <2>1, <2>2 DEF PrevAtHand
  <2> QED BY <1>t, <2>1, <2>2, <2>3, PrevStore DEF sync, SyncType, PrevPc
<1>6. CASE PrevDropFailed
  <2>1. /\ Recycle(FRAME) /\ UNCHANGED previewFrames /\ prev' = "loop"
        /\ UNCHANGED <<flags, targets, sync, world, uvc, cap, caller>>
    BY <1>6 DEF PrevDropFailed
  <2>2. /\ StoreType' /\ FrameOwnership'
        /\ \A q \in Pointers \ {FRAME} : hold'[q] = hold[q]
    BY <1>t, <1>p, <2>1, StoreRecycle
  <2>3. PrevAtHand' BY <2>1 DEF PrevAtHand
  <2> QED BY <1>t, <2>1, <2>2, <2>3, PrevStore DEF sync, SyncType, PrevPc
<1>7. CASE PrevDraw
  <2>1. /\ prev = "draw" /\ UNCHANGED previewFrames
        /\ prev' = "add" \/ (prev' = "drawn" /\ hold'[DRAWN] # NULL)
        /\ \/ GetFrame(DRAWN, stamp[hold[FRAME]])
           \/ UNCHANGED <<hold, stamp, pool, heap>>
        /\ UNCHANGED <<flags, targets, sync, world, uvc, cap, caller>>
    BY <1>7 DEF PrevDraw
  <2>2. hold[FRAME] # NULL BY <1>t, <2>1 DEF PrevAtHand
  <2>3. /\ StoreType' /\ FrameOwnership'
        /\ \A q \in Pointers \ {DRAWN} : hold'[q] = hold[q]
    <3>1. CASE GetFrame(DRAWN, stamp[hold[FRAME]])
      BY <1>t, <1>p, <1>s, <2>1, <2>2, <3>1, StoreGet
    <3>2. CASE UNCHANGED <<hold, stamp, pool, heap>>
      BY <1>t, <2>1, <3>2, OwnershipStays DEF StoreType, store
    <3> QED BY <2>1, <3>1, <3>2
  <2>4. PrevAtHand' BY <1>p, <2>1, <2>2, <2>3 DEF PrevAtHand
  <2> QED BY <1>t, <2>1, <2>3, <2>4, PrevStore DEF sync, SyncType, PrevPc
<1>8. CASE PrevDrawn
  <2>1. /\ Recycle(DRAWN) /\ UNCHANGED previewFrames
        /\ prev = "drawn" /\ prev' = "add"
        /\ UNCHANGED <<flags, targets, sync, world, uvc, cap, caller>>
    BY <1>8 DEF PrevDrawn
  <2>2. /\ StoreType' /\ FrameOwnership'
        /\ \A q \in Pointers \ {DRAWN} : hold'[q] = hold[q]
    BY <1>t, <1>p, <2>1, StoreRecycle
  <2>3. PrevAtHand' BY <1>t, <1>p, <2>1, <2>2 DEF PrevAtHand
  <2> QED BY <1>t, <2>1, <2>2, <2>3, PrevStore DEF sync, SyncType, PrevPc
<1>9. CASE AddCaptureFrame
  <2>1. /\ prev = "add" /\ prev' = "loop" /\ UNCHANGED previewFrames
        /\ captureWaits' \subseteq Callers \cup CapThreads
        /\ UNCHANGED <<flags, targets, captureMutex, previewWaits, world, uvc,
                       cap, caller>>
    BY <1>9, <1>t DEF AddCaptureFrame, BroadcastCapture, SyncType
  <2>2. /\ StoreType' /\ FrameOwnership'
        /\ \A r \in Pointers \ {FRAME, QUEU} : hold'[r] = hold[r]
    <3>1. CASE running
      <4>1. /\ RecycleAll({hold[QUEU]} \ {NULL})
            /\ hold' = [hold EXCEPT ![QUEU] = hold[FRAME], ![FRAME] = NULL]
        BY <1>9, <3>1 DEF AddCaptureFrame
      <4> QED BY <1>t, <1>p, <2>1, <4>1, StoreReplace
    <3>2. CASE ~running
      <4>1. /\ hold' = [hold EXCEPT ![FRAME] = NULL]
            /\ UNCHANGED <<pool, heap, stamp>>
        BY <1>9, <3>2 DEF AddCaptureFrame
      <4> QED BY <1>t, <1>p, <2>1, <4>1, StoreMove
    <3> QED BY <3>1, <3>2
  <2>3. PrevAtHand' BY <2>1 DEF PrevAtHand
  <2> QED BY <1>t, <2>1, <2>2, <2>3, PrevStore DEF PrevPc
<1> QED BY <1>1, <1>2, <1>3, <1>4, <1>5, <1>6, <1>7, <1>8, <1>9 DEF PrevStep

\* A capture thread: so for its own pointers and captureQueu.
LEMMA CapStore ==
    ASSUME IInv, NEW t \in CapThreads, StoreType', FrameOwnership', CapAtHand(t)',
           NEW l \in CapPc, CapGoto(t, l) \/ (\E w \in Targets :
                          cap' = [cap EXCEPT ![t].pc = l, ![t].use = w]),
           delivered' \in 0..MaxStamp, callbackFunc' \in BOOLEAN,
           UNCHANGED <<flags, previewWindow, captureWindow, callbackObj,
                       pixelFormat, live, sync, captureThread, streaming,
                       requestMode, frameMode, sent, uvc, prev, caller>>,
           \A r \in Pointers \ {QUEU, Frame(t), Converted(t), CbFrame(t)} :
              hold'[r] = hold[r]
    PROVE  IInv'
<1>1. cap \in [CapThreads -> CapRec]
  BY DEF IInv, TypeOK, ThreadType
<1>2. cap' \in [CapThreads -> CapRec]
  <2>1. CASE CapGoto(t, l)
    BY <1>1, <2>1, CapMoves DEF CapGoto
  <2>2. CASE \E w \in Targets : cap' = [cap EXCEPT ![t].pc = l, ![t].use = w]
    <3>1. PICK w \in Targets : cap' = [cap EXCEPT ![t].pc = l, ![t].use = w]
      BY <2>2
    <3>2. [cap EXCEPT ![t].pc = l, ![t].use = w] \in [CapThreads -> CapRec]
      BY <1>1, CapMoves
    <3> QED BY <3>1, <3>2
  <2> QED BY <2>1, <2>2
<1>3. TypeOK'
  BY <1>2 DEF IInv, TypeOK, TargetType, SyncType, ThreadType, flags, sync
<1>4. UvcAtHand' /\ PrevAtHand'
  BY PointersDistinct, CapPointers
     DEF IInv, FramesAtHand, UvcAtHand, PrevAtHand
<1>5. ASSUME NEW u \in CapThreads, u # t PROVE CapAtHand(u)'
  <2>1. cap'[u].pc = cap[u].pc
    BY <1>1, <1>5 DEF CapGoto
  <2>2. {Frame(u), Converted(u), CbFrame(u)} \subseteq Pointers
    BY PointersDistinct
  <2>3. \A r \in {Frame(u), Converted(u), CbFrame(u)} :
           r \notin {QUEU, Frame(t), Converted(t), CbFrame(t)}
    BY <1>5, CapPointers, ThreadPointers
  <2>4. CapAtHand(u)
    BY DEF IInv, FramesAtHand
  <2> QED BY <2>1, <2>2, <2>3, <2>4, CapUndisturbed
<1> QED BY <1>3, <1>4, <1>5 DEF IInv, FramesAtHand

LEMMA CapKeeps == ASSUME NEW t \in CapThreads, IInv, CapStep(t) PROVE IInv'
<1>t. /\ TypeOK /\ StoreType /\ FrameOwnership /\ CapAtHand(t)
      /\ cap \in [CapThreads -> CapRec] /\ cap[t] \in CapRec
      /\ delivered \in 0..MaxStamp /\ callbackFunc \in BOOLEAN
  BY DEF IInv, TypeOK, FramesAtHand, ThreadType, TargetType
<1>p. /\ {QUEU, Frame(t), Converted(t), CbFrame(t)} \subseteq Pointers
      /\ Frame(t) # Converted(t) /\ Frame(t) # CbFrame(t)
      /\ Converted(t) # CbFrame(t) /\ QUEU # Frame(t)
  BY PointersDistinct
<1>s. \A r \in Pointers : hold[r] # NULL => stamp[hold[r]] \in 0..MaxStamp
  BY <1>t DEF StoreType
<1>c. ASSUME NEW l \in CapPc, CapGoto(t, l) PROVE cap'[t].pc = l
  BY <1>t, <1>c DEF CapGoto, CapRec
<1>1. CASE \/ CapFormat(t) \/ CapLoop(t) \/ CapChoose(t) \/ CapInner(t)
           \/ CapWait(t) \/ CapBlit(t) \/ CapPost(t) \/ CapCallback(t)
           \/ CapReturn(t) \/ CapRelease(t) \/ CapNull(t) \/ CapBroadcast(t)
  <2>1. TypeOK' BY <1>1, <1>t, CapType
  <2>2. UNCHANGED <<store, uvc, prev>>
    BY <1>1 DEF CapFormat, CapLoop, CapChoose, CapInner, CapWait, CapBlit,
                CapPost, CapCallback, CapReturn, CapRelease, CapNull,
                CapBroadcast
  <2>3. FrameOwnership' /\ UvcAtHand' /\ PrevAtHand'
    BY <2>2, OwnershipStays DEF IInv, FramesAtHand, UvcAtHand, PrevAtHand, store
  <2>4. CapAtHand(t)'
    <3>1. \/ cap'[t].pc \notin {"surface", "blit", "post", "callback", "getOut",
                              "convert", "invoke", "inCallback", "recycle"}
          \/ /\ cap[t].pc \in {"blit", "post", "callback", "inCallback"}
             /\ cap'[t].pc \in {"callback", "getOut", "invoke", "recycle"}
          \/ cap[t].pc = "blit" /\ cap'[t].pc = "post"
      BY <1>1, <1>t DEF CapFormat, CapLoop, CapChoose, CapInner, CapWait,
                CapBlit, CapPost, CapCallback, CapReturn, CapRelease, CapNull,
                CapBroadcast, At, CapGoto, CapRec
    <3> QED BY <1>t, <2>2, <3>1 DEF CapAtHand, store
  <2>5. ASSUME NEW u \in CapThreads, u # t PROVE CapAtHand(u)'
    <3>1. cap'[u] = cap[u]
      BY <1>1, <1>t, <2>5 DEF CapFormat, CapLoop, CapChoose, CapInner, CapWait,
         CapBlit, CapPost, CapCallback, CapReturn, CapRelease, CapNull,
         CapBroadcast, CapGoto
    <3> QED BY <2>2, <3>1 DEF IInv, FramesAtHand, CapAtHand, store
  <2> QED BY <2>1, <2>3, <2>4, <2>5 DEF IInv, FramesAtHand
<1>2. CASE CapClear(t)
  <2>1. /\ Recycle(QUEU) /\ CapGoto(t, "format") /\ UNCHANGED previewFrames
        /\ UNCHANGED <<flags, targets, sync, world, uvc, prev, caller>>
    BY <1>2 DEF CapClear, ClearCapture
  <2>2. /\ StoreType' /\ FrameOwnership'
        /\ \A r \in Pointers \ {QUEU} : hold'[r] = hold[r]
    BY <1>t, <1>p, <2>1, StoreRecycle
  <2>3. "format" \in CapPc BY CapPcs
  <2>4. CapAtHand(t)' BY <1>c, <2>1, <2>3 DEF CapAtHand
  <2> QED BY <1>t, <2>1, <2>2, <2>3, <2>4, CapStore DEF world, targets
<1>3. CASE CapTake(t)
  <2>1. UNCHANGED <<flags, targets, previewFrames, pool, heap, stamp, sync,
                    world, uvc, prev, caller>>
    BY <1>3 DEF CapTake
  <2>2. CASE running /\ hold[QUEU] # NULL
    <3>1. PICK l \in {"surface", "callback"} : CapGoto(t, l)
      BY <1>3, <2>2 DEF CapTake
    <3>2. hold' = [hold EXCEPT ![Frame(t)] = hold[QUEU], ![QUEU] = NULL]
      BY <1>3, <2>2 DEF CapTake
    <3>3. /\ StoreType' /\ FrameOwnership'
          /\ \A r \in Pointers \ {QUEU, Frame(t)} : hold'[r] = hold[r]
      BY <1>t, <1>p, <2>1, <3>2, StoreMove
    <3>4. l \in CapPc /\ hold'[Frame(t)] # NULL
      BY <1>t, <1>p, <2>2, <3>2, CapPcs DEF StoreType
    <3>5. CapAtHand(t)' BY <1>c, <3>1, <3>4 DEF CapAtHand, Frame
    <3> QED BY <1>t, <2>1, <3>1, <3>3, <3>4, <3>5, CapStore DEF world, targets
  <2>3. CASE ~(running /\ hold[QUEU] # NULL)
    <3>1. CapGoto(t, "inner") /\ UNCHANGED hold
      BY <1>3, <2>3 DEF CapTake
    <3>2. StoreType' /\ FrameOwnership'
      BY <1>t, <2>1, <3>1, OwnershipStays DEF StoreType, store
    <3>3. "inner" \in CapPc BY CapPcs
    <3>4. CapAtHand(t)' BY <1>c, <3>1, <3>3 DEF CapAtHand
    <3> QED BY <1>t, <2>1, <3>1, <3>2, <3>3, <3>4, CapStore DEF world, targets
  <2> QED BY <2>2, <2>3
<1>4. CASE CapConvertForSurface(t)
  <2>1. /\ cap[t].pc = "surface" /\ UNCHANGED previewFrames
        /\ UNCHANGED <<flags, targets, sync, world, uvc, prev, caller>>
    BY <1>4 DEF CapConvertForSurface, At
  <2>2. hold[Frame(t)] # NULL BY <1>t, <2>1 DEF CapAtHand
  <2>3. \/ GetFrame(Converted(t), stamp[hold[Frame(t)]])
        \/ UNCHANGED <<hold, pool, heap, stamp>>
    BY <1>4 DEF CapConvertForSurface
  <2>4. PICK l \in {"blit", "callback"} :
           CapGoto(t, l) /\ (l = "blit" => hold'[Converted(t)] # NULL)
    BY <1>4 DEF CapConvertForSurface
  <2>5. /\ StoreType' /\ FrameOwnership'
        /\ \A r \in Pointers \ {Converted(t)} : hold'[r] = hold[r]
    <3>1. CASE GetFrame(Converted(t), stamp[hold[Frame(t)]])
      BY <1>t, <1>p, <1>s, <2>1, <2>2, <3>1, StoreGet
    <3>2. CASE UNCHANGED <<hold, pool, heap, stamp>>
      BY <1>t, <2>1, <3>2, OwnershipStays DEF StoreType, store
    <3> QED BY <2>3, <3>1, <3>2
  <2>6. l \in CapPc /\ hold'[Frame(t)] # NULL
    BY <1>p, <2>2, <2>5, CapPcs
  <2>7. CapAtHand(t)' BY <1>c, <2>4, <2>6 DEF CapAtHand, Frame, Converted
  <2> QED BY <1>t, <2>1, <2>4, <2>5, <2>6, <2>7, CapStore DEF world, targets
<1>5. CASE CapGetOut(t)
  <2>1. /\ cap[t].pc = "getOut" /\ UNCHANGED previewFrames
        /\ GetFrame(CbFrame(t), stamp[hold[Frame(t)]])
        /\ UNCHANGED <<flags, targets, sync, world, uvc, prev, caller>>
    BY <1>5 DEF CapGetOut, At
  <2>2. hold[Frame(t)] # NULL BY <1>t, <2>1 DEF CapAtHand
  <2>3. PICK l \in {"recycle", "convert"} :
           CapGoto(t, l) /\ (l = "convert" => hold'[CbFrame(t)] # NULL)
    BY <1>5 DEF CapGetOut
  <2>4. /\ StoreType' /\ FrameOwnership'
        /\ \A r \in Pointers \ {CbFrame(t)} : hold'[r] = hold[r]
    BY <1>t, <1>p, <1>s, <2>1, <2>2, StoreGet
  <2>5. l \in CapPc /\ hold'[Frame(t)] # NULL
    BY <1>p, <2>2, <2>4, CapPcs
  <2>6. CapAtHand(t)' BY <1>c, <2>3, <2>5 DEF CapAtHand, Frame, CbFrame
  <2> QED BY <1>t, <2>1, <2>3, <2>4, <2>5, <2>6, CapStore DEF world, targets
<1>6. CASE CapConvert(t)
  <2>1. /\ cap[t].pc = "convert" /\ UNCHANGED previewFrames
        /\ RecycleAll({hold[Frame(t)]})
        /\ hold' = [hold EXCEPT ![Frame(t)] = hold[CbFrame(t)], ![CbFrame(t)] = NULL]
        /\ UNCHANGED <<flags, targets, sync, world, uvc, prev, caller>>
    BY <1>6 DEF CapConvert, At
  <2>2. hold[Frame(t)] # NULL /\ hold[CbFrame(t)] # NULL
    BY <1>t, <2>1 DEF CapAtHand
  <2>3. PICK l \in {"invoke", "recycle"} : CapGoto(t, l)
    BY <1>6 DEF CapConvert
  <2>4. {hold[Frame(t)]} = {hold[Frame(t)]} \ {NULL}
    BY <2>2
  <2>5. /\ StoreType' /\ FrameOwnership'
        /\ \A r \in Pointers \ {CbFrame(t), Frame(t)} : hold'[r] = hold[r]
        /\ hold'[Frame(t)] = hold[CbFrame(t)]
    BY <1>t, <1>p, <2>1, <2>4, StoreReplace
  <2>6. l \in CapPc BY CapPcs
  <2>7. CapAtHand(t)' BY <1>c, <2>2, <2>3, <2>5, <2>6 DEF CapAtHand, Frame, CbFrame
  <2> QED BY <1>t, <2>1, <2>3, <2>5, <2>6, <2>7, CapStore DEF world, targets
<1>7. CASE CapInvoke(t)
  <2>1. /\ cap[t].pc = "invoke" /\ delivered' = stamp[hold[Frame(t)]]
        /\ cap' = [cap EXCEPT ![t].pc = "inCallback", ![t].use = callbackObj]
        /\ UNCHANGED <<flags, targets, store, sync, captureThread, streaming,
                       requestMode, frameMode, sent, uvc, prev, caller>>
    BY <1>7 DEF CapInvoke, At
  <2>2. hold[Frame(t)] # NULL BY <1>t, <2>1 DEF CapAtHand
  <2>3. delivered' \in 0..MaxStamp BY <1>p, <1>s, <2>1, <2>2
  <2>4. StoreType' /\ FrameOwnership' /\ UNCHANGED hold
    BY <1>t, <2>1, OwnershipStays DEF StoreType, store
  <2>5. "inCallback" \in CapPc /\ callbackObj \in Targets
    BY <1>t, CapPcs DEF TypeOK, TargetType
  <2>6. cap'[t].pc = "inCallback" BY <1>t, <2>1 DEF CapRec
  <2>7. CapAtHand(t)' BY <2>2, <2>4, <2>6 DEF CapAtHand, Frame
  <2> QED BY <1>t, <2>1, <2>3, <2>4, <2>5, <2>7, CapStore DEF targets
<1>8. CASE CapRecycle(t)
  <2>1. /\ Recycle(Frame(t)) /\ CapGoto(t, "inner") /\ UNCHANGED previewFrames
        /\ UNCHANGED <<flags, targets, sync, world, uvc, prev, caller>>
    BY <1>8 DEF CapRecycle
  <2>2. /\ StoreType' /\ FrameOwnership'
        /\ \A r \in Pointers \ {Frame(t)} : hold'[r] = hold[r]
    BY <1>t, <1>p, <2>1, StoreRecycle
  <2>3. "inner" \in CapPc BY CapPcs
  <2>4. CapAtHand(t)' BY <1>c, <2>1, <2>3 DEF CapAtHand
  <2> QED BY <1>t, <2>1, <2>2, <2>3, <2>4, CapStore DEF world, targets
<1>9. CASE CapClosing(t)
  <2>1. /\ Recycle(Converted(t)) /\ UNCHANGED previewFrames
        /\ UNCHANGED <<flags, targets, sync, world, uvc, prev, caller>>
    BY <1>9 DEF CapClosing
  <2>2. PICK l \in {"broadcast", "release"} : CapGoto(t, l)
    BY <1>9 DEF CapClosing
  <2>3. /\ StoreType' /\ FrameOwnership'
        /\ \A r \in Pointers \ {Converted(t)} : hold'[r] = hold[r]
    BY <1>t, <1>p, <2>1, StoreRecycle
  <2>4. l \in CapPc BY CapPcs
  <2>5. CapAtHand(t)' BY <1>c, <2>2, <2>4 DEF CapAtHand
  <2> QED BY <1>t, <2>1, <2>2, <2>3, <2>4, <2>5, CapStore DEF world, targets
<1> QED BY <1>1, <1>2, <1>3, <1>4, <1>5, <1>6, <1>7, <1>8, <1>9 DEF CapStep

\* A Java caller.
LEMMA CallerKeeps ==
    ASSUME NEW c \in Callers, IInv, Request(c) \/ CallerStep(c) PROVE IInv'
<1>t. /\ TypeOK /\ StoreType /\ FrameOwnership /\ FramesAtHand
      /\ caller \in [Callers -> CallerRec] /\ cap \in [CapThreads -> CapRec]
  BY DEF IInv, TypeOK, ThreadType
<1>1. CASE StopClearPreview(c)
  <2>1. /\ ClearQueue /\ Goto(c, "clearCapture")
        /\ UNCHANGED <<flags, targets, hold, sync, world, uvc, prev, cap>>
    BY <1>1 DEF StopClearPreview
  <2>2. StoreType' /\ FrameOwnership'
    BY <1>t, <2>1, StoreClear
  <2>3. TypeOK'
    BY <1>t, <2>1, <2>2, CallerMoves, CallerPcs
       DEF TypeOK, TargetType, SyncType, ThreadType, flags, targets, sync, world
  <2>4. FramesAtHand'
    BY <1>t, <2>1 DEF FramesAtHand, UvcAtHand, PrevAtHand, CapAtHand
  <2> QED BY <2>2, <2>3, <2>4 DEF IInv
<1>2. CASE StopClearCapture(c)
  <2>1. /\ Recycle(QUEU) /\ Goto(c, "closePreview")
        /\ UNCHANGED <<flags, targets, previewFrames, sync, world, uvc, prev, cap>>
    BY <1>2 DEF StopClearCapture, ClearCapture
  <2>2. /\ StoreType' /\ FrameOwnership'
        /\ \A r \in Pointers \ {QUEU} : hold'[r] = hold[r]
    BY <1>t, <2>1, PointersDistinct, StoreRecycle
  <2>3. TypeOK'
    BY <1>t, <2>1, <2>2, CallerMoves, CallerPcs
       DEF TypeOK, TargetType, SyncType, ThreadType, flags, targets, sync, world
  <2>4. UvcAtHand' /\ PrevAtHand'
    BY <1>t, <2>1, <2>2, PointersDistinct
       DEF FramesAtHand, UvcAtHand, PrevAtHand
  <2>5. \A t \in CapThreads : CapAtHand(t)'
    BY <1>t, <2>1, <2>2, CapsUndisturbed
  <2> QED BY <2>2, <2>3, <2>4, <2>5 DEF IInv, FramesAtHand
<1>4. CASE DeletePreview(c)
  <2>1. /\ FreeFrames /\ Return(c)
        /\ UNCHANGED <<running, sync, streaming, sent, delivered, uvc, prev, cap>>
    BY <1>4 DEF DeletePreview
  <2>2. /\ StoreType' /\ FrameOwnership'
        /\ \A r \in Pointers \ {QUEU} : hold'[r] = hold[r]
    BY <1>t, <2>1, StoreFree
  <2>3. TargetType' /\ SyncType'
    BY <1>t, <1>4, <2>1, CallerPcs
       DEF DeletePreview, TypeOK, TargetType, SyncType, sync
  <2>4. ThreadType'
    BY <1>t, <1>4, <2>1, CallerMoves DEF DeletePreview, TypeOK, ThreadType
  <2>5. UvcAtHand' /\ PrevAtHand'
    BY <1>t, <2>1, <2>2, PointersDistinct
       DEF FramesAtHand, UvcAtHand, PrevAtHand
  <2>6. \A t \in CapThreads : CapAtHand(t)'
    BY <1>t, <2>1, <2>2, CapsUndisturbed
  <2> QED BY <2>2, <2>3, <2>4, <2>5, <2>6 DEF IInv, TypeOK, FramesAtHand
<1>3. CASE /\ ~StopClearPreview(c) /\ ~StopClearCapture(c) /\ ~DeletePreview(c)
  <2>1. TypeOK'
    BY <1>3, <1>t, CallerType
  <2>2. /\ UNCHANGED <<store, uvc>> /\ prev' \in {prev, "prepare", "none"}
        /\ UNCHANGED cap \/ JoinCapture(c)
    <3>1. CASE Request(c)
      BY <3>1 DEF Request, SetPreviewDisplay, SetPreviewSize, StartPreview,
         StopPreview, SetFrameCallback, SetCaptureDisplay, threads, Call
    <3>2. CASE \/ SpawnPreview(c) \/ StartFailed(c) \/ EnterSetter(c)
               \/ Handshake(c) \/ HandshakeDone(c)
      BY <3>2 DEF SpawnPreview, StartFailed, EnterSetter, Handshake, HandshakeDone
    <3>3. CASE \/ ReplaceCallback(c) \/ AssignCallback(c) \/ ClearFormat(c)
               \/ SetFormat(c) \/ CompareWindow(c) \/ ReleaseWindow(c)
               \/ AssignWindow(c)
      BY <3>3 DEF ReplaceCallback, AssignCallback, ClearFormat, SetFormat,
         CompareWindow, ReleaseWindow, AssignWindow
    <3>4. CASE \/ StopFlag(c) \/ StopSignalPreview(c) \/ StopSignalCapture(c)
               \/ JoinPreview(c) \/ StopClosePreview(c) \/ StopCloseCapture(c)
      BY <3>4 DEF StopFlag, StopSignalPreview, StopSignalCapture, JoinPreview,
         StopClosePreview, StopCloseCapture
    <3>5. CASE JoinCapture(c)
      BY <3>5 DEF JoinCapture
    <3> QED BY <1>3, <3>1, <3>2, <3>3, <3>4, <3>5 DEF CallerStep
  <2>4. \A t \in CapThreads : cap'[t].pc \in {cap[t].pc, "none"}
    <3>1. CASE UNCHANGED cap
      BY <3>1
    <3>2. CASE JoinCapture(c)
      BY <3>2, <1>t DEF JoinCapture, Joinable, CapRec
    <3> QED BY <2>2, <3>1, <3>2
  <2>5. FramesAtHand'
    BY <1>t, <2>2, <2>4 DEF FramesAtHand, UvcAtHand, PrevAtHand, CapAtHand, store
  <2> QED BY <1>t, <2>1, <2>2, <2>5, OwnershipStays DEF IInv
<1> QED BY <1>1, <1>2, <1>3, <1>4

-----------------------------------------------------------------------------
(* The invariant                                                           *)

LEMMA InitIInv == Init => IInv
<1> SUFFICES ASSUME Init PROVE IInv
  OBVIOUS
<1>1. TargetType /\ SyncType
  BY DEF Init, TargetType, SyncType, Targets
<1>2. StoreType
  <2>1. Cardinality(pool) = 0 BY FS_EmptySet DEF Init
  <2> QED BY <2>1, SizesAssumption DEF Init, StoreType, PoolSize
<1>3. ThreadType
  <2>1. cap \in [CapThreads -> CapRec]
    <3>1. [pc |-> "none", surface |-> FALSE, use |-> NULL] \in CapRec
      BY DEF CapRec, CapPc, Targets
    <3> QED BY <3>1 DEF Init
  <2>2. caller \in [Callers -> CallerRec]
    <3>1. [pc |-> "idle", op |-> "none", arg |-> NULL] \in CallerRec
      BY DEF CallerRec, CallerPc, Op, Targets
    <3> QED BY <3>1 DEF Init
  <2>3. sent \in 0..MaxStamp /\ delivered \in 0..MaxStamp
    BY SizesAssumption DEF Init
  <2> QED BY <2>1, <2>2, <2>3 DEF Init, ThreadType, PrevPc, UvcPc
<1>4. FrameOwnership
  BY DEF Init, FrameOwnership, Held, Queued
<1>5. FramesAtHand
  BY DEF Init, FramesAtHand, UvcAtHand, PrevAtHand, CapAtHand
<1> QED BY <1>1, <1>2, <1>3, <1>4, <1>5 DEF IInv, TypeOK

LEMMA NextIInv == IInv /\ [Next]_vars => IInv'
<1> SUFFICES ASSUME IInv, [Next]_vars PROVE IInv'
  OBVIOUS
<1>1. ASSUME NEW c \in Callers, Request(c) \/ CallerStep(c) PROVE IInv'
  BY <1>1, CallerKeeps
<1>2. CASE UvcPicture \/ UvcStep
  BY <1>2, UvcKeeps
<1>3. CASE PrevStep
  BY <1>3, PrevKeeps
<1>4. ASSUME NEW t \in CapThreads, CapStep(t) PROVE IInv'
  BY <1>4, CapKeeps
<1>5. CASE SpuriousWake
  <2>1. TypeOK'
    BY <1>5, PrevType DEF IInv
  <2> QED BY <1>5, <2>1, OwnershipStays
      DEF IInv, SpuriousWake, FramesAtHand, UvcAtHand, PrevAtHand, CapAtHand,
          store, threads
<1>6. CASE UNCHANGED vars
  <2> USE DEF vars, flags, targets, sync, world, threads
  <2>1. TypeOK'
    BY <1>6 DEF IInv, TypeOK, TargetType, StoreType, SyncType, ThreadType, store
  <2>2. FrameOwnership'
    BY <1>6, OwnershipStays DEF IInv
  <2>3. FramesAtHand'
    BY <1>6 DEF IInv, FramesAtHand, UvcAtHand, PrevAtHand, CapAtHand, store
  <2> QED BY <2>1, <2>2, <2>3 DEF IInv
<1> QED BY <1>1, <1>2, <1>3, <1>4, <1>5, <1>6 DEF Next

THEOREM Invariance == Spec => []IInv
BY InitIInv, NextIInv, PTL DEF Spec

(* The queue of the preview never outgrows MAX_FRAME nor the pool          *)
(* FRAME_POOL_SZ, whatever libuvc, the screen and the application do.      *)
THEOREM TypeCorrect == Spec => []TypeOK
BY Invariance, PTL DEF IInv

(* A frame has one owner at a time: the pools and queues of the preview    *)
(* engine never hand one frame to two threads, and never free one twice.   *)
(* No thread reads, queues or recycles a frame it does not have, however   *)
(* often get_frame runs out of memory.                                     *)
THEOREM Ownership == Spec => []FramesInPlace
BY Invariance, PTL DEF IInv, FramesInPlace
=============================================================================
