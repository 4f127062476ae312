----------------------------- MODULE UVCStream -----------------------------
(***************************************************************************)
(* One video stream of libuvc, stream.c: the thread that starts and stops  *)
(* it, the USB event handler thread that runs _uvc_stream_callback, and    *)
(* the callback thread _uvc_user_caller.  libusb, the camera and the cable *)
(* are the environment.                                                    *)
(*                                                                         *)
(* cb_mutex is never held across two actions; pthread_cond_wait on cb_cond *)
(* is a member of waits.  running is written and read without cb_mutex, so *)
(* each read of it is an action of its own.  When the handle is freed      *)
(* while a thread or a transfer still uses it the program has no defined   *)
(* future: the model stops there.                                          *)
(***************************************************************************)
EXTENDS Integers, FiniteSets

CONSTANTS
    Transfers,  \* the LIBUVC_NUM_TRANSFER_BUFS transfers of the stream
    MaxPic,     \* the camera sends pictures 1..MaxPic
    Parts,      \* payloads of a picture
    Losses,     \* how a payload can be lost: noticed ("flagged") or not
    Faulty,     \* may libusb refuse a transfer or end one with an error?
    Unplug      \* may the cable be pulled?

ASSUME BoundsAssumption == MaxPic \in Nat /\ Parts \in Nat \ {0}
ASSUME TransfersAssumption == IsFiniteSet(Transfers)
ASSUME LossAssumption == /\ Losses \subseteq {"flagged", "silent"}
                         /\ Faulty \in BOOLEAN /\ Unplug \in BOOLEAN

VARIABLES
    plugged,    \* is the camera connected?
    wire,       \* the payload the camera sends next
    allocated,  \* is the uvc_stream_handle allocated?
    running,    \* strmh->running
    xfer,       \* state of strmh->transfers[i]
    buf,        \* outbuf: payloads, bfh_err, seq; and fid
    hold,       \* holdbuf: payloads, hold_bfh_err, hold_seq
    frame,      \* strmh->frame: its payloads
    waits,      \* threads that wait on cb_cond
    caller,     \* where the thread is that starts and stops the stream
    todo,       \* transfers it has not submitted yet
    handler,    \* where the event handler thread is, and its transfer
    cb, lastSeq \* where the callback thread is, and its last_seq

bus     == <<plugged, wire>>
buffers == <<buf, hold, frame>>
start   == <<caller, todo>>
user    == <<cb, lastSeq>>
vars == <<bus, allocated, running, xfer, buffers, waits, start, handler, user>>

XferState == {"null", "landed", "flying", "cancelled"}
CallerPc  == {"closed", "submit", "streaming", "cancel", "waiting", "join",
              "release"}
HandlerPc == {"idle", "payload", "decide", "submit", "delete"}
CbPc      == {"none", "top", "waiting", "unlocked", "inCallback", "exited"}

Payloads == (1..MaxPic) \X (1..Parts)

\* Mutant: the header byte is not masked with UVC_STREAM_FID.
FidUnmasked(p) == p[1]

Fid(p) == p[1] % 2

Empty    == [parts |-> {}, err |-> FALSE, seq |-> 0]

-----------------------------------------------------------------------------
(* Start and stop                                                          *)

Retired == \A t \in Transfers : xfer[t] = "null"

\* Nothing uses the handle but the thread that starts and stops it.
Quiet == /\ cb \in {"none", "exited"} /\ handler.pc = "idle"
         /\ \A t \in Transfers : xfer[t] \notin {"flying", "cancelled"}

\* uvc_stream_open_ctrl and uvc_stream_start_bandwidth up to the submit
\* loop, when they succeed; before it a failure undoes what was done.
Start ==
    /\ caller = "closed" /\ plugged
    /\ Quiet
    /\ allocated' = TRUE /\ running' = TRUE
    /\ xfer' = [t \in Transfers |-> "landed"]
    /\ buf' = [parts |-> {}, err |-> FALSE, seq |-> 0, fid |-> 0]
    /\ hold' = Empty /\ frame' = {}
    /\ cb' = "top" /\ lastSeq' = 0
    /\ caller' = "submit" /\ todo' = Transfers
    /\ UNCHANGED <<bus, waits, handler>>

Accepts == plugged
Refuses == ~plugged \/ Faulty

\* A refused transfer ends the loop; uvc_stream_close then finds the stream
\* not running and does not stop it.
Submit ==
    /\ caller = "submit"
    /\ \E t \in todo :
          \/ /\ Accepts
             /\ xfer' = [xfer EXCEPT ![t] = "flying"]
             /\ todo' = todo \ {t}
             /\ caller' = IF todo' = {} THEN "streaming" ELSE "submit"
             /\ UNCHANGED running
          \/ /\ Refuses
             /\ running' = FALSE
             /\ todo' = {}
             /\ caller' = "release"
             /\ UNCHANGED xfer
    /\ UNCHANGED <<bus, allocated, buffers, waits, handler, user>>

\* uvc_stop_streaming, uvc_stream_close, uvc_stream_stop
Stop ==
    /\ caller = "streaming"
    /\ running' = FALSE
    /\ caller' = IF running THEN "cancel" ELSE "release"
    /\ UNCHANGED <<bus, allocated, xfer, buffers, waits, todo, handler, user>>

\* Mutant: the transfers are cancelled but not waited for.
CancelOnly ==
    /\ caller = "cancel"
    /\ xfer' = [t \in Transfers |-> IF xfer[t] = "flying" THEN "cancelled"
                                                          ELSE xfer[t]]
    /\ caller' = "join" /\ waits' = {}
    /\ UNCHANGED <<bus, allocated, running, buffers, todo, handler, user>>

\* A transfer whose callback runs is not cancelled (LIBUSB_ERROR_NOT_FOUND).
Cancel ==
    /\ caller = "cancel"
    /\ xfer' = [t \in Transfers |-> IF xfer[t] = "flying" THEN "cancelled"
                                                          ELSE xfer[t]]
    /\ IF Retired THEN caller' = "join" /\ waits' = {}
                  ELSE caller' = "waiting" /\ waits' = waits \cup {"caller"}
    /\ UNCHANGED <<bus, allocated, running, buffers, todo, handler, user>>

AwaitRetired ==
    /\ caller = "waiting" /\ "caller" \notin waits
    /\ IF Retired THEN caller' = "join" /\ waits' = {}
                  ELSE waits' = waits \cup {"caller"} /\ UNCHANGED caller
    /\ UNCHANGED <<bus, allocated, running, xfer, buffers, todo, handler, user>>

\* Mutant: the callback thread is not joined.
JoinNobody ==
    /\ caller = "join"
    /\ caller' = "release"
    /\ UNCHANGED <<bus, allocated, running, xfer, buffers, waits, todo,
                   handler, user>>

Join ==
    /\ caller = "join" /\ cb = "exited"
    /\ cb' = "none"
    /\ caller' = "release"
    /\ UNCHANGED <<bus, allocated, running, xfer, buffers, waits, todo,
                   handler, lastSeq>>

Release ==
    /\ caller = "release"
    /\ allocated' = FALSE
    /\ caller' = "closed"
    /\ UNCHANGED <<bus, running, xfer, buffers, waits, todo, handler, user>>

-----------------------------------------------------------------------------
(* The event handler thread: _uvc_stream_callback                          *)

At(l)   == allocated /\ handler.pc = l
Goto(l) == handler' = [handler EXCEPT !.pc = l]

\* A transfer ends: with payloads, without (TIMED_OUT, STALL, OVERFLOW), for
\* good (CANCELLED, ERROR) or, NO_DEVICE, because the camera is gone.
Complete(t) ==
    /\ At("idle")
    /\ xfer[t] \in {"flying", "cancelled"}
    /\ xfer' = [xfer EXCEPT ![t] = "landed"]
    /\ \E l \in {"payload", "decide", "delete"} :
          /\ l = "payload" => wire \in Payloads
          /\ l = "delete" => xfer[t] = "cancelled" \/ ~plugged \/ Faulty
          /\ handler' = [pc |-> l, t |-> t]
    /\ \/ UNCHANGED running
       \/ ~plugged /\ handler'.pc = "delete" /\ running' = FALSE
    /\ UNCHANGED <<bus, allocated, buffers, waits, start, user>>

\* Mutant: nobody is told of the new frame.
SwapQuietly(parts, fid) ==
    /\ hold' = [parts |-> parts, err |-> buf.err, seq |-> buf.seq]
    /\ buf' = [parts |-> {}, err |-> FALSE, seq |-> buf.seq + 1, fid |-> fid]
    /\ UNCHANGED waits

\* Mutant: seq is not counted up.
SwapUncounted(parts, fid) ==
    /\ hold' = [parts |-> parts, err |-> buf.err, seq |-> buf.seq]
    /\ buf' = [parts |-> {}, err |-> FALSE, seq |-> buf.seq, fid |-> fid]
    /\ waits' = {}

\* _uvc_swap_buffers: publish outbuf and start another.
Swap(parts, fid) ==
    /\ hold' = [parts |-> parts, err |-> buf.err, seq |-> buf.seq]
    /\ buf' = [parts |-> {}, err |-> FALSE, seq |-> buf.seq + 1, fid |-> fid]
    /\ waits' = {}

WireMoves == wire' = IF wire[2] < Parts THEN <<wire[1], wire[2] + 1>>
                                        ELSE <<wire[1] + 1, 1>>
Payload == At("payload") /\ wire \in Payloads

\* Mutant: only the EOF bit ends a frame.
NeverFlip == FALSE

\* The frame ID differs from that of the payloads in outbuf.
Flip == buf.fid # Fid(wire) /\ buf.parts # {}

FlipSwap ==
    /\ Payload /\ Flip
    /\ Swap(buf.parts, Fid(wire))
    /\ UNCHANGED <<bus, allocated, running, xfer, frame, start, handler, user>>

\* The payload is appended and, if it has the EOF bit, the frame published;
\* not every camera sets that bit.
AppendPayload ==
    /\ Payload /\ ~Flip
    /\ \/ /\ buf' = [buf EXCEPT !.parts = buf.parts \cup {wire},
                                !.fid = Fid(wire)]
          /\ UNCHANGED <<hold, waits>>
       \/ wire[2] = Parts /\ Swap(buf.parts \cup {wire}, Fid(wire))
    /\ WireMoves
    /\ UNCHANGED <<plugged, allocated, running, xfer, frame, start, handler,
                   user>>

\* Mutant: a bad packet does not mark the frame.
SkipBadPayload ==
    /\ Payload /\ "flagged" \in Losses
    /\ WireMoves
    /\ UNCHANGED <<plugged, allocated, running, xfer, buffers, waits, start,
                   handler, user>>

\* pkt->status # 0
BadPayload ==
    /\ Payload /\ "flagged" \in Losses
    /\ buf' = [buf EXCEPT !.err = TRUE]
    /\ WireMoves
    /\ UNCHANGED <<plugged, allocated, running, xfer, hold, frame, waits,
                   start, handler, user>>

\* An empty packet, or the error bit in the payload's header.
SilentLoss ==
    /\ Payload /\ "silent" \in Losses
    /\ WireMoves
    /\ UNCHANGED <<plugged, allocated, running, xfer, buffers, waits, start,
                   handler, user>>

PayloadsDone ==
    /\ At("payload")
    /\ Goto("decide")
    /\ UNCHANGED <<bus, allocated, running, xfer, buffers, waits, start, user>>

Decide ==
    /\ At("decide")
    /\ Goto(IF running THEN "submit" ELSE "delete")
    /\ UNCHANGED <<bus, allocated, running, xfer, buffers, waits, start, user>>

\* The result of libusb_submit_transfer is ignored: a transfer it refuses
\* is neither in flight nor deleted.
Resubmit ==
    /\ At("submit")
    /\ \/ Accepts /\ xfer' = [xfer EXCEPT ![handler.t] = "flying"]
       \/ Refuses /\ UNCHANGED xfer
    /\ Goto("idle")
    /\ UNCHANGED <<bus, allocated, running, buffers, waits, start, user>>

\* Mutant: strmh->transfers[i] is not set to NULL.
DeleteKeeps ==
    /\ At("delete")
    /\ waits' = {}
    /\ Goto("idle")
    /\ UNCHANGED <<bus, allocated, running, xfer, buffers, start, user>>

\* Mutant: cb_cond is not broadcast.
DeleteQuietly ==
    /\ At("delete")
    /\ xfer' = [xfer EXCEPT ![handler.t] = "null"]
    /\ Goto("idle")
    /\ UNCHANGED <<bus, allocated, running, buffers, waits, start, user>>

\* _uvc_delete_transfer
Delete ==
    /\ At("delete")
    /\ xfer' = [xfer EXCEPT ![handler.t] = "null"]
    /\ waits' = {}
    /\ Goto("idle")
    /\ UNCHANGED <<bus, allocated, running, buffers, start, user>>

-----------------------------------------------------------------------------
(* The callback thread: _uvc_user_caller                                   *)

\* Under cb_mutex: wait for a frame; keep it unless it is marked bad.
CbTake ==
    /\ allocated
    /\ cb = "top" \/ (cb = "waiting" /\ "cb" \notin waits)
    /\ IF ~running
       THEN cb' = "exited" /\ UNCHANGED <<lastSeq, frame, waits>>
       ELSE IF lastSeq = hold.seq
       THEN cb' = "waiting" /\ waits' = waits \cup {"cb"}
            /\ UNCHANGED <<lastSeq, frame>>
       ELSE /\ cb' = "unlocked"
            /\ lastSeq' = hold.seq
            /\ frame' = IF hold.err THEN frame ELSE hold.parts
            /\ UNCHANGED waits
    /\ UNCHANGED <<bus, allocated, running, xfer, buf, hold, start, handler>>

\* hold_bfh_err is read again, after cb_mutex is released.
CbInvoke ==
    /\ allocated /\ cb = "unlocked"
    /\ cb' = IF hold.err THEN "top" ELSE "inCallback"
    /\ UNCHANGED <<bus, allocated, running, xfer, buffers, waits, start,
                   handler, lastSeq>>

CbReturn ==
    /\ allocated /\ cb = "inCallback"
    /\ cb' = "top"
    /\ UNCHANGED <<bus, allocated, running, xfer, buffers, waits, start,
                   handler, lastSeq>>

-----------------------------------------------------------------------------

PullCable ==
    /\ Unplug /\ plugged
    /\ plugged' = FALSE
    /\ UNCHANGED <<wire, allocated, running, xfer, buffers, waits, start,
                   handler, user>>

Init ==
    /\ plugged = TRUE /\ wire = <<1, 1>>
    /\ allocated = FALSE /\ running = FALSE
    /\ xfer = [t \in Transfers |-> "null"]
    /\ buf = [parts |-> {}, err |-> FALSE, seq |-> 0, fid |-> 0]
    /\ hold = Empty /\ frame = {}
    /\ waits = {}
    /\ caller = "closed" /\ todo = {}
    /\ handler \in [pc : {"idle"}, t : Transfers]
    /\ cb = "none" /\ lastSeq = 0

CallerStep  == Submit \/ Cancel \/ AwaitRetired \/ Join \/ Release
HandlerStep == \/ FlipSwap \/ AppendPayload \/ BadPayload \/ SilentLoss
               \/ PayloadsDone \/ Decide \/ Resubmit \/ Delete
CbStep      == CbTake \/ CbInvoke \/ CbReturn

Next == \/ Start \/ Stop \/ CallerStep
        \/ \E t \in Transfers : Complete(t)
        \/ HandlerStep \/ CbStep \/ PullCable

Spec == Init /\ [][Next]_vars

\* Every transfer has a timeout and the kernel returns them in turn; the
\* three threads are scheduled and user_cb returns.  Nobody has to start or
\* stop the stream, and no picture has to arrive.
Fairness ==
    /\ WF_vars(CallerStep) /\ WF_vars(HandlerStep) /\ WF_vars(CbStep)
    /\ \A t \in Transfers : SF_vars(Complete(t))

FairSpec == Spec /\ Fairness

-----------------------------------------------------------------------------

Slot == [parts : SUBSET Payloads, err : BOOLEAN, seq : Nat]

TypeOK ==
    /\ plugged \in BOOLEAN /\ wire \in (1..MaxPic + 1) \X (1..Parts)
    /\ allocated \in BOOLEAN /\ running \in BOOLEAN
    /\ xfer \in [Transfers -> XferState]
    /\ buf \in [parts : SUBSET Payloads, err : BOOLEAN, seq : Nat, fid : {0, 1}]
    /\ hold \in Slot /\ frame \subseteq Payloads
    /\ waits \subseteq {"caller", "cb"}
    /\ caller \in CallerPc /\ todo \subseteq Transfers
    /\ handler \in [pc : HandlerPc, t : Transfers]
    /\ cb \in CbPc /\ lastSeq \in Nat

-----------------------------------------------------------------------------
(* What must hold                                                          *)

(* Whatever is lost on the bus, a frame kept for user_cb has payloads of   *)
(* one frame ID.                                                           *)
OneFrameID == \A p, q \in frame : Fid(p) = Fid(q)

(* user_cb is never given a mixture of two pictures, as long as every lost *)
(* payload sets bfh_err: whole pictures may be lost between two with the   *)
(* same frame ID, and the end of a picture may be lost before that.        *)
OnePicture == "silent" \notin Losses => \A p, q \in frame : p[1] = q[1]

(* "Closes all streams, ends threads and cancels pollers": once the handle *)
(* is freed nothing is in flight and the callback thread is gone.          *)
EndsThreads == ~allocated => Quiet

(* Whoever waits on cb_cond will be told, though each of the two tests is  *)
(* made once and running is cleared without cb_mutex, under all faults:    *)
(* uvc_stream_stop sleeps only while a transfer is not retired, and the    *)
(* callback thread only while no new frame is there and the stream runs,   *)
(* or somebody is on the way to a broadcast.  A stream that failed to      *)
(* start, or whose camera was unplugged, is freed instead.                 *)
NoOversleep ==
    /\ "caller" \in waits => caller = "waiting" /\ ~Retired
    /\ allocated /\ "cb" \in waits =>
          /\ cb = "waiting" /\ lastSeq = hold.seq
          /\ \/ running \/ handler.pc = "delete"
             \/ caller \in {"cancel", "release"} \/ (caller = "waiting" /\ ~Retired)

(* The callback thread tells every frame that is published from those it   *)
(* has seen, whenever it looked last, but for the first frame of a stream: *)
(* last_seq and seq both start at 0.                                       *)
NewFrameSeen ==
    [][hold' # hold /\ Empty \notin {hold, hold'} => lastSeq # hold'.seq]_vars

(* A published frame is taken up by the callback thread, whatever comes    *)
(* between its test of hold_seq and its wait, or the stream stops.         *)
FrameTaken == (running /\ lastSeq # hold.seq) ~> (~running \/ lastSeq = hold.seq)

(* uvc_stop_streaming returns: all transfers are retired, those the event  *)
(* handler resubmits while they are being cancelled included.              *)
StopReturns == (caller = "cancel") ~> (caller = "closed")

(* The stream keeps the promise the preview engine relies on.              *)
Source == INSTANCE FrameSource WITH
    streaming <- allocated, inCallback <- cb = "inCallback"
ImplementsSource == Source!Spec
=============================================================================
