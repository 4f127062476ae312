-------------------------- MODULE UVCStreamProofs --------------------------
(***************************************************************************)
(* For any number of transfers, pictures and payloads: a stream keeps its  *)
(* types, a frame kept for user_cb has payloads of one frame ID, and of    *)
(* one picture if every loss is noticed; no wakeup of cb_cond is lost, the *)
(* frames swapped are new ones, and a stop has transfers to wait for.      *)
(*                                                                         *)
(* OnePicture is not inductive: it follows from what outbuf holds.  A      *)
(* buffer that is not marked bad has payloads of the picture the camera is *)
(* sending, or of the one before if the camera is about to start a new     *)
(* one, and the frame ID tells these two apart.                            *)
(***************************************************************************)
EXTENDS UVCStream, TLAPS

Same(parts) == \A p, q \in parts : p[1] = q[1]

\* The payloads of outbuf carry the frame ID it is marked with.
FidInv ==
    /\ \A p \in buf.parts : Fid(p) = buf.fid
    /\ \A p, q \in hold.parts : Fid(p) = Fid(q)
    /\ OneFrameID

\* A payload of outbuf is of the current picture or of the last.
Recent(p) == p[1] = wire[1] \/ (p[1] = wire[1] - 1 /\ wire[2] = 1)

PictureInv ==
    "silent" \notin Losses =>
       /\ ~buf.err => Same(buf.parts) /\ \A p \in buf.parts : Recent(p)
       /\ ~hold.err => Same(hold.parts)
       /\ Same(frame)

IInv == TypeOK /\ FidInv /\ PictureInv

USE BoundsAssumption, TransfersAssumption, LossAssumption

-----------------------------------------------------------------------------
(* Arithmetic of frame IDs                                                 *)

\* Two pictures in a row have different frame IDs.
LEMMA FidAlternates == \A n \in Nat : (n - 1) % 2 # n % 2
  BY SMT

LEMMA FidType == \A p \in Payloads : Fid(p) \in {0, 1}
  <1> SUFFICES ASSUME NEW p \in Payloads PROVE p[1] % 2 \in {0, 1}
    BY DEF Fid
  <1>1. p[1] \in Nat  BY DEF Payloads
  <1> QED  BY <1>1, SMT

\* Payloads of the current picture or of the last, with the frame ID of the
\* current one, are of the current one.
LEMMA RecentSameFid ==
    ASSUME NEW p \in Payloads, wire \in Payloads, Recent(p),
           Fid(p) = Fid(wire)
    PROVE  p[1] = wire[1]
  <1>1. p[1] \in Nat /\ wire[1] \in Nat  BY DEF Payloads
  <1>2. (wire[1] - 1) % 2 # wire[1] % 2  BY <1>1, FidAlternates
  <1> QED  BY <1>2 DEF Recent, Fid

\* What was of the current picture is recent when the camera moves on.
LEMMA WireType ==
    ASSUME wire \in Payloads, WireMoves
    PROVE  /\ wire' \in (1..MaxPic + 1) \X (1..Parts)
           /\ \A p \in Payloads : p[1] = wire[1] => Recent(p)'
  <1>1. wire[1] \in 1..MaxPic /\ wire[2] \in 1..Parts  BY DEF Payloads
  <1>2. CASE wire[2] < Parts
    <2>1. wire' = <<wire[1], wire[2] + 1>>  BY <1>2 DEF WireMoves
    <2> QED  BY <1>1, <1>2, <2>1 DEF Recent
  <1>3. CASE ~(wire[2] < Parts)
    <2>1. wire' = <<wire[1] + 1, 1>>  BY <1>3 DEF WireMoves
    <2> QED  BY <1>1, <2>1 DEF Recent
  <1> QED  BY <1>2, <1>3

-----------------------------------------------------------------------------
(* The invariant is inductive                                              *)

LEMMA InitInv == Init => IInv
  <1> SUFFICES ASSUME Init PROVE IInv
    OBVIOUS
  <1>1. wire \in (1..MaxPic + 1) \X (1..Parts)
    <2>1. 1 \in 1..MaxPic + 1 /\ 1 \in 1..Parts  OBVIOUS
    <2> QED  BY <2>1 DEF Init
  <1>2. hold \in Slot /\ buf \in [parts : SUBSET Payloads, err : BOOLEAN,
                                  seq : Nat, fid : {0, 1}]
    BY DEF Init, Slot, Empty
  <1>3. handler \in [pc : HandlerPc, t : Transfers]
    BY DEF Init, HandlerPc
  <1>4. TypeOK
    BY <1>1, <1>2, <1>3 DEF Init, TypeOK, XferState, CallerPc, CbPc
  <1>5. FidInv /\ PictureInv
    BY DEF Init, FidInv, OneFrameID, PictureInv, Same, Empty
  <1> QED  BY <1>4, <1>5 DEF IInv

\* The variables FidInv and PictureInv speak of.
picture == <<wire, buf, hold, frame>>

LEMMA PictureFrame ==
    ASSUME FidInv, PictureInv, UNCHANGED picture
    PROVE  FidInv' /\ PictureInv'
  BY DEF FidInv, PictureInv, OneFrameID, Same, Recent, Fid, picture

\* The steps that touch no buffer and leave the wire alone.
Elsewhere ==
    \/ Stop \/ CallerStep \/ \E t \in Transfers : Complete(t)
    \/ PayloadsDone \/ Decide \/ Resubmit \/ Delete
    \/ CbInvoke \/ CbReturn \/ PullCable

LEMMA ElsewhereType == TypeOK /\ Elsewhere => TypeOK'
  <1> SUFFICES ASSUME TypeOK, Elsewhere PROVE TypeOK'
    OBVIOUS
  <1> USE DEF TypeOK, XferState, CallerPc, HandlerPc, CbPc, bus, buffers,
              start, user, At, Goto
  <1>1. CASE Stop  BY <1>1 DEF Stop
  <1>2. CASE Submit
    <2>1. /\ caller' \in CallerPc /\ running' \in BOOLEAN
          /\ xfer' \in [Transfers -> XferState] /\ todo' \subseteq Transfers
      BY <1>2 DEF Submit
    <2> QED  BY <1>2, <2>1 DEF Submit
  <1>3. CASE Cancel  BY <1>3, ZenonT(40) DEF Cancel
  <1>4. CASE AwaitRetired  BY <1>4, ZenonT(40) DEF AwaitRetired
  <1>5. CASE Join  BY <1>5 DEF Join
  <1>6. CASE Release  BY <1>6 DEF Release
  <1>7. ASSUME NEW t \in Transfers, Complete(t) PROVE TypeOK'
    <2>1. PICK l \in {"payload", "decide", "delete"} :
             handler' = [pc |-> l, t |-> t]
      BY <1>7 DEF Complete
    <2>2. handler' \in [pc : HandlerPc, t : Transfers]  BY <2>1
    <2>3. running' \in BOOLEAN /\ xfer' \in [Transfers -> XferState]
      BY <1>7 DEF Complete
    <2> QED  BY <1>7, <2>2, <2>3 DEF Complete
  <1>8. CASE PayloadsDone  BY <1>8 DEF PayloadsDone
  <1>9. CASE Decide  BY <1>9 DEF Decide
  <1>10. CASE Resubmit  BY <1>10 DEF Resubmit
  <1>11. CASE Delete  BY <1>11 DEF Delete
  <1>12. CASE CbInvoke  BY <1>12 DEF CbInvoke
  <1>13. CASE CbReturn  BY <1>13 DEF CbReturn
  <1>14. CASE PullCable  BY <1>14, ZenonT(40) DEF PullCable
  <1> QED
    BY <1>1, <1>2, <1>3, <1>4, <1>5, <1>6, <1>7, <1>8, <1>9, <1>10, <1>11,
       <1>12, <1>13, <1>14 DEF Elsewhere, CallerStep

LEMMA ElsewherePicture == Elsewhere => UNCHANGED picture
  BY DEF Elsewhere, picture, bus, buffers, start, user, Stop, CallerStep,
         Submit, Cancel, AwaitRetired, Join, Release, Complete, PayloadsDone,
         Decide, Resubmit, Delete, CbInvoke, CbReturn, PullCable

LEMMA ElsewhereInv == IInv /\ Elsewhere => IInv'
  BY ElsewhereType, ElsewherePicture, PictureFrame DEF IInv

\* A new stream starts with empty buffers.
LEMMA StartInv == IInv /\ Start => IInv'
  <1> SUFFICES ASSUME IInv, Start PROVE IInv'
    OBVIOUS
  <1>1. hold' \in Slot /\ buf' \in [parts : SUBSET Payloads, err : BOOLEAN,
                                   seq : Nat, fid : {0, 1}]
    BY DEF Start, Slot, Empty
  <1>2. xfer' \in [Transfers -> XferState]  BY DEF Start, XferState
  <1>3. TypeOK'
    BY <1>1, <1>2 DEF Start, IInv, TypeOK, CallerPc, CbPc, bus
  <1>4. FidInv' /\ PictureInv'
    BY DEF Start, FidInv, OneFrameID, PictureInv, Same, Empty
  <1> QED  BY <1>3, <1>4 DEF IInv

\* What is published is what outbuf held.
LEMMA FlipSwapInv == IInv /\ FlipSwap => IInv'
  <1> SUFFICES ASSUME IInv, FlipSwap PROVE IInv'
    OBVIOUS
  <1> USE DEF IInv
  <1>1. wire \in Payloads /\ Swap(buf.parts, Fid(wire))
    BY DEF FlipSwap, Payload
  <1>2. Fid(wire) \in {0, 1}  BY <1>1, FidType
  <1>3. /\ hold'.parts = buf.parts /\ hold'.err = buf.err
        /\ buf'.parts = {}
    BY <1>1 DEF Swap
  <1>4. hold' \in Slot /\ buf' \in [parts : SUBSET Payloads, err : BOOLEAN,
                                   seq : Nat, fid : {0, 1}]
    BY <1>1, <1>2 DEF Swap, Slot, TypeOK
  <1>5. TypeOK'
    BY <1>1, <1>4 DEF FlipSwap, Swap, TypeOK, bus, start, user
  <1>6. FidInv'
    BY <1>3 DEF FlipSwap, FidInv, OneFrameID, Fid
  <1>7. PictureInv'
    BY <1>3 DEF FlipSwap, PictureInv, Same
  <1> QED  BY <1>5, <1>6, <1>7

\* Without a flip the payload is of the picture outbuf holds, or outbuf is
\* empty.
LEMMA AppendPayloadInv == IInv /\ AppendPayload => IInv'
  <1> SUFFICES ASSUME IInv, AppendPayload PROVE IInv'
    OBVIOUS
  <1> USE DEF IInv
  <1> DEFINE parts == buf.parts \cup {wire}
  <1>1. wire \in Payloads /\ WireMoves /\ ~Flip
    BY DEF AppendPayload, Payload
  <1>2. Fid(wire) \in {0, 1}  BY <1>1, FidType
  <1>3. buf.parts \subseteq Payloads /\ parts \subseteq Payloads
    BY <1>1 DEF TypeOK
  <1>4. \A p \in parts : Fid(p) = Fid(wire)
    BY <1>1 DEF Flip, FidInv
  <1>5. ASSUME "silent" \notin Losses, ~buf.err
        PROVE  \A p \in parts : p[1] = wire[1]
    BY <1>1, <1>3, <1>4, <1>5, RecentSameFid DEF PictureInv
  <1>6. \A p \in Payloads : p[1] = wire[1] => Recent(p)'
    BY <1>1, WireType
  <1>7. CASE /\ buf' = [buf EXCEPT !.parts = parts, !.fid = Fid(wire)]
             /\ UNCHANGED <<hold, waits>>
    <2>1. /\ buf'.parts = parts /\ buf'.fid = Fid(wire)
          /\ buf'.err = buf.err
      BY <1>7 DEF TypeOK
    <2>2. buf' \in [parts : SUBSET Payloads, err : BOOLEAN,
                     seq : Nat, fid : {0, 1}]
      BY <1>7, <1>2, <1>3 DEF TypeOK
    <2>3. TypeOK'
      BY <1>1, <1>7, <2>2, WireType DEF AppendPayload, TypeOK, start, user
    <2>4. FidInv'
      BY <1>4, <1>7, <2>1 DEF AppendPayload, FidInv, OneFrameID, Fid
    <2>5. PictureInv'
      BY <1>3, <1>5, <1>6, <1>7, <2>1 DEF AppendPayload, PictureInv, Same
    <2> QED  BY <2>3, <2>4, <2>5
  <1>8. CASE Swap(parts, Fid(wire))
    <2>1. /\ hold'.parts = parts /\ hold'.err = buf.err
          /\ buf'.parts = {}
      BY <1>8 DEF Swap
    <2>2. hold' \in Slot /\ buf' \in [parts : SUBSET Payloads,
                           err : BOOLEAN, seq : Nat, fid : {0, 1}]
      BY <1>8, <1>2, <1>3 DEF Swap, Slot, TypeOK
    <2>3. TypeOK'
      BY <1>1, <1>8, <2>2, WireType DEF AppendPayload, Swap, TypeOK, start, user
    <2>4. FidInv'
      BY <1>4, <2>1 DEF AppendPayload, FidInv, OneFrameID, Fid
    <2>5. PictureInv'
      BY <1>5, <2>1 DEF AppendPayload, PictureInv, Same
    <2> QED  BY <2>3, <2>4, <2>5
  <1> QED  BY <1>7, <1>8 DEF AppendPayload

\* The frame is marked, so nothing is claimed of its payloads.
LEMMA BadPayloadInv == IInv /\ BadPayload => IInv'
  <1> SUFFICES ASSUME IInv, BadPayload PROVE IInv'
    OBVIOUS
  <1> USE DEF IInv
  <1>1. wire \in Payloads /\ WireMoves  BY DEF BadPayload, Payload
  <1>2. /\ buf'.err /\ buf'.parts = buf.parts /\ buf'.fid = buf.fid
        /\ buf' \in [parts : SUBSET Payloads, err : BOOLEAN,
                     seq : Nat, fid : {0, 1}]
    BY DEF BadPayload, TypeOK
  <1>3. TypeOK'
    BY <1>1, <1>2, WireType DEF BadPayload, TypeOK, start, user
  <1>4. FidInv'  BY <1>2 DEF BadPayload, FidInv, OneFrameID, Fid
  <1>5. PictureInv'  BY <1>2 DEF BadPayload, PictureInv, Same
  <1> QED  BY <1>3, <1>4, <1>5

\* It happens only where PictureInv says nothing.
LEMMA SilentLossInv == IInv /\ SilentLoss => IInv'
  <1> SUFFICES ASSUME IInv, SilentLoss PROVE IInv'
    OBVIOUS
  <1> USE DEF IInv
  <1>1. wire \in Payloads /\ WireMoves /\ "silent" \in Losses
    BY DEF SilentLoss, Payload
  <1>2. TypeOK'
    BY <1>1, WireType DEF SilentLoss, TypeOK, buffers, start, user
  <1>3. FidInv'
    BY DEF SilentLoss, FidInv, OneFrameID, Fid, buffers
  <1> QED  BY <1>1, <1>2, <1>3 DEF PictureInv

\* What is kept for user_cb is a published frame that is not marked.
LEMMA CbTakeInv == IInv /\ CbTake => IInv'
  <1> SUFFICES ASSUME IInv, CbTake PROVE IInv'
    OBVIOUS
  <1> USE DEF IInv
  <1>1. frame' = frame \/ (~hold.err /\ frame' = hold.parts)
    BY DEF CbTake
  <1>2. UNCHANGED <<wire, buf, hold>>  BY DEF CbTake, bus
  <1>3. TypeOK'
    BY <1>1 DEF CbTake, TypeOK, Slot, CbPc, bus, start
  <1>4. FidInv'  BY <1>1, <1>2 DEF FidInv, OneFrameID, Fid
  <1>5. PictureInv'  BY <1>1, <1>2 DEF PictureInv, Same, Recent
  <1> QED  BY <1>3, <1>4, <1>5

LEMMA NextInv == IInv /\ [Next]_vars => IInv'
  <1> SUFFICES ASSUME IInv, [Next]_vars PROVE IInv'
    OBVIOUS
  <1>1. CASE Elsewhere \/ Start  BY <1>1, ElsewhereInv, StartInv
  <1>2. CASE FlipSwap \/ AppendPayload
    BY <1>2, FlipSwapInv, AppendPayloadInv
  <1>3. CASE BadPayload \/ SilentLoss
    BY <1>3, BadPayloadInv, SilentLossInv
  <1>4. CASE CbTake  BY <1>4, CbTakeInv
  <1>5. CASE UNCHANGED vars
    <2>1. FidInv' /\ PictureInv'
      BY <1>5, PictureFrame DEF IInv, vars, bus, buffers, picture
    <2>2. TypeOK'
      BY <1>5 DEF IInv, TypeOK, vars, bus, buffers, start, user
    <2> QED  BY <2>1, <2>2 DEF IInv
  <1> QED
    BY <1>1, <1>2, <1>3, <1>4, <1>5
    DEF Next, HandlerStep, CbStep, Elsewhere

-----------------------------------------------------------------------------
(* The theorems                                                            *)

LEMMA Invariance == Spec => []IInv
  BY InitInv, NextInv, PTL DEF Spec

(* The variables keep their types whatever is lost, refused or unplugged:  *)
(* the handler never appends a payload the camera cannot send and          *)
(* last_seq, hold_seq and seq stay counters.                               *)
THEOREM TypeCorrect == Spec => []TypeOK
  BY Invariance, PTL DEF IInv

(* _uvc_process_payload never lets payloads of different frame IDs into    *)
(* the frame the user callback is given, however payloads are lost.        *)
THEOREM FrameIDs == Spec => []OneFrameID
  <1>1. IInv => OneFrameID  BY DEF IInv, FidInv
  <1> QED  BY <1>1, Invariance, PTL

(* As long as every lost payload sets bfh_err, the user callback is never  *)
(* given a mixture of two pictures, although the frame ID is one bit.      *)
THEOREM WholePicture == Spec => []OnePicture
  <1>1. IInv => OnePicture
    BY DEF IInv, PictureInv, Same, OnePicture
  <1> QED  BY <1>1, Invariance, PTL

-----------------------------------------------------------------------------
(* The end of a stream, while the camera stays connected                   *)

\* uvc_stop_streaming passes these stages in turn.
Stages ==
    /\ plugged
    /\ allocated <=> caller # "closed"
    /\ running <=> caller \in {"submit", "streaming"}
    /\ caller \in {"join", "release"} => Retired
    /\ caller \in {"release", "closed"} => cb = "none"
    /\ caller = "closed" => Quiet

\* The transfer the handler works on is neither in flight nor deleted nor
\* one that is yet to be submitted.
InHand ==
    /\ handler.pc # "idle" =>
          xfer[handler.t] = "landed" /\ (caller = "submit" => handler.t \notin todo)
    /\ caller = "submit" => \A t \in todo : xfer[t] = "landed"

EndInv == Stages /\ InHand

LEMMA InitEnd == Init => EndInv
  BY DEF Init, EndInv, Stages, InHand, Quiet

\* Once every transfer is retired the handler is idle.
LEMMA RetiredIdle == InHand /\ TypeOK /\ Retired => handler.pc = "idle"
  BY DEF InHand, TypeOK, Retired

\* The variables EndInv speaks of.
ending == <<plugged, allocated, running, xfer, caller, todo, handler, cb>>

LEMMA EndFrame == ASSUME EndInv, UNCHANGED ending PROVE EndInv'
  BY DEF EndInv, Stages, InHand, Retired, Quiet, ending

\* What the thread does that starts and stops the stream.
LEMMA CallerEnd ==
    ASSUME TypeOK, EndInv, ~Faulty, Start \/ Stop \/ CallerStep
    PROVE  EndInv'
  <1> USE DEF EndInv, bus, buffers, start, user
  <1>1. CASE Start
    BY <1>1 DEF Start, Stages, InHand, Quiet, Retired
  <1>2. CASE Stop  BY <1>2 DEF Stop, Stages, InHand
  <1>3. CASE Submit
    <2>1. PICK t \in todo :
             /\ xfer' = [xfer EXCEPT ![t] = "flying"]
             /\ todo' = todo \ {t}
             /\ caller' = IF todo' = {} THEN "streaming" ELSE "submit"
             /\ UNCHANGED running
      BY <1>3 DEF Submit, Refuses, Stages
    <2>2. caller = "submit" /\ UNCHANGED <<plugged, allocated, handler, cb>>
      BY <1>3 DEF Submit
    <2>3. Stages'  BY <2>1, <2>2 DEF Stages
    <2>4. InHand'
      <3>1. handler.pc # "idle" => handler.t \notin todo
        BY <2>2 DEF InHand
      <3>2. handler.pc # "idle" => xfer'[handler.t] = "landed"
        BY <2>1, <3>1 DEF InHand, TypeOK
      <3>3. \A u \in todo' : xfer'[u] = "landed"
        BY <2>1, <2>2 DEF InHand, TypeOK
      <3> QED  BY <2>1, <2>2, <3>1, <3>2, <3>3 DEF InHand
    <2> QED  BY <2>3, <2>4
  <1>4. CASE Cancel
    <2>1. Stages'  BY <1>4 DEF Cancel, Stages, Retired
    <2>2. InHand'  BY <1>4 DEF Cancel, InHand, TypeOK
    <2> QED  BY <2>1, <2>2
  <1>5. CASE AwaitRetired
    BY <1>5 DEF AwaitRetired, Stages, InHand, Retired
  <1>6. CASE Join  BY <1>6 DEF Join, Stages, InHand, Retired
  <1>7. CASE Release
    <2>1. Quiet
      BY <1>7, RetiredIdle DEF Release, Stages, Quiet, Retired
    <2> QED  BY <1>7, <2>1 DEF Release, Stages, InHand, Quiet
  <1> QED
    BY <1>1, <1>2, <1>3, <1>4, <1>5, <1>6, <1>7 DEF CallerStep

\* What the event handler does: it leaves the caller alone, and a retired
\* stream has nothing to complete.
LEMMA HandlerEnd ==
    ASSUME TypeOK, EndInv, ~Faulty,
           HandlerStep \/ \E t \in Transfers : Complete(t)
    PROVE  EndInv'
  <1> USE DEF EndInv, bus, buffers, start, user, At, Goto
  <1>1. CASE FlipSwap \/ AppendPayload \/ BadPayload \/ SilentLoss
    <2>1. UNCHANGED ending
      BY <1>1 DEF FlipSwap, AppendPayload, BadPayload, SilentLoss, ending
    <2> QED  BY <2>1, EndFrame
  <1>2. CASE PayloadsDone \/ Decide
    <2>1. /\ allocated /\ handler.pc # "idle" /\ handler'.t = handler.t
          /\ UNCHANGED <<plugged, allocated, running, xfer, caller, todo, cb>>
      BY <1>2 DEF PayloadsDone, Decide, TypeOK
    <2>2. Stages'  BY <2>1 DEF Stages, Retired
    <2>3. InHand'  BY <2>1 DEF InHand
    <2> QED  BY <2>2, <2>3
  <1>3. CASE Resubmit
    BY <1>3, RetiredIdle DEF Resubmit, Accepts, Refuses, Stages, InHand,
                             Quiet, Retired, TypeOK
  <1>4. CASE Delete
    BY <1>4, RetiredIdle DEF Delete, Stages, InHand, Quiet, Retired, TypeOK
  <1>5. ASSUME NEW t \in Transfers, Complete(t) PROVE EndInv'
    <2>1. /\ handler.pc = "idle" /\ xfer[t] \in {"flying", "cancelled"}
          /\ xfer' = [xfer EXCEPT ![t] = "landed"]
          /\ handler'.t = t /\ running' = running
          /\ UNCHANGED <<plugged, allocated, caller, todo, cb>>
      BY <1>5 DEF Complete, Stages
    <2>2. Stages'
      BY <2>1 DEF Stages, Retired, Quiet
    <2>3. InHand'
      BY <2>1 DEF InHand, TypeOK
    <2> QED  BY <2>2, <2>3
  <1> QED
    BY <1>1, <1>2, <1>3, <1>4, <1>5 DEF HandlerStep

LEMMA CbEnd ==
    ASSUME EndInv, ~Unplug, CbStep \/ PullCable \/ UNCHANGED vars
    PROVE  EndInv'
  <1> USE DEF EndInv, bus, buffers, start, user
  <1>1. CASE CbStep
    <2>1. /\ allocated /\ cb # "none"
          /\ UNCHANGED <<plugged, allocated, running, xfer, caller, todo,
                         handler>>
      BY <1>1 DEF CbStep, CbTake, CbInvoke, CbReturn
    <2>2. Stages'  BY <2>1 DEF Stages, Retired
    <2>3. InHand'  BY <2>1 DEF InHand
    <2> QED  BY <2>2, <2>3
  <1>2. CASE PullCable  BY <1>2 DEF PullCable
  <1>3. CASE UNCHANGED vars  BY <1>3, EndFrame DEF vars, ending
  <1> QED  BY <1>1, <1>2, <1>3

LEMMA NextEnd ==
    ASSUME ~Faulty, ~Unplug, TypeOK, EndInv, [Next]_vars
    PROVE  EndInv'
  BY CallerEnd, HandlerEnd, CbEnd DEF Next

(* "Closes all streams, ends threads and cancels pollers": when the camera *)
(* stays connected and libusb takes every transfer, uvc_stream_close frees *)
(* the handle after its last transfer is retired and its callback thread   *)
(* has ended, for any number of transfers.  The run unplugged_close shows  *)
(* that it does not when the cable is pulled.                              *)
THEOREM EndsWhilePlugged ==
    ASSUME ~Faulty, ~Unplug PROVE Spec => []EndsThreads
  <1>1. EndInv => EndsThreads
    BY DEF EndInv, Stages, EndsThreads
  <1> QED
    BY <1>1, InitEnd, NextEnd, TypeCorrect, PTL DEF Spec

(* Under the same assumptions the stream implements FrameSource, on which  *)
(* the model of the preview engine rests: user_cb runs only while the      *)
(* handle is allocated, and uvc_stop_streaming returns after the last call.*)
THEOREM ImplementsFrameSource ==
    ASSUME ~Faulty, ~Unplug PROVE Spec => ImplementsSource
  <1>1. Init => Source!Init
    BY DEF Init, Source!Init
  <1>2. EndInv /\ [Next]_vars => [Source!Next]_Source!vars
    <2> SUFFICES ASSUME EndInv, [Next]_vars
                 PROVE  [Source!Next]_Source!vars
      OBVIOUS
    <2> USE DEF Source!Next, Source!vars, bus, buffers, start, user
    <2>1. CASE Start
      BY <2>1 DEF Start, EndInv, Stages, Source!Start
    <2>2. CASE Release
      BY <2>2 DEF Release, EndInv, Stages, Source!Stop
    <2>3. CASE CbInvoke
      BY <2>3 DEF CbInvoke, Source!Deliver
    <2>4. CASE CbReturn
      BY <2>4 DEF CbReturn, Source!Return
    <2>5. CASE CbTake  BY <2>5 DEF CbTake
    <2>6. CASE Join  BY <2>6 DEF Join
    <2>7. CASE Stop \/ Submit \/ Cancel \/ AwaitRetired \/ PullCable
               \/ UNCHANGED vars
      BY <2>7 DEF Stop, Submit, Cancel, AwaitRetired, PullCable, vars
    <2>8. CASE HandlerStep \/ \E t \in Transfers : Complete(t)
      BY <2>8 DEF HandlerStep, FlipSwap, AppendPayload, BadPayload,
                  SilentLoss, PayloadsDone, Decide, Resubmit, Delete, Complete
    <2> QED
      BY <2>1, <2>2, <2>3, <2>4, <2>5, <2>6, <2>7, <2>8
      DEF Next, CallerStep, CbStep
  <1>3. Spec => []EndInv
    BY InitEnd, NextEnd, TypeCorrect, PTL DEF Spec
  <1> QED
    BY <1>1, <1>2, <1>3, PTL DEF Spec, Source!Spec, ImplementsSource

\* A transfer that is neither in flight nor deleted is in somebody's hands.
OnTheWay ==
    \A t \in Transfers :
       xfer[t] = "landed" => \/ caller = "submit" /\ t \in todo
                             \/ handler.pc # "idle" /\ handler.t = t

LEMMA NextOnTheWay ==
    ASSUME ~Faulty, TypeOK, EndInv, OnTheWay, [Next]_vars
    PROVE  OnTheWay'
  <1> USE DEF bus, buffers, start, user, At, Goto
  <1>1. CASE Start  BY <1>1 DEF Start, OnTheWay
  <1>2. CASE Submit
    <2>1. PICK t \in todo :
             /\ xfer' = [xfer EXCEPT ![t] = "flying"]
             /\ todo' = todo \ {t}
             /\ caller' = IF todo' = {} THEN "streaming" ELSE "submit"
      BY <1>2 DEF Submit, Refuses, EndInv, Stages
    <2>2. handler' = handler  BY <1>2 DEF Submit
    <2> QED  BY <2>1, <2>2 DEF OnTheWay, TypeOK
  <1>3. CASE Cancel  BY <1>3 DEF Cancel, OnTheWay
  <1>4. CASE PayloadsDone \/ Decide
    <2>1. /\ handler'.pc # "idle" /\ handler'.t = handler.t /\ handler.pc # "idle"
          /\ UNCHANGED <<xfer, caller, todo>>
      BY <1>4 DEF PayloadsDone, Decide, TypeOK
    <2> QED  BY <2>1 DEF OnTheWay
  <1>5. CASE Resubmit \/ Delete
    <2>1. /\ \E x \in {"flying", "null"} : xfer' = [xfer EXCEPT ![handler.t] = x]
          /\ UNCHANGED <<caller, todo>>
      BY <1>5 DEF Resubmit, Delete, Accepts, Refuses, EndInv, Stages
    <2> QED  BY <2>1 DEF OnTheWay, TypeOK
  <1>6. ASSUME NEW t \in Transfers, Complete(t) PROVE OnTheWay'
    <2>1. /\ handler.pc = "idle" /\ handler'.pc # "idle" /\ handler'.t = t
          /\ xfer' = [xfer EXCEPT ![t] = "landed"]
          /\ UNCHANGED <<caller, todo>>
      BY <1>6 DEF Complete
    <2> QED  BY <2>1 DEF OnTheWay, TypeOK
  <1>7. CASE Stop \/ AwaitRetired \/ Join \/ Release
    <2>1. UNCHANGED <<xfer, todo, handler>> /\ caller # "submit"
      BY <1>7 DEF Stop, AwaitRetired, Join, Release
    <2> QED  BY <2>1 DEF OnTheWay
  <1>8. CASE UNCHANGED <<xfer, caller, todo, handler>>
    BY <1>8 DEF OnTheWay
  <1>9. FlipSwap \/ AppendPayload \/ BadPayload \/ SilentLoss \/ CbStep
           \/ PullCable \/ UNCHANGED vars
        => UNCHANGED <<xfer, caller, todo, handler>>
    BY DEF FlipSwap, AppendPayload, BadPayload, SilentLoss, CbStep, CbTake,
           CbInvoke, CbReturn, PullCable, vars
  <1> QED
    BY <1>1, <1>2, <1>3, <1>4, <1>5, <1>6, <1>7, <1>8, <1>9
    DEF Next, CallerStep, HandlerStep

(* uvc_stream_stop does not wait for nothing: a transfer that is not       *)
(* retired is in flight, cancelled, or in the hands of the event handler.  *)
StopHasWork ==
    caller = "waiting" =>
       \A t \in Transfers :
          \/ xfer[t] \in {"null", "flying", "cancelled"}
          \/ handler.pc # "idle" /\ handler.t = t

(* While the camera stays connected and libusb takes every transfer, a     *)
(* stop waits only for transfers that are on their way back: those in      *)
(* flight, cancelled or being handled, for any number of transfers.        *)
THEOREM StopHasWorkAlways ==
    ASSUME ~Faulty, ~Unplug PROVE Spec => []StopHasWork
  <1>1. Init => OnTheWay  BY DEF Init, OnTheWay
  <1>2. TypeOK /\ OnTheWay => StopHasWork
    BY DEF TypeOK, XferState, OnTheWay, StopHasWork
  <1>3. TypeOK /\ EndInv /\ OnTheWay /\ [Next]_vars => EndInv' /\ OnTheWay'
    BY NextEnd, NextOnTheWay
  <1> QED
    BY <1>1, <1>2, <1>3, InitEnd, TypeCorrect, PTL DEF Spec

-----------------------------------------------------------------------------
(* cb_cond: nobody oversleeps, whatever fails                              *)

\* Who tells the callback thread that the stream has ended.
Broadcaster ==
    \/ handler.pc = "delete"
    \/ caller \in {"cancel", "release"}
    \/ caller = "waiting" /\ ~Retired

Sleepers ==
    /\ "caller" \in waits => caller = "waiting" /\ ~Retired
    /\ "cb" \in waits => cb = "waiting"
    /\ allocated /\ "cb" \in waits => lastSeq = hold.seq /\ (running \/ Broadcaster)

LEMMA InitSleepers == Init => Sleepers
  BY DEF Init, Sleepers

\* Stopping the stream passes the duty to broadcast on, or broadcasts.
LEMMA CallerSleepers ==
    ASSUME TypeOK, Sleepers, Start \/ Stop \/ CallerStep
    PROVE  Sleepers'
  <1> USE DEF bus, buffers, start, user
  <1>1. CASE Start
    <2>1. "cb" \notin waits /\ "caller" \notin waits
      BY <1>1 DEF Start, Quiet, Sleepers
    <2> QED  BY <1>1, <2>1 DEF Start, Sleepers
  <1>2. CASE Stop
    BY <1>2 DEF Stop, Sleepers, Broadcaster, Retired
  <1>3. CASE Submit
    BY <1>3 DEF Submit, Sleepers, Broadcaster
  <1>4. CASE Cancel
    <2>1. ~Retired => ~Retired'
      BY <1>4 DEF Cancel, Retired, TypeOK
    <2> QED  BY <1>4, <2>1 DEF Cancel, Sleepers, Broadcaster
  <1>5. CASE AwaitRetired
    BY <1>5 DEF AwaitRetired, Sleepers, Broadcaster, Retired
  <1>6. CASE Join
    BY <1>6 DEF Join, Sleepers
  <1>7. CASE Release
    BY <1>7 DEF Release, Sleepers
  <1> QED
    BY <1>1, <1>2, <1>3, <1>4, <1>5, <1>6, <1>7 DEF CallerStep

\* What ends a transfer for good broadcasts before anybody finds it gone.
LEMMA HandlerSleepers ==
    ASSUME TypeOK, Sleepers, HandlerStep \/ \E t \in Transfers : Complete(t)
    PROVE  Sleepers'
  <1> USE DEF bus, buffers, start, user, At, Goto
  <1>1. CASE FlipSwap
    BY <1>1 DEF FlipSwap, Swap, Sleepers
  <1>2. CASE AppendPayload
    <2>1. UNCHANGED <<allocated, running, xfer, caller, handler, cb, lastSeq>>
      BY <1>2 DEF AppendPayload
    <2>2. waits' = {} \/ UNCHANGED <<hold, waits>>
      BY <1>2 DEF AppendPayload, Swap
    <2> QED  BY <2>1, <2>2 DEF Sleepers, Broadcaster, Retired
  <1>3. CASE BadPayload \/ SilentLoss
    BY <1>3 DEF BadPayload, SilentLoss, Sleepers, Broadcaster, Retired
  <1>4. CASE PayloadsDone \/ Decide
    <2>1. /\ UNCHANGED <<allocated, running, xfer, hold, waits, caller, cb, lastSeq>>
          /\ handler.pc # "delete"
      BY <1>4 DEF PayloadsDone, Decide
    <2> QED  BY <2>1 DEF Sleepers, Broadcaster, Retired
  <1>5. CASE Resubmit
    <2>1. /\ UNCHANGED <<allocated, running, hold, waits, caller, cb, lastSeq>>
          /\ handler.pc # "delete"
      BY <1>5 DEF Resubmit
    <2>2. ~Retired => ~Retired'
      BY <1>5 DEF Resubmit, Retired, TypeOK
    <2> QED  BY <2>1, <2>2 DEF Sleepers, Broadcaster
  <1>6. CASE Delete
    BY <1>6 DEF Delete, Sleepers
  <1>7. ASSUME NEW t \in Transfers, Complete(t) PROVE Sleepers'
    <2>1. /\ UNCHANGED <<allocated, hold, waits, caller, cb, lastSeq>>
          /\ handler.pc = "idle"
          /\ running' = running \/ handler'.pc = "delete"
      BY <1>7 DEF Complete
    <2>2. ~Retired'
      BY <1>7 DEF Complete, Retired, TypeOK
    <2> QED  BY <2>1, <2>2 DEF Sleepers, Broadcaster
  <1> QED
    BY <1>1, <1>2, <1>3, <1>4, <1>5, <1>6, <1>7 DEF HandlerStep

\* The callback thread tests running and hold_seq before it sleeps.
LEMMA CbSleepers ==
    ASSUME TypeOK, Sleepers, CbStep \/ PullCable \/ UNCHANGED vars
    PROVE  Sleepers'
  <1> USE DEF bus, buffers, start, user
  <1>1. CASE CbTake
    <2>1. /\ UNCHANGED <<allocated, running, xfer, hold, caller, handler>>
          /\ "cb" \notin waits
      BY <1>1 DEF CbTake, Sleepers
    <2>2. \/ waits' = waits
          \/ /\ waits' = waits \cup {"cb"} /\ cb' = "waiting" /\ running
             /\ lastSeq' = lastSeq /\ lastSeq = hold.seq
      BY <1>1 DEF CbTake
    <2> QED  BY <2>1, <2>2 DEF Sleepers, Retired
  <1>2. CASE CbInvoke \/ CbReturn
    BY <1>2 DEF CbInvoke, CbReturn, Sleepers, Retired
  <1>3. CASE PullCable
    BY <1>3 DEF PullCable, Sleepers, Broadcaster, Retired
  <1>4. CASE UNCHANGED vars
    BY <1>4 DEF vars, Sleepers, Broadcaster, Retired
  <1> QED  BY <1>1, <1>2, <1>3, <1>4 DEF CbStep

LEMMA NextSleepers == TypeOK /\ Sleepers /\ [Next]_vars => Sleepers'
  BY CallerSleepers, HandlerSleepers, CbSleepers DEF Next

(* Whatever libusb refuses and whenever the cable is pulled, nobody waits  *)
(* on cb_cond without somebody who will broadcast it, although running is  *)
(* cleared without cb_mutex and each test is made once.                    *)
THEOREM NoOversleepAlways == Spec => []NoOversleep
  <1>1. Sleepers => NoOversleep
    BY DEF Sleepers, Broadcaster, NoOversleep
  <1> QED  BY <1>1, InitSleepers, NextSleepers, TypeCorrect, PTL DEF Spec

-----------------------------------------------------------------------------
(* The numbers of the frames                                               *)

\* The callback thread has seen no frame that is not published, and a frame
\* that was published has a number that will not come again.
Counted ==
    /\ lastSeq <= hold.seq
    /\ hold = Empty \/ hold.seq < buf.seq

LEMMA SwapCounted ==
    ASSUME TypeOK, Counted, NEW parts, NEW fid, Swap(parts, fid), UNCHANGED lastSeq
    PROVE  Counted' /\ (hold # Empty => lastSeq # hold'.seq)
  <1>1. /\ lastSeq \in Nat /\ hold.seq \in Nat /\ buf.seq \in Nat
        /\ hold'.seq = buf.seq /\ buf'.seq = buf.seq + 1
    BY DEF TypeOK, Slot, Swap
  <1>2. hold = Empty => hold.seq = 0  BY DEF Empty
  <1> QED  BY <1>1, <1>2, SMT DEF Counted

LEMMA NextCounted ==
    ASSUME TypeOK, Counted, [Next]_vars
    PROVE  /\ Counted'
           /\ hold' # hold /\ Empty \notin {hold, hold'} => lastSeq # hold'.seq
  <1> USE DEF bus, buffers, start, user
  <1>1. CASE Start
    <2>1. hold' = Empty /\ lastSeq' = 0  BY <1>1 DEF Start
    <2> QED  BY <2>1 DEF Counted, Empty
  <1>2. CASE FlipSwap \/ AppendPayload
    <2>1. lastSeq' = lastSeq  BY <1>2 DEF FlipSwap, AppendPayload
    <2>2. CASE \E parts, fid : Swap(parts, fid)
      BY <2>1, <2>2, SwapCounted
    <2>3. CASE hold' = hold /\ buf'.seq = buf.seq
      BY <2>1, <2>3 DEF Counted
    <2>4. buf' = [buf EXCEPT !.parts = buf.parts \cup {wire}, !.fid = Fid(wire)]
             => buf'.seq = buf.seq
      BY DEF TypeOK
    <2> QED
      BY <1>2, <2>2, <2>3, <2>4 DEF FlipSwap, AppendPayload
  <1>3. CASE BadPayload
    <2>1. UNCHANGED <<hold, lastSeq>> /\ buf'.seq = buf.seq
      BY <1>3 DEF BadPayload, TypeOK
    <2> QED  BY <2>1 DEF Counted
  <1>4. CASE CbTake
    <2>1. UNCHANGED <<hold, buf>> /\ lastSeq' \in {lastSeq, hold.seq}
      BY <1>4 DEF CbTake
    <2>2. hold.seq \in Nat  BY DEF TypeOK, Slot
    <2> QED  BY <2>1, <2>2 DEF Counted
  <1>5. CASE UNCHANGED <<hold, buf, lastSeq>>
    BY <1>5 DEF Counted
  <1>6. Stop \/ CallerStep \/ (\E t \in Transfers : Complete(t)) \/ SilentLoss
           \/ PayloadsDone \/ Decide \/ Resubmit \/ Delete \/ CbInvoke
           \/ CbReturn \/ PullCable \/ UNCHANGED vars
        => UNCHANGED <<hold, buf, lastSeq>>
    BY DEF Stop, CallerStep, Submit, Cancel, AwaitRetired, Join, Release,
           Complete, SilentLoss, PayloadsDone, Decide, Resubmit, Delete,
           CbInvoke, CbReturn, PullCable, vars
  <1> QED
    BY <1>1, <1>2, <1>3, <1>4, <1>5, <1>6 DEF Next, HandlerStep, CbStep

(* A frame that is published after another in the same stream is never     *)
(* taken for one that was seen before, over any number of pictures.        *)
THEOREM NewFrameSeenAlways == Spec => NewFrameSeen
  <1>1. Init => Counted  BY DEF Init, Counted, Empty
  <1>2. TypeOK /\ Counted /\ [Next]_vars => Counted'
    BY NextCounted
  <1>3. TypeOK /\ Counted /\ [Next]_vars
          => [hold' # hold /\ Empty \notin {hold, hold'} => lastSeq # hold'.seq]_vars
    BY NextCounted
  <1> QED  BY <1>1, <1>2, <1>3, TypeCorrect, PTL DEF Spec, NewFrameSeen

=============================================================================
