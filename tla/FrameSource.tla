---------------------------- MODULE FrameSource ----------------------------
(***************************************************************************)
(* What uvc_start_streaming_bandwidth and uvc_stop_streaming promise the   *)
(* preview engine: the frame callback runs one call at a time, only while  *)
(* the stream is open, and uvc_stop_streaming returns after the last call. *)
(* UVCStream implements it and UVCPreview is written against it.           *)
(***************************************************************************)
VARIABLES streaming, inCallback

vars == <<streaming, inCallback>>

Init == streaming = FALSE /\ inCallback = FALSE

Start   == ~streaming /\ ~inCallback /\ streaming' = TRUE /\ UNCHANGED inCallback
Deliver == streaming /\ ~inCallback /\ inCallback' = TRUE /\ UNCHANGED streaming
Return  == inCallback /\ inCallback' = FALSE /\ UNCHANGED streaming
Stop    == ~inCallback /\ streaming' = FALSE /\ UNCHANGED inCallback

Next == Start \/ Deliver \/ Return \/ Stop
Spec == Init /\ [][Next]_vars
=============================================================================
