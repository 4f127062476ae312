------------------------------ MODULE FramePipe ------------------------------
(***************************************************************************)
(* What the preview engine promises about pictures.  A picture passes from *)
(* the camera through a bounded first-in first-out queue to the screen,    *)
(* then through a place that keeps only the latest one to the              *)
(* application's callback.  It may be dropped at every point, and never    *)
(* overtaken or delivered twice.  UVCPreview implements this.              *)
(*                                                                         *)
(* Pictures are numbered from 1 in the order they are sent; all from       *)
(* MaxStamp on share that number.  0 stands for no picture.                *)
(***************************************************************************)
EXTENDS Integers, Sequences

CONSTANTS Capacity,  \* of the preview queue
          MaxStamp   \* largest picture number

ASSUME CapacityAssumption == Capacity \in Nat \ {0}
ASSUME StampAssumption == MaxStamp \in Nat \ {0}

VARIABLES sent,       \* number of the last picture sent
          arriving,   \* picture being copied for the queue
          queue,      \* pictures waiting to be drawn
          hand,       \* picture being drawn
          latest,     \* picture waiting for the application
          taken,      \* picture being prepared for the application
          delivered   \* last picture given to the application

vars == <<sent, arriving, queue, hand, latest, taken, delivered>>

Stamps == 0..MaxStamp

Init == /\ sent = 0 /\ arriving = 0 /\ queue = <<>> /\ hand = 0
        /\ latest = 0 /\ taken = 0 /\ delivered = 0

Send == /\ arriving = 0
        /\ sent' = IF sent < MaxStamp THEN sent + 1 ELSE sent
        /\ arriving' = sent'
        /\ UNCHANGED <<queue, hand, latest, taken, delivered>>

\* Mutant: room for one picture too many.
EnqueueOneMore == /\ arriving # 0 /\ Len(queue) <= Capacity
                  /\ queue' = Append(queue, arriving)
                  /\ arriving' = 0
                  /\ UNCHANGED <<sent, hand, latest, taken, delivered>>

Enqueue == /\ arriving # 0 /\ Len(queue) < Capacity
           /\ queue' = Append(queue, arriving)
           /\ arriving' = 0
           /\ UNCHANGED <<sent, hand, latest, taken, delivered>>

Draw == /\ hand = 0 /\ queue # <<>>
        /\ hand' = Head(queue)
        /\ queue' = Tail(queue)
        /\ UNCHANGED <<sent, arriving, latest, taken, delivered>>

\* Keep only the latest one.
Offer == /\ hand # 0
         /\ latest' = hand
         /\ hand' = 0
         /\ UNCHANGED <<sent, arriving, queue, taken, delivered>>

\* Mutant: the picture taken stays the latest one.
TakeAgain == /\ taken = 0 /\ latest # 0
             /\ taken' = latest
             /\ UNCHANGED <<sent, arriving, queue, hand, latest, delivered>>

Take == /\ taken = 0 /\ latest # 0
        /\ taken' = latest
        /\ latest' = 0
        /\ UNCHANGED <<sent, arriving, queue, hand, delivered>>

Deliver == /\ taken # 0
           /\ delivered' = taken
           /\ taken' = 0
           /\ UNCHANGED <<sent, arriving, queue, hand, latest>>

\* Pictures are dropped one by one, and the queue as a whole.
DropArriving == arriving # 0 /\ arriving' = 0
                /\ UNCHANGED <<sent, queue, hand, latest, taken, delivered>>
DropQueue    == queue # <<>> /\ queue' = <<>>
                /\ UNCHANGED <<sent, arriving, hand, latest, taken, delivered>>
DropHand     == hand # 0 /\ hand' = 0
                /\ UNCHANGED <<sent, arriving, queue, latest, taken, delivered>>
DropLatest   == latest # 0 /\ latest' = 0
                /\ UNCHANGED <<sent, arriving, queue, hand, taken, delivered>>
DropTaken    == taken # 0 /\ taken' = 0
                /\ UNCHANGED <<sent, arriving, queue, hand, latest, delivered>>

Next == \/ Send \/ Enqueue \/ Draw \/ Offer \/ Take \/ Deliver
        \/ DropArriving \/ DropQueue \/ DropHand \/ DropLatest \/ DropTaken

Spec == Init /\ [][Next]_vars

-----------------------------------------------------------------------------

TypeOK ==
    /\ sent \in Stamps /\ arriving \in Stamps /\ hand \in Stamps
    /\ latest \in Stamps /\ taken \in Stamps /\ delivered \in Stamps
    /\ queue \in Seq(1..MaxStamp) /\ Len(queue) <= Capacity

\* Picture m was sent before picture n, as far as the numbers tell.
Before(m, n) == m < n \/ n = MaxStamp

(* No overtaking: of two pictures on their way the one further along was   *)
(* sent earlier, and what is delivered was sent before all of them         *)
(* (previewFrames, captureQueu and the locals of the three threads).       *)
Ordered ==
    /\ arriving # 0 => arriving = sent
    /\ \A i, j \in 1..Len(queue) : i < j => Before(queue[i], queue[j])
    /\ \A i \in 1..Len(queue) :
          /\ queue[i] <= sent
          /\ arriving # 0 => Before(queue[i], arriving)
          /\ Before(hand, queue[i]) /\ Before(latest, queue[i])
          /\ Before(taken, queue[i]) /\ Before(delivered, queue[i])
    /\ \A m \in {hand, latest, taken, delivered} :
          m <= sent /\ (arriving # 0 => Before(m, arriving))
    /\ hand # 0 => /\ Before(latest, hand) /\ Before(taken, hand)
                   /\ Before(delivered, hand)
    /\ latest # 0 => Before(taken, latest) /\ Before(delivered, latest)
    /\ taken # 0 => Before(delivered, taken)

(* IFrameCallback.onFrame is given every picture at most once, and in the  *)
(* order the camera sent them.                                             *)
DeliveredForward == [][Deliver => Before(delivered, delivered')]_vars
=============================================================================
