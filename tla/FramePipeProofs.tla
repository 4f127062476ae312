--------------------------- MODULE FramePipeProofs ---------------------------
(***************************************************************************)
(* Proofs about FramePipe, for every capacity and every number of          *)
(* pictures.                                                               *)
(***************************************************************************)
EXTENDS FramePipe, TLAPS

\* The order of picture numbers is transitive.
LEMMA BeforeTransitive ==
    ASSUME NEW l \in Stamps, NEW m \in Stamps, NEW n \in Stamps,
           Before(l, m), Before(m, n)
    PROVE  Before(l, n)
BY StampAssumption DEF Stamps, Before

\* A new number comes after everything sent so far.
LEMMA NextAfterSent ==
    ASSUME TypeOK, Send, NEW m \in Stamps, m <= sent
    PROVE  Before(m, sent') /\ m <= sent'
BY StampAssumption DEF TypeOK, Stamps, Before, Send

LEMMA TypeStep == TypeOK /\ [Next]_vars => TypeOK'
<1> SUFFICES ASSUME TypeOK, [Next]_vars PROVE TypeOK'
  OBVIOUS
<1> USE StampAssumption, CapacityAssumption DEF TypeOK, Stamps
<1>1. CASE Send BY <1>1 DEF Send
<1>2. CASE Enqueue BY <1>2 DEF Enqueue
<1>3. CASE Draw BY <1>3 DEF Draw
<1>4. CASE Offer BY <1>4 DEF Offer
<1>5. CASE Take BY <1>5 DEF Take
<1>6. CASE Deliver BY <1>6 DEF Deliver
<1>7. CASE DropArriving BY <1>7 DEF DropArriving
<1>8. CASE DropQueue BY <1>8 DEF DropQueue
<1>9. CASE DropHand BY <1>9 DEF DropHand
<1>10. CASE DropLatest BY <1>10 DEF DropLatest
<1>11. CASE DropTaken BY <1>11 DEF DropTaken
<1>12. CASE UNCHANGED vars BY <1>12 DEF vars
<1> QED BY <1>1, <1>2, <1>3, <1>4, <1>5, <1>6, <1>7, <1>8, <1>9, <1>10,
           <1>11, <1>12 DEF Next

\* Every variable keeps its type.
THEOREM TypeCorrect == Spec => []TypeOK
<1>1. Init => TypeOK
  BY StampAssumption, CapacityAssumption DEF Init, TypeOK, Stamps
<1>2. QED BY <1>1, TypeStep, PTL DEF Spec

LEMMA OrderedStep == TypeOK /\ Ordered /\ [Next]_vars => Ordered'
<1> SUFFICES ASSUME TypeOK, Ordered, [Next]_vars PROVE Ordered'
  OBVIOUS
<1>1. CASE Send
  BY <1>1, StampAssumption DEF Send, TypeOK, Stamps, Ordered, Before
<1>2. CASE Enqueue
  BY <1>2, StampAssumption DEF Enqueue, TypeOK, Stamps, Ordered, Before
<1>3. CASE Draw
  BY <1>3, StampAssumption DEF Draw, TypeOK, Stamps, Ordered, Before
<1>4. CASE Offer
  BY <1>4, StampAssumption DEF Offer, TypeOK, Stamps, Ordered, Before
<1>5. CASE Take
  BY <1>5, StampAssumption DEF Take, TypeOK, Stamps, Ordered, Before
<1>6. CASE Deliver
  BY <1>6, StampAssumption DEF Deliver, TypeOK, Stamps, Ordered, Before
<1>7. CASE DropArriving
  BY <1>7 DEF DropArriving, Ordered, Before
<1>8. CASE DropQueue
  BY <1>8 DEF DropQueue, Ordered, Before
<1>9. CASE DropHand
  BY <1>9, StampAssumption DEF DropHand, TypeOK, Stamps, Ordered, Before
<1>10. CASE DropLatest
  BY <1>10, StampAssumption DEF DropLatest, TypeOK, Stamps, Ordered, Before
<1>11. CASE DropTaken
  BY <1>11, StampAssumption, SMTT(20)
      DEF DropTaken, TypeOK, Stamps, Ordered, Before
<1>12. CASE UNCHANGED vars
  BY <1>12 DEF vars, Ordered, Before
<1> QED BY <1>1, <1>2, <1>3, <1>4, <1>5, <1>6, <1>7, <1>8, <1>9, <1>10,
           <1>11, <1>12 DEF Next

\* No picture overtakes another on its way through the three threads.
THEOREM NoOvertaking == Spec => []Ordered
<1>1. Init => Ordered
  BY StampAssumption DEF Init, Ordered, Before
<1>2. QED BY <1>1, OrderedStep, TypeCorrect, PTL DEF Spec

\* IFrameCallback.onFrame is given the pictures in order and at most once.
THEOREM ForwardDelivery == Spec => DeliveredForward
<1>1. Ordered /\ [Next]_vars => [Deliver => Before(delivered, delivered')]_vars
  BY DEF Ordered, Deliver
<1>2. QED BY <1>1, NoOvertaking, PTL DEF Spec, DeliveredForward
=============================================================================
