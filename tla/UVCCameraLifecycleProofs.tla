---------------------- MODULE UVCCameraLifecycleProofs ----------------------
(* Theorems of UVCCameraLifecycle for any number of setter threads, of     *)
(* references and of cameras opened one after the other: who may still use *)
(* the handle, the native object and the references when they are freed.   *)
EXTENDS UVCCameraLifecycle, TLAPS

(* From uvc_open to uvc_free_devh, and where the handle is always there.   *)
Bound == {"bindStatus", "bindButton", "release", "deleteButton", "kill",
          "libusbClose", "join", "free"}
(* Neither before connect has got a device nor after release let it go.    *)
Bare  == {"getDevice", "destroy", "exit"}

(* What connect and release hold at each of their steps.                   *)
Holds ==
    /\ op.pc \in Bound => devh.set
    /\ devh.set => /\ op.pc \in Bound \cup {"idle"}
                   /\ device.set /\ device.ref = 2 /\ fds = 1
                   /\ usbfs /\ ctx
                   /\ op.pc # "bindStatus" => mFd
    /\ op.pc \in {"getDevice", "uvcOpen", "openFailed"} => usbfs /\ ctx /\ ~mFd
    /\ op.pc \in {"getDevice", "uvcOpen"} => devh.opened < MaxOpen
    /\ op.pc \in {"uvcOpen", "openFailed"} =>
          device.set /\ device.ref = 1 /\ fds = 1
    /\ op.pc \in Bare \/ (op.pc = "idle" /\ ~devh.set) =>
          ~device.set /\ device.ref = 0 /\ fds = 0 /\ ~mFd
    /\ op.pc = "unref" =>
          \/ device.set /\ device.ref = 1 /\ fds = 1 /\ mFd /\ usbfs
          \/ ~device.set /\ device.ref = 0 /\ fds = 0 /\ ~mFd

(* The handler thread is there with the handle; no update comes after      *)
(* libusb_close; it ends for kill_handler_thread only.                     *)
Serves ==
    /\ handler.pc = "none" <=> ~devh.set \/ op.pc = "free"
    /\ IF devh.set THEN devh.opened # 0 ELSE xfer = "none"
    /\ RunsCallback => xfer # "none"
    /\ op.pc \in {"join", "free"} =>
          xfer # "flying" /\ handler.pc \notin {"notify", "call", "resubmit"}
    /\ handler.pc = "exited" => kill
    /\ kill => /\ devh.opened # 0
               /\ devh.opened = 1 /\ devh.set =>
                     op.pc \in {"libusbClose", "join", "free"}

(* Until release deletes them, the objects libuvc calls are alive.         *)
Calls ==
    /\ RunsCallback => called[handler.kind]
    /\ devh.set /\ op.pc \in {"idle", "bindStatus", "bindButton", "release"} =>
          \A k \in Kinds : called[k] => obj[k] = "alive"

(* A reference is in one place: with one object or in one setter's hand.   *)
Busy(s) == setter[s].pc # "idle" /\ setter[s].new # NULL
OneOwner ==
    /\ \A k \in Kinds : ref[k] # NULL => ref[k] \in live
    /\ ref["status"] # NULL => ref["status"] # ref["button"]
    /\ \A s \in Setters : Busy(s) =>
          /\ setter[s].new \in live
          /\ \A k \in Kinds : setter[s].new # ref[k]
          /\ \A t \in Setters : Busy(t) /\ t # s => setter[t].new # setter[s].new
    /\ handler.pc = "call" => ref[handler.kind] # NULL

IInv == TypeOK /\ Holds /\ Serves /\ Calls /\ OneOwner

-----------------------------------------------------------------------------
(* Types                                                                   *)

LEMMA TypeInit == Init => TypeOK
<1> SUFFICES ASSUME Init PROVE TypeOK
  OBVIOUS
<1>1. /\ op \in [pc : OpPc, destroys : BOOLEAN]
      /\ handler \in [pc : HandlerPc, kind : Kinds]
  BY DEF Init, OpPc, HandlerPc, Kinds
<1>2. /\ device \in [set : BOOLEAN, ref : Nat]
      /\ devh \in [set : BOOLEAN, opened : 0..MaxOpen]
  BY BoundAssumption DEF Init
<1>3. setter \in [Setters -> [pc : SetterPc, kind : Kinds,
                              new : Refs \cup {NULL}, open : 0..MaxOpen]]
  BY BoundAssumption DEF Init, SetterPc, Kinds
<1>4. /\ called \in [Kinds -> BOOLEAN]
      /\ obj \in [Kinds -> {"none", "alive", "deleted"}]
      /\ ref \in [Kinds -> Refs \cup {NULL}] /\ live \subseteq Refs
  BY DEF Init
<1>5. /\ ptr \in BOOLEAN /\ native \in BOOLEAN /\ ctx \in BOOLEAN
      /\ kill \in BOOLEAN /\ usbfs \in BOOLEAN /\ fds \in Nat
      /\ mFd \in BOOLEAN /\ stray \in {0, 1}
      /\ xfer \in {"none", "idle", "flying"}
  BY DEF Init
<1>. QED BY <1>1, <1>2, <1>3, <1>4, <1>5 DEF TypeOK

LEMMA TypeStep == ASSUME IInv, Next PROVE TypeOK'
<1>. TypeOK /\ Holds
  BY DEF IInv
<1>. USE DEF TypeOK, OpPc, HandlerPc, Go, At, objects, context, handle, files,
             java
<1>1. CASE Connect
  <2>1. op' \in [pc : OpPc, destroys : BOOLEAN] /\ ctx' \in BOOLEAN
    BY <1>1 DEF Connect
  <2>2. /\ usbfs' = TRUE
        /\ UNCHANGED <<ptr, native, kill, device, devh, fds, mFd, stray, xfer,
                       called, obj, ref, live, handler, setter>>
    BY <1>1 DEF Connect
  <2>. HIDE DEF OpPc, HandlerPc
  <2>. QED BY <2>1, <2>2
<1>2. ASSUME NEW destroys \in BOOLEAN, Release(destroys) PROVE TypeOK'
  <2>1. op' \in [pc : OpPc, destroys : BOOLEAN]
    BY <1>2 DEF Release
  <2>. QED BY <1>2, <2>1 DEF Release
<1>3. CASE GetDevice
  <2>1. op' \in [pc : OpPc, destroys : BOOLEAN]
    BY <1>3 DEF GetDevice
  <2>2. /\ \/ device' = [set |-> TRUE, ref |-> 1]
           \/ device' = [set |-> FALSE, ref |-> 0]
        /\ fds' = fds + 1 \/ fds' = fds
    BY <1>3 DEF GetDevice
  <2>3. fds' \in Nat
    BY <2>2
  <2>4. /\ [set |-> TRUE, ref |-> 1] \in [set : BOOLEAN, ref : Nat]
        /\ [set |-> FALSE, ref |-> 0] \in [set : BOOLEAN, ref : Nat]
    OBVIOUS
  <2>5. device' \in [set : BOOLEAN, ref : Nat]
    BY <2>2, <2>4
  <2>. QED BY <1>3, <2>1, <2>3, <2>5 DEF GetDevice
<1>4. CASE UvcOpen
  <2>1. devh.opened + 1 \in 0..MaxOpen
    BY <1>4, BoundAssumption DEF UvcOpen, Holds
  <2>. QED BY <1>4, <2>1 DEF UvcOpen
<1>5. CASE UvcOpenFails
  BY <1>5 DEF UvcOpenFails
<1>6. CASE ConnectFails
  BY <1>6 DEF ConnectFails, Holds
<1>7. ASSUME NEW k \in Kinds, NEW next \in OpPc, Bind(k, next) PROVE TypeOK'
  <2>1. op' \in [pc : OpPc, destroys : BOOLEAN]
    BY <1>7 DEF Bind
  <2>2. /\ called' \in [Kinds -> BOOLEAN]
        /\ obj' \in [Kinds -> {"none", "alive", "deleted"}]
        /\ ref' \in [Kinds -> Refs \cup {NULL}] /\ mFd' \in BOOLEAN
    BY <1>7 DEF Bind
  <2>. QED BY <1>7, <2>1, <2>2 DEF Bind
<1>8. CASE DeleteStatus \/ DeleteButton
  BY <1>8 DEF DeleteStatus, DeleteButton, Delete, Kinds
<1>9. CASE Kill
  BY <1>9 DEF Kill
<1>10. CASE LibusbClose
  BY <1>10 DEF LibusbClose
<1>11. CASE Join
  BY <1>11 DEF Join
<1>12. CASE Free
  <2>1. device.set = TRUE /\ device.ref = 2
    BY <1>12 DEF Free, Holds, Bound
  <2>2. device' \in [set : BOOLEAN, ref : Nat]
    BY <1>12, <2>1 DEF Free
  <2>3. /\ op' \in [pc : OpPc, destroys : BOOLEAN]
        /\ devh' \in [set : BOOLEAN, opened : 0..MaxOpen]
    BY <1>12 DEF Free
  <2>. QED BY <1>12, <2>2, <2>3 DEF Free
<1>13. CASE Unref
  <2>1. \/ device.set /\ device.ref = 1 /\ fds = 1 /\ mFd /\ usbfs
        \/ ~device.set /\ device.ref = 0 /\ fds = 0 /\ ~mFd
    BY <1>13 DEF Unref, Holds
  <2>2. op' \in [pc : OpPc, destroys : BOOLEAN]
    BY <1>13 DEF Unref
  <2>3. device' \in [set : BOOLEAN, ref : Nat]
    <3>1. CASE device.set
      <4>1. device' = [set |-> FALSE, ref |-> device.ref - 1]
        BY <1>13, <3>1 DEF Unref
      <4>. QED BY <2>1, <3>1, <4>1
    <3>2. CASE ~device.set
      BY <1>13, <3>2 DEF Unref
    <3>. QED BY <3>1, <3>2
  <2>4. fds' \in Nat
    BY <1>13, <2>1 DEF Unref
  <2>5. stray' \in {0, 1} /\ usbfs' \in BOOLEAN /\ mFd' \in BOOLEAN
    BY <1>13 DEF Unref
  <2>. QED BY <1>13, <2>2, <2>3, <2>4, <2>5 DEF Unref
<1>14. CASE ClearPtr \/ Exit
  <2>1. CASE ClearPtr
    <3>1. op' \in [pc : OpPc, destroys : BOOLEAN] /\ ptr' \in BOOLEAN
      BY <2>1 DEF ClearPtr
    <3>2. UNCHANGED <<native, ctx, usbfs, kill, device, devh, fds, mFd, stray,
                      xfer, called, obj, ref, live, handler, setter>>
      BY <2>1 DEF ClearPtr
    <3>. HIDE DEF OpPc, HandlerPc
    <3>. QED BY <3>1, <3>2
  <2>2. CASE Exit
    BY <2>2, ZenonT(40) DEF Exit
  <2>. QED BY <1>14, <2>1, <2>2
<1>15. CASE LoopTest \/ HandleEvents \/ NoEvent \/ Notify \/ JavaReturns
  BY <1>15 DEF LoopTest, HandleEvents, NoEvent, Notify, JavaReturns, HandlerGo
<1>16. CASE StatusUpdate \/ OtherCompletion \/ Resubmit
  BY <1>16 DEF StatusUpdate, OtherCompletion, Resubmit, HandlerGo, Kinds
<1>17. ASSUME NEW t \in Setters, SetCallback(t) \/ SetterStep(t) PROVE TypeOK'
  <2> DEFINE Type == [Setters -> [pc : SetterPc, kind : Kinds,
                                  new : Refs \cup {NULL}, open : 0..MaxOpen]]
  <2>1. CASE SetCallback(t)
    <3>1. PICK k \in Kinds, x \in (Refs \ live) \cup {NULL} :
             /\ setter' = [setter EXCEPT ![t].pc = "native", ![t].kind = k,
                                         ![t].new = x]
             /\ live' = live \cup ({x} \ {NULL})
      BY <2>1 DEF SetCallback
    <3>2. [setter[t] EXCEPT !.pc = "native", !.kind = k, !.new = x]
             \in [pc : SetterPc, kind : Kinds,
                  new : Refs \cup {NULL}, open : 0..MaxOpen]
      <4>1. /\ "native" \in SetterPc /\ x \in Refs \cup {NULL}
            /\ setter[t] \in [pc : SetterPc, kind : Kinds,
                              new : Refs \cup {NULL}, open : 0..MaxOpen]
        BY DEF SetterPc
      <4> HIDE DEF TypeOK
      <4>. QED BY <4>1
    <3>3. setter' \in Type
      BY <3>1, <3>2
    <3>4. live' \subseteq Refs
      BY <3>1
    <3>. QED BY <2>1, <3>3, <3>4 DEF SetCallback
  <2>2. CASE FindObject(t)
    <3>1. PICK pc \in SetterPc :
             setter' = [setter EXCEPT ![t].pc = pc, ![t].open = devh.opened]
      <4>1. (IF obj[setter[t].kind] = "alive" THEN "swap" ELSE "idle") \in SetterPc
        BY DEF SetterPc
      <4>. QED BY <2>2, <4>1 DEF FindObject
    <3>2. [setter[t] EXCEPT !.pc = pc, !.open = devh.opened]
             \in [pc : SetterPc, kind : Kinds,
                  new : Refs \cup {NULL}, open : 0..MaxOpen]
      <4>1. /\ devh.opened \in 0..MaxOpen
            /\ setter[t] \in [pc : SetterPc, kind : Kinds,
                              new : Refs \cup {NULL}, open : 0..MaxOpen]
        OBVIOUS
      <4> HIDE DEF TypeOK
      <4>. QED BY <4>1
    <3>3. setter' \in Type
      BY <3>1, <3>2
    <3>. QED BY <2>2, <3>3 DEF FindObject
  <2>3. ASSUME NEW k \in Kinds, Swap(t, k) PROVE TypeOK'
    <3>1. setter' \in Type
      BY <2>3 DEF Swap, SetterPc
    <3>2. ref' \in [Kinds -> Refs \cup {NULL}] /\ live' \subseteq Refs
      BY <2>3 DEF Swap
    <3>. QED BY <2>3, <3>1, <3>2 DEF Swap
  <2>4. CASE SameCallback(t)
    <3>1. setter' \in Type
      BY <2>4 DEF SameCallback, SetterPc
    <3>. QED BY <2>4, <3>1 DEF SameCallback
  <2>. QED BY <1>17, <2>1, <2>2, <2>3, <2>4 DEF SetterStep, ReplaceCallback
<1>. QED
  BY <1>1, <1>2, <1>3, <1>4, <1>5, <1>6, <1>7, <1>8, <1>9, <1>10, <1>11,
     <1>12, <1>13, <1>14, <1>15, <1>16, <1>17
  DEF Next, OpStep, HandlerStep, Close, Destroy, BindStatus, BindButton, Kinds

-----------------------------------------------------------------------------
(* What connect and release hold                                           *)

LEMMA GoPc == ASSUME TypeOK, NEW pc, Go(pc)
              PROVE  op'.pc = pc /\ op'.destroys = op.destroys
  BY DEF TypeOK, Go

(* Setters change references and nothing else.                             *)
LEMMA SetterFrame ==
  ASSUME NEW s \in Setters, SetCallback(s) \/ SetterStep(s)
  PROVE  UNCHANGED <<op, ptr, native, ctx, kill, device, devh, usbfs, fds, mFd,
                     stray, xfer, called, obj, handler>>
<1>. USE DEF objects, context, handle, files
<1>1. CASE SetCallback(s)
  BY <1>1 DEF SetCallback
<1>2. CASE FindObject(s)
  BY <1>2 DEF FindObject
<1>3. CASE ReplaceCallback(s)
  BY <1>3 DEF ReplaceCallback, Swap
<1>4. CASE SameCallback(s)
  BY <1>4 DEF SameCallback
<1>. QED BY <1>1, <1>2, <1>3, <1>4 DEF SetterStep

LEMMA HoldsStep == ASSUME IInv, Next PROVE Holds'
<1>. TypeOK /\ Holds
  BY DEF IInv
<1>. USE DEF At, objects, context, handle, files, Bound, Bare
<1>1. CASE Connect
  <2>1. (op'.pc = "getDevice" /\ ctx') \/ op' = op
    BY <1>1, GoPc DEF Connect
  <2>. QED BY <1>1, <2>1 DEF Connect, Holds
<1>2. ASSUME NEW destroys \in BOOLEAN, Release(destroys) PROVE Holds'
  <2>1. op'.pc = IF devh.set THEN "release" ELSE "unref"
    BY <1>2 DEF Release
  <2>. QED BY <1>2, <2>1 DEF Release, Holds
<1>3. CASE GetDevice
  <2>1. \/ /\ op'.pc = "uvcOpen" /\ fds' = fds + 1
           /\ device'.set /\ device'.ref = 1
        \/ /\ op'.pc = "idle" /\ fds' = fds
           /\ ~device'.set /\ device'.ref = 0
    BY <1>3, GoPc DEF GetDevice
  <2>2. /\ op.pc = "getDevice" /\ UNCHANGED <<devh, usbfs, ctx, mFd>>
    BY <1>3 DEF GetDevice
  <2>. QED BY <2>1, <2>2 DEF Holds
<1>4. CASE UvcOpen
  <2>1. /\ op.pc = "uvcOpen" /\ op'.pc = "bindStatus"
        /\ device'.set = device.set /\ device'.ref = device.ref + 1
        /\ devh'.set /\ UNCHANGED <<fds, usbfs, ctx, mFd>>
    BY <1>4, GoPc DEF UvcOpen, TypeOK
  <2>. QED BY <2>1 DEF Holds
<1>5. CASE UvcOpenFails
  <2>1. op'.pc = "openFailed"
    BY <1>5, GoPc DEF UvcOpenFails
  <2>. QED BY <1>5, <2>1 DEF UvcOpenFails, Holds
<1>6. CASE ConnectFails
  <2>1. /\ op.pc = "openFailed" /\ op'.pc = "idle"
        /\ ~device'.set /\ device'.ref = device.ref - 1 /\ fds' = fds - 1
        /\ UNCHANGED <<devh, usbfs, ctx, mFd>>
    BY <1>6, GoPc DEF ConnectFails
  <2>. QED BY <2>1 DEF Holds
<1>7. CASE BindStatus
  <2>1. op'.pc = "bindButton"
    BY <1>7, GoPc DEF BindStatus, Bind
  <2>. QED BY <1>7, <2>1 DEF BindStatus, Bind, Holds
<1>8. CASE BindButton
  <2>1. op'.pc = "idle"
    BY <1>8, GoPc DEF BindButton, Bind
  <2>. QED BY <1>8, <2>1 DEF BindButton, Bind, Holds
<1>9. CASE DeleteStatus \/ DeleteButton
  <2>1. op'.pc \in {"deleteButton", "kill"} /\ op.pc \in {"release", "deleteButton"}
    BY <1>9, GoPc DEF DeleteStatus, DeleteButton, Delete
  <2>2. UNCHANGED <<devh, device, fds, usbfs, ctx, mFd>>
    BY <1>9 DEF DeleteStatus, DeleteButton, Delete
  <2>. QED BY <2>1, <2>2 DEF Holds
<1>10. CASE Kill \/ LibusbClose \/ Join
  <2>1. /\ op'.pc \in {"libusbClose", "join", "free"}
        /\ op.pc \in {"kill", "libusbClose", "join"}
    BY <1>10, GoPc DEF Kill, LibusbClose, Join
  <2>2. UNCHANGED <<devh, device, fds, usbfs, ctx, mFd>>
    BY <1>10 DEF Kill, LibusbClose, Join
  <2>. QED BY <2>1, <2>2 DEF Holds
<1>11. CASE Free
  <2>1. /\ op.pc = "free" /\ op'.pc = "unref" /\ ~devh'.set
        /\ device'.set = device.set /\ device'.ref = device.ref - 1
        /\ UNCHANGED <<fds, usbfs, ctx, mFd>>
    BY <1>11, GoPc DEF Free, TypeOK
  <2>. QED BY <2>1 DEF Holds
<1>12. CASE Unref
  <2>1. op.pc = "unref" /\ op'.pc \in {"destroy", "idle"}
    BY <1>12, GoPc DEF Unref
  <2>2. ~devh.set /\ UNCHANGED <<devh, ctx>>
    BY <1>12, <2>1 DEF Unref, Holds
  <2>3. CASE device.set
    <3>1. device.ref = 1 /\ fds = 1 /\ mFd /\ usbfs
      BY <2>1, <2>3 DEF Holds
    <3>2. /\ ~device'.set /\ device'.ref = 0 /\ fds' = 0 /\ ~mFd'
      BY <1>12, <2>3, <3>1 DEF Unref
    <3>. QED BY <2>1, <2>2, <3>2 DEF Holds
  <2>4. CASE ~device.set
    <3>1. device.ref = 0 /\ fds = 0 /\ ~mFd
      BY <2>1, <2>4 DEF Holds
    <3>2. ~device'.set /\ device'.ref = 0 /\ fds' = 0 /\ ~mFd'
      BY <1>12, <2>4, <3>1 DEF Unref
    <3>. QED BY <2>1, <2>2, <3>2 DEF Holds
  <2>. QED BY <2>3, <2>4
<1>13. CASE ClearPtr
  <2>1. op'.pc = "exit"
    BY <1>13, GoPc DEF ClearPtr
  <2>. QED BY <1>13, <2>1 DEF ClearPtr, Holds
<1>14. CASE Exit
  <2>1. op'.pc = "idle"
    BY <1>14, GoPc DEF Exit
  <2>. QED BY <1>14, <2>1 DEF Exit, Holds
<1>15. CASE HandlerStep
  BY <1>15 DEF HandlerStep, LoopTest, HandleEvents, NoEvent, StatusUpdate,
     OtherCompletion, Notify, JavaReturns, Resubmit, HandlerGo, Holds
<1>16. ASSUME NEW s \in Setters, SetCallback(s) \/ SetterStep(s) PROVE Holds'
  BY <1>16, SetterFrame DEF Holds
<1>. QED
  BY <1>1, <1>2, <1>3, <1>4, <1>5, <1>6, <1>7, <1>8, <1>9, <1>10, <1>11,
     <1>12, <1>13, <1>14, <1>15, <1>16
  DEF Next, OpStep, Close, Destroy

-----------------------------------------------------------------------------
(* The handler thread                                                      *)

LEMMA ServesStep == ASSUME IInv, Next PROVE Serves'
<1>. TypeOK /\ Holds /\ Serves
  BY DEF IInv
<1>. devh.opened \in Nat
  BY BoundAssumption DEF TypeOK
<1>. USE DEF At, objects, context, handle, files, Bound, Bare, RunsCallback
<1>1. CASE Connect
  <2>1. op'.pc = "getDevice" \/ op' = op
    BY <1>1, GoPc DEF Connect
  <2>. QED BY <1>1, <2>1 DEF Connect, Serves
<1>2. ASSUME NEW destroys \in BOOLEAN, Release(destroys) PROVE Serves'
  <2>1. op'.pc \in {"release", "unref"}
    BY <1>2 DEF Release
  <2>. QED BY <1>2, <2>1 DEF Release, Serves, Holds
<1>3. CASE GetDevice
  <2>1. op'.pc \in {"uvcOpen", "idle"}
    BY <1>3, GoPc DEF GetDevice
  <2>. QED BY <1>3, <2>1 DEF GetDevice, Serves, Holds
<1>4. CASE UvcOpen
  <2>1. /\ op.pc = "uvcOpen" /\ op'.pc = "bindStatus" /\ devh'.set
        /\ devh'.opened = devh.opened + 1 /\ handler'.pc = "loop"
        /\ kill' = kill
    BY <1>4, GoPc DEF UvcOpen, TypeOK
  <2>2. kill => devh.opened # 0
    BY DEF Serves
  <2>3. devh'.opened # 0 /\ (kill' => devh'.opened # 1)
    BY <2>1, <2>2
  <2>. QED BY <2>1, <2>3 DEF Serves
<1>5. CASE UvcOpenFails \/ ConnectFails
  <2>1. /\ op.pc \in {"uvcOpen", "openFailed"} /\ op'.pc \in {"openFailed", "idle"}
        /\ UNCHANGED <<devh, handler, xfer, kill>>
    BY <1>5, GoPc DEF UvcOpenFails, ConnectFails
  <2>. QED BY <2>1 DEF Serves, Holds
<1>6. CASE BindStatus \/ BindButton
  <2>1. /\ op'.pc \in {"bindButton", "idle"} /\ op.pc \in {"bindStatus", "bindButton"}
        /\ UNCHANGED <<devh, handler, xfer, kill>>
    BY <1>6, GoPc DEF BindStatus, BindButton, Bind
  <2>. QED BY <2>1 DEF Serves, Holds
<1>7. CASE DeleteStatus \/ DeleteButton
  <2>1. /\ op'.pc \in {"deleteButton", "kill"} /\ op.pc \in {"release", "deleteButton"}
        /\ UNCHANGED <<devh, handler, xfer, kill>>
    BY <1>7, GoPc DEF DeleteStatus, DeleteButton, Delete
  <2>. QED BY <2>1 DEF Serves, Holds
<1>8. CASE Kill
  <2>1. /\ op.pc = "kill" /\ op'.pc = "libusbClose"
        /\ UNCHANGED <<devh, handler, xfer>> /\ kill'
    BY <1>8, GoPc DEF Kill
  <2>2. devh.opened # 0
    BY <2>1 DEF Holds, Serves
  <2>. QED BY <2>1, <2>2 DEF Serves, Holds
<1>9. CASE LibusbClose
  <2>1. /\ op.pc = "libusbClose" /\ op'.pc = "join"
        /\ handler.pc \notin {"events", "notify", "call", "resubmit"}
        /\ xfer' # "flying" /\ (xfer' = "none" => xfer = "none")
        /\ UNCHANGED <<devh, handler, kill>>
    BY <1>9, GoPc DEF LibusbClose, HandlesEvents
  <2>. QED BY <2>1 DEF Serves, Holds
<1>10. CASE Join
  <2>1. /\ op.pc = "join" /\ op'.pc = "free" /\ handler'.pc = "none"
        /\ UNCHANGED <<devh, xfer, kill>>
    BY <1>10, GoPc DEF Join, TypeOK
  <2>. QED BY <2>1 DEF Serves, Holds
<1>11. CASE Free
  <2>1. /\ op.pc = "free" /\ op'.pc = "unref" /\ ~devh'.set
        /\ devh'.opened = devh.opened /\ xfer' = "none"
        /\ UNCHANGED <<handler, kill>>
    BY <1>11, GoPc DEF Free, TypeOK
  <2>. QED BY <2>1 DEF Serves
<1>12. CASE Unref \/ ClearPtr \/ Exit
  <2>1. /\ op.pc \in {"unref", "destroy", "exit"}
        /\ op'.pc \in {"destroy", "exit", "idle"}
        /\ UNCHANGED <<devh, handler, xfer, kill>>
    BY <1>12, GoPc DEF Unref, ClearPtr, Exit
  <2>. QED BY <2>1 DEF Serves, Holds
<1>13. CASE HandlerStep
  <2>1. UNCHANGED <<op, devh, kill>>
    BY <1>13 DEF HandlerStep, LoopTest, HandleEvents, NoEvent, StatusUpdate,
       OtherCompletion, Notify, JavaReturns, Resubmit, HandlerGo
  <2>2. handler.pc # "none" /\ handler'.pc # "none"
    BY <1>13 DEF HandlerStep, LoopTest, HandleEvents, NoEvent, StatusUpdate,
       OtherCompletion, Notify, JavaReturns, Resubmit, HandlerGo, TypeOK
  <2>3. handler'.pc = "exited" => kill
    BY <1>13 DEF HandlerStep, LoopTest, HandleEvents, NoEvent, StatusUpdate,
       OtherCompletion, Notify, JavaReturns, Resubmit, HandlerGo, TypeOK
  <2>4. xfer' # "flying" \/ handler.pc = "resubmit" \/ xfer' = xfer
    BY <1>13 DEF HandlerStep, LoopTest, HandleEvents, NoEvent, StatusUpdate,
       OtherCompletion, Notify, JavaReturns, Resubmit
  <2>5. xfer' # "none" \/ xfer' = xfer
    BY <1>13 DEF HandlerStep, LoopTest, HandleEvents, NoEvent, StatusUpdate,
       OtherCompletion, Notify, JavaReturns, Resubmit
  <2>6. handler'.pc \in {"notify", "call", "resubmit"} =>
           handler.pc \in {"notify", "call"} \/ xfer = "flying"
    BY <1>13 DEF HandlerStep, LoopTest, HandleEvents, NoEvent, StatusUpdate,
       OtherCompletion, Notify, JavaReturns, Resubmit, HandlerGo, TypeOK
  <2>7. handler'.pc \in {"notify", "call"} =>
           handler.pc \in {"notify", "call"} \/ xfer' = "idle"
    BY <1>13 DEF HandlerStep, LoopTest, HandleEvents, NoEvent, StatusUpdate,
       OtherCompletion, Notify, JavaReturns, Resubmit, HandlerGo, TypeOK
  <2>. QED BY <2>1, <2>2, <2>3, <2>4, <2>5, <2>6, <2>7 DEF Serves
<1>14. ASSUME NEW s \in Setters, SetCallback(s) \/ SetterStep(s) PROVE Serves'
  BY <1>14, SetterFrame DEF Serves
<1>. QED
  BY <1>1, <1>2, <1>3, <1>4, <1>5, <1>6, <1>7, <1>8, <1>9, <1>10, <1>11,
     <1>12, <1>13, <1>14
  DEF Next, OpStep, Close, Destroy

-----------------------------------------------------------------------------
(* The callback objects                                                    *)

LEMMA CallsStep == ASSUME IInv, Next PROVE Calls'
<1>. TypeOK /\ Holds /\ Serves /\ Calls
  BY DEF IInv
<1>. USE DEF At, objects, context, handle, files, Bound, Bare, RunsCallback
<1>1. CASE Connect
  <2>1. op'.pc = "getDevice" \/ op' = op
    BY <1>1, GoPc DEF Connect
  <2>. QED BY <1>1, <2>1 DEF Connect, Calls
<1>2. ASSUME NEW destroys \in BOOLEAN, Release(destroys) PROVE Calls'
  <2>1. op.pc = "idle" /\ op'.pc \in {"release", "unref"}
    BY <1>2 DEF Release
  <2>. QED BY <1>2, <2>1 DEF Release, Calls
<1>3. CASE GetDevice \/ UvcOpenFails \/ ConnectFails
  <2>1. /\ op.pc \in {"getDevice", "uvcOpen", "openFailed"}
        /\ UNCHANGED <<devh, handler, called, obj>>
    BY <1>3 DEF GetDevice, UvcOpenFails, ConnectFails
  <2>2. ~devh.set /\ handler.pc = "none"
    BY <2>1 DEF Holds, Serves
  <2>. QED BY <2>1, <2>2 DEF Calls
<1>4. CASE UvcOpen
  <2>1. /\ \A k \in Kinds : ~called'[k]
        /\ handler'.pc = "loop"
    BY <1>4 DEF UvcOpen, TypeOK
  <2>. QED BY <2>1 DEF Calls
<1>5. ASSUME NEW b \in Kinds, NEW next \in OpPc, Bind(b, next), devh.set,
             op.pc \in {"bindStatus", "bindButton"}
      PROVE  Calls'
  <2>1. /\ ~RunsCallback /\ obj' = [obj EXCEPT ![b] = "alive"]
        /\ called' = [called EXCEPT ![b] = TRUE]
        /\ UNCHANGED <<devh, handler>>
    BY <1>5 DEF Bind
  <2>2. \A k \in Kinds : called'[k] => obj'[k] = "alive"
    BY <1>5, <2>1 DEF Calls, TypeOK
  <2>. QED BY <2>1, <2>2 DEF Calls
<1>6. CASE DeleteStatus \/ DeleteButton
  <2>1. op'.pc \in {"deleteButton", "kill"} /\ UNCHANGED <<handler, called>>
    BY <1>6, GoPc DEF DeleteStatus, DeleteButton, Delete
  <2>. QED BY <2>1 DEF Calls
<1>7. CASE Kill \/ LibusbClose
  <2>1. op'.pc \in {"libusbClose", "join"} /\ UNCHANGED <<handler, called>>
    BY <1>7, GoPc DEF Kill, LibusbClose
  <2>. QED BY <2>1 DEF Calls
<1>8. CASE Join \/ Free
  <2>1. op'.pc \in {"free", "unref"} /\ handler'.pc = "none"
    <3>1. CASE Join
      BY <3>1, GoPc DEF Join, TypeOK
    <3>2. CASE Free
      BY <3>2, GoPc DEF Free, Serves
    <3>. QED BY <1>8, <3>1, <3>2
  <2>. QED BY <2>1 DEF Calls
<1>9. CASE Unref \/ ClearPtr \/ Exit
  <2>1. /\ op.pc \in {"unref", "destroy", "exit"}
        /\ UNCHANGED <<devh, handler, called, obj>>
    BY <1>9 DEF Unref, ClearPtr, Exit
  <2>2. ~devh.set /\ handler.pc = "none"
    BY <2>1 DEF Holds, Serves
  <2>. QED BY <2>1, <2>2 DEF Calls
<1>10. CASE HandlerStep
  <2>1. UNCHANGED <<op, devh, called, obj>>
    BY <1>10 DEF HandlerStep, LoopTest, HandleEvents, NoEvent, StatusUpdate,
       OtherCompletion, Notify, JavaReturns, Resubmit, HandlerGo
  <2>2. CASE StatusUpdate
    <3>1. called[handler'.kind]
      BY <2>2 DEF StatusUpdate
    <3>. QED BY <2>1, <3>1 DEF Calls
  <2>3. CASE ~StatusUpdate
    <3>1. /\ handler'.kind = handler.kind
          /\ handler'.pc \in {"notify", "call"} => handler.pc \in {"notify", "call"}
      BY <1>10, <2>3 DEF HandlerStep, LoopTest, HandleEvents, NoEvent,
         OtherCompletion, Notify, JavaReturns, Resubmit, HandlerGo, TypeOK
    <3>. QED BY <2>1, <3>1 DEF Calls
  <2>. QED BY <2>2, <2>3
<1>11. ASSUME NEW s \in Setters, SetCallback(s) \/ SetterStep(s) PROVE Calls'
  BY <1>11, SetterFrame DEF Calls
<1>12. CASE BindStatus
  <2>1. devh.set
    BY <1>12 DEF BindStatus, Holds
  <2>. QED BY <1>5, <1>12, <2>1 DEF BindStatus, Kinds, OpPc
<1>13. CASE BindButton
  <2>1. devh.set
    BY <1>13 DEF BindButton, Holds
  <2>. QED BY <1>5, <1>13, <2>1 DEF BindButton, Kinds, OpPc
<1>. QED
  BY <1>1, <1>2, <1>3, <1>4, <1>6, <1>7, <1>8, <1>9, <1>10, <1>11, <1>12, <1>13
  DEF Next, OpStep, Close, Destroy

-----------------------------------------------------------------------------
(* The references                                                          *)

LEMMA OneOwnerStep == ASSUME IInv, Next PROVE OneOwner'
<1>. TypeOK /\ OneOwner
  BY DEF IInv
<1>. "status" \in Kinds /\ "button" \in Kinds
  BY DEF Kinds
<1>1. ASSUME UNCHANGED <<ref, live, setter>>,
             handler'.pc = "call" => ref[handler'.kind] # NULL
      PROVE  OneOwner'
  BY <1>1 DEF OneOwner, Busy
<1>2. CASE Connect \/ Close \/ Destroy
  BY <1>1, <1>2 DEF Connect, Close, Destroy, Release, java, OneOwner
<1>3. CASE OpStep /\ ~BindStatus /\ ~BindButton
  <2>1. UNCHANGED <<ref, live, setter>>
    BY <1>3 DEF OpStep, GetDevice, UvcOpen, UvcOpenFails, ConnectFails,
       DeleteStatus, DeleteButton, Delete, Kill, LibusbClose, Join, Free,
       Unref, ClearPtr, Exit, java
  <2>2. handler' = handler \/ handler'.pc # "call"
    BY <1>3 DEF OpStep, GetDevice, UvcOpen, UvcOpenFails, ConnectFails,
       DeleteStatus, DeleteButton, Delete, Kill, LibusbClose, Join, Free,
       Unref, ClearPtr, Exit, TypeOK
  <2>. QED BY <1>1, <2>1, <2>2 DEF OneOwner
<1>4. ASSUME NEW b \in Kinds, NEW next, Bind(b, next) PROVE OneOwner'
  <2>1. /\ handler.pc # "call" /\ ref' = [ref EXCEPT ![b] = NULL]
        /\ UNCHANGED <<live, setter, handler>>
    BY <1>4 DEF Bind, RunsCallback
  <2>2. \A k \in Kinds : ref'[k] = NULL \/ ref'[k] = ref[k]
    BY <2>1 DEF TypeOK
  <2>3. \A s \in Setters : Busy(s)' <=> Busy(s)
    BY <2>1 DEF Busy
  <2>. QED BY <2>1, <2>2, <2>3 DEF OneOwner, Busy
<1>5. CASE HandlerStep
  <2>1. UNCHANGED <<ref, live, setter>>
    BY <1>5 DEF HandlerStep, LoopTest, HandleEvents, NoEvent, StatusUpdate,
       OtherCompletion, Notify, JavaReturns, Resubmit, HandlerGo, java
  <2>2. handler'.pc = "call" => ref[handler'.kind] # NULL
    BY <1>5 DEF HandlerStep, LoopTest, HandleEvents, NoEvent, StatusUpdate,
       OtherCompletion, Notify, JavaReturns, Resubmit, HandlerGo, TypeOK
  <2>. QED BY <1>1, <2>1, <2>2
<1>6. ASSUME NEW s \in Setters, SetCallback(s) PROVE OneOwner'
  <2>1. PICK k \in Kinds, r \in (Refs \ live) \cup {NULL} :
           /\ setter' = [setter EXCEPT ![s].pc = "native", ![s].kind = k,
                                       ![s].new = r]
           /\ live' = live \cup ({r} \ {NULL})
    BY <1>6 DEF SetCallback
  <2>2. UNCHANGED <<ref, handler>>
    BY <1>6 DEF SetCallback
  <2>3. /\ setter'[s].new = r
        /\ \A t \in Setters : t # s => setter'[t] = setter[t]
    BY <2>1 DEF TypeOK
  <2>4. \A t \in Setters : Busy(t)' => (t = s /\ r # NULL) \/ (t # s /\ Busy(t))
    BY <2>3 DEF Busy
  <2>5. r # NULL => r \notin live /\ r \in live'
    BY <2>1
  <2>6. \A k1 \in Kinds : ref[k1] # r \/ r = NULL
    BY <2>5 DEF OneOwner
  <2>7. \A t \in Setters : Busy(t) => setter[t].new # r \/ r = NULL
    BY <2>5 DEF OneOwner
  <2>8. live \subseteq live'
    BY <2>1
  <2>. QED BY <2>2, <2>3, <2>4, <2>5, <2>6, <2>7, <2>8 DEF OneOwner
<1>7. ASSUME NEW s \in Setters, FindObject(s) \/ SameCallback(s) PROVE OneOwner'
  <2>1. UNCHANGED <<ref, live, handler>>
    BY <1>7 DEF FindObject, SameCallback, java
  <2>2. /\ setter[s].pc # "idle"
        /\ setter'[s].new = setter[s].new
        /\ \A t \in Setters : t # s => setter'[t] = setter[t]
    BY <1>7 DEF FindObject, SameCallback, TypeOK
  <2>3. \A t \in Setters : (Busy(t)' => Busy(t)) /\ setter'[t].new = setter[t].new
    BY <2>2 DEF Busy
  <2>. QED BY <2>1, <2>3 DEF OneOwner
<1>8. ASSUME NEW s \in Setters, NEW k \in Kinds, ~Locked(k), Swap(s, k)
      PROVE  OneOwner'
  <2>1. /\ setter[s].pc = "swap"
        /\ live' = live \ {ref[k]}
        /\ ref' = [ref EXCEPT ![k] = setter[s].new]
        /\ setter' = [setter EXCEPT ![s].pc = "idle"]
        /\ UNCHANGED handler
    BY <1>8 DEF Swap
  <2>2. /\ ref'[k] = setter[s].new
        /\ \A j \in Kinds : j # k => ref'[j] = ref[j]
    BY <2>1 DEF TypeOK
  <2>3. \A t \in Setters : (Busy(t)' => t # s /\ Busy(t))
                           /\ setter'[t].new = setter[t].new
    BY <2>1 DEF Busy, TypeOK
  <2>4. setter[s].new # NULL => Busy(s)
    BY <2>1 DEF Busy
  <2>5. \A j \in Kinds : ref'[j] # NULL => ref'[j] \in live'
    <3>1. setter[s].new # NULL => setter[s].new \in live /\ setter[s].new # ref[k]
      BY <2>4 DEF OneOwner
    <3>2. \A j \in Kinds : j # k /\ ref[j] # NULL => ref[j] \in live /\ ref[j] # ref[k]
      BY DEF OneOwner, Kinds
    <3>. QED BY <2>1, <2>2, <3>1, <3>2
  <2>6. ref'["status"] # NULL => ref'["status"] # ref'["button"]
    <3>1. setter[s].new # NULL => \A j \in Kinds : ref[j] # setter[s].new
      BY <2>4 DEF OneOwner
    <3>. QED BY <2>2, <3>1 DEF OneOwner, Kinds
  <2>7. \A t \in Setters : Busy(t)' =>
           /\ setter'[t].new \in live'
           /\ \A j \in Kinds : setter'[t].new # ref'[j]
           /\ \A u \in Setters : Busy(u)' /\ u # t => setter'[u].new # setter'[t].new
    <3> SUFFICES ASSUME NEW t \in Setters, Busy(t), t # s
                 PROVE  /\ setter[t].new \in live'
                        /\ \A j \in Kinds : setter[t].new # ref'[j]
                        /\ \A u \in Setters : Busy(u) /\ u # t
                              => setter[u].new # setter[t].new
      BY <2>3
    <3>1. setter[t].new # NULL
      BY DEF Busy
    <3>2. setter[t].new # setter[s].new
      BY <2>4, <3>1 DEF OneOwner
    <3>. QED BY <2>1, <2>2, <3>2 DEF OneOwner
  <2>8. handler'.pc = "call" => ref'[handler'.kind] # NULL
    BY <1>8, <2>1, <2>2 DEF Locked, OneOwner, TypeOK
  <2>. QED BY <2>5, <2>6, <2>7, <2>8 DEF OneOwner
<1>9. CASE BindStatus \/ BindButton
  BY <1>4, <1>9 DEF BindStatus, BindButton
<1>. QED
  BY <1>2, <1>3, <1>5, <1>6, <1>7, <1>8, <1>9
  DEF Next, SetterStep, ReplaceCallback
-----------------------------------------------------------------------------
(* The inductive invariant                                                 *)

LEMMA IInvInit == Init => IInv
<1> SUFFICES ASSUME Init PROVE IInv
  OBVIOUS
<1>1. TypeOK
  BY TypeInit
<1>2. Holds
  BY DEF Init, Holds, Bound, Bare
<1>3. Serves
  BY DEF Init, Serves, RunsCallback
<1>4. Calls
  BY DEF Init, Calls, RunsCallback
<1>5. OneOwner
  <2>1. /\ \A k \in Kinds : ref[k] = NULL
        /\ \A s \in Setters : setter[s].pc = "idle"
        /\ handler.pc = "none"
    BY DEF Init
  <2>. QED BY <2>1 DEF OneOwner, Busy, Kinds
<1>. QED BY <1>1, <1>2, <1>3, <1>4, <1>5 DEF IInv

LEMMA IInvStep == IInv /\ [Next]_vars => IInv'
<1> SUFFICES ASSUME IInv, [Next]_vars PROVE IInv'
  OBVIOUS
<1>1. CASE Next
  BY <1>1, TypeStep, HoldsStep, ServesStep, CallsStep, OneOwnerStep DEF IInv
<1>2. CASE UNCHANGED vars
  <2>. USE <1>2 DEF vars, objects, context, handle, files, java
  <2>1. TypeOK'
    BY DEF IInv, TypeOK
  <2>2. Holds'
    BY DEF IInv, Holds
  <2>3. Serves'
    BY DEF IInv, Serves, RunsCallback
  <2>4. Calls'
    BY DEF IInv, Calls, RunsCallback
  <2>5. OneOwner'
    BY DEF IInv, OneOwner, Busy
  <2>. QED BY <2>1, <2>2, <2>3, <2>4, <2>5 DEF IInv
<1>. QED BY <1>1, <1>2

LEMMA IInvInvariant == Spec => []IInv
BY IInvInit, IInvStep, PTL DEF Spec

-----------------------------------------------------------------------------
(* The theorems                                                            *)

(* The steps of UVCCamera, its callback objects and uvc_open and uvc_close *)
(* keep the types of their fields: no reference count and no count of open *)
(* descriptors goes below zero.                                            *)
THEOREM TypeCorrect == Spec => []TypeOK
BY IInvInvariant, PTL DEF IInv

LEMMA ThreadCovered == IInv => HandleOutlivesThread
<1>. SUFFICES ASSUME IInv PROVE HandleOutlivesThread
  OBVIOUS
<1>1. At("free") => handler.pc = "none" /\ xfer # "flying"
  BY DEF IInv, Serves, Holds, Bound, At
<1>2. handler.pc # "none" => devh.set /\ ctx /\ (xfer # "none" \/ ~RunsCallback)
  BY DEF IInv, Holds, Serves, RunsCallback
<1>. QED BY <1>1, <1>2 DEF HandleOutlivesThread

(* uvc_free_devh runs, and the context is destroyed, only when the event   *)
(* handler thread is gone, for any number of opens and closes: it never    *)
(* frees a status transfer that libusb still has, or that the thread could *)
(* give it again.                                                          *)
THEOREM HandleOutlives == Spec => []HandleOutlivesThread
BY IInvInvariant, ThreadCovered, PTL

LEMMA WindowBounded == IInv => CallbackWindow
<1> SUFFICES ASSUME IInv, HandlerDangling
             PROVE  op.pc \in {"deleteButton", "kill", "libusbClose"}
  BY DEF CallbackWindow
<1>1. /\ handler.pc \in {"notify", "call"} /\ handler.kind \in Kinds
      /\ called[handler.kind] /\ obj[handler.kind] # "alive"
  BY DEF IInv, TypeOK, Calls, HandlerDangling, RunsCallback
<1>2. devh.set /\ op.pc \notin {"join", "free"}
  BY <1>1 DEF IInv, Serves
<1>3. op.pc \notin {"idle", "bindStatus", "bindButton", "release"}
  BY <1>1, <1>2 DEF IInv, Calls
<1>. QED BY <1>2, <1>3 DEF IInv, Holds, Bound

(* UVCCamera::release deletes the callback objects before uvc_close: only  *)
(* until libusb_close has returned can a status update still reach them.   *)
THEOREM WindowAlways == Spec => []CallbackWindow
BY IInvInvariant, WindowBounded, PTL

LEMMA CalledRefKept == IInv => CalledRefLives
BY DEF IInv, TypeOK, OneOwner, CalledRefLives

(* setCallback of UVCButtonCallback and UVCStatusCallback never deletes    *)
(* the global reference a notification is using, however many threads set  *)
(* callbacks at once.                                                      *)
THEOREM CalledRefAlways == Spec => []CalledRefLives
BY IInvInvariant, CalledRefKept, PTL

LEMMA BalancedIdle == IInv => NothingLeft
<1> SUFFICES ASSUME IInv, op.pc = "idle"
             PROVE  /\ device = [set |-> devh.set,
                                 ref |-> IF devh.set THEN 2 ELSE 0]
                    /\ fds = IF devh.set THEN 1 ELSE 0
                    /\ mFd <=> devh.set
                    /\ ~devh.set => handler.pc = "none" /\ xfer = "none"
  BY DEF NothingLeft, At
<1>1. device \in [set : BOOLEAN, ref : Nat]
  BY DEF IInv, TypeOK
<1>2. CASE devh.set
  <2>1. device.set /\ device.ref = 2 /\ fds = 1 /\ mFd
    BY <1>2 DEF IInv, Holds
  <2>2. devh.set = TRUE /\ device.set = TRUE
    BY <1>1, <1>2, <2>1 DEF IInv, TypeOK
  <2>3. device = [set |-> TRUE, ref |-> 2]
    BY <1>1, <2>1, <2>2
  <2>. QED BY <1>2, <2>1, <2>2, <2>3
<1>3. CASE ~devh.set
  <2>1. ~device.set /\ device.ref = 0 /\ fds = 0 /\ ~mFd
    BY <1>3 DEF IInv, Holds
  <2>2. handler.pc = "none" /\ xfer = "none"
    BY <1>3 DEF IInv, Serves
  <2>3. devh.set = FALSE /\ device.set = FALSE
    BY <1>1, <1>3, <2>1 DEF IInv, TypeOK
  <2>4. device = [set |-> FALSE, ref |-> 0]
    BY <1>1, <2>1, <2>3
  <2>. QED BY <1>3, <2>1, <2>2, <2>3, <2>4
<1>. QED BY <1>2, <1>3

(* Whatever fails in connect, and however often the camera is opened and   *)
(* closed, descriptors and device references balance.                      *)
THEOREM NothingLeftAlways == Spec => []NothingLeft
BY IInvInvariant, BalancedIdle, PTL

LEMMA ServedFirst == IInv => FirstHandleServed
BY DEF IInv, Serves, FirstHandleServed, At

(* The first handle of a context has a running event handler thread from   *)
(* the end of connect until release.                                       *)
THEOREM FirstServed == Spec => []FirstHandleServed
BY IInvInvariant, ServedFirst, PTL

\* Every call starts from mNativePtr; only Exit deletes the object.
Pointer ==
    /\ PointerValid
    /\ At("exit") => ~ptr

LEMMA PointerInit == Init => Pointer
<1>. QED BY DEF Init, Pointer, PointerValid, At

LEMMA PointerStep == ASSUME TypeOK, Pointer, [Next]_vars PROVE Pointer'
<1>. USE DEF objects, At, Go
<1>1. CASE Connect \/ Close \/ Destroy
  <2>1. ptr /\ UNCHANGED <<ptr, native>>
    BY <1>1 DEF Connect, Close, Destroy, Release
  <2>2. op'.pc # "exit"
    BY <1>1 DEF Connect, Close, Destroy, Release, TypeOK
  <2>. QED BY <2>1, <2>2 DEF Pointer, PointerValid
<1>2. CASE ClearPtr
  BY <1>2 DEF ClearPtr, Pointer, PointerValid
<1>3. CASE Exit
  BY <1>3 DEF Exit, Pointer, PointerValid, TypeOK
<1>4. CASE /\ UNCHANGED <<ptr, native>>
           /\ op' = op \/ (op.pc # "idle" /\ op'.pc # "exit")
  BY <1>4 DEF Pointer, PointerValid
<1>5. GetDevice \/ UvcOpen \/ UvcOpenFails \/ ConnectFails \/ BindStatus
        \/ BindButton \/ DeleteStatus \/ DeleteButton \/ Kill \/ LibusbClose
        \/ Join \/ Free \/ Unref
      => UNCHANGED <<ptr, native>> /\ op.pc # "idle" /\ op'.pc # "exit"
  BY DEF GetDevice, UvcOpen, UvcOpenFails, ConnectFails, BindStatus,
         BindButton, Bind, DeleteStatus, DeleteButton, Delete, Kill,
         LibusbClose, Join, Free, Unref, TypeOK
<1>6. HandlerStep \/ (\E s \in Setters : SetCallback(s) \/ SetterStep(s))
         \/ UNCHANGED vars
      => UNCHANGED <<op, ptr, native>>
  BY DEF HandlerStep, LoopTest, HandleEvents, NoEvent, StatusUpdate,
         OtherCompletion, Notify, JavaReturns, Resubmit, HandlerGo,
         SetCallback, SetterStep, FindObject, ReplaceCallback, Swap,
         SameCallback, vars
<1>. QED BY <1>1, <1>2, <1>3, <1>4, <1>5, <1>6 DEF Next, OpStep

(* open, close and destroy always work on an object that is there, and     *)
(* mNativePtr never points to one that is deleted, however the calls are   *)
(* ordered.                                                                *)
THEOREM PointerAlways == Spec => []PointerValid
<1>1. Pointer => PointerValid BY DEF Pointer
<1>2. TypeOK /\ Pointer /\ [Next]_vars => Pointer' BY PointerStep
<1>. QED BY <1>1, <1>2, PointerInit, TypeCorrect, PTL DEF Spec
=============================================================================
