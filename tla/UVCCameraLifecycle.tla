------------------------- MODULE UVCCameraLifecycle -------------------------
(***************************************************************************)
(* One UVCCamera object from its constructor to destroy: UVCCamera.java,   *)
(* UVCCamera.cpp, UVCButtonCallback.cpp and UVCStatusCallback.cpp, and the *)
(* part of libuvc they rest on, uvc_open, uvc_close, the reference count   *)
(* of the device, the status transfer and the event handler thread.        *)
(*                                                                         *)
(* open, close and destroy hold the monitor of the Java object, so one of  *)
(* them runs at a time: op says where it is.  setButtonCallback and        *)
(* setStatusCallback do not hold it.  A context has at most one handle,    *)
(* connect refuses a second.  The preview object is UVCPreview's matter.   *)
(*                                                                         *)
(* libusb is the environment.  Its event lock is held by the handler       *)
(* thread inside libusb_handle_events; libusb_close interrupts that call   *)
(* and takes the lock.  A thread that touches a deleted object has no      *)
(* defined future: the model stops there (Crashed).                        *)
(***************************************************************************)
EXTENDS Naturals

CONSTANTS
    Setters,    \* threads that call setButtonCallback or setStatusCallback
    Refs,       \* JNI global references
    NULL,
    MaxOpen     \* how often uvc_open succeeds

ASSUME NullAssumption == NULL \notin Refs
ASSUME BoundAssumption == MaxOpen \in Nat

VARIABLES
    op,         \* where open, close or destroy is, and which of the last two
    ptr,        \* mNativePtr # 0
    native,     \* is the C++ object allocated?
    ctx, kill,  \* is mContext set; its kill_handler_thread
    device,     \* mDevice # NULL, and dev->ref
    devh,       \* is the handle allocated (mDeviceHandle); opened so far
    usbfs, fds, \* mUsbFs # NULL; the dup'ed descriptors that are open
    mFd,        \* is mFd one of them?  (0 otherwise)
    stray,      \* descriptors closed that were not opened here
    xfer,       \* status_xfer
    called,     \* devh->status_cb and button_cb: registered by an object
    obj,        \* mStatusCallback and mButtonCallback
    ref, live,  \* their Java callback; the global references that exist
    handler,    \* where the event handler thread is, and for which callback
    setter      \* where setButtonCallback or setStatusCallback is

files   == <<usbfs, fds, mFd, stray>>
objects == <<ptr, native>>
handle  == <<device, devh>>
java    == <<ref, live>>
context == <<ctx, kill>>
vars == <<op, objects, context, handle, files, xfer, called, obj, java,
          handler, setter>>

Kinds == {"status", "button"}

OpPc == {"idle", "getDevice", "uvcOpen", "openFailed", "bindStatus",
         "bindButton", "release", "deleteButton", "kill", "libusbClose",
         "join", "free", "unref", "destroy", "exit"}
HandlerPc == {"none", "loop", "enter", "events", "notify", "call",
              "resubmit", "exited"}
SetterPc == {"idle", "native", "swap"}

At(pc) == op.pc = pc
Go(pc) == op' = [op EXCEPT !.pc = pc]

\* The handler thread holds libusb's event lock; devh->status_mutex.
HandlesEvents == handler.pc \in {"events", "notify", "call", "resubmit"}
RunsCallback  == handler.pc \in {"notify", "call"}

\* A setter works on an object that is deleted, or has been replaced since.
Dangling(s) ==
    \/ setter[s].pc = "native" /\ ~native
    \/ /\ setter[s].pc = "swap"
       /\ obj[setter[s].kind] # "alive" \/ setter[s].open # devh.opened
\* The handler thread is about to lock, or has locked, a deleted object.
HandlerDangling == RunsCallback /\ obj[handler.kind] # "alive"

Crashed == HandlerDangling \/ \E s \in Setters : Dangling(s)

Init ==
    /\ op = [pc |-> "idle", destroys |-> FALSE]
    /\ ptr = TRUE /\ native = TRUE /\ ctx = FALSE /\ kill = FALSE
    /\ device = [set |-> FALSE, ref |-> 0]
    /\ devh = [set |-> FALSE, opened |-> 0]
    /\ usbfs = FALSE /\ fds = 0 /\ mFd = FALSE /\ stray = 0
    /\ xfer = "none"
    /\ called = [k \in Kinds |-> FALSE] /\ obj = [k \in Kinds |-> "none"]
    /\ ref = [k \in Kinds |-> NULL] /\ live = {}
    /\ handler = [pc |-> "none", kind |-> "button"]
    /\ setter = [s \in Setters |->
                    [pc |-> "idle", kind |-> "button", new |-> NULL, open |-> 0]]

-----------------------------------------------------------------------------
(* UVCCamera.open: UVCCamera::connect and uvc_open                         *)

\* The context is created once and kept; uvc_init2 may fail.
Connect ==
    /\ At("idle") /\ ptr /\ ~devh.set /\ devh.opened < MaxOpen
    /\ usbfs' = TRUE
    /\ \/ ctx' = TRUE /\ Go("getDevice")
       \/ ~ctx /\ UNCHANGED <<ctx, op>>
    /\ UNCHANGED <<objects, kill, handle, fds, mFd, stray, xfer, called, obj,
                   java, handler, setter>>

\* dup and uvc_get_device_with_fd; without a device the copy is closed.
GetDevice ==
    /\ At("getDevice")
    /\ \/ /\ device' = [set |-> TRUE, ref |-> 1]
          /\ fds' = fds + 1
          /\ Go("uvcOpen")
       \/ /\ device' = [set |-> FALSE, ref |-> 0]
          /\ Go("idle")
          /\ UNCHANGED fds
    /\ UNCHANGED <<objects, context, devh, usbfs, mFd, stray, xfer, called,
                   obj, java, handler, setter>>

\* Mutant: the thread is spawned only for a camera with a status endpoint.
UvcOpenEndpointOnly ==
    /\ At("uvcOpen")
    /\ device' = [device EXCEPT !.ref = @ + 1]
    /\ devh' = [set |-> TRUE, opened |-> devh.opened + 1]
    /\ xfer' \in {"none", "flying"}
    /\ called' = [k \in Kinds |-> FALSE]
    /\ handler' = [handler EXCEPT
                      !.pc = IF xfer' = "flying" THEN "loop" ELSE "none"]
    /\ Go("bindStatus")
    /\ UNCHANGED <<objects, context, files, obj, java, setter>>

\* The status transfer is submitted, if there is an endpoint, before the
\* handler thread is spawned.  The result of pthread_create is not looked
\* at; that it succeeds is assumed, since uvc_close then joins a handle that
\* was never set.
UvcOpen ==
    /\ At("uvcOpen")
    /\ device' = [device EXCEPT !.ref = @ + 1]
    /\ devh' = [set |-> TRUE, opened |-> devh.opened + 1]
    /\ xfer' \in {"none", "flying"}
    /\ called' = [k \in Kinds |-> FALSE]
    /\ handler' = [handler EXCEPT !.pc = "loop"]
    /\ Go("bindStatus")
    /\ UNCHANGED <<objects, context, files, obj, java, setter>>

\* Mutant: the fail path of uvc_open forgets uvc_unref_device.
UvcOpenFailsReferenced ==
    /\ At("uvcOpen")
    /\ Go("openFailed")
    /\ device' = [device EXCEPT !.ref = @ + 1]
    /\ UNCHANGED <<objects, context, devh, files, xfer, called, obj, java,
                   handler, setter>>

\* Any step of uvc_open may fail; it undoes those before.
UvcOpenFails ==
    /\ At("uvcOpen")
    /\ Go("openFailed")
    /\ UNCHANGED <<objects, context, handle, files, xfer, called, obj, java,
                   handler, setter>>

\* Mutant: the device that uvc_unref_device has freed is released again.
ConnectFailsTwice ==
    /\ At("openFailed")
    /\ device' = [set |-> FALSE, ref |-> device.ref - 2]
    /\ fds' = fds - 1
    /\ Go("idle")
    /\ UNCHANGED <<objects, context, devh, usbfs, mFd, stray, xfer, called,
                   obj, java, handler, setter>>

ConnectFails ==
    /\ At("openFailed")
    /\ device' = [set |-> FALSE, ref |-> device.ref - 1]
    /\ fds' = fds - 1
    /\ Go("idle")
    /\ UNCHANGED <<objects, context, devh, usbfs, mFd, stray, xfer, called,
                   obj, java, handler, setter>>

\* new UVCStatusCallback, new UVCButtonCallback: each registers itself with
\* the handle under status_mutex, while status updates may already arrive.
Bind(k, next) ==
    /\ ~RunsCallback
    /\ mFd' = TRUE
    /\ obj' = [obj EXCEPT ![k] = "alive"]
    /\ ref' = [ref EXCEPT ![k] = NULL]
    /\ called' = [called EXCEPT ![k] = TRUE]
    /\ Go(next)
    /\ UNCHANGED <<objects, context, handle, usbfs, fds, stray, xfer, live,
                   handler, setter>>

BindStatus == At("bindStatus") /\ Bind("status", "bindButton")
BindButton == At("bindButton") /\ Bind("button", "idle")

-----------------------------------------------------------------------------
(* UVCCamera.close and destroy: UVCCamera::release and uvc_close           *)

Release(destroys) ==
    /\ At("idle") /\ ptr
    /\ op' = [pc |-> IF devh.set THEN "release" ELSE "unref",
              destroys |-> destroys]
    /\ UNCHANGED <<objects, context, handle, files, xfer, called, obj, java,
                   handler, setter>>

Close   == Release(FALSE)
Destroy == Release(TRUE)

\* The destructors of the callback objects do not unregister them.
Delete(k, next) ==
    /\ obj' = [obj EXCEPT ![k] = "deleted"]
    /\ Go(next)
    /\ UNCHANGED <<objects, context, handle, files, xfer, called, java,
                   handler, setter>>

DeleteStatus == At("release") /\ Delete("status", "deleteButton")
DeleteButton == At("deleteButton") /\ Delete("button", "kill")

\* Mutant: uvc_close does not tell the handler thread to end.
KillForgotten ==
    /\ At("kill")
    /\ Go("libusbClose")
    /\ UNCHANGED <<objects, context, handle, files, xfer, called, obj, java,
                   handler, setter>>

Kill ==
    /\ At("kill")
    /\ kill' = TRUE
    /\ Go("libusbClose")
    /\ UNCHANGED <<objects, ctx, handle, files, xfer, called, obj, java,
                   handler, setter>>

\* Mutant: the thread is joined before libusb_close.
JoinFirst ==
    /\ At("libusbClose")
    /\ Go("join")
    /\ UNCHANGED <<objects, context, handle, files, xfer, called, obj, java,
                   handler, setter>>

\* The event lock is taken; a transfer in flight is taken off the list.
LibusbClose ==
    /\ At("libusbClose") /\ ~HandlesEvents
    /\ xfer' = IF xfer = "flying" THEN "idle" ELSE xfer
    /\ Go("join")
    /\ UNCHANGED <<objects, context, handle, files, called, obj, java,
                   handler, setter>>

\* Mutant: the handler thread is not joined.
JoinNobody ==
    /\ At("join")
    /\ Go("free")
    /\ UNCHANGED <<objects, context, handle, files, xfer, called, obj, java,
                   handler, setter>>

Join ==
    /\ At("join") /\ handler.pc = "exited"
    /\ handler' = [handler EXCEPT !.pc = "none"]
    /\ Go("free")
    /\ UNCHANGED <<objects, context, handle, files, xfer, called, obj, java,
                   setter>>

\* uvc_unref_device and uvc_free_devh, which frees the status transfer
Free ==
    /\ At("free")
    /\ device' = [device EXCEPT !.ref = @ - 1]
    /\ devh' = [devh EXCEPT !.set = FALSE]
    /\ xfer' = "none"
    /\ Go("unref")
    /\ UNCHANGED <<objects, context, files, called, obj, java, handler, setter>>

\* The rest of release: close(mFd) closes descriptor 0 if connect failed.
Unref ==
    /\ At("unref")
    /\ device' = IF device.set THEN [set |-> FALSE, ref |-> device.ref - 1]
                               ELSE device
    /\ fds' = IF usbfs /\ mFd THEN fds - 1 ELSE fds
    /\ stray' = IF usbfs /\ ~mFd THEN 1 ELSE stray
    /\ mFd' = IF usbfs THEN FALSE ELSE mFd
    /\ usbfs' = FALSE
    /\ Go(IF op.destroys THEN "destroy" ELSE "idle")
    /\ UNCHANGED <<objects, context, devh, xfer, called, obj, java, handler,
                   setter>>

\* nativeDestroy clears mNativePtr; the destructor's release finds nothing
\* left to do.
\* Mutant: the object is deleted before mNativePtr is cleared.
DeleteFirst ==
    /\ At("destroy")
    /\ ctx' = FALSE /\ native' = FALSE
    /\ Go("exit")
    /\ UNCHANGED <<ptr, kill, handle, files, xfer, called, obj, java, handler,
                   setter>>

ClearPtr ==
    /\ At("destroy")
    /\ ptr' = FALSE
    /\ Go("exit")
    /\ UNCHANGED <<native, context, handle, files, xfer, called, obj, java,
                   handler, setter>>

Exit ==
    /\ At("exit")
    /\ ctx' = FALSE /\ native' = FALSE
    /\ Go("idle")
    /\ UNCHANGED <<ptr, kill, handle, files, xfer, called, obj, java, handler,
                   setter>>

-----------------------------------------------------------------------------
(* _uvc_handle_events and _uvc_status_callback                             *)

HandlerGo(pc) ==
    /\ handler' = [handler EXCEPT !.pc = pc]
    /\ UNCHANGED <<op, objects, context, handle, files, called, obj, java,
                   setter>>

LoopTest ==
    /\ handler.pc = "loop"
    /\ HandlerGo(IF kill THEN "exited" ELSE "enter")
    /\ UNCHANGED xfer

\* libusb_handle_events waits for a libusb_close that is under way, or takes
\* the event lock.
HandleEvents ==
    /\ handler.pc = "enter"
    /\ HandlerGo(IF At("libusbClose") THEN "loop" ELSE "events")
    /\ UNCHANGED xfer

\* Interrupted by libusb_close, or after libusb's timeout of 60 seconds.
NoEvent ==
    /\ handler.pc = "events"
    /\ HandlerGo("loop")
    /\ UNCHANGED xfer

\* LIBUSB_TRANSFER_COMPLETED with an update some callback is registered for
StatusUpdate ==
    /\ handler.pc = "events" /\ xfer = "flying"
    /\ \E k \in Kinds : /\ called[k]
                        /\ handler' = [pc |-> "notify", kind |-> k]
    /\ xfer' = "idle"
    /\ UNCHANGED <<op, objects, context, handle, files, called, obj, java,
                   setter>>

\* Any other update, and LIBUSB_TRANSFER_TIMED_OUT, STALL and OVERFLOW, go
\* to the end of the callback; ERROR, CANCELLED and NO_DEVICE return.
OtherCompletion ==
    /\ handler.pc = "events" /\ xfer = "flying"
    /\ xfer' = "idle"
    /\ \E pc \in {"resubmit", "loop"} : HandlerGo(pc)

\* notifyStatusCallback, notifyButtonCallback: the Java method is called
\* with the object's mutex held.
Notify ==
    /\ handler.pc = "notify"
    /\ HandlerGo(IF ref[handler.kind] = NULL THEN "resubmit" ELSE "call")
    /\ UNCHANGED xfer

JavaReturns ==
    /\ handler.pc = "call"
    /\ HandlerGo("resubmit")
    /\ UNCHANGED xfer

\* libusb may refuse, the result is ignored.
Resubmit ==
    /\ handler.pc = "resubmit"
    /\ xfer' \in {"flying", "idle"}
    /\ HandlerGo("loop")

-----------------------------------------------------------------------------
(* UVCCamera.setButtonCallback and setStatusCallback                       *)

\* mNativePtr is tested; nativeSet...Callback makes a global reference.
SetCallback(s) ==
    /\ setter[s].pc = "idle" /\ ptr
    /\ \E k \in Kinds, r \in (Refs \ live) \cup {NULL} :
          /\ setter' = [setter EXCEPT ![s].pc = "native", ![s].kind = k,
                                      ![s].new = r]
          /\ live' = live \cup ({r} \ {NULL})
    /\ UNCHANGED <<op, objects, context, handle, files, xfer, called, obj,
                   ref, handler>>

\* Without a callback object nothing is set, and the reference stays.
FindObject(s) ==
    /\ setter[s].pc = "native"
    /\ setter' = [setter EXCEPT
          ![s].pc = IF obj[setter[s].kind] = "alive" THEN "swap" ELSE "idle",
          ![s].open = devh.opened]
    /\ UNCHANGED <<op, objects, context, handle, files, xfer, called, obj,
                   java, handler>>

\* The handler thread holds button_mutex, or status_mutex, of kind k.
Locked(k) == handler.pc = "call" /\ handler.kind = k

Swap(s, k) ==
    /\ setter[s].pc = "swap" /\ setter[s].kind = k
    /\ \/ ref[k] # NULL \/ setter[s].new # NULL
    /\ live' = live \ {ref[k]}
    /\ ref' = [ref EXCEPT ![k] = setter[s].new]
    /\ setter' = [setter EXCEPT ![s].pc = "idle"]
    /\ UNCHANGED <<op, objects, context, handle, files, xfer, called, obj,
                   handler>>

\* Mutant: setCallback does not lock the object's mutex.
ReplaceCallbackUnlocked(s) == \E k \in Kinds : Swap(s, k)

ReplaceCallback(s) == \E k \in Kinds : ~Locked(k) /\ Swap(s, k)

\* IsSameObject: the new reference is neither stored nor deleted.
SameCallback(s) ==
    /\ setter[s].pc = "swap"
    /\ LET k == setter[s].kind IN
          ~Locked(k) /\ (ref[k] = NULL <=> setter[s].new = NULL)
    /\ setter' = [setter EXCEPT ![s].pc = "idle"]
    /\ UNCHANGED <<op, objects, context, handle, files, xfer, called, obj,
                   java, handler>>

-----------------------------------------------------------------------------

OpStep == \/ GetDevice \/ UvcOpen \/ UvcOpenFails \/ ConnectFails
          \/ BindStatus \/ BindButton
          \/ DeleteStatus \/ DeleteButton \/ Kill \/ LibusbClose \/ Join
          \/ Free \/ Unref \/ ClearPtr \/ Exit

HandlerStep == \/ LoopTest \/ HandleEvents \/ NoEvent \/ StatusUpdate
               \/ OtherCompletion \/ Notify \/ JavaReturns \/ Resubmit

SetterStep(s) == FindObject(s) \/ ReplaceCallback(s) \/ SameCallback(s)

Next ==
    /\ ~Crashed
    /\ \/ Connect \/ Close \/ Destroy \/ OpStep \/ HandlerStep
       \/ \E s \in Setters : SetCallback(s) \/ SetterStep(s)

Spec == Init /\ [][Next]_vars

\* The threads are scheduled, Java callbacks return and libusb's wait for
\* events ends; nobody has to open, close or set anything.
Fairness == /\ WF_vars(~Crashed /\ OpStep) /\ WF_vars(~Crashed /\ HandlerStep)
            /\ \A s \in Setters : WF_vars(~Crashed /\ SetterStep(s))

FairSpec == Spec /\ Fairness

-----------------------------------------------------------------------------

TypeOK ==
    /\ op \in [pc : OpPc, destroys : BOOLEAN]
    /\ ptr \in BOOLEAN /\ native \in BOOLEAN
    /\ ctx \in BOOLEAN /\ kill \in BOOLEAN
    /\ device \in [set : BOOLEAN, ref : Nat]
    /\ devh \in [set : BOOLEAN, opened : 0..MaxOpen]
    /\ usbfs \in BOOLEAN /\ fds \in Nat /\ mFd \in BOOLEAN /\ stray \in {0, 1}
    /\ xfer \in {"none", "idle", "flying"}
    /\ called \in [Kinds -> BOOLEAN]
    /\ obj \in [Kinds -> {"none", "alive", "deleted"}]
    /\ ref \in [Kinds -> Refs \cup {NULL}] /\ live \subseteq Refs
    /\ handler \in [pc : HandlerPc, kind : Kinds]
    /\ setter \in [Setters -> [pc : SetterPc, kind : Kinds,
                               new : Refs \cup {NULL}, open : 0..MaxOpen]]

-----------------------------------------------------------------------------
(* What must hold                                                          *)

(* uvc_free_devh, "Streaming must be stopped, and threads must have died": *)
(* the handle, its status transfer and the context are there as long as    *)
(* the handler thread is, however the camera is opened and closed, and the *)
(* transfer is freed when it is not in flight any more and nobody is left  *)
(* to resubmit it.                                                         *)
HandleOutlivesThread ==
    /\ handler.pc # "none" => devh.set /\ ctx /\ (xfer # "none" \/ ~RunsCallback)
    /\ At("free") => handler.pc = "none" /\ xfer # "flying"

(* mNativePtr is cleared before the object goes: a method that starts, or  *)
(* that holds the monitor, has an object to work on.                       *)
PointerValid == ptr \/ op.pc # "idle" => native

(* A status update runs on a deleted callback object only if it comes      *)
(* between the deletion and the end of libusb_close, in one release: the   *)
(* object is there before, and afterwards no update comes any more.        *)
CallbackWindow == HandlerDangling => op.pc \in {"deleteButton", "kill", "libusbClose"}

(* The Java object a notification is running on is not deleted by          *)
(* setButtonCallback or setStatusCallback.                                 *)
CalledRefLives ==
    handler.pc = "call" => ref[handler.kind] \in live

(* Whatever fails on the way, when no call is running and the camera is    *)
(* not open it holds no device, descriptor, transfer or thread, and when   *)
(* it is open just the one descriptor and the two references.              *)
NothingLeft ==
    At("idle") =>
       /\ device = [set |-> devh.set, ref |-> IF devh.set THEN 2 ELSE 0]
       /\ fds = IF devh.set THEN 1 ELSE 0
       /\ mFd <=> devh.set
       /\ ~devh.set => handler.pc = "none" /\ xfer = "none"

(* "Since this is our first device, we need to spawn the event handler     *)
(* thread": whoever opens a camera has its events handled.  It holds for   *)
(* the first handle of a context only, kill_handler_thread is not reset.   *)
FirstHandleServed ==
    At("idle") /\ devh.set /\ devh.opened = 1 =>
       handler.pc \notin {"none", "exited"}

(* uvc_close does not wait for the handler thread for ever, whatever the   *)
(* thread is doing when it is told to end.                                 *)
CloseReturns == At("kill") ~> (At("free") \/ Crashed)
=============================================================================
