----------------------------- MODULE UsbConnect -----------------------------
(***************************************************************************)
(* How a USB camera gets from the plug to an open UVCCamera and back:      *)
(* CameraUvc.java with its ConnectCallback, UVCCameraProxy.java,           *)
(* UsbMonitor.java and UsbController.java.                                 *)
(*                                                                         *)
(* All of it runs on the main looper, one message at a time: a call of the *)
(* application, posted to the handler, or a broadcast.  A message is one   *)
(* action, with the whole chain of callbacks it sets off: checkDevice,     *)
(* onAttached, requestPermission, onGranted, connectDevice, onConnected,   *)
(* openCamera, onCameraOpened, startPreview.  The chain is written as      *)
(* functions on app, the state of the Java objects; one that may end in    *)
(* several ways returns a set.                                             *)
(*                                                                         *)
(* A UsbDevice object stands for one attachment: who unplugs the camera    *)
(* and plugs it in again makes a new one.  connectDevice creates a         *)
(* connection and openCamera at once a UVCCamera on it, so connection and  *)
(* camera have the same number.                                            *)
(***************************************************************************)
EXTENDS Naturals, Sequences

CONSTANTS
    MaxPlug,    \* attachments of the camera
    MaxConn,    \* connections opened
    Restart,    \* may the preview be started again without release, or while
                \* the dialog of an earlier start is open?
    Faults      \* may openDevice and UVCCamera.open fail?

ASSUME BoundsAssumption == MaxPlug \in Nat /\ MaxConn \in Nat
ASSUME FlagsAssumption == Restart \in BOOLEAN /\ Faults \in BOOLEAN

VARIABLES
    plug,       \* the attachment that is plugged in, or 0
    plugs,      \* attachments so far
    allowed,    \* attachments UsbManager.hasPermission holds of
    asked,      \* attachments whose permission dialog is open
    failed,     \* attachments the user refused or that did not open
    mail,       \* broadcasts on their way to the receiver
    app         \* the Java objects

bus  == <<plug, plugs>>
user == <<allowed, asked>>
vars == <<bus, user, failed, mail, app>>

Devs == 1..MaxPlug
Ids  == 1..MaxConn

Broadcast == [what : {"attached", "detached", "granted", "denied"}, dev : Devs]

\* camera # null; mUsbReceiver # null; the connection of mUsbController and
\* mUVCCamera (0 for null); the connections open, the cameras whose native
\* object exists and those that are open; the next number.
AppState ==
    [on : BOOLEAN, receiver : BOOLEAN, ctl : {0} \cup Ids, cam : {0} \cup Ids,
     conns : SUBSET (Ids \X Devs), alive : SUBSET Ids, opened : SUBSET Ids,
     next : 1..MaxConn + 1]

Init ==
    /\ plug = 0 /\ plugs = 0 /\ allowed = {} /\ asked = {} /\ failed = {}
    /\ mail = <<>>
    /\ app = [on |-> FALSE, receiver |-> FALSE, ctl |-> 0, cam |-> 0,
              conns |-> {}, alive |-> {}, opened |-> {}, next |-> 1]

-----------------------------------------------------------------------------
(* UVCCameraProxy and UsbMonitor                                           *)

\* UsbDeviceConnection.close; closing one that is closed does nothing.
Without(a, id) == [a EXCEPT !.conns = {c \in @ : c[1] # id}]

CloseDevice(a) == [Without(a, a.ctl) EXCEPT !.ctl = 0]

\* UVCCamera.destroy, which closes its control block
DestroyCamera(a) ==
    [Without(a, a.cam) EXCEPT !.alive = @ \ {a.cam}, !.opened = @ \ {a.cam},
                              !.cam = 0]

\* Mutant: mUsbMonitor.closeDevice and mUVCCamera = null without destroy
CloseCameraAlive(a) == CloseDevice([a EXCEPT !.cam = 0])

CloseCamera(a) == CloseDevice(DestroyCamera(a))

\* Mutant: open is called before the new UVCCamera is stored.
OpenCameraLate(a, id) ==
    {[a EXCEPT !.alive = @ \cup {a.cam}, !.cam = id, !.opened = @ \cup {id}]}

\* A new UVCCamera replaces the old; if open throws it stays, not open.
OpenCamera(a, id) ==
    LET b == [a EXCEPT !.cam = id, !.alive = @ \cup {id}]
    IN  {[b EXCEPT !.opened = @ \cup {id}]} \cup (IF Faults THEN {b} ELSE {})

\* openDevice returns null for a device that is gone, and may fail.
ConnectDevice(a, d) ==
    (IF plug # d \/ Faults THEN {[a EXCEPT !.ctl = 0]} ELSE {})
    \cup
    (IF plug # d THEN {}
     ELSE OpenCamera([a EXCEPT !.ctl = a.next, !.next = @ + 1,
                               !.conns = @ \cup {<<a.next, d>>}], a.next))

\* Mutant: the user is asked one thing at a time.
RequestPermissionOnce(a, d) ==
    IF d \in allowed THEN {<<b, FALSE>> : b \in ConnectDevice(a, d)}
                     ELSE {<<a, asked = {}>>}

\* What may have become of app, and whether the user must be asked.
RequestPermission(a, d) ==
    IF d \in allowed THEN {<<b, FALSE>> : b \in ConnectDevice(a, d)}
                     ELSE {<<a, TRUE>>}

\* No camera: onUsbCameraError, which closes.  Another camera: nothing.
CheckDevice(a) ==
    IF plug = 0 THEN {<<CloseCamera(a), FALSE>>, <<a, FALSE>>}
                ELSE RequestPermission(a, plug)

Ask(d, asks) == asked' = IF asks THEN asked \cup {d} ELSE asked
\* openDevice or open failed for d, which the user had allowed.
Fail(d) ==
    failed' = IF d \in allowed /\ \A c \in app'.opened : <<c, d>> \notin app'.conns
              THEN failed \cup {d} ELSE failed

-----------------------------------------------------------------------------
(* CameraUvc                                                               *)

Open ==
    /\ ~app.on
    /\ app' = [app EXCEPT !.on = TRUE]
    /\ UNCHANGED <<bus, user, failed, mail>>

\* checkDevice comes before registerReceiver.
StartPreview ==
    /\ app.on /\ app.next <= MaxConn
    /\ Restart \/ (~app.receiver /\ plug \notin asked)
    /\ \E r \in CheckDevice(app) :
          /\ app' = [r[1] EXCEPT !.receiver = TRUE]
          /\ Ask(plug, r[2]) /\ Fail(plug)
    /\ UNCHANGED <<bus, allowed, mail>>

\* A receiver that is unregistered gets no broadcast any more.
Release ==
    /\ app.on
    /\ app' = [CloseDevice(CloseCamera(app)) EXCEPT !.on = FALSE,
                                                    !.receiver = FALSE]
    /\ mail' = <<>>
    /\ UNCHANGED <<bus, user, failed>>

\* onReceive: onAttached, onGranted, onDetached
Attached(d) ==
    /\ \E r \in RequestPermission(app, d) :
          app' = r[1] /\ Ask(d, r[2]) /\ Fail(d)

Granted(d) ==
    /\ app' \in ConnectDevice(app, d)
    /\ Fail(d)
    /\ UNCHANGED asked

Denied(d) == UNCHANGED <<app, asked, failed>>

\* Mutant: onDetached closes the connection and leaves the camera.
DetachedKeeps(d) == app' = CloseDevice(app) /\ UNCHANGED <<asked, failed>>

\* Mutant: onDetached is left to the error callbacks.
DetachedIgnored(d) == UNCHANGED <<app, asked, failed>>

Detached(d) == app' = CloseCamera(app) /\ UNCHANGED <<asked, failed>>

Receive ==
    /\ mail # <<>> /\ app.next <= MaxConn
    /\ LET m == Head(mail) IN
          \/ m.what = "attached" /\ Attached(m.dev)
          \/ m.what = "granted"  /\ Granted(m.dev)
          \/ m.what = "denied"   /\ Denied(m.dev)
          \/ m.what = "detached" /\ Detached(m.dev)
    /\ mail' = Tail(mail)
    /\ UNCHANGED <<bus, allowed>>

-----------------------------------------------------------------------------
(* The cable and the user                                                  *)

Send(what, d) ==
    mail' = IF app.receiver THEN Append(mail, [what |-> what, dev |-> d])
                            ELSE mail

\* The permission may be remembered.
Plug ==
    /\ plug = 0 /\ plugs < MaxPlug
    /\ plug' = plugs + 1 /\ plugs' = plugs + 1
    /\ allowed' \in {allowed, allowed \cup {plugs + 1}}
    /\ Send("attached", plugs + 1)
    /\ UNCHANGED <<asked, failed, app>>

Unplug ==
    /\ plug # 0
    /\ plug' = 0
    /\ allowed' = allowed \ {plug}
    /\ Send("detached", plug)
    /\ UNCHANGED <<plugs, asked, failed, app>>

\* The dialog may outlive the attachment, the preview and the release.
Answer ==
    /\ \E d \in asked, yes \in BOOLEAN :
          /\ asked' = asked \ {d}
          /\ allowed' = IF yes /\ plug = d THEN allowed \cup {d} ELSE allowed
          /\ failed' = IF yes THEN failed ELSE failed \cup {d}
          /\ Send(IF yes THEN "granted" ELSE "denied", d)
    /\ UNCHANGED <<bus, app>>

Next == Open \/ StartPreview \/ Release \/ Receive \/ Plug \/ Unplug \/ Answer

Spec == Init /\ [][Next]_vars

\* The looper runs, and the user answers a dialog in the end.
FairSpec == Spec /\ WF_vars(Receive) /\ WF_vars(Answer)

-----------------------------------------------------------------------------

TypeOK ==
    /\ plug \in {0} \cup Devs /\ plugs \in 0..MaxPlug /\ plug <= plugs
    /\ allowed \subseteq Devs /\ asked \subseteq Devs /\ failed \subseteq Devs
    /\ mail \in Seq(Broadcast)
    /\ app \in AppState

-----------------------------------------------------------------------------
(* What must hold                                                          *)

(* setPreviewSurfaceTexture "wraps registering, checking the device and    *)
(* releasing resources": every open connection and every native camera can *)
(* be closed through the proxy's fields, and after release there is none,  *)
(* nor a receiver, whatever was plugged, asked or answered before or comes *)
(* later.                                                                  *)
Reachable ==
    /\ \A c \in app.conns : c[1] \in {app.ctl, app.cam}
    /\ app.alive \subseteq {app.cam}
    /\ ~app.on => /\ ~app.receiver /\ mail = <<>>
                  /\ app.conns = {} /\ app.alive = {}

(* A native camera is never left open on a connection that was closed.     *)
CameraOnConnection ==
    \A id \in app.opened : \E d \in Devs : <<id, d>> \in app.conns

(* What is open is open on a connection, and once the broadcasts are       *)
(* delivered on the camera that is plugged in now, not on an earlier       *)
(* attachment.                                                             *)
NoStaleConnection ==
    /\ CameraOnConnection
    /\ mail = <<>> => \A c \in app.conns : c[2] = plug

(* Cameras are open one after the other: what is open is closed before     *)
(* another is opened, in whichever order attachments, answers and calls    *)
(* come, and however late an answer is.                                    *)
OneAfterTheOther ==
    [][app.opened # app'.opened => app.opened = {} \/ app'.opened = {}]_vars

(* Who keeps the preview sees a camera that is plugged in come up, however *)
(* plugging and answering interleave with the start of the preview, unless *)
(* the user refuses it or it fails to open.                                *)
ComesUp ==
    \A d \in Devs :
       (plug = d /\ app.receiver) ~>
          \/ plug # d \/ ~app.receiver \/ d \in failed
          \/ \E id \in app.opened : <<id, d>> \in app.conns
          \/ app.next > MaxConn
=============================================================================
