-------------------------- MODULE UsbConnectProofs --------------------------
(* Theorems of UsbConnect for any number of attachments and connections,   *)
(* with or without faults; all but two when the preview is not started     *)
(* twice without a release between (Restart).                              *)
EXTENDS UsbConnect, TLAPS

(* What the proxy's fields stand for: at most one native camera, on at most *)
(* one connection.                                                         *)
Held(a) ==
    /\ a.cam = 0 => a.conns = {} /\ a.alive = {}
    /\ a.cam # 0 => /\ a.alive = {a.cam}
                    /\ \E d \in Devs : a.conns = {<<a.cam, d>>}
    /\ a.ctl \in {0, a.cam} /\ a.cam < a.next
    /\ a.opened \subseteq a.alive

(* A message on which the camera that is plugged in may be opened.         *)
Opening(m) == m.what \in {"attached", "granted"} /\ m.dev = plug
Detach(d)  == [what |-> "detached", dev |-> d]

(* A camera is opened once: a dialog, a message or the open camera, never  *)
(* two of them.                                                            *)
OneOpening ==
    /\ \A i, j \in 1..Len(mail) : Opening(mail[i]) /\ Opening(mail[j]) => i = j
    /\ plug \in asked => \A i \in 1..Len(mail) : ~Opening(mail[i])

(* The open camera is the one that is plugged in, or its detached broadcast *)
(* comes before any on which another is opened.                            *)
ClosedFirst ==
    \A d \in Devs : <<app.cam, d>> \in app.conns =>
       /\ d = plug => plug \notin asked
       /\ d # plug => \E i \in 1..Len(mail) : mail[i] = Detach(d)
       /\ \A i \in 1..Len(mail) : Opening(mail[i]) =>
             \E j \in 1..i - 1 : mail[j] = Detach(d)

(* No attachment is heard of before it happens, and none without receiver. *)
Heard ==
    /\ \A d \in asked : d <= plugs
    /\ \A i \in 1..Len(mail) : mail[i].dev <= plugs
    /\ \A c \in app.conns : c[2] <= plugs
    /\ app.receiver => app.on
    /\ ~app.receiver => mail = <<>> /\ app.cam = 0

IInv == TypeOK /\ Held(app) /\ OneOpening /\ ClosedFirst /\ Heard

-----------------------------------------------------------------------------
(* The helpers on app                                                      *)

Same(a, b) == b.on = a.on /\ b.receiver = a.receiver

Closed(b) ==
    b.cam = 0 /\ b.ctl = 0 /\ b.conns = {} /\ b.alive = {} /\ b.opened = {}

LEMMA DestroyCloses ==
  ASSUME NEW a \in AppState, Held(a)
  PROVE  LET b == DestroyCamera(a) IN
         /\ b \in AppState /\ Same(a, b) /\ b.next = a.next
         /\ b.cam = 0 /\ b.conns = {} /\ b.alive = {} /\ b.opened = {}
<1>1. /\ Without(a, a.cam) \in AppState
      /\ Without(a, a.cam) = [a EXCEPT !.conns = {c \in a.conns : c[1] # a.cam}]
  BY DEF Without, AppState
<1>2. {c \in a.conns : c[1] # a.cam} = {}
  BY DEF Held
<1>3. a.alive \ {a.cam} = {} /\ a.opened \ {a.cam} = {}
  BY DEF Held
<1>. QED BY <1>1, <1>2, <1>3 DEF DestroyCamera, AppState, Same

LEMMA CloseCloses ==
  ASSUME NEW a \in AppState,
         a.cam = 0, a.conns = {}, a.alive = {}, a.opened = {}
  PROVE  LET b == CloseDevice(a) IN
         b \in AppState /\ Same(a, b) /\ b.next = a.next /\ Closed(b)
<1>1. {c \in a.conns : c[1] # a.ctl} = {}
  OBVIOUS
<1>. QED BY <1>1 DEF CloseDevice, Without, AppState, Same, Closed

LEMMA CloseCameraCloses ==
  ASSUME NEW a \in AppState, Held(a)
  PROVE  LET b == CloseCamera(a) IN
         b \in AppState /\ Same(a, b) /\ b.next = a.next /\ Closed(b)
<1> DEFINE b == DestroyCamera(a)
<1>1. /\ b \in AppState /\ Same(a, b) /\ b.next = a.next
      /\ b.cam = 0 /\ b.conns = {} /\ b.alive = {} /\ b.opened = {}
  BY DestroyCloses
<1>2. CloseCamera(a) = CloseDevice(b)
  BY DEF CloseCamera
<1> HIDE DEF b
<1>. QED BY <1>1, <1>2, CloseCloses DEF Same

LEMMA ClosedHeld == ASSUME NEW a \in AppState, Closed(a) PROVE Held(a)
<1>1. a.next \in Nat /\ a.next > 0
  BY BoundsAssumption DEF AppState
<1>. QED BY <1>1 DEF Closed, Held

(* connectDevice leaves what is open or opens the camera that is plugged in. *)
LEMMA ConnectHeld ==
  ASSUME NEW a \in AppState, Held(a), NEW d \in Devs, a.next <= MaxConn,
         plug = d => a.cam = 0,
         NEW b \in ConnectDevice(a, d)
  PROVE  /\ b \in AppState /\ Held(b) /\ Same(a, b)
         /\ \/ b.cam = a.cam /\ b.conns = a.conns
            \/ plug = d /\ b.cam # 0 /\ b.conns = {<<b.cam, d>>}
<1>1. CASE b = [a EXCEPT !.ctl = 0]
  BY <1>1 DEF AppState, Held, Same
<1>2. CASE b # [a EXCEPT !.ctl = 0]
  <2> DEFINE c == [a EXCEPT !.ctl = a.next, !.next = a.next + 1,
                            !.conns = a.conns \cup {<<a.next, d>>}]
             e == [c EXCEPT !.cam = a.next, !.alive = c.alive \cup {a.next}]
  <2>1. /\ plug = d
        /\ b \in {[e EXCEPT !.opened = e.opened \cup {a.next}]}
                  \cup (IF Faults THEN {e} ELSE {})
    BY <1>2 DEF ConnectDevice, OpenCamera
  <2>2. a.cam = 0 /\ a.conns = {} /\ a.alive = {} /\ a.opened = {}
    BY <2>1 DEF Held
  <2>3. a.next \in Ids /\ a.next + 1 \in 1..MaxConn + 1
    BY BoundsAssumption DEF AppState, Ids
  <2>4. /\ c \in AppState /\ c.on = a.on /\ c.receiver = a.receiver
        /\ c.ctl = a.next /\ c.cam = 0 /\ c.conns = {<<a.next, d>>}
        /\ c.alive = {} /\ c.opened = {} /\ c.next = a.next + 1
    <3> DEFINE k == a.conns \cup {<<a.next, d>>}
    <3>1. k = {<<a.next, d>>} /\ k \in SUBSET (Ids \X Devs)
      BY <2>2, <2>3
    <3>2. c = [a EXCEPT !.ctl = a.next, !.next = a.next + 1, !.conns = k]
      OBVIOUS
    <3> HIDE DEF k, c
    <3>. QED BY <2>2, <2>3, <3>1, <3>2 DEF AppState
  <2>5. /\ e \in AppState /\ e.on = a.on /\ e.receiver = a.receiver
        /\ e.ctl = a.next /\ e.cam = a.next /\ e.conns = {<<a.next, d>>}
        /\ e.alive = {a.next} /\ e.opened = {} /\ e.next = a.next + 1
    <3> HIDE DEF c
    <3>. QED BY <2>3, <2>4 DEF AppState
  <2>6. /\ b \in AppState /\ b.on = a.on /\ b.receiver = a.receiver
        /\ b.ctl = a.next /\ b.cam = a.next /\ b.conns = {<<a.next, d>>}
        /\ b.alive = {a.next} /\ b.opened \subseteq {a.next}
        /\ b.next = a.next + 1
    <3> HIDE DEF e
    <3>1. CASE b = e
      BY <2>5, <3>1
    <3>2. CASE b = [e EXCEPT !.opened = e.opened \cup {a.next}]
      BY <2>3, <2>5, <3>2 DEF AppState
    <3>. QED BY <2>1, <3>1, <3>2
  <2>7. a.next # 0 /\ a.next < a.next + 1
    BY <2>3 DEF Ids
  <2>. QED BY <2>1, <2>6, <2>7 DEF Held, Same
<1>. QED BY <1>1, <1>2

-----------------------------------------------------------------------------
(* The invariant                                                           *)

LEMMA IInvInit == Init => IInv
<1> SUFFICES ASSUME Init PROVE IInv
  OBVIOUS
<1>1. 1 \in 1..MaxConn + 1
  BY BoundsAssumption
<1>2. app \in AppState
  BY <1>1 DEF Init, AppState
<1>3. mail \in Seq(Broadcast) /\ Len(mail) = 0
  BY DEF Init
<1>4. TypeOK
  BY <1>2, <1>3, BoundsAssumption DEF Init, TypeOK
<1>5. Held(app)
  BY DEF Init, Held
<1>6. OneOpening /\ ClosedFirst /\ Heard
  BY <1>3 DEF Init, OneOpening, ClosedFirst, Heard
<1>. QED BY <1>4, <1>5, <1>6 DEF IInv

LEMMA OpenInv == ASSUME IInv, Open PROVE IInv'
<1>1. app' \in AppState /\ app'.on = TRUE /\ app'.receiver = app.receiver
      /\ app'.ctl = app.ctl /\ app'.cam = app.cam /\ app'.conns = app.conns
      /\ app'.alive = app.alive /\ app'.opened = app.opened
      /\ app'.next = app.next
  BY DEF Open, IInv, TypeOK, AppState
<1>2. UNCHANGED <<plug, plugs, allowed, asked, failed, mail>>
  BY DEF Open, bus, user
<1>3. TypeOK'
  BY <1>1, <1>2 DEF IInv, TypeOK
<1>4. Held(app)'
  BY <1>1 DEF IInv, Held
<1>5. OneOpening' /\ ClosedFirst' /\ Heard'
  BY <1>1, <1>2 DEF IInv, OneOpening, ClosedFirst, Heard, Opening
<1>. QED BY <1>3, <1>4, <1>5 DEF IInv

LEMMA ReleaseInv == ASSUME IInv, Release PROVE IInv'
<1> DEFINE b == CloseCamera(app)
           c == CloseDevice(b)
<1>1. b \in AppState /\ Closed(b)
  BY CloseCameraCloses DEF IInv, TypeOK
<1>2. c \in AppState /\ Closed(c)
  <2> HIDE DEF b
  <2>. QED BY <1>1, CloseCloses DEF Closed
<1>3. app' = [c EXCEPT !.on = FALSE, !.receiver = FALSE]
  BY DEF Release
<1>4. /\ app' \in AppState /\ Closed(app') /\ ~app'.on /\ ~app'.receiver
  <2> HIDE DEF c
  <2>. QED BY <1>2, <1>3 DEF AppState, Closed
<1>5. mail' = <<>> /\ UNCHANGED <<plug, plugs, allowed, asked, failed>>
  BY DEF Release, bus, user
<1>6. mail' \in Seq(Broadcast) /\ Len(mail') = 0
  BY <1>5
<1>7. TypeOK'
  BY <1>4, <1>5, <1>6 DEF IInv, TypeOK
<1>8. Held(app')
  BY <1>4, ClosedHeld
<1>9. OneOpening' /\ ClosedFirst' /\ Heard'
  BY <1>4, <1>5, <1>6 DEF IInv, OneOpening, ClosedFirst, Heard, Closed
<1>. QED BY <1>7, <1>8, <1>9 DEF IInv

(* What checkDevice may do when nothing is open.                           *)
LEMMA StartPreviewInv == ASSUME Restart = FALSE, IInv, StartPreview PROVE IInv'
<1>1. PICK r \in CheckDevice(app) :
         /\ app' = [r[1] EXCEPT !.receiver = TRUE]
         /\ Ask(plug, r[2]) /\ Fail(plug)
  BY DEF StartPreview
<1>2. /\ app.on /\ app.next <= MaxConn /\ ~app.receiver /\ plug \notin asked
      /\ UNCHANGED <<plug, plugs, allowed, mail>>
  BY DEF StartPreview, bus
<1>3. /\ app \in AppState /\ Held(app) /\ mail = <<>> /\ app.cam = 0
      /\ app.conns = {}
  BY <1>2 DEF IInv, TypeOK, Heard, Held
<1>4. /\ r[1] \in AppState /\ Held(r[1]) /\ r[1].on
      /\ \/ r[1].conns = {}
         \/ plug # 0 /\ r[1].conns = {<<r[1].cam, plug>>}
      /\ asked' = asked \/ (asked' = asked \cup {plug} /\ plug # 0 /\ r[1].conns = {})
  <2>1. CASE plug = 0
    <3>1. r = <<CloseCamera(app), FALSE>> \/ r = <<app, FALSE>>
      BY <2>1 DEF CheckDevice
    <3>2. CASE r = <<app, FALSE>>
      <4>1. r[1] = app /\ asked' = asked
        BY <1>1, <3>2 DEF Ask
      <4>. QED BY <1>2, <1>3, <4>1
    <3>3. CASE r = <<CloseCamera(app), FALSE>>
      <4> DEFINE b == CloseCamera(app)
      <4>1. b \in AppState /\ Closed(b) /\ Same(app, b)
        BY <1>3, CloseCameraCloses
      <4> HIDE DEF b
      <4>2. r = <<b, FALSE>>
        BY <3>3 DEF b
      <4>3. r[1] = b /\ asked' = asked
        BY <1>1, <4>2 DEF Ask
      <4>. QED BY <1>2, <4>1, <4>3, ClosedHeld DEF Closed, Same
    <3>. QED BY <3>1, <3>2, <3>3
  <2>2. CASE plug # 0 /\ plug \in allowed
    <3>1. PICK b \in ConnectDevice(app, plug) : r = <<b, FALSE>>
      BY <2>2 DEF CheckDevice, RequestPermission
    <3>2. plug \in Devs
      BY <2>2 DEF IInv, TypeOK
    <3>3. /\ b \in AppState /\ Held(b) /\ Same(app, b)
          /\ b.conns = app.conns \/ b.conns = {<<b.cam, plug>>}
      BY <1>2, <1>3, <3>1, <3>2, ConnectHeld
    <3>4. r[1] = b /\ asked' = asked
      BY <1>1, <3>1 DEF Ask
    <3>. QED BY <1>2, <1>3, <2>2, <3>3, <3>4 DEF Same
  <2>3. CASE plug # 0 /\ plug \notin allowed
    <3>1. r = <<app, TRUE>>
      BY <2>3 DEF CheckDevice, RequestPermission
    <3>2. r[1] = app /\ asked' = asked \cup {plug}
      BY <1>1, <3>1 DEF Ask
    <3>. QED BY <1>2, <1>3, <2>3, <3>2
  <2>. QED BY <2>1, <2>2, <2>3
<1>5. /\ app' \in AppState /\ app'.receiver = TRUE /\ app'.on = r[1].on
      /\ app'.ctl = r[1].ctl /\ app'.cam = r[1].cam /\ app'.conns = r[1].conns
      /\ app'.alive = r[1].alive /\ app'.opened = r[1].opened
      /\ app'.next = r[1].next
  BY <1>1, <1>4 DEF AppState
<1>6. Held(app')
  BY <1>4, <1>5 DEF Held
<1>7. failed' \subseteq Devs
  <2>1. failed' \subseteq failed \cup allowed
    BY <1>1 DEF Fail
  <2>. QED BY <2>1 DEF IInv, TypeOK
<1>8. plug # 0 => plug \in Devs /\ plug <= plugs
  BY DEF IInv, TypeOK
<1>9. TypeOK'
  BY <1>2, <1>4, <1>5, <1>7, <1>8 DEF IInv, TypeOK
<1>10. Len(mail') = 0 /\ mail' = <<>>
  BY <1>2, <1>3
<1>11. OneOpening'
  BY <1>10 DEF OneOpening
<1>12. ClosedFirst'
  <2> SUFFICES ASSUME NEW d \in Devs, <<app'.cam, d>> \in app'.conns
               PROVE  d = plug' /\ plug' \notin asked'
    BY <1>10 DEF ClosedFirst
  <2>. QED BY <1>2, <1>4, <1>5
<1>13. Heard'
  BY <1>2, <1>4, <1>5, <1>8, <1>10 DEF IInv, Heard
<1>. QED BY <1>6, <1>9, <1>11, <1>12, <1>13 DEF IInv

LEMMA Sent ==
  ASSUME mail \in Seq(Broadcast), NEW what, NEW d \in Devs,
         what \in {"attached", "detached", "granted", "denied"},
         Send(what, d)
  PROVE  /\ mail' \in Seq(Broadcast)
         /\ ~app.receiver => mail' = mail
         /\ app.receiver => /\ Len(mail') = Len(mail) + 1
                            /\ mail'[Len(mail) + 1] = [what |-> what, dev |-> d]
         /\ \A i \in 1..Len(mail) : mail'[i] = mail[i]
<1>1. [what |-> what, dev |-> d] \in Broadcast
  BY DEF Broadcast
<1>. QED BY <1>1 DEF Send

LEMMA MailDev ==
  ASSUME NEW m \in Seq(Broadcast), NEW i \in 1..Len(m)
  PROVE  m[i].dev \in Devs /\ m[i].dev \in Nat
<1>1. m[i] \in Broadcast
  OBVIOUS
<1>. QED BY <1>1, BoundsAssumption DEF Broadcast, Devs

(* Without receiver nothing is open and no message waits.                  *)
LEMMA NoReceiver ==
  ASSUME IInv, ~app.receiver PROVE Len(mail) = 0 /\ app.conns = {}
BY DEF IInv, Heard, Held

LEMMA PlugInv == ASSUME IInv, Plug PROVE IInv'
<1> DEFINE d == plugs + 1
<1>1. /\ plug = 0 /\ plugs < MaxPlug /\ plug' = d /\ plugs' = d
      /\ allowed' \subseteq allowed \cup {d}
      /\ UNCHANGED <<asked, failed, app>>
      /\ Send("attached", d)
  BY DEF Plug
<1>2. d \in Devs /\ plugs \in Nat
  BY <1>1, BoundsAssumption DEF IInv, TypeOK, Devs
<1>3. /\ mail' \in Seq(Broadcast)
      /\ ~app.receiver => mail' = mail
      /\ app.receiver => /\ Len(mail') = Len(mail) + 1
                         /\ mail'[Len(mail) + 1] = [what |-> "attached", dev |-> d]
      /\ \A i \in 1..Len(mail) : mail'[i] = mail[i]
  BY <1>1, <1>2, Sent DEF IInv, TypeOK
<1>4. TypeOK'
  <2>1. plugs' \in 0..MaxPlug /\ plug' \in {0} \cup Devs /\ plug' <= plugs'
    BY <1>1, <1>2, BoundsAssumption
  <2>2. allowed' \subseteq Devs
    BY <1>1, <1>2 DEF IInv, TypeOK
  <2>. QED BY <1>1, <1>3, <2>1, <2>2 DEF IInv, TypeOK
<1>5. Held(app')
  BY <1>1 DEF IInv
<1>6. d \notin asked
  BY <1>2 DEF IInv, TypeOK, Heard, Devs
<1>7. \A i \in 1..Len(mail) : mail[i].dev # d
  <2>1. \A i \in 1..Len(mail) : mail[i].dev \in Nat
    BY MailDev DEF IInv, TypeOK
  <2>. QED BY <1>2, <2>1 DEF IInv, Heard
<1>8. Len(mail) \in Nat
  BY DEF IInv, TypeOK
<1>9. OneOpening'
  BY <1>1, <1>3, <1>6, <1>7, <1>8 DEF OneOpening, Opening
<1>10. ClosedFirst'
  <2> SUFFICES ASSUME NEW e \in Devs, <<app.cam, e>> \in app.conns
               PROVE  /\ e # d
                      /\ \E i \in 1..Len(mail) : mail'[i] = Detach(e)
    BY <1>1, <1>3, <1>6, <1>7, <1>8, SMTT(20) DEF ClosedFirst, Opening, NoReceiver
  <2>1. e <= plugs
    BY DEF IInv, Heard
  <2>2. e # d /\ e # plug
    BY <1>1, <1>2, <2>1 DEF Devs
  <2>3. PICK i \in 1..Len(mail) : mail[i] = Detach(e)
    BY <2>2 DEF IInv, ClosedFirst
  <2>. QED BY <1>3, <2>2, <2>3
<1>11. Heard'
  <2>1. \A x \in asked' : x <= plugs'
    BY <1>1, <1>2 DEF IInv, TypeOK, Heard, Devs
  <2>2. \A i \in 1..Len(mail') : mail'[i].dev <= plugs'
    <3>1. \A i \in 1..Len(mail) : mail[i].dev \in Nat /\ mail[i].dev <= plugs
      BY MailDev DEF IInv, TypeOK, Heard
    <3>2. CASE app.receiver
      <4>1. \A i \in 1..Len(mail') : i \in 1..Len(mail) \/ i = Len(mail) + 1
        BY <1>3, <1>8, <3>2
      <4>2. \A i \in 1..Len(mail) : mail'[i].dev <= plugs'
        BY <1>1, <1>2, <1>3, <3>1
      <4>3. \A i : i = Len(mail) + 1 => mail'[i].dev <= plugs'
        <5>1. mail'[Len(mail) + 1].dev = d
          BY <1>3, <3>2
        <5>. QED BY <1>1, <1>2, <5>1
      <4>. QED BY <4>1, <4>2, <4>3
    <3>3. CASE ~app.receiver
      BY <1>1, <1>2, <1>3, <3>1, <3>3
    <3>. QED BY <3>2, <3>3
  <2>3. \A c \in app.conns : c[2] <= plugs'
    <3>1. \A c \in app.conns : c[2] \in Nat /\ c[2] <= plugs
      BY DEF IInv, TypeOK, AppState, Devs, Heard
    <3>. QED BY <1>1, <1>2, <3>1
  <2>. QED BY <1>1, <1>3, <2>1, <2>2, <2>3 DEF IInv, Heard
<1>. QED BY <1>4, <1>5, <1>9, <1>10, <1>11 DEF IInv

LEMMA UnplugInv == ASSUME IInv, Unplug PROVE IInv'
<1>1. /\ plug # 0 /\ plug' = 0 /\ allowed' = allowed \ {plug}
      /\ UNCHANGED <<plugs, asked, failed, app>>
      /\ Send("detached", plug)
  BY DEF Unplug
<1>2. plug \in Devs /\ Len(mail) \in Nat /\ plug <= plugs
  BY <1>1 DEF IInv, TypeOK
<1>3. /\ mail' \in Seq(Broadcast)
      /\ ~app.receiver => mail' = mail
      /\ app.receiver => /\ Len(mail') = Len(mail) + 1
                         /\ mail'[Len(mail) + 1] = [what |-> "detached", dev |-> plug]
      /\ \A i \in 1..Len(mail) : mail'[i] = mail[i]
  BY <1>1, <1>2, Sent DEF IInv, TypeOK
<1>4. TypeOK'
  BY <1>1, <1>3 DEF IInv, TypeOK
<1>5. Held(app')
  BY <1>1 DEF IInv
<1>6. \A i \in 1..Len(mail') : ~Opening(mail[i])'
  <2>1. \A i \in 1..Len(mail') : mail'[i].dev \in Devs
    BY <1>3, MailDev
  <2>. QED BY <1>1, <2>1 DEF Opening, Devs
<1>7. OneOpening'
  BY <1>6 DEF OneOpening
<1>8. ClosedFirst'
  <2> SUFFICES ASSUME NEW e \in Devs, <<app.cam, e>> \in app.conns
               PROVE  \E i \in 1..Len(mail') : mail'[i] = Detach(e)
    BY <1>1, <1>6 DEF ClosedFirst, Devs
  <2>1. app.receiver
    BY NoReceiver
  <2>2. CASE e = plug
    BY <1>2, <1>3, <2>1, <2>2 DEF Detach
  <2>3. CASE e # plug
    <3>1. PICK i \in 1..Len(mail) : mail[i] = Detach(e)
      BY <2>3 DEF IInv, ClosedFirst
    <3>2. i \in 1..Len(mail') /\ mail'[i] = mail[i]
      BY <1>3, <2>1, <3>1
    <3>. QED BY <3>1, <3>2
  <2>. QED BY <2>2, <2>3
<1>9. Heard'
  BY <1>1, <1>2, <1>3 DEF IInv, Heard
<1>. QED BY <1>4, <1>5, <1>7, <1>8, <1>9 DEF IInv

LEMMA AnswerInv == ASSUME IInv, Answer PROVE IInv'
<1>1. PICK d \in asked, yes \in BOOLEAN :
         /\ asked' = asked \ {d}
         /\ allowed' = IF yes /\ plug = d THEN allowed \cup {d} ELSE allowed
         /\ failed' = IF yes THEN failed ELSE failed \cup {d}
         /\ Send(IF yes THEN "granted" ELSE "denied", d)
  BY DEF Answer
<1> DEFINE what == IF yes THEN "granted" ELSE "denied"
<1>2. UNCHANGED <<plug, plugs, app>>
  BY DEF Answer, bus
<1>3. d \in Devs /\ Len(mail) \in Nat /\ d <= plugs
  BY <1>1 DEF IInv, TypeOK, Heard
<1>4. /\ mail' \in Seq(Broadcast)
      /\ ~app.receiver => mail' = mail
      /\ app.receiver => /\ Len(mail') = Len(mail) + 1
                         /\ mail'[Len(mail) + 1] = [what |-> what, dev |-> d]
      /\ \A i \in 1..Len(mail) : mail'[i] = mail[i]
  <2>1. what \in {"attached", "detached", "granted", "denied"}
    OBVIOUS
  <2>2. Send(what, d)
    BY <1>1
  <2> HIDE DEF what
  <2>. QED BY <1>3, <2>1, <2>2, Sent DEF IInv, TypeOK
<1>5. TypeOK'
  BY <1>1, <1>2, <1>3, <1>4 DEF IInv, TypeOK
<1>6. Held(app')
  BY <1>2 DEF IInv
<1> HIDE DEF what
<1>7. d = plug => \A i \in 1..Len(mail) : ~Opening(mail[i])
  BY <1>1 DEF IInv, OneOpening
<1>8. \A i \in 1..Len(mail) : Opening(mail[i])' <=> Opening(mail[i])
  BY <1>2, <1>4 DEF Opening
<1>9. \A i : app.receiver /\ i = Len(mail) + 1 => (Opening(mail[i])' => d = plug)
  BY <1>2, <1>4 DEF Opening
<1>10. OneOpening'
  <2>1. CASE d = plug
    <3>1. plug' \notin asked'
      BY <1>1, <1>2, <2>1
    <3>2. \A i \in 1..Len(mail) : ~Opening(mail[i])'
      BY <1>7, <1>8, <2>1
    <3>3. \A i \in 1..Len(mail') : Opening(mail[i])' => i = Len(mail) + 1
      BY <1>3, <1>4, <3>2
    <3>. QED BY <3>1, <3>3 DEF OneOpening
  <2>2. CASE d # plug
    <3>1. \A i \in 1..Len(mail') : Opening(mail[i])' =>
             i \in 1..Len(mail) /\ Opening(mail[i])
      BY <1>3, <1>4, <1>8, <1>9, <2>2
    <3>. QED BY <1>1, <1>2, <3>1 DEF IInv, OneOpening
  <2>. QED BY <2>1, <2>2
<1>11. ClosedFirst'
  <2> SUFFICES ASSUME NEW e \in Devs, <<app.cam, e>> \in app.conns
               PROVE  /\ e = plug => plug \notin asked'
                      /\ e # plug => \E i \in 1..Len(mail') : mail'[i] = Detach(e)
                      /\ \A i \in 1..Len(mail') : Opening(mail[i])' =>
                            \E j \in 1..i - 1 : mail'[j] = Detach(e)
    BY <1>2 DEF ClosedFirst
  <2>1. app.receiver
    BY NoReceiver
  <2>2. /\ e = plug => plug \notin asked
        /\ e # plug => \E i \in 1..Len(mail) : mail[i] = Detach(e)
        /\ \A i \in 1..Len(mail) : Opening(mail[i]) =>
              \E j \in 1..i - 1 : mail[j] = Detach(e)
    BY DEF IInv, ClosedFirst
  <2>3. e # plug => \E i \in 1..Len(mail) : mail'[i] = Detach(e)
    BY <1>4, <2>2
  <2>4. ASSUME NEW i \in 1..Len(mail'), Opening(mail[i])'
        PROVE  \E j \in 1..i - 1 : mail'[j] = Detach(e)
    <3>1. CASE i \in 1..Len(mail)
      <4>1. PICK j \in 1..i - 1 : mail[j] = Detach(e)
        BY <1>8, <2>2, <2>4, <3>1
      <4>. QED BY <1>3, <1>4, <3>1, <4>1
    <3>2. CASE i = Len(mail) + 1
      <4>1. d = plug /\ plug \in asked
        BY <1>1, <1>9, <2>1, <2>4, <3>2
      <4>. QED BY <1>3, <2>2, <2>3, <3>2, <4>1
    <3>. QED BY <1>3, <1>4, <2>1, <3>1, <3>2
  <2>. QED BY <1>1, <1>3, <1>4, <2>1, <2>2, <2>3, <2>4
<1>12. Heard'
  BY <1>1, <1>2, <1>3, <1>4 DEF IInv, Heard
<1>. QED BY <1>5, <1>6, <1>10, <1>11, <1>12 DEF IInv

(* One message: it closes what is open, leaves it alone and may ask the    *)
(* user, or opens the camera that is plugged in.                           *)
LEMMA DeliveredInv ==
  ASSUME IInv, mail # <<>>, mail' = Tail(mail),
         UNCHANGED <<plug, plugs, allowed>>, failed' \subseteq Devs,
         app' \in AppState, Held(app'), Same(app, app'),
         \/ Closed(app') /\ asked' = asked
         \/ /\ mail[1].what # "detached"
            /\ app'.cam = app.cam /\ app'.conns = app.conns
            /\ \/ asked' = asked
               \/ mail[1].what = "attached" /\ asked' = asked \cup {mail[1].dev}
         \/ Opening(mail[1]) /\ asked' = asked /\ app'.conns = {<<app'.cam, plug>>}
  PROVE  IInv'
<1>1. /\ mail' \in Seq(Broadcast) /\ Len(mail) \in Nat /\ 1 \in 1..Len(mail)
      /\ Len(mail') = Len(mail) - 1
      /\ \A i \in 1..Len(mail') : mail'[i] = mail[i + 1] /\ i + 1 \in 1..Len(mail)
  BY DEF IInv, TypeOK
<1>2. mail[1].dev \in Devs /\ mail[1].dev <= plugs
  BY <1>1, MailDev DEF IInv, TypeOK, Heard
<1>3. app.receiver /\ app'.receiver /\ app'.on
  BY DEF IInv, Heard, Same
<1>4. TypeOK'
  BY <1>1, <1>2 DEF IInv, TypeOK
<1>5. \A i \in 1..Len(mail') : Opening(mail[i])' <=> Opening(mail[i + 1])
  BY <1>1 DEF Opening
<1>6. Opening(mail[1]) =>
         /\ plug \notin asked
         /\ \A i \in 1..Len(mail') : ~Opening(mail[i])'
  <2> SUFFICES ASSUME Opening(mail[1])
               PROVE  /\ plug \notin asked
                      /\ \A i \in 1..Len(mail') : ~Opening(mail[i + 1])
    BY <1>5
  <2>1. plug \notin asked
    BY <1>1 DEF IInv, OneOpening
  <2>2. ASSUME NEW i \in 1..Len(mail'), Opening(mail[i + 1]) PROVE FALSE
    <3>1. i + 1 \in 1..Len(mail) /\ i + 1 # 1
      BY <1>1
    <3>. QED BY <1>1, <2>2, <3>1 DEF IInv, OneOpening
  <2>. QED BY <2>1, <2>2
<1>7. Opening(mail[1]) => app.conns = {}
  <2> SUFFICES ASSUME Opening(mail[1]), app.conns # {} PROVE FALSE
    OBVIOUS
  <2>1. PICK d \in Devs : <<app.cam, d>> \in app.conns
    BY DEF IInv, Held
  <2>2. \E j \in 1..1 - 1 : mail[j] = Detach(d)
    BY <1>1, <2>1 DEF IInv, ClosedFirst
  <2>. QED BY <2>2
<1>8. asked' = asked \/ (asked' = asked \cup {mail[1].dev}
                          /\ mail[1].what = "attached")
  OBVIOUS
<1>9. plug' \in asked' => \A i \in 1..Len(mail') : ~Opening(mail[i])'
  <2>1. CASE plug \in asked
    BY <1>1, <1>5, <2>1 DEF IInv, OneOpening
  <2>2. CASE plug \notin asked /\ plug' \in asked'
    <3>1. Opening(mail[1])
      BY <1>8, <2>2 DEF Opening
    <3>. QED BY <1>6, <3>1
  <2>. QED BY <2>1, <2>2
<1>10. OneOpening'
  <2>1. ASSUME NEW i \in 1..Len(mail'), NEW j \in 1..Len(mail'),
               Opening(mail[i])', Opening(mail[j])'
        PROVE  i = j
    <3>1. Opening(mail[i + 1]) /\ Opening(mail[j + 1])
      BY <1>5, <2>1
    <3>2. i + 1 = j + 1
      BY <1>1, <3>1 DEF IInv, OneOpening
    <3>. QED BY <1>1, <3>2
  <2>. QED BY <1>9, <2>1 DEF OneOpening
<1>11. CASE Closed(app') /\ asked' = asked
  <2>1. ClosedFirst'
    BY <1>11 DEF Closed, ClosedFirst
  <2>2. Heard'
    BY <1>1, <1>3, <1>11 DEF Closed, IInv, Heard
  <2>. QED BY <1>4, <1>10, <2>1, <2>2 DEF IInv
<1>12. CASE /\ mail[1].what # "detached"
            /\ app'.cam = app.cam /\ app'.conns = app.conns
  <2>1. ClosedFirst'
    <3> SUFFICES ASSUME NEW e \in Devs, <<app.cam, e>> \in app.conns
                 PROVE  /\ e = plug => plug \notin asked'
                        /\ e # plug => \E i \in 1..Len(mail') : mail'[i] = Detach(e)
                        /\ \A i \in 1..Len(mail') : Opening(mail[i])' =>
                              \E j \in 1..i - 1 : mail'[j] = Detach(e)
      BY <1>12 DEF ClosedFirst
    <3>1. /\ e = plug => plug \notin asked
          /\ e # plug => \E i \in 1..Len(mail) : mail[i] = Detach(e)
          /\ \A i \in 1..Len(mail) : Opening(mail[i]) =>
                \E j \in 1..i - 1 : mail[j] = Detach(e)
      BY DEF IInv, ClosedFirst
    <3>2. ~Opening(mail[1])
      BY <1>7
    <3>3. mail[1] # Detach(e)
      BY <1>12 DEF Detach
    <3>4. e = plug => plug \notin asked'
      BY <1>8, <3>1, <3>2 DEF Opening
    <3>5. \A i \in 1..Len(mail) : mail[i] = Detach(e) =>
             i - 1 \in 1..Len(mail') /\ mail'[i - 1] = Detach(e)
      <4> SUFFICES ASSUME NEW i \in 1..Len(mail), mail[i] = Detach(e)
                   PROVE  i - 1 \in 1..Len(mail') /\ mail'[i - 1] = Detach(e)
        OBVIOUS
      <4>1. i # 1
        BY <3>3
      <4>2. i - 1 \in 1..Len(mail') /\ (i - 1) + 1 = i
        BY <1>1, <4>1
      <4>. QED BY <1>1, <4>2
    <3>6. e # plug => \E i \in 1..Len(mail') : mail'[i] = Detach(e)
      BY <3>1, <3>5
    <3>7. ASSUME NEW i \in 1..Len(mail'), Opening(mail[i])'
          PROVE  \E j \in 1..i - 1 : mail'[j] = Detach(e)
      <4>1. i + 1 \in 1..Len(mail) /\ Opening(mail[i + 1])
        BY <1>1, <1>5, <3>7
      <4>2. PICK j \in 1..(i + 1) - 1 : mail[j] = Detach(e)
        BY <3>1, <4>1
      <4>3. j \in 1..Len(mail) /\ j - 1 \in 1..Len(mail') /\ mail'[j - 1] = Detach(e)
        BY <1>1, <3>5, <4>1, <4>2
      <4>4. j - 1 \in 1..i - 1
        BY <1>1, <4>2, <4>3
      <4>. QED BY <4>3, <4>4
    <3>. QED BY <3>4, <3>6, <3>7
  <2>2. Heard'
    BY <1>1, <1>2, <1>3, <1>8, <1>12 DEF IInv, Heard
  <2>. QED BY <1>4, <1>10, <2>1, <2>2 DEF IInv
<1>13. CASE /\ Opening(mail[1]) /\ asked' = asked
            /\ app'.conns = {<<app'.cam, plug>>}
  <2>1. ClosedFirst'
    BY <1>6, <1>13 DEF ClosedFirst
  <2>2. plug <= plugs
    BY DEF IInv, TypeOK
  <2>3. Heard'
    BY <1>1, <1>3, <1>13, <2>2 DEF IInv, Heard
  <2>. QED BY <1>4, <1>10, <2>1, <2>3 DEF IInv
<1>. QED BY <1>11, <1>12, <1>13

LEMMA ReceiveInv == ASSUME IInv, Receive PROVE IInv'
<1> DEFINE m == Head(mail)
<1>1. /\ mail # <<>> /\ app.next <= MaxConn /\ mail' = Tail(mail)
      /\ UNCHANGED <<plug, plugs, allowed>>
      /\ \/ m.what = "attached" /\ Attached(m.dev)
         \/ m.what = "granted"  /\ Granted(m.dev)
         \/ m.what = "denied"   /\ Denied(m.dev)
         \/ m.what = "detached" /\ Detached(m.dev)
  BY DEF Receive, bus
<1>2. m = mail[1] /\ 1 \in 1..Len(mail) /\ m.dev \in Devs
  <2>1. m = mail[1] /\ 1 \in 1..Len(mail)
    BY <1>1 DEF IInv, TypeOK
  <2>. QED BY <2>1, MailDev DEF IInv, TypeOK
<1>3. app \in AppState /\ Held(app)
  BY DEF IInv, TypeOK
<1> HIDE DEF m
<1>4. ASSUME NEW a, a.what = "attached" \/ a.what = "granted", a = m,
             app' \in ConnectDevice(app, a.dev), asked' = asked,
             failed' \subseteq Devs
      PROVE  IInv'
  <2>1. plug = m.dev => Opening(mail[1])
    BY <1>2, <1>4 DEF Opening
  <2>2. Opening(mail[1]) => app.cam = 0
    <3> SUFFICES ASSUME Opening(mail[1]), app.cam # 0 PROVE FALSE
      OBVIOUS
    <3>1. PICK d \in Devs : <<app.cam, d>> \in app.conns
      BY <1>3 DEF Held
    <3>2. \E j \in 1..1 - 1 : mail[j] = Detach(d)
      BY <1>2, <3>1 DEF IInv, ClosedFirst
    <3>. QED BY <3>2
  <2>3. /\ app' \in AppState /\ Held(app') /\ Same(app, app')
        /\ \/ app'.cam = app.cam /\ app'.conns = app.conns
           \/ plug = m.dev /\ app'.conns = {<<app'.cam, m.dev>>}
    BY <1>1, <1>2, <1>3, <1>4, <2>1, <2>2, ConnectHeld
  <2>. QED BY <1>1, <1>2, <1>4, <2>1, <2>3, DeliveredInv
<1>5. CASE m.what = "attached" /\ Attached(m.dev)
  <2>1. PICK r \in RequestPermission(app, m.dev) :
           app' = r[1] /\ Ask(m.dev, r[2]) /\ Fail(m.dev)
    BY <1>5 DEF Attached
  <2>2. failed' \subseteq Devs
    BY <1>2, <2>1 DEF Fail, IInv, TypeOK
  <2>3. CASE m.dev \in allowed
    <3>1. PICK b \in ConnectDevice(app, m.dev) : r = <<b, FALSE>>
      BY <2>1, <2>3 DEF RequestPermission
    <3>2. app' = b /\ asked' = asked
      BY <2>1, <3>1 DEF Ask
    <3>. QED BY <1>4, <1>5, <2>2, <3>1, <3>2
  <2>4. CASE m.dev \notin allowed
    <3>1. r = <<app, TRUE>>
      BY <2>1, <2>4 DEF RequestPermission
    <3>2. app' = app /\ asked' = asked \cup {m.dev}
      BY <2>1, <3>1 DEF Ask
    <3>3. Same(app, app')
      BY <3>2 DEF Same
    <3>. QED BY <1>1, <1>2, <1>3, <1>5, <2>2, <3>2, <3>3, DeliveredInv
  <2>. QED BY <2>3, <2>4
<1>6. CASE m.what = "granted" /\ Granted(m.dev)
  <2>1. failed' \subseteq Devs
    BY <1>2, <1>6 DEF Granted, Fail, IInv, TypeOK
  <2>. QED BY <1>4, <1>6, <2>1 DEF Granted
<1>7. CASE m.what = "denied" /\ Denied(m.dev)
  <2>1. UNCHANGED <<app, asked, failed>>
    BY <1>7 DEF Denied
  <2>2. Same(app, app') /\ failed' \subseteq Devs
    BY <2>1 DEF Same, IInv, TypeOK
  <2>. QED BY <1>1, <1>2, <1>3, <1>7, <2>1, <2>2, DeliveredInv
<1>8. CASE m.what = "detached" /\ Detached(m.dev)
  <2>1. app' = CloseCamera(app) /\ UNCHANGED <<asked, failed>>
    BY <1>8 DEF Detached
  <2>2. app' \in AppState /\ Same(app, app') /\ Closed(app')
    BY <1>3, <2>1, CloseCameraCloses
  <2>3. failed' \subseteq Devs
    BY <2>1 DEF IInv, TypeOK
  <2>. QED BY <1>1, <2>1, <2>2, <2>3, ClosedHeld, DeliveredInv
<1>. QED BY <1>1, <1>5, <1>6, <1>7, <1>8

LEMMA IInvStep == ASSUME Restart = FALSE, IInv, [Next]_vars PROVE IInv'
<1>1. CASE UNCHANGED vars
  <2>1. UNCHANGED <<plug, plugs, allowed, asked, failed, mail, app>>
    BY <1>1 DEF vars, bus, user
  <2>. QED
    BY <2>1
    DEF IInv, TypeOK, Held, OneOpening, ClosedFirst, Heard, Opening
<1>. QED
  BY <1>1, OpenInv, StartPreviewInv, ReleaseInv, ReceiveInv, PlugInv,
     UnplugInv, AnswerInv
  DEF Next

LEMMA IInvInvariant == ASSUME Restart = FALSE PROVE Spec => []IInv
<1>1. IInv /\ [Next]_vars => IInv'
  BY IInvStep
<1>. QED BY IInvInit, <1>1, PTL DEF Spec

-----------------------------------------------------------------------------
(* However often the preview is started                                    *)

(* The connection of mUsbController is that of mUVCCamera, or none; open   *)
(* cameras have theirs, those included that no field reaches any more.     *)
Paired(a) ==
    /\ a \in AppState
    /\ a.ctl \in {0, a.cam}
    /\ \A id \in a.opened : \E d \in Devs : <<id, d>> \in a.conns

LEMMA CloseCameraPaired ==
  ASSUME NEW a, Paired(a)
  PROVE  LET b == CloseCamera(a) IN Paired(b) /\ b.ctl = 0 /\ b.next = a.next
<1> DEFINE b == DestroyCamera(a)
           K == {c \in a.conns : c[1] # a.cam}
           L == {c \in K : c[1] # a.ctl}
<1>1. /\ b \in AppState /\ b.conns = K /\ b.cam = 0 /\ b.ctl = a.ctl
      /\ b.opened = a.opened \ {a.cam} /\ b.next = a.next
  BY DEF Paired, DestroyCamera, Without, AppState
<1>2. CloseCamera(a) = [Without(b, b.ctl) EXCEPT !.ctl = 0]
  BY DEF CloseCamera, CloseDevice
<1> HIDE DEF b
<1>3. LET c == CloseCamera(a) IN
      /\ c \in AppState /\ c.conns = L /\ c.ctl = 0
      /\ c.opened = a.opened \ {a.cam} /\ c.next = a.next
  <2>1. CloseCamera(a) = [b EXCEPT !.conns = L, !.ctl = 0]
    BY <1>1, <1>2 DEF Without, AppState
  <2>2. L \in SUBSET (Ids \X Devs)
    BY <1>1 DEF AppState
  <2> HIDE DEF L
  <2>. QED BY <1>1, <2>1, <2>2 DEF AppState
<1>4. ASSUME NEW id \in a.opened \ {a.cam}
      PROVE  \E d \in Devs : <<id, d>> \in L
  <2>1. PICK d \in Devs : <<id, d>> \in a.conns
    BY <1>4 DEF Paired
  <2>2. id # 0
    BY <1>4 DEF Paired, AppState, Ids
  <2>3. <<id, d>>[1] # a.cam /\ <<id, d>>[1] # a.ctl
    BY <1>4, <2>2 DEF Paired
  <2>. QED BY <2>1, <2>3
<1>. QED BY <1>3, <1>4 DEF Paired

LEMMA ConnectPaired ==
  ASSUME NEW a, Paired(a), NEW d \in Devs, a.next <= MaxConn,
         NEW b \in ConnectDevice(a, d)
  PROVE  Paired(b)
<1>1. CASE b = [a EXCEPT !.ctl = 0]
  BY <1>1 DEF Paired, AppState
<1>2. CASE b # [a EXCEPT !.ctl = 0]
  <2> DEFINE k == a.conns \cup {<<a.next, d>>}
             c == [a EXCEPT !.ctl = a.next, !.next = a.next + 1, !.conns = k]
             e == [c EXCEPT !.cam = a.next, !.alive = c.alive \cup {a.next}]
  <2>1. b \in {[e EXCEPT !.opened = e.opened \cup {a.next}]}
              \cup (IF Faults THEN {e} ELSE {})
    BY <1>2 DEF ConnectDevice, OpenCamera
  <2>2. a.next \in Ids /\ a.next + 1 \in 1..MaxConn + 1
    BY BoundsAssumption DEF Paired, AppState, Ids
  <2>3. k \in SUBSET (Ids \X Devs)
    BY <2>2 DEF Paired, AppState
  <2>4. /\ c \in AppState /\ c.ctl = a.next /\ c.conns = k
        /\ c.opened = a.opened
    <3> HIDE DEF k
    <3>. QED BY <2>2, <2>3 DEF Paired, AppState
  <2>5. /\ e \in AppState /\ e.ctl = a.next /\ e.cam = a.next
        /\ e.conns = k /\ e.opened = a.opened
    <3> HIDE DEF c, k
    <3>. QED BY <2>2, <2>4 DEF AppState
  <2>6. /\ b \in AppState /\ b.ctl = a.next /\ b.cam = a.next
        /\ b.conns = k /\ b.opened \subseteq a.opened \cup {a.next}
    <3> HIDE DEF e, k
    <3>1. CASE b = e
      BY <2>5, <3>1
    <3>2. CASE b = [e EXCEPT !.opened = e.opened \cup {a.next}]
      BY <2>2, <2>5, <3>2 DEF AppState
    <3>. QED BY <2>1, <3>1, <3>2
  <2>7. \A id \in a.opened \cup {a.next} : \E x \in Devs : <<id, x>> \in k
    BY DEF Paired
  <2>. QED BY <2>6, <2>7 DEF Paired
<1>. QED BY <1>1, <1>2

(* checkDevice and onAttached: close, connect or ask.                      *)
LEMMA RequestPaired ==
  ASSUME NEW a, Paired(a), NEW d \in Devs, a.next <= MaxConn,
         NEW r \in RequestPermission(a, d)
  PROVE  Paired(r[1])
<1>1. CASE d \in allowed
  <2>1. PICK b \in ConnectDevice(a, d) : r = <<b, FALSE>>
    BY <1>1 DEF RequestPermission
  <2>. QED BY <2>1, ConnectPaired
<1>2. CASE d \notin allowed
  BY <1>2 DEF RequestPermission
<1>. QED BY <1>1, <1>2

GInv == TypeOK /\ Paired(app)

LEMMA PairedStep == ASSUME GInv, [Next]_vars PROVE Paired(app')
<1>1. CASE UNCHANGED app
  BY <1>1 DEF GInv
<1>2. CASE Open
  BY <1>2 DEF Open, GInv, Paired, AppState
<1>3. CASE StartPreview
  <2>1. PICK r \in CheckDevice(app) : app' = [r[1] EXCEPT !.receiver = TRUE]
    BY <1>3 DEF StartPreview
  <2>2. app.next <= MaxConn
    BY <1>3 DEF StartPreview
  <2>3. Paired(r[1])
    <3>1. CASE plug # 0
      <4>1. plug \in Devs
        BY <3>1 DEF GInv, TypeOK
      <4>2. r \in RequestPermission(app, plug)
        BY <2>1, <3>1 DEF CheckDevice
      <4>. QED BY <2>2, <4>1, <4>2, RequestPaired DEF GInv
    <3>2. CASE plug = 0
      <4> DEFINE b == CloseCamera(app)
      <4>1. Paired(b) /\ Paired(app)
        BY CloseCameraPaired DEF GInv
      <4>2. r = <<b, FALSE>> \/ r = <<app, FALSE>>
        BY <2>1, <3>2 DEF CheckDevice
      <4> HIDE DEF b
      <4>3. CASE r = <<b, FALSE>>
        BY <4>1, <4>3
      <4>4. CASE r = <<app, FALSE>>
        BY <4>1, <4>4
      <4>. QED BY <4>2, <4>3, <4>4
    <3>. QED BY <3>1, <3>2
  <2>. QED BY <2>1, <2>3 DEF Paired, AppState
<1>4. CASE Release
  <2> DEFINE b == CloseCamera(app)
  <2>1. Paired(b) /\ b.ctl = 0
    BY CloseCameraPaired DEF GInv
  <2>2. app' = [[Without(b, b.ctl) EXCEPT !.ctl = 0]
                   EXCEPT !.on = FALSE, !.receiver = FALSE]
    BY <1>4 DEF Release, CloseDevice
  <2> HIDE DEF b
  <2>3. {c \in b.conns : c[1] # b.ctl} = b.conns
    BY <2>1 DEF Paired, AppState, Ids
  <2>. QED BY <2>1, <2>2, <2>3 DEF Without, Paired, AppState
<1>5. CASE Receive
  <2>1. /\ mail # <<>> /\ app.next <= MaxConn
        /\ \/ Attached(Head(mail).dev) \/ Granted(Head(mail).dev)
           \/ Denied(Head(mail).dev) \/ Detached(Head(mail).dev)
    BY <1>5 DEF Receive
  <2>2. Head(mail).dev \in Devs
    <3>1. Head(mail) = mail[1] /\ 1 \in 1..Len(mail)
      BY <2>1 DEF GInv, TypeOK
    <3>. QED BY <3>1, MailDev DEF GInv, TypeOK
  <2>3. CASE Attached(Head(mail).dev)
    <3>1. PICK r \in RequestPermission(app, Head(mail).dev) : app' = r[1]
      BY <2>3 DEF Attached
    <3>. QED BY <2>1, <2>2, <3>1, RequestPaired DEF GInv
  <2>4. CASE Granted(Head(mail).dev)
    BY <2>1, <2>2, <2>4, ConnectPaired DEF Granted, GInv
  <2>5. CASE Denied(Head(mail).dev)
    BY <2>5 DEF Denied, GInv
  <2>6. CASE Detached(Head(mail).dev)
    BY <2>6, CloseCameraPaired DEF Detached, GInv
  <2>. QED BY <2>1, <2>3, <2>4, <2>5, <2>6
<1>. QED
  BY <1>1, <1>2, <1>3, <1>4, <1>5 DEF Next, Plug, Unplug, Answer, vars

LEMMA TypeStep == ASSUME GInv, [Next]_vars PROVE TypeOK'
<1>. USE DEF bus, user
<1>1. app' \in AppState
  BY PairedStep DEF Paired
<1>2. failed' \subseteq Devs
  BY DEF GInv, TypeOK, Next, Open, StartPreview, Release, Receive, Attached,
         Granted, Denied, Detached, Fail, Plug, Unplug, Answer, vars
<1>3. CASE Open \/ UNCHANGED vars
  BY <1>1, <1>2, <1>3 DEF Open, GInv, TypeOK, vars
<1>4. CASE StartPreview
  <2>1. asked' \subseteq Devs
    <3>1. PICK r \in CheckDevice(app) : Ask(plug, r[2])
      BY <1>4 DEF StartPreview
    <3>2. ASSUME plug = 0 PROVE r[2] = FALSE
      <4> DEFINE b == CloseCamera(app)
      <4>1. r = <<b, FALSE>> \/ r = <<app, FALSE>>
        BY <3>1, <3>2 DEF CheckDevice
      <4> HIDE DEF b
      <4>2. CASE r = <<b, FALSE>>
        BY <4>2
      <4>3. CASE r = <<app, FALSE>>
        BY <4>3
      <4>. QED BY <4>1, <4>2, <4>3
    <3>. QED BY <3>1, <3>2 DEF Ask, GInv, TypeOK
  <2>. QED BY <1>1, <1>2, <1>4, <2>1 DEF StartPreview, GInv, TypeOK
<1>5. CASE Release
  BY <1>1, <1>2, <1>5 DEF Release, GInv, TypeOK
<1>6. CASE Receive
  <2>1. mail # <<>> /\ mail' = Tail(mail) /\ UNCHANGED <<plug, plugs, allowed>>
    BY <1>6 DEF Receive
  <2>2. mail' \in Seq(Broadcast) /\ Head(mail).dev \in Devs
    <3>1. Head(mail) = mail[1] /\ 1 \in 1..Len(mail) /\ mail' \in Seq(Broadcast)
      BY <2>1 DEF GInv, TypeOK
    <3>. QED BY <3>1, MailDev DEF GInv, TypeOK
  <2>3. asked' \subseteq asked \cup {Head(mail).dev}
    BY <1>6 DEF Receive, Attached, Granted, Denied, Detached, Ask
  <2>. QED BY <1>1, <1>2, <2>1, <2>2, <2>3 DEF GInv, TypeOK
<1>7. CASE Plug
  <2>1. /\ plugs + 1 \in Devs /\ plug' = plugs + 1 /\ plugs' = plugs + 1
        /\ allowed' \subseteq allowed \cup {plugs + 1} /\ asked' = asked
        /\ Send("attached", plugs + 1)
    BY <1>7, BoundsAssumption DEF Plug, GInv, TypeOK, Devs
  <2>2. mail' \in Seq(Broadcast)
    BY <2>1, Sent DEF GInv, TypeOK
  <2>3. plugs' \in 0..MaxPlug /\ plug' \in Devs /\ plug' <= plugs'
    BY <2>1, BoundsAssumption DEF Devs
  <2>. QED BY <1>1, <1>2, <2>1, <2>2, <2>3 DEF GInv, TypeOK
<1>8. CASE Unplug
  <2>1. mail' \in Seq(Broadcast)
    BY <1>8, Sent DEF Unplug, GInv, TypeOK
  <2>. QED BY <1>1, <1>2, <1>8, <2>1, BoundsAssumption DEF Unplug, GInv, TypeOK
<1>9. CASE Answer
  <2>1. PICK d \in asked, yes \in BOOLEAN :
           /\ asked' = asked \ {d} /\ allowed' \subseteq allowed \cup {d}
           /\ Send(IF yes THEN "granted" ELSE "denied", d)
    BY <1>9 DEF Answer
  <2>2. d \in Devs
    BY DEF GInv, TypeOK
  <2>3. mail' \in Seq(Broadcast)
    BY <2>1, <2>2, Sent DEF GInv, TypeOK
  <2>. QED BY <1>1, <1>2, <1>9, <2>1, <2>2, <2>3 DEF Answer, GInv, TypeOK
<1>. QED
  BY <1>3, <1>4, <1>5, <1>6, <1>7, <1>8, <1>9 DEF Next

LEMMA GInvInvariant == Spec => []GInv
<1>1. Init => GInv
  BY IInvInit DEF GInv, IInv, TypeOK, Paired, Init
<1>2. GInv /\ [Next]_vars => GInv'
  BY PairedStep, TypeStep DEF GInv
<1>. QED BY <1>1, <1>2, PTL DEF Spec

(* Numbers, attachments and broadcasts keep their types, also if the       *)
(* preview is started again and again (the guard app.next <= MaxConn is    *)
(* the only bound).                                                        *)
THEOREM TypeCorrect == Spec => []TypeOK
<1>1. GInv => TypeOK
  BY DEF GInv
<1>. QED BY GInvInvariant, <1>1, PTL

(* A camera that is open has its connection, also one that a second start  *)
(* of the preview has left behind: closing the next does not close it.     *)
THEOREM OnConnection == Spec => []CameraOnConnection
<1>1. GInv => CameraOnConnection
  BY DEF GInv, Paired, CameraOnConnection
<1>. QED BY GInvInvariant, <1>1, PTL

-----------------------------------------------------------------------------
(* When the preview is not started twice                                   *)

(* However often the camera is pulled and plugged while a dialog is open:  *)
(* no connection and no native camera is overwritten in the fields through *)
(* which UVCCameraProxy.closeCamera reaches them (UsbMonitor.java:100-106, *)
(* UVCCameraProxy.java:126-158); after CameraUvc.release nothing is held   *)
(* and no broadcast can change that (CameraUvc.java:153-169).              *)
THEOREM ReachableAlways == ASSUME Restart = FALSE PROVE Spec => []Reachable
<1>1. IInv => Reachable
  BY DEF IInv, Held, Heard, Reachable
<1>. QED BY IInvInvariant, <1>1, PTL

(* When no broadcast is under way, what is open is the camera that is      *)
(* plugged in (UsbMonitor.java:197-227).                                   *)
THEOREM NoStale == ASSUME Restart = FALSE PROVE Spec => []NoStaleConnection
<1>1. IInv /\ CameraOnConnection => NoStaleConnection
  <2> SUFFICES ASSUME IInv, CameraOnConnection, mail = <<>>, NEW c \in app.conns
               PROVE  c[2] = plug
    BY DEF NoStaleConnection
  <2>1. PICK d \in Devs : app.conns = {<<app.cam, d>>}
    BY DEF IInv, Held
  <2>2. c = <<app.cam, d>>
    BY <2>1
  <2>3. d # plug => \E i \in 1..Len(mail) : mail[i] = Detach(d)
    BY <2>1 DEF IInv, ClosedFirst
  <2>. QED BY <2>2, <2>3
<1>. QED BY IInvInvariant, OnConnection, <1>1, PTL

LEMMA NotBesideAnother ==
  ASSUME Restart = FALSE, IInv, [Next]_vars
  PROVE  app.opened # app'.opened => app.opened = {} \/ app'.opened = {}
<1>1. Held(app) /\ app \in AppState /\ IInv'
  BY IInvStep DEF IInv, TypeOK
<1>2. ASSUME NEW d \in Devs, NEW b \in ConnectDevice(app, d)
      PROVE  plug = d \/ b.opened = app.opened
  BY <1>1 DEF ConnectDevice, AppState
<1>3. CASE StartPreview
  BY <1>3 DEF StartPreview, IInv, Heard, Held
<1>4. CASE Release
  <2>1. ~app'.on
    BY <1>1, <1>4 DEF Release, CloseDevice, Without, CloseCamera, DestroyCamera, AppState
  <2>. QED BY <1>1, <2>1 DEF IInv, Heard, Held
<1>5. CASE Receive
  <2> DEFINE m == Head(mail)
  <2>1. /\ m = mail[1] /\ 1 \in 1..Len(mail) /\ m.dev \in Devs
        /\ \/ m.what = "attached" /\ Attached(m.dev)
           \/ m.what = "granted"  /\ Granted(m.dev)
           \/ m.what = "denied"   /\ Denied(m.dev)
           \/ m.what = "detached" /\ Detached(m.dev)
    BY <1>5, MailDev DEF Receive, IInv, TypeOK
  <2> HIDE DEF m
  <2>2. m.what \in {"attached", "granted"} /\ plug = m.dev => app.opened = {}
    <3> SUFFICES ASSUME Opening(mail[1]), app.cam # 0 PROVE FALSE
      BY <1>1, <2>1 DEF Opening, Held
    <3>1. PICK d \in Devs : <<app.cam, d>> \in app.conns
      BY <1>1 DEF Held
    <3>2. \E j \in 1..1 - 1 : mail[j] = Detach(d)
      BY <2>1, <3>1 DEF IInv, ClosedFirst
    <3>. QED BY <3>2
  <2>3. CASE m.what = "attached" /\ Attached(m.dev)
    <3>1. PICK r \in RequestPermission(app, m.dev) : app' = r[1]
      BY <2>3 DEF Attached
    <3>2. CASE m.dev \in allowed
      <4>1. PICK b \in ConnectDevice(app, m.dev) : r = <<b, FALSE>>
        BY <3>1, <3>2 DEF RequestPermission
      <4>2. app' = b
        BY <3>1, <4>1
      <4>. QED BY <1>2, <2>1, <2>2, <2>3, <4>1, <4>2
    <3>3. CASE m.dev \notin allowed
      <4>1. app' = app
        BY <3>1, <3>3 DEF RequestPermission
      <4>. QED BY <4>1
    <3>. QED BY <3>2, <3>3
  <2>4. CASE m.what = "granted" /\ Granted(m.dev)
    BY <1>2, <2>1, <2>2, <2>4 DEF Granted
  <2>5. CASE m.what = "denied" /\ Denied(m.dev)
    BY <2>5 DEF Denied
  <2>6. CASE m.what = "detached" /\ Detached(m.dev)
    BY <1>1, <2>6, CloseCameraCloses DEF Detached, Closed
  <2>. QED BY <2>1, <2>3, <2>4, <2>5, <2>6
<1>6. Open \/ Plug \/ Unplug \/ Answer \/ UNCHANGED vars => app'.opened = app.opened
  BY <1>1 DEF Open, Plug, Unplug, Answer, vars, AppState
<1>. QED BY <1>3, <1>4, <1>5, <1>6 DEF Next

(* A second camera is never opened beside an open one: its attachment and  *)
(* the answer to its dialog reach the proxy after the first was closed     *)
(* (UsbMonitor.java:197-227).                                              *)
THEOREM OneAtATime == ASSUME Restart = FALSE PROVE Spec => OneAfterTheOther
<1>1. IInv /\ [Next]_vars
        => [app.opened # app'.opened => app.opened = {} \/ app'.opened = {}]_vars
  BY NotBesideAnother
<1>. QED BY IInvInvariant, <1>1, PTL DEF Spec, OneAfterTheOther
=============================================================================
