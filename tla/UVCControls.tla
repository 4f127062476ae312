----------------------------- MODULE UVCControls -----------------------------
(***************************************************************************)
(* One processing-unit control through its three layers: the percentage of *)
(* UVCCamera.java, the range cache control_value_t of UVCCamera.cpp and    *)
(* the GET and SET requests of libuvc's ctrl.c.  The names are those of    *)
(* brightness; sharpness, gamma and saturation are written the same way,   *)
(* with unsigned 16 bit values.                                            *)
(* The README says where contrast, gain, hue and white balance differ.     *)
(*                                                                         *)
(* The Java object is kept while cameras are opened and closed on it.  All *)
(* its control methods are synchronized, so each is one action.  A camera  *)
(* answers a request or fails it; it reports a range whose minimum is not  *)
(* above its maximum.                                                      *)
(***************************************************************************)
EXTENDS Integers

CONSTANTS
    Values,     \* what cameras report as minimum, maximum and default
    Percents    \* what the application passes to setBrightness

Int16s == {v \in Int : -32768 <= v /\ v <= 32767}

ASSUME ValuesAssumption == Values \subseteq Int16s
ASSUME PercentsAssumption == Percents \subseteq -1000..1000

VARIABLES
    camera,     \* what is connected: its range, whether its input terminal
                \* has controls, and the value it is set to
    open,       \* mDeviceHandle # NULL
    mPUSupports,
    mBrightness,    \* control_value_t: min, max, def
    supports,   \* Java's mControlSupports # 0 and mProcSupports # 0
    limits,     \* Java's mBrightnessMin, mBrightnessMax, mBrightnessDef
    asked,      \* the percentage the camera was last set to, if the range in
                \* Java and the native one were the camera's (history)
    shown       \* what getBrightness has returned since (history)

vars == <<camera, open, mPUSupports, mBrightness, supports, limits, asked, shown>>

Range  == [min : Values, max : Values, def : Values]
Ranges == {r \in Range : r.min <= r.def /\ r.def <= r.max}
Unread == [min |-> 0, max |-> 0, def |-> 0]
None   == 1000000

Init ==
    /\ camera \in [range : Ranges, terminal : BOOLEAN, cur : {0}]
    /\ open = FALSE /\ mPUSupports = FALSE
    /\ mBrightness = Unread /\ limits = Unread
    /\ supports = [control |-> FALSE, proc |-> FALSE]
    /\ asked = None /\ shown = None

-----------------------------------------------------------------------------
(* UVCCamera.cpp                                                           *)

\* Mutant: the answers are read as a uint16_t.
UpdateCtrlUnsigned(values, range) ==
    IF values.min # 0 \/ values.max # 0
    THEN {<<values, TRUE>>}
    ELSE {<<[min |-> range.min % 65536, max |-> range.max % 65536,
             def |-> range.def % 65536], TRUE>>}

\* What may become of a control_value_t, and whether the update succeeds: all
\* three requests are answered, or the first, third or second fails.  A range
\* that is not all zero counts as read, also half of one.
UpdateCtrlValues(values, range) ==
    LET min == [values EXCEPT !.min = range.min]
        max == [min EXCEPT !.max = range.max]
    IN  IF values.min # 0 \/ values.max # 0
        THEN {<<values, TRUE>>}
        ELSE {<<range, TRUE>>, <<values, FALSE>>, <<max, FALSE>>, <<min, FALSE>>}

Whole(values, range) == values.min = range.min /\ values.max = range.max

\* Not half of a range: no GET_MAX has failed after a GET_MIN that gave another
\* value than 0.
NotTorn(values, range) ==
    Whole(values, range) \/ (values.min = 0 /\ values.max = 0)

\* updateBrightnessLimit, and the first step of setBrightness and getBrightness
UpdateBrightness ==
    IF open /\ mPUSupports THEN UpdateCtrlValues(mBrightness, camera.range)
                           ELSE {<<mBrightness, FALSE>>}

\* The jint is passed on as an int16_t.
Int16(v) == ((v + 32768) % 65536) - 32768

\* Mutant: the upper bound is not tested.
ClampBelow(v, r) == IF v < r.min THEN r.min ELSE v

Clamp(v, r) == IF v < r.min THEN r.min ELSE IF v > r.max THEN r.max ELSE v

\* nativeSetBrightness for p percent; nobody learns that the SET request
\* failed.
SetNative(v, p) ==
    \E u \in UpdateBrightness, ok \in BOOLEAN :
       /\ mBrightness' = u[1]
       /\ IF u[2] /\ ok
          THEN /\ camera' = [camera EXCEPT !.cur = Clamp(Int16(v), u[1])]
               /\ asked' = IF Whole(u[1], camera.range) THEN p ELSE None
               /\ shown' = None
          ELSE UNCHANGED <<camera, asked, shown>>

-----------------------------------------------------------------------------
(* UVCCamera.java                                                          *)

Width(l) == IF l.max >= l.min THEN l.max - l.min ELSE l.min - l.max

\* (int)(n / d)
Quot(n, d) == IF n >= 0 THEN n \div d ELSE -((-n) \div d)

\* (int)(p / 100.f * range).  From 0 to 100 percent the product is exact to
\* a hundredth, so one that should be whole may end just below, unless p is a
\* multiple of 25; beyond, the rounding may go either way.
Scaled(p, width) ==
    LET x == p * width
        q == Quot(x, 100)
    IN  IF p \notin 0..100 THEN q - 1..q + 1
        ELSE IF x % 100 = 0 /\ p % 25 # 0 /\ x > 0 THEN {q - 1, q}
        ELSE {q}

\* Mutant: the minimum is not subtracted.
PercentFromZero(abs, l) ==
    IF Width(l) > 0 THEN Quot(abs * 100, Width(l)) ELSE 0

\* (int)((abs - min) * 100.f / range), where the product is exact
Percent(abs, l) ==
    IF Width(l) > 0 THEN Quot((abs - l.min) * 100, Width(l)) ELSE 0

\* UVCCamera::connect with its clearCameraParams.  The limits stay.
Open ==
    /\ ~open
    /\ open' = TRUE
    /\ \E r \in Ranges, t \in BOOLEAN :
          camera' = [range |-> r, terminal |-> t, cur |-> r.def]
    /\ mPUSupports' = FALSE /\ mBrightness' = Unread
    /\ UNCHANGED <<supports, limits, asked, shown>>

Close ==
    /\ open
    /\ open' = FALSE
    /\ mPUSupports' = FALSE /\ mBrightness' = Unread
    /\ supports' = [control |-> FALSE, proc |-> FALSE]
    /\ asked' = None /\ shown' = None
    /\ UNCHANGED <<camera, limits>>

\* Once both are supported the limits are read; a camera whose terminal has
\* no controls never gets there.  Later calls do nothing, even if that failed.
UpdateCameraParams ==
    /\ open /\ ~(supports.control /\ supports.proc)
    /\ mPUSupports' = TRUE
    /\ supports' = [control |-> camera.terminal, proc |-> TRUE]
    /\ IF camera.terminal
       THEN \E u \in UpdateCtrlValues(mBrightness, camera.range) :
               /\ mBrightness' = u[1]
               /\ limits' = IF u[2] THEN u[1] ELSE limits
       ELSE UNCHANGED <<mBrightness, limits>>
    /\ UNCHANGED <<camera, open, asked, shown>>

\* Without limits nothing is sent.
SetBrightness ==
    /\ Width(limits) > 0
    /\ \E p \in Percents : \E s \in Scaled(p, Width(limits)) :
          SetNative(s + limits.min,
                    IF Whole(limits, camera.range) THEN p ELSE None)
    /\ UNCHANGED <<open, mPUSupports, supports, limits>>

ResetBrightness ==
    /\ SetNative(limits.def, None)
    /\ UNCHANGED <<open, mPUSupports, supports, limits>>

\* nativeGetBrightness, then nativeUpdateBrightnessLimit.  What it returns
\* is remembered if the camera has answered.
GetBrightness ==
    /\ open /\ mPUSupports
    /\ \E u \in UpdateBrightness, answers \in BOOLEAN :
       \E w \in UpdateCtrlValues(u[1], camera.range) :
          /\ mBrightness' = w[1]
          /\ limits' = IF w[2] THEN w[1] ELSE limits
          /\ shown' = IF u[2] /\ answers THEN Percent(camera.cur, limits')
                                         ELSE shown
    /\ UNCHANGED <<camera, open, mPUSupports, supports, asked>>

Next == \/ Open \/ Close \/ UpdateCameraParams
        \/ SetBrightness \/ ResetBrightness \/ GetBrightness

Spec == Init /\ [][Next]_vars

-----------------------------------------------------------------------------

TypeOK ==
    /\ camera \in [range : Ranges, terminal : BOOLEAN, cur : Int16s]
    /\ open \in BOOLEAN /\ mPUSupports \in BOOLEAN
    /\ mBrightness \in [min : Values \cup {0}, max : Values \cup {0},
                        def : Values \cup {0}]
    /\ limits \in [min : Values \cup {0}, max : Values \cup {0},
                   def : Values \cup {0}]
    /\ supports \in [control : BOOLEAN, proc : BOOLEAN]
    /\ asked \in Percents \cup {None} /\ shown \in Int

-----------------------------------------------------------------------------
(* What must hold                                                          *)

(* internalSetCtrlValue clamps "when the minimum and the maximum were      *)
(* obtained": whatever the application passes, whichever camera Java's     *)
(* limits are of and whichever request fails, the camera is never set to a *)
(* value outside the range it reports, unless UVCCamera.cpp holds half of  *)
(* that range.                                                             *)
SentInRange ==
    open /\ NotTorn(mBrightness, camera.range) =>
       camera.range.min <= camera.cur /\ camera.cur <= camera.range.max

(* A percentage the camera was set to is read back, or one that is less by *)
(* no more than one step of the camera and the rounding.                   *)
ReadBack ==
    asked \in 0..100 /\ shown # None =>
       /\ 0 <= shown /\ shown <= asked
       /\ (asked - shown) * Width(camera.range) < 100 + Width(camera.range)
=============================================================================
