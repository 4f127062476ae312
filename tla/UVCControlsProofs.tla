-------------------------- MODULE UVCControlsProofs --------------------------
(* Theorems of UVCControls for all ranges a camera may report and all       *)
(* percentages an application may pass.                                     *)
EXTENDS UVCControls, TLAPS

Cache == [min : Values \cup {0}, max : Values \cup {0}, def : Values \cup {0}]

IInv == TypeOK /\ SentInRange

LEMMA Int16sInt == Int16s \subseteq Int
  BY SMT DEF Int16s

LEMMA ValuesInt == Values \subseteq Int
  BY ValuesAssumption, Int16sInt

LEMMA QuotInt == ASSUME NEW n \in Int, NEW d \in Int, d > 0
                 PROVE  Quot(n, d) \in Int
  BY DEF Quot

LEMMA NoneInt == None \in Int
  BY DEF None

(* What an update leaves is half of a range only if it was before or fails, *)
(* a whole range is not lost, and what it succeeds with is the whole range *)
(* or the half that was there.                                             *)
LEMMA UpdateCtrlValuesTrue ==
  ASSUME NEW values \in Cache, NEW range \in Ranges,
         NEW u \in UpdateCtrlValues(values, range)
  PROVE  /\ u[1] \in Cache
         /\ NotTorn(u[1], range) => NotTorn(values, range)
         /\ u[2] /\ NotTorn(u[1], range) => Whole(u[1], range)
         /\ Whole(values, range) => Whole(u[1], range)
<1>1. range \in [min : Values, max : Values, def : Values] /\ range \in Cache
  BY DEF Ranges, Range, Cache
<1>2. CASE values.min # 0 \/ values.max # 0
  <2>1. u = <<values, TRUE>>
    BY <1>2 DEF UpdateCtrlValues
  <2>2. u[1] = values
    BY <2>1
  <2>. QED BY <1>2, <2>2 DEF NotTorn
<1>3. CASE values.min = 0 /\ values.max = 0
  <2>1. PICK min, max :
          /\ min = [values EXCEPT !.min = range.min]
          /\ max = [min EXCEPT !.max = range.max]
          /\ \/ u = <<range, TRUE>> \/ u = <<values, FALSE>>
             \/ u = <<max, FALSE>>  \/ u = <<min, FALSE>>
    BY <1>3 DEF UpdateCtrlValues
  <2>2. /\ min \in Cache /\ min.min = range.min /\ min.max = 0
        /\ max \in Cache /\ max.min = range.min /\ max.max = range.max
    BY <1>1, <1>3, <2>1 DEF Cache
  <2>3. CASE u = <<range, TRUE>>
    BY <1>1, <1>3, <2>3 DEF NotTorn, Whole
  <2>4. CASE u = <<values, FALSE>>
    BY <1>3, <2>4 DEF NotTorn, Whole
  <2>5. CASE u = <<max, FALSE>>
    BY <1>3, <2>2, <2>5, SMT DEF NotTorn, Whole
  <2>6. CASE u = <<min, FALSE>>
    BY <1>3, <2>2, <2>6, SMT DEF NotTorn, Whole
  <2>. QED BY <2>1, <2>3, <2>4, <2>5, <2>6
<1>. QED BY <1>2, <1>3

LEMMA Int16Bounds == \A x \in Int16s : x \in Int /\ -32768 <= x /\ x <= 32767
  BY SMT DEF Int16s

LEMMA Int16Member == \A x \in Int : -32768 <= x /\ x <= 32767 => x \in Int16s
  BY SMT DEF Int16s

LEMMA Between == ASSUME NEW a \in Int16s, NEW b \in Int16s, NEW v \in Int,
                        a <= v, v <= b
                 PROVE  v \in Int16s
<1>1. -32768 <= a /\ b <= 32767 /\ a \in Int /\ b \in Int
  BY Int16Bounds
<1>2. -32768 <= v /\ v <= 32767
  BY <1>1, SMT
<1>. QED BY <1>2, Int16Member

LEMMA ClampInRange ==
  ASSUME NEW v \in Int, NEW r, r.min \in Int16s, r.max \in Int16s,
         r.min <= r.max
  PROVE  /\ r.min <= Clamp(v, r) /\ Clamp(v, r) <= r.max
         /\ Clamp(v, r) \in Int16s
<1>1. r.min \in Int /\ r.max \in Int
  BY Int16sInt
<1>2. CASE v < r.min
  BY <1>1, <1>2 DEF Clamp
<1>3. CASE v > r.max /\ ~(v < r.min)
  BY <1>1, <1>3 DEF Clamp
<1>4. CASE ~(v < r.min) /\ ~(v > r.max)
  <2>1. Clamp(v, r) = v
    BY <1>4 DEF Clamp
  <2>2. v \in Int16s
    BY <1>1, <1>4, Between
  <2>. QED BY <1>1, <1>4, <2>1, <2>2
<1>. QED BY <1>2, <1>3, <1>4

LEMMA ClampInt16 ==
  ASSUME NEW v \in Int, NEW r, r.min \in Int16s, r.max \in Int16s
  PROVE  Clamp(v, r) \in Int16s
<1>1. r.min \in Int /\ r.max \in Int
  BY Int16sInt
<1>2. CASE v < r.min
  BY <1>1, <1>2 DEF Clamp
<1>3. CASE v > r.max /\ ~(v < r.min)
  BY <1>1, <1>3 DEF Clamp
<1>4. CASE ~(v < r.min) /\ ~(v > r.max)
  <2>1. Clamp(v, r) = v
    BY <1>4 DEF Clamp
  <2>2. v \in Int16s
    BY <1>1, <1>4, Between
  <2>. QED BY <2>1, <2>2
<1>. QED BY <1>2, <1>3, <1>4

LEMMA RangeInt == ASSUME NEW r \in Ranges
                  PROVE  /\ r.min \in Int16s /\ r.max \in Int16s
                         /\ r.min \in Int /\ r.max \in Int /\ r.min <= r.max
<1>1. /\ r.min \in Values /\ r.max \in Values /\ r.def \in Values
      /\ r.min <= r.def /\ r.def <= r.max
  BY DEF Ranges, Range
<1>2. r.min \in Int /\ r.max \in Int /\ r.def \in Int
  BY <1>1, ValuesInt
<1>. QED BY <1>1, <1>2, ValuesAssumption

LEMMA CacheInt16 == ASSUME NEW l \in Cache
                    PROVE  l.min \in Int16s /\ l.max \in Int16s
<1>1. Values \cup {0} \subseteq Int16s
  BY ValuesAssumption, Int16Member
<1>. QED BY <1>1 DEF Cache

(* setBrightness and resetBrightness *)
LEMMA SetNativeInv ==
  ASSUME IInv, NEW v \in Int, NEW p \in Percents \cup {None},
         SetNative(v, p),
         UNCHANGED <<open, mPUSupports, supports, limits>>
  PROVE  IInv'
<1>1. PICK u \in UpdateBrightness, ok \in BOOLEAN :
         /\ mBrightness' = u[1]
         /\ IF u[2] /\ ok
            THEN /\ camera' = [camera EXCEPT !.cur = Clamp(Int16(v), u[1])]
                 /\ asked' = IF Whole(u[1], camera.range) THEN p ELSE None
                 /\ shown' = None
            ELSE UNCHANGED <<camera, asked, shown>>
  BY DEF SetNative
<1>2. CASE open /\ mPUSupports
  <2>1. /\ mBrightness \in Cache /\ camera.range \in Ranges
        /\ u \in UpdateCtrlValues(mBrightness, camera.range)
    BY <1>1, <1>2 DEF UpdateBrightness, IInv, TypeOK, Cache
  <2>2. /\ u[1] \in Cache
        /\ NotTorn(u[1], camera.range) => NotTorn(mBrightness, camera.range)
        /\ u[2] /\ NotTorn(u[1], camera.range) => Whole(u[1], camera.range)
    BY <2>1, UpdateCtrlValuesTrue
  <2>3. CASE u[2] /\ ok
    <3>1. Int16(v) \in Int
      BY DEF Int16
    <3>2. Clamp(Int16(v), u[1]) \in Int16s
      BY <2>2, <3>1, CacheInt16, ClampInt16
    <3>3. /\ camera' = [camera EXCEPT !.cur = Clamp(Int16(v), u[1])]
          /\ asked' \in Percents \cup {None} /\ shown' = None
      BY <1>1, <2>3
    <3>4. /\ camera' \in [range : Ranges, terminal : BOOLEAN, cur : Int16s]
          /\ camera'.range = camera.range
          /\ camera'.cur = Clamp(Int16(v), u[1])
      BY <3>2, <3>3 DEF IInv, TypeOK
    <3>5. TypeOK'
      BY <1>1, <2>2, <3>3, <3>4, NoneInt DEF IInv, TypeOK, Cache
    <3>6. ASSUME NotTorn(u[1], camera.range)
          PROVE  /\ camera.range.min <= Clamp(Int16(v), u[1])
                 /\ Clamp(Int16(v), u[1]) <= camera.range.max
      <4>1. u[1].min = camera.range.min /\ u[1].max = camera.range.max
        BY <2>2, <2>3, <3>6 DEF Whole
      <4>. QED BY <2>1, <3>1, <4>1, RangeInt, ClampInRange
    <3>. QED BY <1>1, <3>4, <3>5, <3>6 DEF IInv, SentInRange
  <2>4. CASE ~(u[2] /\ ok)
    <3>1. TypeOK'
      BY <1>1, <2>2, <2>4 DEF IInv, TypeOK, Cache
    <3>2. SentInRange'
      BY <1>1, <2>2, <2>4 DEF IInv, SentInRange
    <3>. QED BY <3>1, <3>2 DEF IInv
  <2>. QED BY <2>3, <2>4
<1>3. CASE ~(open /\ mPUSupports)
  <2>1. u = <<mBrightness, FALSE>>
    BY <1>1, <1>3 DEF UpdateBrightness
  <2>2. UNCHANGED vars
    BY <1>1, <2>1 DEF vars
  <2>. QED BY <2>2 DEF IInv, TypeOK, SentInRange, vars
<1>. QED BY <1>2, <1>3

LEMMA ScaledInt == ASSUME NEW p \in Int, NEW w \in Int, NEW s \in Scaled(p, w)
                   PROVE  s \in Int
<1>1. p * w \in Int
  OBVIOUS
<1>2. Quot(p * w, 100) \in Int
  BY <1>1, QuotInt
<1>. QED BY <1>2 DEF Scaled

LEMMA WidthInt == ASSUME NEW l \in Cache
                  PROVE  /\ l.min \in Int /\ l.max \in Int /\ l.def \in Int
                         /\ Width(l) \in Int
<1>1. l.min \in Int /\ l.max \in Int /\ l.def \in Int
  <2>1. Values \cup {0} \subseteq Int
    BY ValuesInt
  <2>. QED BY <2>1 DEF Cache
<1>. QED BY <1>1, SMT DEF Width

LEMMA PercentInt == ASSUME NEW abs \in Int, NEW l \in Cache
                    PROVE  Percent(abs, l) \in Int
<1>1. l.min \in Int /\ Width(l) \in Int
  BY WidthInt
<1>2. (abs - l.min) * 100 \in Int
  BY <1>1, SMT
<1>3. CASE Width(l) > 0
  BY <1>1, <1>2, <1>3, QuotInt DEF Percent
<1>4. CASE ~(Width(l) > 0)
  BY <1>4, SMT DEF Percent
<1>. QED BY <1>3, <1>4

LEMMA LimitsInt == ASSUME TypeOK
                   PROVE  /\ limits.min \in Int /\ limits.max \in Int
                          /\ limits.def \in Int /\ Width(limits) \in Int
<1>1. limits \in Cache
  BY DEF TypeOK, Cache
<1>. QED BY <1>1, WidthInt

LEMMA IInvInit == Init => IInv
<1> SUFFICES ASSUME Init PROVE IInv
  OBVIOUS
<1>1. 0 \in Int16s
  BY SMT DEF Int16s
<1>2. camera \in [range : Ranges, terminal : BOOLEAN, cur : Int16s]
  BY <1>1 DEF Init
<1>3. mBrightness \in Cache /\ limits \in Cache
  BY DEF Init, Unread, Cache
<1>4. supports \in [control : BOOLEAN, proc : BOOLEAN]
  BY DEF Init
<1>5. open = FALSE /\ mPUSupports = FALSE /\ asked = None /\ shown = None
  BY DEF Init
<1>6. TypeOK
  BY <1>2, <1>3, <1>4, <1>5, NoneInt DEF TypeOK, Cache
<1>. QED
  BY <1>5, <1>6 DEF IInv, SentInRange

LEMMA IInvStep == ASSUME IInv, [Next]_vars PROVE IInv'
<1>1. CASE Open
  <2>1. PICK r \in Ranges, t \in BOOLEAN :
           camera' = [range |-> r, terminal |-> t, cur |-> r.def]
    BY <1>1 DEF Open
  <2>2. r.min <= r.def /\ r.def <= r.max /\ r.def \in Int16s
    BY ValuesAssumption, ValuesInt DEF Ranges, Range
  <2>. QED
    BY <1>1, <2>1, <2>2
    DEF Open, IInv, TypeOK, SentInRange, Unread
<1>2. CASE Close
  <2>1. mBrightness' \in Cache
    BY <1>2 DEF Close, Unread, Cache
  <2>2. supports' \in [control : BOOLEAN, proc : BOOLEAN]
    BY <1>2 DEF Close
  <2>3. /\ open' = FALSE /\ mPUSupports' = FALSE
        /\ asked' = None /\ shown' = None /\ UNCHANGED <<camera, limits>>
    BY <1>2 DEF Close
  <2>4. TypeOK'
    BY <2>1, <2>2, <2>3, NoneInt DEF IInv, TypeOK, Cache
  <2>. QED BY <2>3, <2>4 DEF IInv, SentInRange
<1>3. CASE UpdateCameraParams
  <2>1. CASE camera.terminal
    <3>1. PICK u \in UpdateCtrlValues(mBrightness, camera.range) :
             /\ mBrightness' = u[1]
             /\ limits' = IF u[2] THEN u[1] ELSE limits
      BY <1>3, <2>1 DEF UpdateCameraParams
    <3>2. /\ mBrightness \in Cache /\ camera.range \in Ranges
      BY <1>3 DEF UpdateCameraParams, IInv, TypeOK, Cache
    <3>3. /\ u[1] \in Cache
          /\ NotTorn(u[1], camera.range) => NotTorn(mBrightness, camera.range)
      BY <3>2, UpdateCtrlValuesTrue
    <3>. QED
      BY <1>3, <3>1, <3>3
      DEF UpdateCameraParams, IInv, TypeOK, SentInRange, Cache
  <2>2. CASE ~camera.terminal
    BY <1>3, <2>2 DEF UpdateCameraParams, IInv, TypeOK, SentInRange
  <2>. QED BY <2>1, <2>2
<1>4. CASE SetBrightness
  <2>1. PICK p \in Percents : \E s \in Scaled(p, Width(limits)) :
           SetNative(s + limits.min, IF Whole(limits, camera.range) THEN p ELSE None)
    BY <1>4 DEF SetBrightness
  <2>2. PICK s \in Scaled(p, Width(limits)) :
           SetNative(s + limits.min, IF Whole(limits, camera.range) THEN p ELSE None)
    BY <2>1
  <2>3. p \in Int
    BY PercentsAssumption
  <2>4. s + limits.min \in Int
    BY <2>3, ScaledInt, LimitsInt DEF IInv
  <2>5. (IF Whole(limits, camera.range) THEN p ELSE None) \in Percents \cup {None}
    OBVIOUS
  <2>6. UNCHANGED <<open, mPUSupports, supports, limits>>
    BY <1>4 DEF SetBrightness
  <2>. QED BY <2>2, <2>4, <2>5, <2>6, SetNativeInv
<1>5. CASE ResetBrightness
  BY <1>5, LimitsInt, SetNativeInv DEF ResetBrightness, IInv
<1>6. CASE GetBrightness
  <2>1. PICK u \in UpdateBrightness, answers \in BOOLEAN :
          \E w \in UpdateCtrlValues(u[1], camera.range) :
             /\ mBrightness' = w[1]
             /\ limits' = IF w[2] THEN w[1] ELSE limits
             /\ shown' = IF u[2] /\ answers THEN Percent(camera.cur, limits')
                                            ELSE shown
    BY <1>6 DEF GetBrightness
  <2>2. PICK w \in UpdateCtrlValues(u[1], camera.range) :
             /\ mBrightness' = w[1]
             /\ limits' = IF w[2] THEN w[1] ELSE limits
             /\ shown' = IF u[2] /\ answers THEN Percent(camera.cur, limits')
                                            ELSE shown
    BY <2>1
  <2>3. /\ mBrightness \in Cache /\ camera.range \in Ranges
        /\ u \in UpdateCtrlValues(mBrightness, camera.range)
    BY <1>6, <2>1 DEF GetBrightness, UpdateBrightness, IInv, TypeOK, Cache
  <2>4. /\ u[1] \in Cache
        /\ NotTorn(u[1], camera.range) => NotTorn(mBrightness, camera.range)
    BY <2>3, UpdateCtrlValuesTrue
  <2>5. /\ w[1] \in Cache
        /\ NotTorn(w[1], camera.range) => NotTorn(u[1], camera.range)
    BY <2>2, <2>3, <2>4, UpdateCtrlValuesTrue
  <2>6. limits' \in Cache
    BY <2>2, <2>5 DEF IInv, TypeOK, Cache
  <2>7. Percent(camera.cur, limits') \in Int
    <3>1. camera.cur \in Int
      BY Int16sInt DEF IInv, TypeOK
    <3>. QED BY <2>6, <3>1, PercentInt
  <2>8. shown' \in Int
    BY <2>2, <2>7 DEF IInv, TypeOK
  <2>9. UNCHANGED <<camera, open, mPUSupports, supports, asked>>
    BY <1>6 DEF GetBrightness
  <2>10. TypeOK'
    BY <2>2, <2>5, <2>6, <2>8, <2>9 DEF IInv, TypeOK, Cache
  <2>11. SentInRange'
    BY <2>2, <2>4, <2>5, <2>9 DEF IInv, SentInRange
  <2>. QED BY <2>10, <2>11 DEF IInv
<1>7. CASE UNCHANGED vars
  BY <1>7 DEF vars, IInv, TypeOK, SentInRange
<1>. QED BY <1>1, <1>2, <1>3, <1>4, <1>5, <1>6, <1>7 DEF Next

LEMMA IInvInvariant == Spec => []IInv
<1>1. IInv /\ [Next]_vars => IInv'
  BY IInvStep
<1>. QED BY IInvInit, <1>1, PTL DEF Spec

(* Percentages and cached values never leave their ranges, however cameras *)
(* are opened and closed on one UVCCamera object (UVCCamera.java:187-241). *)
THEOREM TypeCorrect == Spec => []TypeOK
<1>1. IInv => TypeOK
  BY DEF IInv
<1>. QED BY IInvInvariant, <1>1, PTL

(* No camera is set to a value outside its range by setBrightness or       *)
(* resetBrightness, unless GET_MAX failed after a GET_MIN that gave        *)
(* another value than 0 (UVCCamera.cpp:363-391 and 771-781).               *)
THEOREM SentInRangeAlways == Spec => []SentInRange
<1>1. IInv => SentInRange
  BY DEF IInv
<1>. QED BY IInvInvariant, <1>1, PTL

-----------------------------------------------------------------------------
(* What is read back                                                       *)

LEMMA DivBounds == ASSUME NEW n \in Nat, NEW d \in Nat, d > 0
                   PROVE  /\ n \div d \in Nat
                          /\ (n \div d) * d <= n
                          /\ n < (n \div d) * d + d
  BY SMT

(* The value set for p percent of w steps, and what it is in percent again. *)
LEMMA ScaledBounds ==
  ASSUME NEW p \in 0..100, NEW w \in Nat, NEW s \in Scaled(p, w)
  PROVE  /\ s \in Nat /\ s <= w
         /\ s * 100 <= p * w /\ p * w <= s * 100 + 100
<1> DEFINE x == p * w
           q == x \div 100
<1>1. x \in Nat /\ x <= 100 * w
  BY SMT
<1>2. q \in Nat /\ q * 100 <= x /\ x < q * 100 + 100
  BY <1>1, DivBounds
<1>3. Quot(x, 100) = q
  BY <1>1 DEF Quot
<1>4. s = q \/ (s = q - 1 /\ x % 100 = 0 /\ x > 0)
  BY <1>3 DEF Scaled
<1>5. CASE s = q
  BY <1>1, <1>2, <1>5, SMT
<1>6. CASE s = q - 1 /\ x % 100 = 0 /\ x > 0
  <2>1. x = q * 100
    BY <1>1, <1>2, <1>6, SMT
  <2>. QED BY <1>1, <1>2, <1>6, <2>1, SMT
<1>. QED BY <1>4, <1>5, <1>6

LEMMA PercentBounds ==
  ASSUME NEW p \in 0..100, NEW w \in Nat, w > 0, NEW s \in Nat,
         s * 100 <= p * w, p * w <= s * 100 + 100,
         NEW q \in Nat, q * w <= s * 100, s * 100 < q * w + w
  PROVE  q <= p /\ (p - q) * w < 100 + w
<1>1. q * w <= p * w
  BY SMT
<1>2. q <= p
  BY <1>1, SMT
<1>3. (p - q) * w = p * w - q * w
  BY SMT
<1>. QED BY <1>2, <1>3, SMT

(* What the camera was set to for a percentage asked, and what was shown of *)
(* it since.                                                               *)
Remembered ==
    asked # None =>
       /\ open /\ Whole(limits, camera.range) /\ Width(limits) > 0
       /\ Whole(mBrightness, camera.range)
       /\ asked \in 0..100 => \E s \in Scaled(asked, Width(limits)) :
                                 camera.cur = s + limits.min
       /\ shown # None => shown = Percent(camera.cur, limits)

RInv == IInv /\ Remembered

LEMMA ReadBackOfRInv == RInv => ReadBack
<1> SUFFICES ASSUME RInv, asked \in 0..100, shown # None
             PROVE  /\ 0 <= shown /\ shown <= asked
                    /\ (asked - shown) * Width(camera.range)
                         < 100 + Width(camera.range)
  BY DEF ReadBack
<1> DEFINE w == Width(limits)
<1>1. asked # None
  BY DEF None
<1>2. /\ Whole(limits, camera.range) /\ w > 0 /\ w \in Nat
      /\ shown = Percent(camera.cur, limits)
  BY <1>1, LimitsInt DEF RInv, IInv, Remembered
<1>3. PICK s \in Scaled(asked, w) : camera.cur = s + limits.min
  BY <1>1 DEF RInv, Remembered
<1>4. /\ s \in Nat /\ s * 100 <= asked * w /\ asked * w <= s * 100 + 100
  BY <1>2, <1>3, ScaledBounds
<1>5. limits.min \in Int
  BY LimitsInt DEF RInv, IInv
<1>6. camera.cur - limits.min = s
  BY <1>3, <1>4, <1>5
<1> DEFINE n == s * 100
           q == n \div w
<1>7. n \in Nat
  BY <1>4
<1>8. shown = q
  <2>1. shown = Quot(s * 100, w)
    BY <1>2, <1>6 DEF Percent
  <2>. QED BY <2>1, <1>7 DEF Quot
<1>9. q \in Nat /\ q * w <= n /\ n < q * w + w
  <2> HIDE DEF n, w
  <2>. QED BY <1>2, <1>7, DivBounds
<1>10. q <= asked /\ (asked - q) * w < 100 + w
  <2> HIDE DEF q, w
  <2>. QED BY <1>2, <1>4, <1>9, PercentBounds
<1>11. Width(camera.range) = w
  BY <1>2 DEF Whole, Width
<1>. QED BY <1>8, <1>9, <1>10, <1>11

LEMMA RInvInit == Init => RInv
<1>1. Init => Remembered
  BY DEF Init, Remembered
<1>. QED BY <1>1, IInvInit DEF RInv

(* A value in the range passes through the jint and the bounds unchanged.  *)
LEMMA PassesThrough ==
  ASSUME NEW v \in Int, NEW r, r.min \in Int16s, r.max \in Int16s,
         r.min <= v, v <= r.max
  PROVE  Clamp(Int16(v), r) = v
<1>1. -32768 <= v /\ v <= 32767
  BY Int16Bounds, Between
<1>2. (v + 32768) % 65536 = v + 32768
  BY <1>1, SMT
<1>3. Int16(v) = v
  BY <1>2, SMT DEF Int16
<1>4. r.min \in Int /\ r.max \in Int
  BY Int16sInt
<1>. QED BY <1>3, <1>4 DEF Clamp

(* Ranges that were the camera's are still those when they are updated.    *)
LEMMA RangesKept ==
  ASSUME RInv, asked # None,
         NEW values \in Cache, Whole(values, camera.range),
         NEW u \in UpdateCtrlValues(values, camera.range)
  PROVE  /\ u[1] \in Cache /\ Whole(u[1], camera.range)
         /\ Whole(IF u[2] THEN u[1] ELSE limits, camera.range)
<1>1. Whole(limits, camera.range) /\ camera.range \in Ranges
  BY DEF RInv, IInv, TypeOK, Remembered
<1>2. u[1] \in Cache /\ Whole(u[1], camera.range)
  BY <1>1, UpdateCtrlValuesTrue
<1>. QED BY <1>1, <1>2

LEMMA RInvStep == ASSUME RInv, [Next]_vars PROVE RInv'
<1>. IInv /\ Remembered
  BY DEF RInv
<1>. SUFFICES Remembered'
  BY IInvStep DEF RInv
<1>1. CASE Open
  BY <1>1 DEF Open, Remembered
<1>2. CASE Close
  BY <1>2 DEF Close, Remembered
<1>3. CASE UpdateCameraParams
  <2> SUFFICES ASSUME asked # None PROVE Remembered'
    BY <1>3 DEF UpdateCameraParams, Remembered
  <2>1. Whole(limits', camera.range) /\ Whole(mBrightness', camera.range)
    <3>1. CASE camera.terminal
      <4>1. PICK u \in UpdateCtrlValues(mBrightness, camera.range) :
               /\ mBrightness' = u[1]
               /\ limits' = IF u[2] THEN u[1] ELSE limits
        BY <1>3, <3>1 DEF UpdateCameraParams
      <4>2. mBrightness \in Cache /\ Whole(mBrightness, camera.range)
        BY DEF IInv, TypeOK, Remembered, Cache
      <4>. QED BY <4>1, <4>2, RangesKept
    <3>2. CASE ~camera.terminal
      BY <1>3, <3>2 DEF UpdateCameraParams, Remembered
    <3>. QED BY <3>1, <3>2
  <2>2. UNCHANGED <<camera, open, asked, shown>>
    BY <1>3 DEF UpdateCameraParams
  <2>. QED BY <2>1, <2>2 DEF Remembered, Whole, Width, Percent
<1>4. ASSUME NEW v \in Int, NEW p \in Percents \cup {None}, SetNative(v, p),
             UNCHANGED <<open, mPUSupports, supports, limits>>,
             p # None => /\ Whole(limits, camera.range) /\ Width(limits) > 0
                         /\ \E s \in Scaled(p, Width(limits)) : v = s + limits.min
      PROVE  Remembered'
  <2>1. PICK u \in UpdateBrightness, ok \in BOOLEAN :
           /\ mBrightness' = u[1]
           /\ IF u[2] /\ ok
              THEN /\ camera' = [camera EXCEPT !.cur = Clamp(Int16(v), u[1])]
                   /\ asked' = IF Whole(u[1], camera.range) THEN p ELSE None
                   /\ shown' = None
              ELSE UNCHANGED <<camera, asked, shown>>
    BY <1>4 DEF SetNative
  <2>2. CASE ~(open /\ mPUSupports)
    <3>1. u = <<mBrightness, FALSE>>
      BY <2>2 DEF UpdateBrightness
    <3>2. UNCHANGED <<mBrightness, camera, asked, shown>>
      BY <2>1, <3>1
    <3>. QED BY <1>4, <3>2 DEF Remembered, Whole
  <2>3. CASE open /\ mPUSupports
    <3>1. /\ mBrightness \in Cache /\ camera.range \in Ranges
          /\ u \in UpdateCtrlValues(mBrightness, camera.range)
      BY <2>3 DEF UpdateBrightness, IInv, TypeOK, Cache
    <3>2. CASE ~(u[2] /\ ok)
      <4>1. asked # None => Whole(u[1], camera.range)
        BY <3>1, UpdateCtrlValuesTrue DEF Remembered
      <4>. QED BY <1>4, <2>1, <3>2, <4>1 DEF Remembered, Whole
    <3>3. CASE u[2] /\ ok /\ (p = None \/ ~Whole(u[1], camera.range))
      BY <2>1, <3>3 DEF Remembered
    <3>4. CASE u[2] /\ ok /\ p # None /\ Whole(u[1], camera.range)
      <4>1. /\ camera' = [camera EXCEPT !.cur = Clamp(Int16(v), u[1])]
            /\ asked' = p /\ shown' = None /\ mBrightness' = u[1]
        BY <2>1, <3>4
      <4>2. /\ camera'.range = camera.range
            /\ camera'.cur = Clamp(Int16(v), u[1])
        BY <4>1 DEF IInv, TypeOK
      <4>3. /\ Whole(limits, camera.range)' /\ Width(limits)' > 0 /\ open'
            /\ Whole(mBrightness, camera.range)'
        BY <1>4, <2>3, <3>4, <4>1, <4>2 DEF Whole
      <4>4. ASSUME p \in 0..100
            PROVE  \E s \in Scaled(p, Width(limits)) : camera'.cur = s + limits.min
        <5>1. PICK s \in Scaled(p, Width(limits)) : v = s + limits.min
          BY <1>4, <3>4
        <5>2. /\ limits.min = camera.range.min /\ limits.max = camera.range.max
          BY <1>4, <3>4 DEF Whole
        <5>3. Width(limits) \in Nat /\ limits.min + Width(limits) = limits.max
          BY <5>2, <3>1, RangeInt DEF Width
        <5>4. s \in Nat /\ s <= Width(limits)
          BY <4>4, <5>3, ScaledBounds
        <5>5. camera.range.min <= v /\ v <= camera.range.max
          BY <5>1, <5>2, <5>3, <5>4, <3>1, RangeInt
        <5>6. u[1].min = camera.range.min /\ u[1].max = camera.range.max
          BY <3>4 DEF Whole
        <5>7. Clamp(Int16(v), u[1]) = v
          BY <5>5, <5>6, <3>1, RangeInt, PassesThrough
        <5>. QED BY <4>2, <5>1, <5>7
      <4>. QED BY <1>4, <4>1, <4>3, <4>4 DEF Remembered
    <3>. QED BY <3>2, <3>3, <3>4
  <2>. QED BY <2>2, <2>3
<1>5. CASE SetBrightness
  <2>1. PICK p \in Percents : \E s \in Scaled(p, Width(limits)) :
           SetNative(s + limits.min, IF Whole(limits, camera.range) THEN p ELSE None)
    BY <1>5 DEF SetBrightness
  <2>2. PICK s \in Scaled(p, Width(limits)) :
           SetNative(s + limits.min, IF Whole(limits, camera.range) THEN p ELSE None)
    BY <2>1
  <2>3. p \in Int
    BY PercentsAssumption
  <2>4. s + limits.min \in Int
    BY <2>3, ScaledInt, LimitsInt DEF IInv
  <2>5. /\ Width(limits) > 0
        /\ UNCHANGED <<open, mPUSupports, supports, limits>>
    BY <1>5 DEF SetBrightness
  <2>6. CASE Whole(limits, camera.range)
    BY <1>4, <2>2, <2>4, <2>5, <2>6
  <2>7. CASE ~Whole(limits, camera.range)
    BY <1>4, <2>2, <2>4, <2>5, <2>7
  <2>. QED BY <2>6, <2>7
<1>6. CASE ResetBrightness
  BY <1>4, <1>6, LimitsInt DEF ResetBrightness, IInv
<1>7. CASE GetBrightness
  <2>1. PICK u \in UpdateBrightness, answers \in BOOLEAN :
          \E w \in UpdateCtrlValues(u[1], camera.range) :
             /\ mBrightness' = w[1]
             /\ limits' = IF w[2] THEN w[1] ELSE limits
             /\ shown' = IF u[2] /\ answers THEN Percent(camera.cur, limits')
                                            ELSE shown
    BY <1>7 DEF GetBrightness
  <2>2. PICK w \in UpdateCtrlValues(u[1], camera.range) :
             /\ mBrightness' = w[1]
             /\ limits' = IF w[2] THEN w[1] ELSE limits
             /\ shown' = IF u[2] /\ answers THEN Percent(camera.cur, limits')
                                            ELSE shown
    BY <2>1
  <2>3. UNCHANGED <<camera, open, asked>>
    BY <1>7 DEF GetBrightness
  <2> SUFFICES ASSUME asked # None PROVE Remembered'
    BY <2>3 DEF Remembered
  <2>4. /\ mBrightness \in Cache /\ Whole(mBrightness, camera.range)
        /\ u \in UpdateCtrlValues(mBrightness, camera.range)
    BY <1>7, <2>1 DEF GetBrightness, UpdateBrightness, IInv, TypeOK, Remembered, Cache
  <2>5. u[1] \in Cache /\ Whole(u[1], camera.range)
    BY <2>4, RangesKept
  <2>6. Whole(limits', camera.range) /\ Whole(mBrightness', camera.range)
    BY <2>2, <2>5, RangesKept
  <2>7. limits'.min = limits.min /\ limits'.max = limits.max
    BY <2>6 DEF Remembered, Whole
  <2>8. Percent(camera.cur, limits') = Percent(camera.cur, limits)
        /\ Width(limits') = Width(limits)
    BY <2>7 DEF Percent, Width
  <2>9. shown' # None => shown' = Percent(camera.cur, limits)
    BY <2>2, <2>8 DEF Remembered
  <2>. QED BY <2>3, <2>6, <2>7, <2>8, <2>9 DEF Remembered
<1>8. CASE UNCHANGED vars
  BY <1>8 DEF vars, Remembered, Whole
<1>. QED BY <1>1, <1>2, <1>3, <1>5, <1>6, <1>7, <1>8 DEF Next

(* What getBrightness returns is the percentage the camera was set to or   *)
(* at most one step of the camera and the rounding less, whatever range it *)
(* reports and however opening, updating, setting and reading are mixed    *)
(* (UVCCamera.java:508-530), while neither layer holds half of a range.     *)
THEOREM ReadBackAlways == Spec => []ReadBack
<1>1. RInv /\ [Next]_vars => RInv'
  BY RInvStep
<1>. QED BY RInvInit, <1>1, ReadBackOfRInv, PTL DEF Spec
=============================================================================
