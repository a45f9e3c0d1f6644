-------------------------- MODULE ImxSensorProofs --------------------------
(***************************************************************************)
(* Proofs about ImxSensor, for every table of drivers that meets           *)
(* DriversAssumption: the format asked for is the one that is reported,    *)
(* and a sensor that streams without a failed write holds in its registers *)
(* what its controls say and stays inside the bounds of its mode.          *)
(*                                                                         *)
(* The controls fall into groups that the cascades keep apart: timing      *)
(* (vblank, exposure, rate, frame length), gain, black level and           *)
(* triggering. Of each group there is an invariant of the controls, a      *)
(* correspondence with the registers that holds while the stream is        *)
(* faithful, and, for each cascade, one lemma: what it does to its own     *)
(* group, and that it leaves the others alone.                             *)
(***************************************************************************)
EXTENDS ImxSensor, SequenceTheorems, WellFoundedInduction, TLAPS

-----------------------------------------------------------------------------
(* The cascades' records p = [d, m, f, on, c, r].                          *)

CtlNames == {"vblank", "exposure", "maxExposure", "rate", "gain", "minGain",
             "conversion", "black", "op", "sync", "length"}

RegNames == {"tables", "trigger", "vint", "extmode", "xmsta", "vmax", "shutter",
             "gain", "conversion", "black", "xmaster"}

\* A record of a driver and a mode that meet the assumption.
Shape(p) ==
    /\ DOMAIN p = {"d", "m", "f", "on", "c", "r"}
    /\ DOMAIN p.c = CtlNames /\ DOMAIN p.r = RegNames
    /\ DriverOK(p.d) /\ ModeOK(p.d, p.m)

\* What holds of the controls, streaming or not.
RateOK(p) ==
    /\ p.c.rate \in 1..MaxRate(p.m)
    /\ p.c.vblank \in Int /\ p.c.vblank >= p.m.delta

ExposureOK(p) ==
    /\ p.c.exposure \in Int /\ p.c.maxExposure \in Int
    /\ p.c.exposure >= p.d.minLines /\ p.c.maxExposure >= p.d.minLines

GainOK(p) ==
    /\ p.c.minGain \in {0, p.d.highGain}
    /\ p.c.gain \in p.c.minGain..p.d.maxGain

TriggerOK(p) == p.c.op \in {Master, Slave} /\ p.c.sync \in Syncs(p.d)

ControlsOK(p) == RateOK(p) /\ ExposureOK(p) /\ GainOK(p) /\ TriggerOK(p)

\* What holds of controls and registers on a faithful stream.
TimingHeld(p) ==
    /\ p.r.vmax = p.c.length /\ p.c.length \in Int
    /\ p.c.length = p.c.vblank + p.m.height /\ p.c.length >= p.m.frame
    /\ p.c.maxExposure = p.c.length - p.m.shutter
    /\ p.c.exposure <= p.c.maxExposure
    /\ p.r.shutter \in Int /\ p.r.shutter >= p.m.shutter

GainHeld(p) ==
    /\ p.r.gain = p.c.gain /\ p.r.conversion = p.c.conversion
    /\ p.c.minGain = LeastGain(p.d, p.c.conversion)

Units(b, unit) == b \div unit

BlackHeld(p) == p.r.black = Units(p.c.black, p.d.black[p.f].unit)

TriggerHeld(p) ==
    /\ p.r.tables = p.m.tables
    /\ p.r.xmsta = p.c.op /\ p.r.xmaster = p.c.op
    /\ p.r.trigger = Triggering(p.d, p.c.op, p.c.sync).register
    /\ p.r.extmode = p.d.extmode[p.c.sync]

Held(p) == TimingHeld(p) /\ GainHeld(p) /\ BlackHeld(p) /\ TriggerHeld(p)

(***************************************************************************)
(* The inductive invariant.                                                *)
(***************************************************************************)
FormatInv ==
    /\ \E i \in DOMAIN D.codes : code = D.codes[i]
    /\ \E i \in DOMAIN D.modes[code] : mode = D.modes[code][i]
    /\ FormatKept

FlagsInv ==
    /\ streaming \in BOOLEAN /\ grabbed \in BOOLEAN
    /\ locked \in BOOLEAN /\ faithful \in BOOLEAN

PowerInv ==
    /\ pm \in {"active", "suspending", "suspended"}
    /\ calls \in 0..MaxCalls /\ faults \in 0..MaxFaults
    /\ holds \in Nat
    /\ streaming => holds >= 1 /\ holds <= faults + 1 /\ grabbed /\ ~locked
    /\ ~streaming => holds <= faults
    /\ pm # "active" => holds = 0

SensorInv ==
    /\ DOMAIN ctl = CtlNames /\ DOMAIN reg = RegNames
    /\ ControlsOK(Now)
    /\ streaming /\ faithful => Held(Now)

IInv == chip \in DOMAIN Drivers /\ FormatInv /\ FlagsInv /\ PowerInv /\ SensorInv

-----------------------------------------------------------------------------
(* What a cascade leaves alone.                                            *)

SameMode(p, q) ==
    Shape(q) /\ q.d = p.d /\ q.m = p.m /\ q.f = p.f /\ q.on = p.on

SameTiming(p, q) ==
    /\ q.c.rate = p.c.rate /\ q.c.vblank = p.c.vblank /\ q.c.length = p.c.length
    /\ q.c.exposure = p.c.exposure /\ q.c.maxExposure = p.c.maxExposure
    /\ q.r.vmax = p.r.vmax /\ q.r.shutter = p.r.shutter

SameGain(p, q) ==
    /\ q.c.gain = p.c.gain /\ q.c.minGain = p.c.minGain
    /\ q.c.conversion = p.c.conversion
    /\ q.r.gain = p.r.gain /\ q.r.conversion = p.r.conversion

SameBlack(p, q) == q.c.black = p.c.black /\ q.r.black = p.r.black

SameTrigger(p, q) ==
    /\ q.c.op = p.c.op /\ q.c.sync = p.c.sync
    /\ q.r.tables = p.r.tables /\ q.r.trigger = p.r.trigger /\ q.r.vint = p.r.vint
    /\ q.r.extmode = p.r.extmode
    /\ q.r.xmsta = p.r.xmsta /\ q.r.xmaster = p.r.xmaster

\* Only its own group.
TimingOnly(p, q) == SameMode(p, q) /\ SameGain(p, q) /\ SameBlack(p, q) /\ SameTrigger(p, q)
GainOnly(p, q) == SameMode(p, q) /\ SameTiming(p, q) /\ SameBlack(p, q) /\ SameTrigger(p, q)
BlackOnly(p, q) == SameMode(p, q) /\ SameTiming(p, q) /\ SameGain(p, q) /\ SameTrigger(p, q)
TriggerOnly(p, q) == SameMode(p, q) /\ SameTiming(p, q) /\ SameGain(p, q) /\ SameBlack(p, q)

-----------------------------------------------------------------------------
(* Frame lengths.                                                          *)

(* A product of naturals grows with its factors.                            *)
LEMMA ProductGrows ==
  ASSUME NEW a \in Nat, NEW b \in Nat, NEW c \in Nat, a <= b
  PROVE  a * c <= b * c /\ a * c \in Nat /\ b * c \in Nat
<1>1. PICK k \in Nat : b = a + k
  BY b - a \in Nat
<1>2. b * c = a * c + k * c
  BY <1>1
<1>3. k * c \in Nat /\ a * c \in Nat
  OBVIOUS
<1> QED
  BY <1>2, <1>3

(* What a quotient is, for the provers.                                     *)
LEMMA Quotient ==
  ASSUME NEW n \in Nat, NEW k \in Nat \ {0}
  PROVE  /\ n \div k \in Nat
         /\ k * (n \div k) <= n /\ n < k * (n \div k) + k
  OBVIOUS

(* A number that goes k times into n is at most the quotient.               *)
LEMMA QuotientAtLeast ==
  ASSUME NEW n \in Nat, NEW k \in Nat \ {0}, NEW q \in Nat, k * q <= n
  PROVE  q <= n \div k
<1> SUFFICES ASSUME n \div k < q PROVE FALSE
  BY Quotient
<1>1. (n \div k) + 1 <= q /\ n \div k \in Nat
  BY Quotient
<1>2. ((n \div k) + 1) * k <= q * k
  BY <1>1, ProductGrows
<1>3. ((n \div k) + 1) * k = k * (n \div k) + k
  BY <1>1
<1>4. q * k = k * q
  OBVIOUS
<1> QED
  BY <1>2, <1>3, <1>4, Quotient

(* There is a frame rate that every mode can keep.                          *)
LEMMA HighestRate ==
  ASSUME NEW d, NEW m, ModeOK(d, m)
  PROVE  MaxRate(m) \in Nat \ {0} /\ (m.frame * m.hmax) * MaxRate(m) <= XclkFreq
<1>1. m.frame \in Nat \ {0} /\ m.hmax \in Nat \ {0} /\ m.frame * m.hmax <= XclkFreq
  BY DEF ModeOK
<1>2. PICK k \in Nat \ {0} : k = m.frame * m.hmax
  BY <1>1
<1>3. XclkFreq \in Nat /\ k <= XclkFreq
  BY <1>1, <1>2 DEF XclkFreq
<1>4. 1 <= XclkFreq \div k
  BY <1>3, QuotientAtLeast
<1>5. k * (XclkFreq \div k) <= XclkFreq /\ XclkFreq \div k \in Nat
  BY <1>3, Quotient
<1> QED
  BY <1>2, <1>4, <1>5 DEF MaxRate

(* At a rate up to the highest one of its mode no frame is shorter than the *)
(* least: update_frame_rate.                                                *)
LEMMA LinesEnough ==
  ASSUME NEW p, Shape(p), NEW rate \in 1..MaxRate(p.m)
  PROVE  LinesAt(p, rate) \in Nat /\ LinesAt(p, rate) >= p.m.frame
<1>1. /\ p.m.frame \in Nat \ {0} /\ p.m.hmax \in Nat \ {0}
      /\ MaxRate(p.m) \in Nat \ {0} /\ (p.m.frame * p.m.hmax) * MaxRate(p.m) <= XclkFreq
  BY HighestRate DEF Shape, ModeOK
<1>2. PICK f \in Nat \ {0}, h \in Nat \ {0}, x \in Nat \ {0} :
        f = p.m.frame /\ h = p.m.hmax /\ x = MaxRate(p.m)
  BY <1>1
<1>3. rate \in Nat \ {0} /\ rate <= x /\ (f * h) * x <= XclkFreq /\ XclkFreq \in Nat
  BY <1>1, <1>2 DEF XclkFreq
<1>4. rate * (f * h) <= x * (f * h)
  BY <1>3, ProductGrows
<1>5. x * (f * h) = (f * h) * x /\ (rate * h) * f = rate * (f * h)
  BY <1>3
<1>6. rate * h \in Nat \ {0} /\ (rate * h) * f <= XclkFreq
  BY <1>3, <1>4, <1>5
<1>7. f <= XclkFreq \div (rate * h) /\ XclkFreq \div (rate * h) \in Nat
  BY <1>3, <1>6, QuotientAtLeast, Quotient
<1>8. PICK n \in Nat : n = XclkFreq \div (rate * h)
  BY <1>7
<1>9. LinesAt(p, rate) \in {n, n + 1}
  BY <1>2, <1>8 DEF LinesAt, RoundLines
<1> QED
  BY <1>2, <1>7, <1>8, <1>9

-----------------------------------------------------------------------------
(* The timing cascades.                                                    *)

(* The numbers of a record that the arithmetic needs.                       *)
LEMMA Numbers ==
  ASSUME NEW p, Shape(p)
  PROVE  /\ p.d.minLines \in 1..255 /\ p.d.maxGain \in Nat /\ p.d.highGain \in 0..p.d.maxGain
         /\ p.m.height \in Nat /\ p.m.delta \in Nat /\ p.m.shutter \in Nat
         /\ p.m.frame \in Nat \ {0} /\ p.m.height + p.m.delta <= p.m.frame
         /\ p.m.height + p.m.delta - p.m.shutter >= p.d.minLines
  BY DEF Shape, DriverOK, ModeOK

(* set_exposure, within the range of the control: a change is written to    *)
(* the shutter, counted from the end of the frame.                          *)
LEMMA PutExposureEffect ==
  ASSUME NEW p, Shape(p), ExposureOK(p), p.c.vblank \in Int, NEW v \in Int
  PROVE  LET q == PutExposure(p, v)
         IN  /\ TimingOnly(p, q)
             /\ q.c.rate = p.c.rate /\ q.c.vblank = p.c.vblank
             /\ q.c.length = p.c.length /\ q.c.maxExposure = p.c.maxExposure
             /\ q.r.vmax = p.r.vmax
             /\ ExposureOK(q) /\ q.c.exposure <= q.c.maxExposure
             /\ p.c.exposure \in p.d.minLines..p.c.maxExposure /\ v = p.c.exposure
                  => q.c.exposure = p.c.exposure
             /\ q.c.exposure = p.c.exposure => q.r.shutter = p.r.shutter
             /\ p.on /\ q.c.exposure # p.c.exposure
                  => q.r.shutter = q.c.vblank + q.m.height - q.c.exposure
  BY Numbers DEF PutExposure, WriteShutter, Write, Clamp, ExposureOK, TimingOnly, SameMode,
       SameGain, SameBlack, SameTrigger, Shape, CtlNames, RegNames

(* adjust_exposure_range: the exposure follows the range.                   *)
LEMMA AdjustEffect ==
  ASSUME NEW p, Shape(p), ExposureOK(p), p.c.vblank \in Int, p.c.vblank >= p.m.delta
  PROVE  LET q == AdjustExposureRange(p)
         IN  /\ TimingOnly(p, q)
             /\ q.c.rate = p.c.rate /\ q.c.vblank = p.c.vblank
             /\ q.c.length = p.c.length /\ q.r.vmax = p.r.vmax
             /\ q.c.maxExposure = q.c.vblank + q.m.height - q.m.shutter
             /\ ExposureOK(q) /\ q.c.exposure <= q.c.maxExposure
             /\ q.c.exposure = p.c.exposure => q.r.shutter = p.r.shutter
             /\ p.on /\ q.c.exposure # p.c.exposure
                  => q.r.shutter = q.c.vblank + q.m.height - q.c.exposure
             /\ p.c.exposure <= p.c.vblank + p.m.height - p.m.shutter
                  => q.c.exposure = p.c.exposure
<1> DEFINE s == [p EXCEPT !.c.maxExposure = p.c.vblank + p.m.height - p.m.shutter]
<1>1. /\ Shape(s) /\ ExposureOK(s) /\ TimingOnly(p, s)
      /\ s.c.rate = p.c.rate /\ s.c.vblank = p.c.vblank /\ s.c.length = p.c.length
      /\ s.c.maxExposure = p.c.vblank + p.m.height - p.m.shutter
      /\ s.c.exposure = p.c.exposure /\ s.r = p.r /\ s.m = p.m /\ s.d = p.d /\ s.on = p.on
  BY Numbers DEF ExposureOK, TimingOnly, SameMode, SameGain, SameBlack, SameTrigger, Shape,
       CtlNames
<1>2. AdjustExposureRange(p) = PutExposure(s, s.c.exposure)
  BY DEF AdjustExposureRange
<1> HIDE DEF s
<1>3. s.c.vblank \in Int /\ s.c.exposure \in Int /\ s.c.exposure >= s.d.minLines
  BY <1>1 DEF ExposureOK
<1>4. TimingOnly(s, PutExposure(s, s.c.exposure))
  BY <1>1, <1>3, PutExposureEffect
<1>5. TimingOnly(p, PutExposure(s, s.c.exposure))
  BY <1>1, <1>4 DEF TimingOnly, SameMode, SameGain, SameBlack, SameTrigger
<1> QED
  BY <1>1, <1>2, <1>3, <1>4, <1>5, PutExposureEffect, Numbers DEF TimingOnly, SameMode

\* The range of the exposure is that of the frame, and the exposure in it.
Fitted(p) ==
    /\ p.c.maxExposure = p.c.vblank + p.m.height - p.m.shutter
    /\ p.c.exposure <= p.c.maxExposure

\* A change of the exposure reaches the shutter as the frame is now.
ShutterFollows(p, q) ==
    /\ q.c.exposure = p.c.exposure => q.r.shutter = p.r.shutter
    /\ p.on /\ q.c.exposure # p.c.exposure
         => q.r.shutter = q.c.vblank + q.m.height - q.c.exposure

(* VBLANK: a new value moves the range of the exposure.                     *)
LEMMA PutVblankEffect ==
  ASSUME NEW p, Shape(p), ExposureOK(p), NEW v \in Int, v >= p.m.delta
  PROVE  LET q == PutVblank(p, v)
         IN  /\ TimingOnly(p, q) /\ ExposureOK(q)
             /\ q.c.rate = p.c.rate /\ q.c.length = p.c.length /\ q.r.vmax = p.r.vmax
             /\ q.c.vblank = v
             /\ Fitted(p) \/ v # p.c.vblank => Fitted(q)
             /\ ShutterFollows(p, q)
<1>1. CASE v = p.c.vblank
  BY <1>1 DEF PutVblank, TimingOnly, SameMode, SameGain, SameBlack, SameTrigger, ShutterFollows
<1>2. CASE v # p.c.vblank
  <2> DEFINE s == [p EXCEPT !.c.vblank = v]
  <2>1. /\ Shape(s) /\ ExposureOK(s) /\ TimingOnly(p, s)
        /\ s.c.rate = p.c.rate /\ s.c.vblank = v /\ s.c.length = p.c.length
        /\ s.c.exposure = p.c.exposure /\ s.r = p.r /\ s.m = p.m /\ s.d = p.d /\ s.on = p.on
    BY DEF ExposureOK, TimingOnly, SameMode, SameGain, SameBlack, SameTrigger, Shape, CtlNames
  <2>2. PutVblank(p, v) = AdjustExposureRange(s)
    BY <1>2 DEF PutVblank
  <2> HIDE DEF s
  <2>3. TimingOnly(s, AdjustExposureRange(s))
    BY <2>1, AdjustEffect
  <2>4. TimingOnly(p, AdjustExposureRange(s))
    BY <2>1, <2>3 DEF TimingOnly, SameMode, SameGain, SameBlack, SameTrigger
  <2> QED
    BY <1>2, <2>1, <2>2, <2>3, <2>4, AdjustEffect DEF Fitted, ShutterFollows, TimingOnly, SameMode
<1> QED
  BY <1>1, <1>2

(* update_frame_rate: the frame is as long as the rate asks for, and never  *)
(* shorter than the least one.                                              *)
LEMMA UpdateFrameRateEffect ==
  ASSUME NEW p, Shape(p), ExposureOK(p), NEW rate \in 1..MaxRate(p.m)
  PROVE  LET q == UpdateFrameRate(p, rate)
         IN  /\ TimingOnly(p, q) /\ ExposureOK(q)
             /\ q.c.rate = p.c.rate /\ q.r.vmax = p.r.vmax
             /\ q.c.length \in Int /\ q.c.length >= q.m.frame
             /\ q.c.vblank \in Int /\ q.c.vblank >= q.m.delta
             /\ q.c.length = q.c.vblank + q.m.height
             /\ Fitted(p) => Fitted(q)
             /\ ShutterFollows(p, q)
<1>1. PICK n \in Nat : n = LinesAt(p, rate)
  BY LinesEnough
<1> DEFINE s == [p EXCEPT !.c.length = n]
<1>2. /\ Shape(s) /\ ExposureOK(s) /\ TimingOnly(p, s)
      /\ s.c.rate = p.c.rate /\ s.c.vblank = p.c.vblank /\ s.c.length = n
      /\ s.c.exposure = p.c.exposure /\ s.c.maxExposure = p.c.maxExposure
      /\ s.r = p.r /\ s.m = p.m /\ s.d = p.d /\ s.on = p.on
  BY DEF ExposureOK, TimingOnly, SameMode, SameGain, SameBlack, SameTrigger, Shape, CtlNames
<1>3. UpdateFrameRate(p, rate) = PutVblank(s, n - p.m.height)
  BY <1>1 DEF UpdateFrameRate
<1> HIDE DEF s
<1>4. n >= p.m.frame
  BY <1>1, LinesEnough
<1>5. n - p.m.height \in Int /\ n - p.m.height >= s.m.delta
  BY <1>2, <1>4, Numbers
<1>6. PICK v \in Int : v = n - p.m.height
  BY <1>5
<1>7. TimingOnly(s, PutVblank(s, v))
  BY <1>2, <1>5, <1>6, PutVblankEffect
<1>8. TimingOnly(p, PutVblank(s, v))
  BY <1>2, <1>7 DEF TimingOnly, SameMode, SameGain, SameBlack, SameTrigger
<1>9. LET q == PutVblank(s, v)
      IN  /\ ExposureOK(q) /\ q.c.rate = s.c.rate /\ q.c.length = s.c.length
          /\ q.r.vmax = s.r.vmax /\ q.c.vblank = v
          /\ Fitted(s) => Fitted(q)
          /\ ShutterFollows(s, q)
  BY <1>2, <1>5, <1>6, PutVblankEffect
<1>10. n = v + p.m.height
  BY <1>6, Numbers
<1>11. Fitted(p) => Fitted(s)
  BY <1>2 DEF Fitted
<1> QED
  BY <1>2, <1>3, <1>4, <1>5, <1>6, <1>7, <1>8, <1>9, <1>10, <1>11
     DEF ShutterFollows, TimingOnly, SameMode

(* set_frame_rate: and the length is written, changed or not.               *)
LEMMA SetFrameRateEffect ==
  ASSUME NEW p, Shape(p), ExposureOK(p), NEW rate \in 1..MaxRate(p.m)
  PROVE  LET q == SetFrameRate(p, rate)
         IN  /\ TimingOnly(p, q) /\ ExposureOK(q)
             /\ q.c.rate = p.c.rate
             /\ p.on => q.r.vmax = q.c.length
             /\ q.c.length \in Int /\ q.c.length >= q.m.frame
             /\ q.c.vblank \in Int /\ q.c.vblank >= q.m.delta
             /\ q.c.length = q.c.vblank + q.m.height
             /\ Fitted(p) => Fitted(q)
             /\ ShutterFollows(p, q)
<1> DEFINE s == UpdateFrameRate(p, rate)
<1>1. /\ TimingOnly(p, s) /\ ExposureOK(s) /\ s.c.rate = p.c.rate
      /\ s.c.length \in Int /\ s.c.length >= s.m.frame
      /\ s.c.vblank \in Int /\ s.c.vblank >= s.m.delta
      /\ s.c.length = s.c.vblank + s.m.height
      /\ Fitted(p) => Fitted(s)
      /\ ShutterFollows(p, s)
  BY UpdateFrameRateEffect
<1>2. SetFrameRate(p, rate) = Write(s, "vmax", s.c.length)
  BY DEF SetFrameRate
<1> HIDE DEF s
<1>3. /\ Shape(Write(s, "vmax", s.c.length)) /\ TimingOnly(s, Write(s, "vmax", s.c.length))
      /\ Write(s, "vmax", s.c.length).c = s.c
      /\ Write(s, "vmax", s.c.length).r.shutter = s.r.shutter
      /\ s.on => Write(s, "vmax", s.c.length).r.vmax = s.c.length
  BY <1>1 DEF Write, TimingOnly, SameMode, SameGain, SameBlack, SameTrigger, Shape, CtlNames,
       RegNames
<1>4. TimingOnly(p, Write(s, "vmax", s.c.length))
  BY <1>1, <1>3 DEF TimingOnly, SameMode, SameGain, SameBlack, SameTrigger
<1> QED
  BY <1>1, <1>2, <1>3, <1>4
     DEF ShutterFollows, Fitted, ExposureOK, TimingOnly, SameMode

(* A shutter that follows the exposure is never before the least SHR0.      *)
LEMMA ShutterBounded ==
  ASSUME NEW p, Shape(p), NEW q, SameMode(p, q), p.on,
         ExposureOK(p), ExposureOK(q), q.c.vblank \in Int,
         p.r.shutter \in Int, p.r.shutter >= p.m.shutter,
         ShutterFollows(p, q), Fitted(q)
  PROVE  q.r.shutter \in Int /\ q.r.shutter >= q.m.shutter
  BY Numbers DEF ShutterFollows, Fitted, ExposureOK, SameMode

(* On a faithful stream the exposure is within its range, and that the      *)
(* frame's.                                                                 *)
LEMMA HeldIsFitted == ASSUME NEW p, Shape(p), ExposureOK(p), p.c.vblank \in Int, TimingHeld(p)
                      PROVE Fitted(p)
  BY Numbers DEF TimingHeld, Fitted, ExposureOK

(* A client's exposure keeps the timing held.                               *)
LEMMA PutExposureHeld ==
  ASSUME NEW p, Shape(p), RateOK(p), ExposureOK(p), p.on, TimingHeld(p), NEW v \in Int
  PROVE  TimingHeld(PutExposure(p, v))
<1> DEFINE q == PutExposure(p, v)
<1>1. /\ TimingOnly(p, q) /\ ExposureOK(q)
      /\ q.c.vblank = p.c.vblank /\ q.c.length = p.c.length
      /\ q.c.maxExposure = p.c.maxExposure /\ q.r.vmax = p.r.vmax
      /\ q.c.exposure <= q.c.maxExposure /\ ShutterFollows(p, q)
  BY PutExposureEffect DEF RateOK, ShutterFollows
<1> HIDE DEF q
<1>2. Fitted(q)
  BY <1>1, HeldIsFitted DEF Fitted, RateOK, TimingOnly, SameMode
<1>3. q.r.shutter \in Int /\ q.r.shutter >= q.m.shutter
  BY <1>1, <1>2, ShutterBounded DEF TimingOnly, RateOK, TimingHeld
<1>4. TimingHeld(q)
  BY <1>1, <1>3 DEF TimingHeld, TimingOnly, SameMode
<1> QED
  BY <1>4 DEF q

(* The frame rate control. Its value is brought into the range of the mode, *)
(* also from that of another one; on a faithful stream the timing is held.  *)
LEMMA PutRateEffect ==
  ASSUME NEW p, Shape(p), ExposureOK(p), NEW v \in Int,
         p.c.vblank \in Int, p.c.vblank >= p.m.delta
  PROVE  LET q == PutRate(p, v)
         IN  /\ TimingOnly(p, q) /\ RateOK(q) /\ ExposureOK(q)
             /\ ShutterFollows(p, q)
             /\ p.on /\ TimingHeld(p) => TimingHeld(q)
<1>1. MaxRate(p.m) \in Nat \ {0}
  BY HighestRate DEF Shape
<1>2. PICK x \in 1..MaxRate(p.m) : x = Clamp(v, 1, MaxRate(p.m))
  BY <1>1 DEF Clamp
<1>3. CASE x = p.c.rate
  BY <1>2, <1>3 DEF PutRate, TimingOnly, SameMode, SameGain, SameBlack, SameTrigger, RateOK,
       ShutterFollows
<1>4. CASE x # p.c.rate
  <2> DEFINE s == SetFrameRate(p, x)
             q == [s EXCEPT !.c.rate = x]
  <2>1. /\ TimingOnly(p, s) /\ ExposureOK(s)
        /\ p.on => s.r.vmax = s.c.length
        /\ s.c.length \in Int /\ s.c.length >= s.m.frame
        /\ s.c.vblank \in Int /\ s.c.vblank >= s.m.delta
        /\ s.c.length = s.c.vblank + s.m.height
        /\ Fitted(p) => Fitted(s)
        /\ ShutterFollows(p, s)
    BY SetFrameRateEffect
  <2>2. PutRate(p, v) = q
    BY <1>2, <1>4 DEF PutRate
  <2> HIDE DEF s
  <2>3. /\ Shape(q) /\ TimingOnly(s, q) /\ q.c.rate = x
        /\ q.c.vblank = s.c.vblank /\ q.c.length = s.c.length
        /\ q.c.exposure = s.c.exposure /\ q.c.maxExposure = s.c.maxExposure
        /\ q.r = s.r /\ q.m = s.m /\ q.d = s.d
    BY <2>1 DEF TimingOnly, SameMode, SameGain, SameBlack, SameTrigger, Shape, CtlNames
  <2> HIDE DEF q
  <2>4. TimingOnly(p, q) /\ ExposureOK(q) /\ ShutterFollows(p, q) /\ (Fitted(p) => Fitted(q))
    BY <2>1, <2>3 DEF TimingOnly, SameMode, SameGain, SameBlack, SameTrigger, ExposureOK,
         ShutterFollows, Fitted
  <2>5. RateOK(q)
    BY <2>1, <2>3, <2>4 DEF RateOK, TimingOnly, SameMode
  <2>6. ASSUME p.on, TimingHeld(p) PROVE TimingHeld(q)
    <3>1. Fitted(q)
      BY <2>4, <2>6, HeldIsFitted
    <3>2. q.r.shutter \in Int /\ q.r.shutter >= q.m.shutter
      BY <2>4, <2>5, <2>6, <3>1, ShutterBounded DEF TimingOnly, RateOK, TimingHeld
    <3> QED
      BY <2>1, <2>3, <2>6, <3>1, <3>2, Numbers DEF TimingHeld, Fitted
  <2> QED
    BY <2>2, <2>4, <2>5, <2>6
<1> QED
  BY <1>3, <1>4

-----------------------------------------------------------------------------
(* Gain and black level.                                                   *)

(* The least gain of a conversion gain is one the sensor has.               *)
LEMMA LeastGains ==
  ASSUME NEW d, DriverOK(d), NEW v
  PROVE  LeastGain(d, v) \in {0, d.highGain} /\ LeastGain(d, v) \in 0..d.maxGain
  BY DEF DriverOK, LeastGain

(* set_analogue_gain keeps the gain within its range, and writes a change.  *)
LEMMA PutGainEffect ==
  ASSUME NEW p, Shape(p), p.c.minGain \in {0, p.d.highGain}, NEW v \in Int
  PROVE  LET q == PutGain(p, v)
         IN  /\ GainOnly(p, q) /\ GainOK(q)
             /\ q.c.minGain = p.c.minGain /\ q.c.conversion = p.c.conversion
             /\ q.r.conversion = p.r.conversion
             /\ p.on /\ p.r.gain = p.c.gain => q.r.gain = q.c.gain
  BY Numbers DEF PutGain, Write, Clamp, GainOK, GainOnly, SameMode, SameTiming, SameBlack,
       SameTrigger, Shape, CtlNames, RegNames

(* adjust_gain_range: the range is that of the conversion gain asked for,   *)
(* and the gain at its lower end.                                           *)
LEMMA AdjustGainEffect ==
  ASSUME NEW p, Shape(p), NEW v
  PROVE  LET q == AdjustGainRange(p, v)
         IN  /\ GainOnly(p, q) /\ GainOK(q)
             /\ q.c.minGain = LeastGain(p.d, v) /\ q.c.conversion = p.c.conversion
             /\ q.r.conversion = p.r.conversion
             /\ p.on /\ p.r.gain = p.c.gain => q.r.gain = q.c.gain
<1> DEFINE s == [p EXCEPT !.c.minGain = LeastGain(p.d, v)]
<1>1. /\ Shape(s) /\ GainOnly(p, s) /\ s.c.minGain = LeastGain(p.d, v)
      /\ s.c.conversion = p.c.conversion /\ s.c.gain = p.c.gain /\ s.r = p.r
      /\ s.on = p.on /\ s.d = p.d
  BY DEF GainOnly, SameMode, SameTiming, SameBlack, SameTrigger, Shape, CtlNames
<1>2. AdjustGainRange(p, v) = PutGain(s, LeastGain(p.d, v))
  BY DEF AdjustGainRange
<1> HIDE DEF s
<1>3. LeastGain(p.d, v) \in {0, p.d.highGain} /\ LeastGain(p.d, v) \in Int
  BY LeastGains, Numbers DEF Shape
<1>4. PICK g \in Int : g = LeastGain(p.d, v)
  BY <1>3
<1>5. LET q == PutGain(s, g)
      IN  /\ GainOnly(s, q) /\ GainOK(q)
          /\ q.c.minGain = s.c.minGain /\ q.c.conversion = s.c.conversion
          /\ q.r.conversion = s.r.conversion
          /\ s.on /\ s.r.gain = s.c.gain => q.r.gain = q.c.gain
  BY <1>1, <1>3, <1>4, PutGainEffect
<1>6. GainOnly(p, PutGain(s, g))
  BY <1>1, <1>5 DEF GainOnly, SameMode, SameTiming, SameBlack, SameTrigger
<1> QED
  BY <1>1, <1>2, <1>4, <1>5, <1>6

(* set_conversion_gain: and the mode of conversion is written.              *)
LEMMA SetConversionEffect ==
  ASSUME NEW p, Shape(p), NEW v
  PROVE  LET q == SetConversion(p, v)
         IN  /\ GainOnly(p, q) /\ GainOK(q)
             /\ q.c.minGain = LeastGain(p.d, v) /\ q.c.conversion = p.c.conversion
             /\ p.on => q.r.conversion = v
             /\ p.on /\ p.r.gain = p.c.gain => q.r.gain = q.c.gain
<1> DEFINE s == AdjustGainRange(p, v)
<1>1. /\ GainOnly(p, s) /\ GainOK(s)
      /\ s.c.minGain = LeastGain(p.d, v) /\ s.c.conversion = p.c.conversion
      /\ p.on /\ p.r.gain = p.c.gain => s.r.gain = s.c.gain
  BY AdjustGainEffect
<1>2. SetConversion(p, v) = Write(s, "conversion", v)
  BY DEF SetConversion
<1> HIDE DEF s
<1>3. /\ GainOnly(s, Write(s, "conversion", v)) /\ Write(s, "conversion", v).c = s.c
      /\ Write(s, "conversion", v).r.gain = s.r.gain
      /\ s.on => Write(s, "conversion", v).r.conversion = v
  BY <1>1 DEF Write, GainOnly, SameMode, SameTiming, SameBlack, SameTrigger, Shape, CtlNames,
       RegNames
<1> QED
  BY <1>1, <1>2, <1>3 DEF GainOK, GainOnly, SameMode, SameTiming, SameBlack, SameTrigger

(* The conversion gain control: the gain's range comes along.               *)
LEMMA PutConversionEffect ==
  ASSUME NEW p, Shape(p), GainOK(p), NEW v
  PROVE  LET q == PutConversion(p, v)
         IN  /\ GainOnly(p, q) /\ GainOK(q)
             /\ p.on /\ GainHeld(p) => GainHeld(q)
<1>1. CASE v = p.c.conversion
  BY <1>1 DEF PutConversion, GainOnly, SameMode, SameTiming, SameBlack, SameTrigger
<1>2. CASE v # p.c.conversion
  <2> DEFINE s == SetConversion(p, v)
             q == [s EXCEPT !.c.conversion = v]
  <2>1. /\ GainOnly(p, s) /\ GainOK(s) /\ s.c.minGain = LeastGain(p.d, v)
        /\ p.on => s.r.conversion = v
        /\ p.on /\ p.r.gain = p.c.gain => s.r.gain = s.c.gain
    BY SetConversionEffect
  <2>2. PutConversion(p, v) = q
    BY <1>2 DEF PutConversion
  <2> HIDE DEF s
  <2>3. /\ Shape(q) /\ GainOnly(s, q) /\ q.c.conversion = v /\ q.c.gain = s.c.gain
        /\ q.c.minGain = s.c.minGain /\ q.r = s.r /\ q.d = s.d
    BY <2>1 DEF GainOnly, SameMode, SameTiming, SameBlack, SameTrigger, Shape, CtlNames
  <2> HIDE DEF q
  <2>4. GainOnly(p, q) /\ GainOK(q)
    BY <2>1, <2>3 DEF GainOK, GainOnly, SameMode, SameTiming, SameBlack, SameTrigger
  <2>5. p.on /\ GainHeld(p) => GainHeld(q)
    BY <2>1, <2>3 DEF GainHeld, GainOnly, SameMode
  <2> QED
    BY <2>2, <2>4, <2>5
<1> QED
  BY <1>1, <1>2

(* set_blklvl writes it in the units of the code.                           *)
LEMMA WriteBlackEffect ==
  ASSUME NEW p, Shape(p)
  PROVE  LET q == WriteBlack(p)
         IN  BlackOnly(p, q) /\ q.c.black = p.c.black /\ (p.on => BlackHeld(q))
<1>1. PICK b : b = Units(p.c.black, p.d.black[p.f].unit)
  OBVIOUS
<1>2. WriteBlack(p) = Write(p, "black", Units(p.c.black, p.d.black[p.f].unit))
  BY Zenon DEF WriteBlack, Units
<1>3. PICK q : q = Write(p, "black", b)
  OBVIOUS
<1>4. /\ BlackOnly(p, q) /\ q.c = p.c /\ q.d = p.d /\ q.f = p.f
      /\ p.on => q.r.black = b
  BY <1>3 DEF Write, BlackOnly, SameMode, SameTiming, SameGain, SameTrigger, Shape, CtlNames,
       RegNames
<1>5. Units(q.c.black, q.d.black[q.f].unit) = b
  BY <1>1, <1>4
<1>6. WriteBlack(p) = q
  BY <1>1, <1>2, <1>3
<1> QED
  BY <1>4, <1>5, <1>6 DEF BlackHeld

(* The black level: a change is written in the units of the code.           *)
LEMMA PutBlackEffect ==
  ASSUME NEW p, Shape(p), NEW v
  PROVE  LET q == PutBlack(p, v)
         IN  /\ BlackOnly(p, q)
             /\ p.on /\ BlackHeld(p) => BlackHeld(q)
<1>1. PICK b : b = Clamp(v, 0, p.d.black[p.f].max)
  OBVIOUS
<1>2. CASE b = p.c.black
  <2>1. PutBlack(p, v) = p
    BY <1>1, <1>2 DEF PutBlack
  <2> QED
    BY <2>1 DEF BlackOnly, SameMode, SameTiming, SameGain, SameTrigger
<1>3. CASE b # p.c.black
  <2> DEFINE s == [p EXCEPT !.c.black = b]
  <2>1. /\ Shape(s) /\ BlackOnly(p, s) /\ s.c.black = b /\ s.on = p.on
        /\ s.d = p.d /\ s.f = p.f
    BY DEF BlackOnly, SameMode, SameTiming, SameGain, SameTrigger, Shape, CtlNames
  <2>2. PutBlack(p, v) = WriteBlack(s)
    BY <1>1, <1>3 DEF PutBlack
  <2> HIDE DEF s
  <2>3. BlackOnly(s, WriteBlack(s)) /\ (s.on => BlackHeld(WriteBlack(s)))
    BY <2>1, WriteBlackEffect
  <2> QED
    BY <2>1, <2>2, <2>3 DEF BlackOnly, SameMode, SameTiming, SameGain, SameTrigger
<1> QED
  BY <1>2, <1>3

-----------------------------------------------------------------------------
(* A new mode, and the start of a stream.                                  *)

\* What set_limits asks of the controls it starts from: those of another mode,
\* or the ones init_controls makes.
Bare(p) == ExposureOK(p) /\ p.c.rate \in Int /\ GainOK(p) /\ TriggerOK(p)

(* set_limits brings the controls into the ranges of a mode, whatever the   *)
(* ranges were before.                                                      *)
LEMMA SetLimitsEffect ==
  ASSUME NEW p, Shape(p), Bare(p)
  PROVE  SameMode(p, SetLimits(p)) /\ ControlsOK(SetLimits(p))
<1> DEFINE v == PutVblank(p, p.m.delta)
           q == [v EXCEPT !.c.length = p.m.frame]
           r == PutRate(q, q.c.rate)
           b == PutBlack(r, r.c.black)
           c == PutBlack(b, p.d.black[p.f].default)
           e == PutRate(c, MaxRate(c.m))
<1>1. SetLimits(p) = e
  <2>1. r.d = p.d /\ r.f = p.f => SetLimits(p) = e
    BY DEF SetLimits
  <2>2. TimingOnly(p, v) /\ ExposureOK(v) /\ v.c.rate = p.c.rate /\ v.c.vblank = p.m.delta
    BY PutVblankEffect, Numbers DEF Bare
  <2>3. Shape(q) /\ q.d = p.d /\ q.f = p.f /\ ExposureOK(q) /\ q.c.rate \in Int
        /\ q.c.vblank \in Int /\ q.c.vblank >= q.m.delta
    BY <2>2, Numbers DEF Bare, TimingOnly, SameMode, Shape, CtlNames, ExposureOK
  <2> HIDE DEF q
  <2>4. TimingOnly(q, r)
    BY <2>3, PutRateEffect
  <2> QED
    BY <2>1, <2>3, <2>4 DEF TimingOnly, SameMode
<1>2. TimingOnly(p, v) /\ ExposureOK(v) /\ v.c.rate = p.c.rate /\ v.c.vblank = p.m.delta
  BY PutVblankEffect, Numbers DEF Bare
<1> HIDE DEF v
<1>3. /\ TimingOnly(p, q) /\ ExposureOK(q) /\ q.c.rate \in Int
      /\ q.c.vblank \in Int /\ q.c.vblank >= q.m.delta
  BY <1>2, Numbers DEF Bare, TimingOnly, SameMode, SameGain, SameBlack, SameTrigger, Shape,
       CtlNames, ExposureOK
<1> HIDE DEF q
<1>4. TimingOnly(q, r) /\ RateOK(r) /\ ExposureOK(r)
  BY <1>3, PutRateEffect DEF TimingOnly, SameMode
<1> HIDE DEF r
<1>5. BlackOnly(r, b)
  BY <1>4, PutBlackEffect DEF TimingOnly, SameMode
<1> HIDE DEF b
<1>6. BlackOnly(b, c)
  BY <1>5, PutBlackEffect DEF BlackOnly, SameMode
<1> HIDE DEF c
<1>7. Shape(c) /\ ExposureOK(c) /\ RateOK(c) /\ MaxRate(c.m) \in Int
  BY <1>4, <1>5, <1>6, HighestRate
     DEF BlackOnly, SameMode, SameTiming, ExposureOK, RateOK, TimingOnly, Shape
<1>8. TimingOnly(c, e) /\ RateOK(e) /\ ExposureOK(e)
  BY <1>7, PutRateEffect DEF RateOK
<1> HIDE DEF e
<1>9. SameMode(p, e) /\ SameGain(p, e) /\ SameTrigger(p, e)
  BY <1>3, <1>4, <1>5, <1>6, <1>8 DEF TimingOnly, BlackOnly, SameMode, SameGain, SameTrigger
<1>10. GainOK(e) /\ TriggerOK(e)
  BY <1>9 DEF Bare, GainOK, TriggerOK, SameMode, SameGain, SameTrigger
<1> QED
  BY <1>1, <1>8, <1>9, <1>10 DEF ControlsOK

(* set_mode writes the tables of the mode and the trigger registers.        *)
LEMMA SetModeEffect ==
  ASSUME NEW p, Shape(p)
  PROVE  LET q == SetMode(p)
         IN  /\ TriggerOnly(p, q) /\ q.c = p.c
             /\ p.on => /\ q.r.tables = q.m.tables
                        /\ q.r.trigger = Triggering(q.d, q.c.op, q.c.sync).register
<1>1. PICK t : t = Triggering(p.d, p.c.op, p.c.sync)
  OBVIOUS
<1>2. PICK a : a = Write(p, "tables", p.m.tables)
  OBVIOUS
<1>3. TriggerOnly(p, a) /\ a.c = p.c /\ (p.on => a.r.tables = a.m.tables)
  BY <1>2 DEF Write, TriggerOnly, SameMode, SameTiming, SameGain, SameBlack, Shape, RegNames
<1>4. PICK b : b = Write(a, "trigger", t.register)
  OBVIOUS
<1>5. /\ TriggerOnly(a, b) /\ b.c = a.c /\ b.r.tables = a.r.tables
      /\ a.on => b.r.trigger = t.register
  BY <1>3, <1>4 DEF Write, TriggerOnly, SameMode, SameTiming, SameGain, SameBlack, Shape, RegNames
<1>6. PICK q : q = Write(b, "vint", t.vint)
  OBVIOUS
<1>7. /\ TriggerOnly(b, q) /\ q.c = b.c
      /\ q.r.tables = b.r.tables /\ q.r.trigger = b.r.trigger
  BY <1>5, <1>6 DEF Write, TriggerOnly, SameMode, SameTiming, SameGain, SameBlack, Shape, RegNames
<1>8. SetMode(p) = q
  BY <1>1, <1>2, <1>4, <1>6 DEF SetMode
<1>9. TriggerOnly(p, q) /\ q.c = p.c /\ q.d = p.d /\ q.m = p.m
  BY <1>3, <1>5, <1>7 DEF TriggerOnly, SameMode, SameTiming, SameGain, SameBlack
<1>10. p.on => q.r.tables = q.m.tables /\ q.r.trigger = t.register
  BY <1>3, <1>5, <1>7, <1>9 DEF TriggerOnly, SameMode
<1> QED
  BY <1>1, <1>8, <1>9, <1>10

(* set_operation_mode and set_sync_mode: the pin and EXTMODE are those of   *)
(* the controls; a shutter mode that gives way leaves the trigger register  *)
(* as set_mode has written it.                                              *)
LEMMA SetUpTriggersEffect ==
  ASSUME NEW p, Shape(p), TriggerOK(p)
  PROVE  LET q == SetUpTriggers(p)
         IN  /\ TriggerOnly(p, q) /\ TriggerOK(q) /\ q.c.op = p.c.op
             /\ q.r.tables = p.r.tables /\ q.r.trigger = p.r.trigger
             /\ p.on => q.r.xmaster = q.c.op /\ q.r.extmode = q.d.extmode[q.c.sync]
             /\ p.r.trigger = Triggering(p.d, p.c.op, p.c.sync).register
                  => q.r.trigger = Triggering(q.d, q.c.op, q.c.sync).register
<1>1. PICK t : t = Triggering(p.d, p.c.op, p.c.sync).taken
  OBVIOUS
<1>2. /\ t \in Syncs(p.d)
      /\ Triggering(p.d, p.c.op, t).register = Triggering(p.d, p.c.op, p.c.sync).register
  BY <1>1 DEF TriggerOK, Shape, DriverOK, TriggersOK
<1> DEFINE s == [p EXCEPT !.c.sync = t]
<1>3. /\ Shape(s) /\ TriggerOnly(p, s) /\ s.c.sync = t /\ s.c.op = p.c.op
      /\ s.r = p.r /\ s.on = p.on /\ s.d = p.d
  BY DEF TriggerOnly, SameMode, SameTiming, SameGain, SameBlack, Shape, CtlNames
<1>4. SetUpTriggers(p) = Write(Write(s, "xmaster", s.c.op), "extmode", p.d.extmode[s.c.sync])
  BY <1>1 DEF SetUpTriggers
<1> HIDE DEF s
<1>5. PICK x : x = p.d.extmode[s.c.sync]
  OBVIOUS
<1>6. PICK q : q = Write(Write(s, "xmaster", s.c.op), "extmode", x)
  OBVIOUS
<1>7. /\ TriggerOnly(s, q) /\ q.c = s.c /\ q.d = s.d
      /\ q.r.tables = s.r.tables /\ q.r.trigger = s.r.trigger
      /\ s.on => q.r.xmaster = s.c.op /\ q.r.extmode = x
  BY <1>3, <1>6 DEF Write, TriggerOnly, SameMode, SameTiming, SameGain, SameBlack, Shape, CtlNames,
       RegNames
<1>8. TriggerOnly(p, q)
  BY <1>3, <1>7 DEF TriggerOnly, SameMode, SameTiming, SameGain, SameBlack
<1>9. SetUpTriggers(p) = q
  BY <1>4, <1>5, <1>6
<1> QED
  BY <1>2, <1>3, <1>5, <1>7, <1>8, <1>9 DEF TriggerOK

(* The shutter, written as the frame is.                                    *)
LEMMA WriteShutterEffect ==
  ASSUME NEW p, Shape(p)
  PROVE  LET q == WriteShutter(p)
         IN  /\ TimingOnly(p, q) /\ q.c = p.c
             /\ p.on => q.r.shutter = q.c.vblank + q.m.height - q.c.exposure
  BY DEF WriteShutter, Write, TimingOnly, SameMode, SameGain, SameBlack, SameTrigger, Shape,
       CtlNames, RegNames

\* The stages of start_streaming, one by one.
AfterMode(p) == SetMode(p)
AfterExposure(p) == WriteShutter(AdjustExposureRange(AfterMode(p)))
AfterRate(p) == SetFrameRate(AfterExposure(p), AfterExposure(p).c.rate)
AfterBlack(p) == WriteBlack(SetUpTriggers(AfterRate(p)))
AfterGain(p) == Write(AfterBlack(p), "gain", AfterBlack(p).c.gain)
AfterConversion(p) == SetConversion(AfterGain(p), AfterGain(p).c.conversion)
Started(p) == Write(AfterConversion(p), "xmsta", AfterMode(p).c.op)

Stages(p) == {p, AfterMode(p), AfterExposure(p), AfterRate(p), AfterBlack(p), AfterGain(p),
              AfterConversion(p), Started(p)}

(* Two, five and one stage make eight.                                      *)
LEMMA JoinedStages ==
  ASSUME NEW S, NEW a \in S, NEW b \in S, NEW c \in S, NEW d \in S, NEW e \in S, NEW f \in S,
         NEW g \in S, NEW h \in S
  PROVE  LET s == <<a, b>> \o <<c, d, e, f, g>> \o <<h>>
         IN  Len(s) = 8 /\ s[8] = h /\ \A k \in 1..8 : s[k] \in S
<1>1. <<a, b>> \in Seq(S) /\ Len(<<a, b>>) = 2
  OBVIOUS
<1>2. <<c, d, e, f, g>> \in Seq(S) /\ Len(<<c, d, e, f, g>>) = 5
  OBVIOUS
<1>3. <<h>> \in Seq(S) /\ Len(<<h>>) = 1 /\ <<h>>[1] = h
  OBVIOUS
<1>4. /\ <<a, b>> \o <<c, d, e, f, g>> \in Seq(S)
      /\ Len(<<a, b>> \o <<c, d, e, f, g>>) = 7
  BY <1>1, <1>2
<1>5. PICK x \in Seq(S) : x = <<a, b>> \o <<c, d, e, f, g>>
  BY <1>4, Zenon
<1>6. Len(x) = 7
  BY <1>4, <1>5, Zenon
<1>7. PICK w \in Seq(S) : w = <<h>>
  BY <1>3, Zenon
<1>8. Len(w) = 1 /\ w[1] = h
  BY <1>3, <1>7, Zenon
<1>9. x \o w \in Seq(S) /\ Len(x \o w) = Len(x) + Len(w)
  OBVIOUS
<1>10. Len(x \o w) = 8
  BY <1>6, <1>8, <1>9
<1>11. 8 \in 1..Len(x) + Len(w)
  BY <1>6, <1>8
<1>12. (x \o w)[8] = IF 8 <= Len(x) THEN x[8] ELSE w[8 - Len(x)]
  BY <1>11, ConcatProperties
<1>13. (x \o w)[8] = h
  BY <1>6, <1>8, <1>12
<1>14. \A k \in 1..8 : (x \o w)[k] \in S
  BY <1>9, <1>10
<1> QED
  BY <1>5, <1>7, <1>10, <1>13, <1>14, Zenon

(* They are the elements of the sequence that start_streaming goes through. *)
LEMMA StagesOfStart ==
  ASSUME NEW p
  PROVE  /\ Whole(StartStreaming(p)) = Started(p)
         /\ Len(StartStreaming(p)) = 8
         /\ \A k \in 1..8 : StartStreaming(p)[k] \in Stages(p)
<1>1. SetUpControls(AfterMode(p)) =
        <<AfterExposure(p), AfterRate(p), AfterBlack(p), AfterGain(p), AfterConversion(p)>>
  BY DEF SetUpControls, AfterExposure, AfterRate, AfterBlack, AfterGain, AfterConversion
<1>2. StartStreaming(p) =
        <<p, AfterMode(p)>>
        \o <<AfterExposure(p), AfterRate(p), AfterBlack(p), AfterGain(p), AfterConversion(p)>>
        \o <<Started(p)>>
  <2>1. SetUpControls(AfterMode(p))[Len(SetUpControls(AfterMode(p)))] = AfterConversion(p)
    BY <1>1
  <2>2. StartStreaming(p) =
          <<p, AfterMode(p)>> \o SetUpControls(AfterMode(p))
          \o <<Write(SetUpControls(AfterMode(p))[Len(SetUpControls(AfterMode(p)))], "xmsta",
                     AfterMode(p).c.op)>>
    BY Zenon DEF StartStreaming, AfterMode
  <2> QED
    BY <1>1, <2>1, <2>2 DEF Started
<1>3. /\ p \in Stages(p) /\ AfterMode(p) \in Stages(p) /\ AfterExposure(p) \in Stages(p)
      /\ AfterRate(p) \in Stages(p) /\ AfterBlack(p) \in Stages(p)
      /\ AfterGain(p) \in Stages(p) /\ AfterConversion(p) \in Stages(p)
      /\ Started(p) \in Stages(p)
  BY DEF Stages
<1>4. LET s == <<p, AfterMode(p)>>
                \o <<AfterExposure(p), AfterRate(p), AfterBlack(p), AfterGain(p),
                     AfterConversion(p)>>
                \o <<Started(p)>>
      IN  Len(s) = 8 /\ s[8] = Started(p) /\ \A k \in 1..8 : s[k] \in Stages(p)
  BY <1>3, JoinedStages
<1>5. /\ Len(StartStreaming(p)) = 8 /\ StartStreaming(p)[8] = Started(p)
      /\ \A k \in 1..8 : StartStreaming(p)[k] \in Stages(p)
  BY <1>2, <1>4, Zenon
<1> QED
  BY <1>5, Zenon DEF Whole

\* Driver and mode of p, and controls in their ranges.
Sound(p, q) == SameMode(p, q) /\ ControlsOK(q)

(* A cascade of one group leaves the ranges of the others.                  *)
LEMMA GroupsApart ==
  ASSUME NEW p, Shape(p), ControlsOK(p), NEW q, SameMode(p, q)
  PROVE  /\ SameTiming(p, q) => RateOK(q) /\ ExposureOK(q)
         /\ SameGain(p, q) => GainOK(q)
         /\ SameTrigger(p, q) => TriggerOK(q)
  BY DEF ControlsOK, RateOK, ExposureOK, GainOK, TriggerOK, SameMode, SameTiming, SameGain,
       SameTrigger

(* And what the registers of the others hold.                               *)
LEMMA HeldApart ==
  ASSUME NEW p, NEW q, SameMode(p, q)
  PROVE  /\ SameTiming(p, q) /\ TimingHeld(p) => TimingHeld(q)
         /\ SameGain(p, q) /\ GainHeld(p) => GainHeld(q)
         /\ SameBlack(p, q) /\ BlackHeld(p) => BlackHeld(q)
         /\ SameTrigger(p, q) /\ TriggerHeld(p) => TriggerHeld(q)
<1>1. SameTiming(p, q) /\ TimingHeld(p) => TimingHeld(q)
  BY DEF SameMode, SameTiming, TimingHeld
<1>2. SameGain(p, q) /\ GainHeld(p) => GainHeld(q)
  BY DEF SameMode, SameGain, GainHeld
<1>3. SameBlack(p, q) /\ BlackHeld(p) => BlackHeld(q)
  BY DEF SameMode, SameBlack, BlackHeld
<1>4. SameTrigger(p, q) /\ TriggerHeld(p) => TriggerHeld(q)
  BY DEF SameMode, SameTrigger, TriggerHeld
<1> QED
  BY <1>1, <1>2, <1>3, <1>4


(* What follows from soundness, and that it chains.                         *)
LEMMA SoundSteps ==
  ASSUME NEW p, NEW q, Sound(p, q)
  PROVE  /\ Shape(q) /\ ControlsOK(q) /\ RateOK(q) /\ ExposureOK(q) /\ GainOK(q) /\ TriggerOK(q)
         /\ q.on = p.on
         /\ \A r : Sound(q, r) => Sound(p, r)
         /\ \A r : SameMode(q, r) => SameMode(p, r)
  BY DEF Sound, SameMode, ControlsOK

(* start_streaming, stage by stage: the controls stay in their ranges, and  *)
(* when it is through, the registers hold what they say.                    *)
LEMMA StartTiming ==
  ASSUME NEW p, Shape(p), ControlsOK(p)
  PROVE  LET a == AfterMode(p)
             q == AfterRate(p)
         IN  /\ Sound(p, a) /\ a.c = p.c
             /\ Sound(p, AfterExposure(p)) /\ Sound(p, q)
             /\ p.on => /\ a.r.tables = a.m.tables
                        /\ a.r.trigger = Triggering(a.d, a.c.op, a.c.sync).register
             /\ SameTrigger(a, q)
             /\ p.on => TimingHeld(q)
             /\ p.on /\ q.c.exposure # p.c.exposure
                  => \/ q.r.shutter = q.c.vblank + q.m.height - q.c.exposure
                     \/ ~Fitted(p) /\ q.r.shutter = p.c.vblank + p.m.height - q.c.exposure
<1> DEFINE a == AfterMode(p)
           s == AdjustExposureRange(a)
           b == WriteShutter(s)
           q == SetFrameRate(b, b.c.rate)
<1>1. /\ TriggerOnly(p, a) /\ a.c = p.c
      /\ p.on => /\ a.r.tables = a.m.tables
                 /\ a.r.trigger = Triggering(a.d, a.c.op, a.c.sync).register
  BY SetModeEffect DEF AfterMode
<1>2. b = AfterExposure(p) /\ q = AfterRate(p)
  BY DEF AfterExposure, AfterRate
<1> HIDE DEF a
<1>3. Sound(p, a)
  BY <1>1 DEF TriggerOnly, Sound, ControlsOK, RateOK, ExposureOK, GainOK, TriggerOK, SameMode,
       SameTiming, SameGain
<1>4. /\ TimingOnly(a, s) /\ ExposureOK(s) /\ RateOK(s) /\ Fitted(s)
      /\ s.c.vblank = a.c.vblank
      /\ Fitted(p) => s.c.exposure = p.c.exposure
  <2>1. /\ Shape(a) /\ ExposureOK(a) /\ a.c.vblank \in Int /\ a.c.vblank >= a.m.delta
        /\ RateOK(a)
    BY <1>3, SoundSteps DEF RateOK
  <2>2. LET t == AdjustExposureRange(a)
        IN  /\ TimingOnly(a, t)
            /\ t.c.rate = a.c.rate /\ t.c.vblank = a.c.vblank
            /\ t.c.maxExposure = t.c.vblank + t.m.height - t.m.shutter
            /\ ExposureOK(t) /\ t.c.exposure <= t.c.maxExposure
            /\ a.c.exposure <= a.c.vblank + a.m.height - a.m.shutter
                 => t.c.exposure = a.c.exposure
    BY <2>1, AdjustEffect
  <2> HIDE DEF s
  <2>3. TimingOnly(a, s) /\ ExposureOK(s) /\ Fitted(s) /\ s.c.vblank = a.c.vblank
        /\ s.c.rate = a.c.rate
    BY <2>2 DEF Fitted, s
  <2>4. RateOK(s)
    BY <2>1, <2>3 DEF RateOK, TimingOnly, SameMode
  <2>5. Fitted(p) => s.c.exposure = p.c.exposure
    BY <2>2, <1>1 DEF Fitted, s, TriggerOnly, SameMode
  <2> QED
    BY <2>3, <2>4, <2>5
<1> HIDE DEF s
<1>5. /\ TimingOnly(s, b) /\ b.c = s.c
      /\ s.on => b.r.shutter = b.c.vblank + b.m.height - b.c.exposure
  BY <1>4, WriteShutterEffect DEF TimingOnly, SameMode
<1> HIDE DEF b
<1>6. ExposureOK(b) /\ RateOK(b) /\ Fitted(b) /\ Shape(b)
  BY <1>4, <1>5 DEF TimingOnly, SameMode, ExposureOK, RateOK, Fitted
<1>7. /\ TimingOnly(b, q) /\ ExposureOK(q)
      /\ q.c.rate = b.c.rate
      /\ b.on => q.r.vmax = q.c.length
      /\ q.c.length \in Int /\ q.c.length >= q.m.frame
      /\ q.c.vblank \in Int /\ q.c.vblank >= q.m.delta
      /\ q.c.length = q.c.vblank + q.m.height
      /\ Fitted(q) /\ ShutterFollows(b, q)
  <2>1. b.c.rate \in 1..MaxRate(b.m)
    BY <1>6 DEF RateOK
  <2> QED
    BY <1>6, <2>1, SetFrameRateEffect
<1> HIDE DEF q
<1>8. RateOK(q)
  BY <1>6, <1>7 DEF RateOK, TimingOnly, SameMode
<1>9. Sound(p, b)
  BY <1>1, <1>3, <1>4, <1>5, <1>6 DEF Sound, ControlsOK, GainOK, TriggerOK, TriggerOnly,
       TimingOnly, SameMode, SameGain, SameTrigger
<1>10. Sound(p, q)
  BY <1>7, <1>8, <1>9 DEF Sound, ControlsOK, GainOK, TriggerOK, TimingOnly, SameMode, SameGain,
       SameTrigger
<1>11. SameTrigger(a, q)
  BY <1>4, <1>5, <1>7 DEF TimingOnly, SameTrigger
<1>12. p.on => b.on /\ s.on
  BY <1>9, <1>5 DEF Sound, SameMode, TimingOnly
<1>13. ASSUME p.on PROVE TimingHeld(q)
  <2>1. b.r.shutter \in Int /\ b.r.shutter >= b.m.shutter
    BY <1>5, <1>6, <1>12, <1>13, Numbers DEF Fitted, ExposureOK, RateOK
  <2>2. q.r.shutter \in Int /\ q.r.shutter >= q.m.shutter
    BY <2>1, <1>6, <1>7, <1>12, <1>13, ShutterBounded DEF TimingOnly
  <2> QED
    BY <1>7, <1>12, <1>13, <2>2, Numbers DEF TimingHeld, Fitted, TimingOnly, SameMode
<1>14. ASSUME p.on, q.c.exposure # p.c.exposure
       PROVE  \/ q.r.shutter = q.c.vblank + q.m.height - q.c.exposure
              \/ ~Fitted(p) /\ q.r.shutter = p.c.vblank + p.m.height - q.c.exposure
  <2>1. CASE q.c.exposure # b.c.exposure
    BY <2>1, <1>7, <1>12, <1>14 DEF ShutterFollows
  <2>2. CASE q.c.exposure = b.c.exposure
    <3>1. ~Fitted(p)
      BY <2>2, <1>4, <1>5, <1>14
    <3>2. q.r.shutter = b.c.vblank + b.m.height - b.c.exposure
      BY <2>2, <1>5, <1>7, <1>12, <1>14 DEF ShutterFollows
    <3>3. b.c.vblank = p.c.vblank /\ b.m = p.m
      BY <1>1, <1>4, <1>5, <1>9 DEF Sound, SameMode
    <3> QED
      BY <2>2, <3>1, <3>2, <3>3
  <2> QED
    BY <2>1, <2>2
<1> QED
  BY <1>1, <1>2, <1>3, <1>9, <1>10, <1>11, <1>13, <1>14 DEF a

(* set_operation_mode, set_sync_mode and set_blklvl.                        *)
LEMMA StartTriggers ==
  ASSUME NEW p, Shape(p), ControlsOK(p)
  PROVE  LET a == AfterMode(p)
             r == AfterRate(p)
             q == AfterBlack(p)
         IN  /\ Sound(p, q) /\ SameTiming(r, q) /\ q.c.op = p.c.op
             /\ p.on => /\ BlackHeld(q)
                        /\ q.r.tables = q.m.tables
                        /\ q.r.xmaster = q.c.op /\ q.r.extmode = q.d.extmode[q.c.sync]
                        /\ q.r.trigger = Triggering(q.d, q.c.op, q.c.sync).register
<1> DEFINE a == AfterMode(p)
           r == AfterRate(p)
           s == SetUpTriggers(r)
           q == WriteBlack(s)
<1>1. /\ Sound(p, a) /\ a.c = p.c /\ Sound(p, r) /\ SameTrigger(a, r)
      /\ p.on => /\ a.r.tables = a.m.tables
                 /\ a.r.trigger = Triggering(a.d, a.c.op, a.c.sync).register
  BY StartTiming
<1>2. AfterBlack(p) = q
  BY DEF AfterBlack
<1> HIDE DEF a, r
<1>3. Shape(r) /\ TriggerOK(r)
  BY <1>1, SoundSteps
<1>4. /\ TriggerOnly(r, s) /\ TriggerOK(s) /\ s.c.op = r.c.op
      /\ s.r.tables = r.r.tables
      /\ r.on => s.r.xmaster = s.c.op /\ s.r.extmode = s.d.extmode[s.c.sync]
      /\ r.r.trigger = Triggering(r.d, r.c.op, r.c.sync).register
           => s.r.trigger = Triggering(s.d, s.c.op, s.c.sync).register
  BY <1>3, SetUpTriggersEffect
<1> HIDE DEF s
<1>5. BlackOnly(s, q) /\ (s.on => BlackHeld(q))
  BY <1>4, WriteBlackEffect DEF TriggerOnly, SameMode
<1> HIDE DEF q
<1>6. SameMode(p, s) /\ SameMode(p, q) /\ SameMode(r, q) /\ SameMode(p, r) /\ SameMode(p, a)
  BY <1>1, <1>4, <1>5 DEF Sound, TriggerOnly, BlackOnly, SameMode
<1>7. SameTiming(r, q) /\ SameGain(r, q) /\ q.c.op = p.c.op
  BY <1>1, <1>4, <1>5 DEF TriggerOnly, BlackOnly, SameTiming, SameGain, SameTrigger
<1>8. TriggerOK(q)
  BY <1>4, <1>5 DEF BlackOnly, TriggerOK, SameMode, SameTrigger
<1>9. ControlsOK(q)
  BY <1>1, <1>3, <1>6, <1>7, <1>8, GroupsApart DEF Sound, ControlsOK
<1>10. s.d = a.d /\ s.m = a.m /\ q.d = s.d /\ q.m = s.m /\ r.d = a.d
       /\ r.on = p.on /\ s.on = p.on
  BY <1>5, <1>6 DEF SameMode, BlackOnly
<1>11. PICK x : x = Triggering(a.d, a.c.op, a.c.sync).register
  OBVIOUS
<1>12. Triggering(r.d, r.c.op, r.c.sync).register = x
  BY <1>1, <1>10, <1>11 DEF SameTrigger
<1>13. ASSUME p.on
       PROVE  s.r.trigger = Triggering(s.d, s.c.op, s.c.sync).register /\ s.r.tables = s.m.tables
  BY <1>1, <1>4, <1>10, <1>11, <1>12, <1>13 DEF SameTrigger
<1>14. ASSUME p.on
       PROVE  /\ q.r.tables = q.m.tables
              /\ q.r.xmaster = q.c.op /\ q.r.extmode = q.d.extmode[q.c.sync]
              /\ q.r.trigger = Triggering(q.d, q.c.op, q.c.sync).register
  BY <1>4, <1>5, <1>10, <1>13, <1>14 DEF BlackOnly, SameTrigger
<1> QED
  BY <1>2, <1>5, <1>6, <1>7, <1>9, <1>10, <1>14 DEF Sound, r

(* The gain, the conversion gain and XMSTA.                                 *)
LEMMA StartGains ==
  ASSUME NEW p, Shape(p), ControlsOK(p)
  PROVE  /\ Sound(p, AfterGain(p)) /\ Sound(p, AfterConversion(p)) /\ Sound(p, Started(p))
         /\ SameTiming(AfterRate(p), Started(p))
         /\ p.on => Held(Started(p))
<1> DEFINE r == AfterRate(p)
           b == AfterBlack(p)
           g == Write(b, "gain", b.c.gain)
           v == SetConversion(g, g.c.conversion)
           q == Write(v, "xmsta", AfterMode(p).c.op)
<1>1. /\ Sound(p, b) /\ SameTiming(r, b) /\ b.c.op = p.c.op /\ SameMode(p, r)
      /\ AfterMode(p).c.op = p.c.op
      /\ p.on => /\ BlackHeld(b) /\ TimingHeld(r)
                 /\ b.r.tables = b.m.tables
                 /\ b.r.xmaster = b.c.op /\ b.r.extmode = b.d.extmode[b.c.sync]
                 /\ b.r.trigger = Triggering(b.d, b.c.op, b.c.sync).register
  BY StartTriggers, StartTiming DEF Sound
<1>2. AfterGain(p) = g /\ AfterConversion(p) = v /\ Started(p) = q
  BY DEF AfterGain, AfterConversion, Started
<1> HIDE DEF b, r
<1>3. Shape(b) /\ ControlsOK(b) /\ b.on = p.on
  BY <1>1, SoundSteps
<1>4. GainOnly(b, g) /\ g.c = b.c /\ (b.on => g.r.gain = g.c.gain)
  BY <1>3 DEF Write, GainOnly, SameMode, SameTiming, SameBlack, SameTrigger, Shape, RegNames
<1> HIDE DEF g
<1>5. Sound(b, g)
  BY <1>3, <1>4, GroupsApart DEF GainOnly, Sound, ControlsOK, GainOK, SameMode
<1>6. /\ GainOnly(g, v) /\ GainOK(v)
      /\ v.c.minGain = LeastGain(g.d, g.c.conversion) /\ v.c.conversion = g.c.conversion
      /\ g.on => v.r.conversion = g.c.conversion
      /\ g.on /\ g.r.gain = g.c.gain => v.r.gain = v.c.gain
  BY <1>4, SetConversionEffect DEF GainOnly, SameMode
<1> HIDE DEF v
<1>7. Sound(g, v)
  BY <1>5, <1>6, SoundSteps, GroupsApart DEF GainOnly, Sound, ControlsOK
<1>8. /\ SameMode(v, q) /\ q.c = v.c /\ q.r.gain = v.r.gain /\ q.r.conversion = v.r.conversion
      /\ SameTiming(v, q) /\ SameGain(v, q) /\ SameBlack(v, q)
      /\ q.r.tables = v.r.tables /\ q.r.trigger = v.r.trigger
      /\ q.r.xmaster = v.r.xmaster /\ q.r.extmode = v.r.extmode
      /\ v.on => q.r.xmsta = p.c.op
  BY <1>1, <1>7 DEF Write, Sound, SameMode, SameTiming, SameGain, SameBlack, Shape, RegNames
<1> HIDE DEF q
<1>9. ControlsOK(q)
  BY <1>7, <1>8 DEF Sound, ControlsOK, RateOK, ExposureOK, GainOK, TriggerOK, SameMode
<1>10. Sound(p, g) /\ Sound(p, v) /\ Sound(p, q)
  BY <1>1, <1>5, <1>7, <1>8, <1>9, SoundSteps DEF Sound
<1>11. SameTiming(r, q)
  BY <1>1, <1>4, <1>6, <1>8 DEF GainOnly, SameTiming
<1>12. SameMode(r, q) /\ SameMode(b, q) /\ SameMode(b, v) /\ g.on = p.on /\ v.on = p.on
       /\ v.d = g.d
  BY <1>1, <1>5, <1>7, <1>10 DEF Sound, SameMode
<1>13. ASSUME p.on PROVE Held(q)
  <2>1. TimingHeld(q)
    BY <1>1, <1>11, <1>12, <1>13, HeldApart
  <2>2. BlackHeld(q)
    <3>1. SameBlack(b, q)
      BY <1>4, <1>6, <1>8 DEF GainOnly, SameBlack
    <3> QED
      BY <1>1, <1>12, <1>13, <3>1, HeldApart
  <2>3. GainHeld(q)
    BY <1>3, <1>4, <1>6, <1>8, <1>12, <1>13 DEF GainHeld, SameMode
  <2>4. TriggerHeld(q)
    <3>1. /\ q.r.tables = b.r.tables /\ q.r.trigger = b.r.trigger
          /\ q.r.xmaster = b.r.xmaster /\ q.r.extmode = b.r.extmode
          /\ q.c.op = b.c.op /\ q.c.sync = b.c.sync /\ q.d = b.d /\ q.m = b.m
      BY <1>4, <1>6, <1>8, <1>12 DEF GainOnly, SameTrigger, SameMode
    <3> QED
      BY <1>1, <1>8, <1>12, <1>13, <3>1 DEF TriggerHeld
  <2> QED
    BY <2>1, <2>2, <2>3, <2>4 DEF Held
<1> QED
  BY <1>2, <1>10, <1>11, <1>13 DEF r

(* Wherever start_streaming stops, the controls are in their ranges; a      *)
(* start that goes through leaves the registers as the controls say.        *)
LEMMA StartEffect ==
  ASSUME NEW p, Shape(p), ControlsOK(p)
  PROVE  LET q == Whole(StartStreaming(p))
         IN  /\ \A k \in 1..Len(StartStreaming(p)) - 1 : Sound(p, StartStreaming(p)[k])
             /\ Sound(p, q)
             /\ p.on => Held(q)
             /\ p.on /\ q.c.exposure # p.c.exposure
                  => \/ q.r.shutter = q.c.vblank + q.m.height - q.c.exposure
                     \/ ~Fitted(p) /\ q.r.shutter = p.c.vblank + p.m.height - q.c.exposure
<1> DEFINE q == Started(p)
           r == AfterRate(p)
<1>1. Sound(p, p)
  BY DEF Sound, SameMode
<1>2. /\ Sound(p, AfterMode(p)) /\ Sound(p, AfterExposure(p)) /\ Sound(p, r)
      /\ p.on /\ r.c.exposure # p.c.exposure
           => \/ r.r.shutter = r.c.vblank + r.m.height - r.c.exposure
              \/ ~Fitted(p) /\ r.r.shutter = p.c.vblank + p.m.height - r.c.exposure
  BY StartTiming
<1>3. /\ Sound(p, AfterBlack(p)) /\ Sound(p, AfterGain(p)) /\ Sound(p, AfterConversion(p))
      /\ Sound(p, q) /\ SameTiming(r, q) /\ (p.on => Held(q))
  BY StartTriggers, StartGains
<1>4. \A s \in Stages(p) : Sound(p, s)
  BY <1>1, <1>2, <1>3 DEF Stages
<1>5. /\ Whole(StartStreaming(p)) = q /\ Len(StartStreaming(p)) = 8
      /\ \A k \in 1..8 : StartStreaming(p)[k] \in Stages(p)
  BY StagesOfStart
<1> HIDE DEF q, r
<1>6. /\ r.c.vblank = q.c.vblank /\ r.c.exposure = q.c.exposure
      /\ r.r.shutter = q.r.shutter /\ r.m = q.m
  BY <1>2, <1>3 DEF SameTiming, Sound, SameMode
<1>7. p.on /\ q.c.exposure # p.c.exposure
        => \/ q.r.shutter = q.c.vblank + q.m.height - q.c.exposure
           \/ ~Fitted(p) /\ q.r.shutter = p.c.vblank + p.m.height - q.c.exposure
  BY <1>2, <1>6
<1>8. \A k \in 1..Len(StartStreaming(p)) - 1 : Sound(p, StartStreaming(p)[k])
  BY <1>4, <1>5
<1> QED
  BY <1>3, <1>5, <1>7, <1>8

(* stop_streaming leaves the controls alone.                                *)
LEMMA StopEffect ==
  ASSUME NEW p, Shape(p)
  PROVE  LET q == StopStreaming(p) IN SameMode(p, q) /\ q.c = p.c
  BY DEF StopStreaming, Write, SameMode, Shape, RegNames

-----------------------------------------------------------------------------
(* The calls of a client.                                                  *)

(* set_ctrl of one control: the ranges are kept, what a faithful stream     *)
(* holds is kept, and a change of the exposure reaches the shutter.         *)
LEMMA PutEffect ==
  ASSUME NEW p, Shape(p), ControlsOK(p), NEW name \in Settable, NEW v,
         name \in {"exposure", "rate", "gain"} => v \in Int
  PROVE  LET q == Put(p, name, v)
         IN  /\ Sound(p, q)
             /\ p.on /\ Held(p) => Held(q)
             /\ ShutterFollows(p, q)
<1> DEFINE Good(q) == Sound(p, q) /\ (p.on /\ Held(p) => Held(q)) /\ ShutterFollows(p, q)
<1>1. RateOK(p) /\ ExposureOK(p) /\ GainOK(p) /\ TriggerOK(p) /\ p.c.vblank \in Int
      /\ p.c.vblank >= p.m.delta /\ p.c.minGain \in {0, p.d.highGain}
  BY DEF ControlsOK, RateOK, GainOK
<1>2. ASSUME NEW q, TimingOnly(p, q), RateOK(q), ExposureOK(q), ShutterFollows(p, q),
             p.on /\ TimingHeld(p) => TimingHeld(q)
      PROVE  Good(q)
  BY <1>2, GroupsApart, HeldApart DEF Sound, ControlsOK, TimingOnly, Held
<1>3. ASSUME NEW q, GainOnly(p, q), GainOK(q), p.on /\ GainHeld(p) => GainHeld(q)
      PROVE  Good(q)
  BY <1>3, GroupsApart, HeldApart DEF Sound, ControlsOK, GainOnly, Held, ShutterFollows, SameTiming
<1>4. ASSUME NEW q, BlackOnly(p, q), p.on /\ BlackHeld(p) => BlackHeld(q)
      PROVE  Good(q)
  BY <1>4, GroupsApart, HeldApart DEF Sound, ControlsOK, BlackOnly, Held, ShutterFollows, SameTiming
<1> HIDE DEF Good
<1>5. CASE name = "exposure"
  <2> DEFINE q == PutExposure(p, v)
  <2>1. /\ TimingOnly(p, q) /\ ExposureOK(q) /\ ShutterFollows(p, q)
        /\ q.c.rate = p.c.rate /\ q.c.vblank = p.c.vblank
    BY <1>1, <1>5, PutExposureEffect DEF ShutterFollows
  <2>2. p.on /\ TimingHeld(p) => TimingHeld(q)
    BY <1>1, <1>5, PutExposureHeld
  <2> HIDE DEF q
  <2>3. RateOK(q)
    BY <1>1, <2>1 DEF RateOK, TimingOnly, SameMode
  <2>4. Good(q)
    BY <1>2, <2>1, <2>2, <2>3
  <2>5. Put(p, name, v) = q
    BY <1>5 DEF Put, q
  <2> QED
    BY <2>4, <2>5 DEF Good
<1>6. CASE name = "rate"
  <2> DEFINE q == PutRate(p, v)
  <2>1. /\ TimingOnly(p, q) /\ RateOK(q) /\ ExposureOK(q) /\ ShutterFollows(p, q)
        /\ p.on /\ TimingHeld(p) => TimingHeld(q)
    BY <1>1, <1>6, PutRateEffect
  <2> HIDE DEF q
  <2>2. Good(q)
    BY <1>2, <2>1
  <2>3. Put(p, name, v) = q
    BY <1>6 DEF Put, q
  <2> QED
    BY <2>2, <2>3 DEF Good
<1>7. CASE name = "gain"
  <2> DEFINE q == PutGain(p, v)
  <2>1. /\ GainOnly(p, q) /\ GainOK(q)
        /\ q.c.minGain = p.c.minGain /\ q.c.conversion = p.c.conversion
        /\ q.r.conversion = p.r.conversion
        /\ p.on /\ p.r.gain = p.c.gain => q.r.gain = q.c.gain
    BY <1>1, <1>7, PutGainEffect
  <2> HIDE DEF q
  <2>2. p.on /\ GainHeld(p) => GainHeld(q)
    BY <2>1 DEF GainHeld, GainOnly, SameMode
  <2>3. Good(q)
    BY <1>3, <2>1, <2>2
  <2>4. Put(p, name, v) = q
    BY <1>7 DEF Put, q
  <2> QED
    BY <2>3, <2>4 DEF Good
<1>8. CASE name = "conversion"
  <2> DEFINE q == PutConversion(p, v)
  <2>1. GainOnly(p, q) /\ GainOK(q) /\ (p.on /\ GainHeld(p) => GainHeld(q))
    BY <1>1, PutConversionEffect
  <2> HIDE DEF q
  <2>2. Good(q)
    BY <1>3, <2>1
  <2>3. Put(p, name, v) = q
    BY <1>8 DEF Put, q
  <2> QED
    BY <2>2, <2>3 DEF Good
<1>9. CASE name = "black"
  <2> DEFINE q == PutBlack(p, v)
  <2>1. BlackOnly(p, q) /\ (p.on /\ BlackHeld(p) => BlackHeld(q))
    BY PutBlackEffect
  <2> HIDE DEF q
  <2>2. Good(q)
    BY <1>4, <2>1
  <2>3. Put(p, name, v) = q
    BY <1>9 DEF Put, q
  <2> QED
    BY <2>2, <2>3 DEF Good
<1> QED
  BY <1>5, <1>6, <1>7, <1>8, <1>9 DEF Settable

(* A set_ctrl that fails leaves what its cascade has done: the ranges are   *)
(* kept all the same.                                                       *)
LEMMA CascadeEffect ==
  ASSUME NEW p, Shape(p), ControlsOK(p), NEW name \in Settable, NEW v, name = "rate" => v \in Int
  PROVE  Sound(p, Cascade(p, name, v))
<1>1. CASE name = "rate"
  <2>1. MaxRate(p.m) \in Nat \ {0}
    BY HighestRate DEF Shape
  <2>2. PICK x \in 1..MaxRate(p.m) : x = Clamp(v, 1, MaxRate(p.m))
    BY <1>1, <2>1 DEF Clamp
  <2> DEFINE q == UpdateFrameRate(p, x)
  <2>3. /\ TimingOnly(p, q) /\ ExposureOK(q) /\ q.c.rate = p.c.rate
        /\ q.c.vblank \in Int /\ q.c.vblank >= q.m.delta
    BY UpdateFrameRateEffect DEF ControlsOK
  <2>4. Cascade(p, name, v) = q
    BY <1>1, <2>2 DEF Cascade
  <2> HIDE DEF q
  <2>5. RateOK(q)
    BY <2>3 DEF ControlsOK, RateOK, TimingOnly, SameMode
  <2> QED
    BY <2>3, <2>4, <2>5, GroupsApart DEF Sound, ControlsOK, TimingOnly
<1>2. CASE name = "conversion"
  <2> DEFINE q == AdjustGainRange(p, v)
  <2>1. GainOnly(p, q) /\ GainOK(q)
    BY AdjustGainEffect
  <2>2. Cascade(p, name, v) = q
    BY <1>2 DEF Cascade
  <2> HIDE DEF q
  <2> QED
    BY <2>1, <2>2, GroupsApart DEF Sound, ControlsOK, GainOnly
<1>3. CASE name \notin {"rate", "conversion"}
  <2>1. Cascade(p, name, v) = p
    BY <1>3 DEF Cascade, Settable
  <2> QED
    BY <2>1 DEF Sound, SameMode
<1> QED
  BY <1>1, <1>2, <1>3

-----------------------------------------------------------------------------
(* The format.                                                             *)

(* Numbers have a least one.                                                *)
LEMMA LeastNumber ==
  ASSUME NEW S, S \subseteq Nat, S # {}
  PROVE  \E m \in S : \A n \in S : m <= n
<1> DEFINE R == OpToRel(<, Nat)
<1>1. IsWellFoundedOn(R, Nat)
  BY NatLessThanWellFounded, Zenon
<1>2. \A m, n \in Nat : n < m => <<n, m>> \in R
  BY Zenon DEF OpToRel
<1> HIDE DEF R
<1>3. PICK m \in S : \A n \in S : ~(<<n, m>> \in R)
  BY <1>1, WFMin
<1>4. \A n \in S : ~(n < m)
  BY <1>2, <1>3
<1> QED
  BY <1>4

(* v4l2_find_nearest_size answers with a mode of the table, and with one of *)
(* the size asked for where there is one.                                   *)
LEMMA NearestEffect ==
  ASSUME NEW d, NEW table, TableOK(d, table), NEW w \in Nat, NEW h \in Nat
  PROVE  /\ \E i \in DOMAIN table : Nearest(table, w, h) = table[i]
         /\ (\E i \in DOMAIN table : table[i].width = w /\ table[i].height = h)
              => Nearest(table, w, h).width = w /\ Nearest(table, w, h).height = h
<1> DEFINE gap == [i \in DOMAIN table |->
                     Distance(table[i].width, w) + Distance(table[i].height, h)]
           First(i) == /\ \A j \in 1..i - 1 : gap[i] < gap[j]
                       /\ \A j \in DOMAIN table : gap[i] <= gap[j]
           c == CHOOSE i \in DOMAIN table : First(i)
<1>1. \A i \in DOMAIN table :
        /\ i \in Nat /\ table[i].width \in Nat /\ table[i].height \in Nat /\ gap[i] \in Nat
        /\ gap[i] = 0 <=> table[i].width = w /\ table[i].height = h
  <2>1. ASSUME NEW a \in Nat, NEW b \in Nat
        PROVE  Distance(a, b) \in Nat /\ (Distance(a, b) = 0 <=> a = b)
    BY DEF Distance
  <2>2. ASSUME NEW i \in DOMAIN table
        PROVE  i \in Nat /\ table[i].width \in Nat /\ table[i].height \in Nat
    BY DEF TableOK, ModeOK
  <2>3. ASSUME NEW i \in DOMAIN table
        PROVE  /\ gap[i] \in Nat
               /\ gap[i] = 0 <=> table[i].width = w /\ table[i].height = h
    <3>1. PICK x \in Nat : x = Distance(table[i].width, w)
      BY <2>1, <2>2
    <3>2. PICK y \in Nat : y = Distance(table[i].height, h)
      BY <2>1, <2>2
    <3>3. gap[i] = x + y
      BY <3>1, <3>2
    <3>4. (x = 0 <=> table[i].width = w) /\ (y = 0 <=> table[i].height = h)
      BY <2>1, <2>2, <3>1, <3>2
    <3> QED
      BY <3>3, <3>4
  <2> QED
    BY <2>2, <2>3
<1>2. DOMAIN table # {} /\ \A i \in DOMAIN table : \A j \in 1..i - 1 : j \in DOMAIN table
  <2>1. PICK n \in Nat \ {0} : DOMAIN table = 1..n
    BY Zenon DEF TableOK
  <2>2. ASSUME NEW i \in 1..n, NEW j \in 1..i - 1 PROVE j \in 1..n
    OBVIOUS
  <2> QED
    BY <2>1, <2>2
<1>3. Nearest(table, w, h) = table[c]
  BY Zenon DEF Nearest
<1> HIDE DEF gap
<1>4. PICK g \in {gap[i] : i \in DOMAIN table} : \A x \in {gap[i] : i \in DOMAIN table} : g <= x
  <2>1. {gap[i] : i \in DOMAIN table} \subseteq Nat /\ {gap[i] : i \in DOMAIN table} # {}
    BY <1>1, <1>2
  <2> QED
    BY <2>1, LeastNumber
<1>5. PICK i \in {j \in DOMAIN table : gap[j] = g} :
        \A j \in {j \in DOMAIN table : gap[j] = g} : i <= j
  <2>1. {j \in DOMAIN table : gap[j] = g} \subseteq Nat /\ {j \in DOMAIN table : gap[j] = g} # {}
    BY <1>1, <1>4
  <2> QED
    BY <2>1, LeastNumber
<1>6. First(i)
  <2>1. \A j \in DOMAIN table : gap[i] <= gap[j]
    BY <1>4, <1>5
  <2>2. ASSUME NEW j \in 1..i - 1 PROVE gap[i] < gap[j]
    <3>1. j \in DOMAIN table /\ j < i /\ gap[i] = g /\ g <= gap[j] /\ j \in Nat /\ i \in Nat
      BY <1>1, <1>2, <1>4, <1>5
    <3>2. gap[j] # g
      BY <1>5, <3>1
    <3> QED
      BY <1>1, <1>5, <3>1, <3>2
  <2> QED
    BY <2>1, <2>2
<1> HIDE DEF First
<1>7. c \in DOMAIN table /\ First(c)
  BY <1>5, <1>6
<1> HIDE DEF c
<1>8. ASSUME NEW k \in DOMAIN table, table[k].width = w, table[k].height = h
      PROVE  table[c].width = w /\ table[c].height = h
  <2>1. gap[k] = 0 /\ gap[c] <= gap[k] /\ gap[c] \in Nat
    BY <1>1, <1>7, <1>8 DEF First
  <2> QED
    BY <1>1, <1>7, <2>1
<1> QED
  BY <1>3, <1>7, <1>8

(* What the tables of the chip that is driven are assumed to be.            *)
LEMMA TablesOK ==
  ASSUME chip \in DOMAIN Drivers
  PROVE  /\ DriverOK(D)
         /\ \A i \in DOMAIN D.codes :
               /\ D.codes[i] \in DOMAIN D.declared
               /\ TableOK(D, D.modes[D.codes[i]])
               /\ \A k \in DOMAIN D.modes[D.codes[i]] : ModeOK(D, D.modes[D.codes[i]][k])
<1>1. DriverOK(D)
  BY DriversAssumption DEF D
<1>2. ASSUME NEW i \in DOMAIN D.codes
      PROVE  D.codes[i] \in DOMAIN D.declared /\ TableOK(D, D.modes[D.codes[i]])
  BY <1>1 DEF DriverOK, FormatsOK
<1>3. ASSUME NEW t, TableOK(D, t) PROVE \A k \in DOMAIN t : ModeOK(D, t[k])
  BY <1>3 DEF TableOK
<1> QED
  BY <1>1, <1>2, <1>3

(* get_format_code answers with a code that is offered.                     *)
LEMMA FormatCodeOffered ==
  ASSUME chip \in DOMAIN Drivers, NEW f
  PROVE  \E i \in DOMAIN D.codes : FormatCode(f) = D.codes[i]
<1>1. 1 \in DOMAIN D.codes
  BY TablesOK DEF DriverOK, FormatsOK
<1> QED
  BY <1>1 DEF FormatCode

(* The sizes a client may ask for are numbers.                              *)
LEMMA SizesAreNumbers ==
  ASSUME chip \in DOMAIN Drivers, NEW s \in Sizes
  PROVE  s.w \in Nat /\ s.h \in Nat
<1>1. PICK f \in DOMAIN D.declared : \E j \in DOMAIN D.declared[f] :
        s = [w |-> D.declared[f][j].width, h |-> D.declared[f][j].height]
  BY DEF Sizes
<1> PICK j \in DOMAIN D.declared[f] :
        s = [w |-> D.declared[f][j].width, h |-> D.declared[f][j].height]
  BY <1>1
<1>2. D.declared[f][j].width \in Nat /\ D.declared[f][j].height \in Nat
  BY TablesOK DEF DriverOK, FormatsOK
<1> QED
  BY <1>1, <1>2

(* set_pad_format: the code and the size that are stored are the ones that  *)
(* were asked for, also where a mode that is kept keeps the code.           *)
LEMMA SetPadFormatKeeps ==
  ASSUME chip \in DOMAIN Drivers, FormatInv, NEW f, NEW w \in Nat, NEW h \in Nat,
         SetPadFormat(f, w, h)
  PROVE  FormatInv' /\ chip' = chip
<1> DEFINE g == FormatCode(f)
           m == Nearest(D.modes[g], w, h)
<1>1. PICK i \in DOMAIN D.codes : g = D.codes[i]
  BY FormatCodeOffered
<1>2. /\ chip' = chip
      /\ asked' = [code |-> g, width |-> w, height |-> h]
      /\ m = mode => mode' = mode /\ code' = code
      /\ m # mode => mode' = m /\ code' = g
  BY DEF SetPadFormat, get_mode_table, power
<1> HIDE DEF g
<1>3. D' = D
  BY <1>2 DEF D
<1>4. /\ \E k \in DOMAIN D.modes[g] : m = D.modes[g][k]
      /\ (\E k \in DOMAIN D.modes[g] : D.modes[g][k].width = w /\ D.modes[g][k].height = h)
           => m.width = w /\ m.height = h
  BY <1>1, TablesOK, NearestEffect
<1> HIDE DEF m
<1>5. code' = g /\ mode' = m
  <2>1. CASE m = mode
    <3>1. PICK k \in DOMAIN D.modes[D.codes[i]] : mode = D.modes[D.codes[i]][k]
      BY <1>1, <1>4, <2>1
    <3>2. PICK j \in DOMAIN D.codes : code = D.codes[j]
      BY DEF FormatInv
    <3>3. PICK l \in DOMAIN D.modes[D.codes[j]] : mode = D.modes[D.codes[j]][l]
      BY <3>2 DEF FormatInv
    <3>4. \A x \in DOMAIN D.modes[D.codes[i]], y \in DOMAIN D.modes[D.codes[j]] :
             D.modes[D.codes[i]][x] = D.modes[D.codes[j]][y] => D.codes[i] = D.codes[j]
      BY TablesOK DEF DriverOK, FormatsOK
    <3>5. D.codes[i] = D.codes[j]
      <4>1. D.modes[D.codes[i]][k] = D.modes[D.codes[j]][l]
        BY <3>1, <3>3, Zenon
      <4> QED
        BY <3>4, <4>1, Zenon
    <3>6. code = g
      BY <1>1, <3>2, <3>5
    <3> QED
      BY <1>2, <2>1, <3>6
  <2> QED
    BY <1>2, <2>1
<1>6. ASSUME NEW k \in DOMAIN D.declared[g],
             D.declared[g][k].width = w, D.declared[g][k].height = h
      PROVE  m.width = w /\ m.height = h
  <2>1. \E j \in DOMAIN D.modes[g] :
           /\ D.modes[g][j].width = D.declared[g][k].width
           /\ D.modes[g][j].height = D.declared[g][k].height
    BY <1>1, TablesOK DEF DriverOK, FormatsOK
  <2> QED
    BY <1>4, <1>6, <2>1
<1>7. FormatKept'
  BY <1>2, <1>3, <1>5, <1>6 DEF FormatKept
<1> QED
  BY <1>1, <1>2, <1>3, <1>4, <1>5, <1>7 DEF FormatInv

-----------------------------------------------------------------------------
(* The steps.                                                              *)

(* The driver, the mode and the controls of a reachable state.              *)
LEMMA NowSound ==
  ASSUME IInv
  PROVE  /\ Now.d = D /\ Now.m = mode /\ Now.f = code /\ Now.c = ctl /\ Now.r = reg
         /\ Now.on <=> holds > 0
         /\ Shape(Now) /\ ControlsOK(Now) /\ DriverOK(D)
<1>1. DriverOK(D) /\ ModeOK(D, mode)
  BY TablesOK DEF IInv, FormatInv
<1> QED
  BY <1>1 DEF IInv, SensorInv, Now, Shape

\* The same, but for the power: the sensor as start_streaming finds it.
Powered == [Now EXCEPT !.on = TRUE]

(* It has the driver, the mode and the controls of the state.               *)
LEMMA PoweredSound ==
  ASSUME IInv
  PROVE  /\ Powered.d = D /\ Powered.m = mode /\ Powered.f = code
         /\ Powered.c = ctl /\ Powered.r = reg /\ Powered.on = TRUE
         /\ Shape(Powered) /\ ControlsOK(Powered)
<1>1. /\ Powered.d = D /\ Powered.m = mode /\ Powered.f = code
      /\ Powered.c = ctl /\ Powered.r = reg /\ Powered.on = TRUE
  BY NowSound DEF Powered, Now
<1>2. DOMAIN Powered = DOMAIN Now
  BY DEF Powered
<1> QED
  BY <1>1, <1>2, NowSound
     DEF Shape, ControlsOK, RateOK, ExposureOK, GainOK, TriggerOK

(* The invariants speak of no more of a record than these.                  *)
LEMMA SameRecords ==
  ASSUME NEW p, NEW q, q.d = p.d, q.m = p.m, q.f = p.f, q.c = p.c, q.r = p.r
  PROVE  (ControlsOK(p) => ControlsOK(q)) /\ (Held(p) => Held(q))
<1>1. ControlsOK(p) => ControlsOK(q)
  BY DEF ControlsOK, RateOK, ExposureOK, GainOK, TriggerOK
<1>2. Held(p) => Held(q)
  BY DEF Held, TimingHeld, GainHeld, BlackHeld, TriggerHeld
<1> QED
  BY <1>1, <1>2

(* A step that leaves what a cascade has made of the controls and registers. *)
LEMMA BecomeKeeps ==
  ASSUME NEW q, Shape(q), ControlsOK(q), q.d = D', q.m = mode', q.f = code', Become(q),
         streaming' /\ faithful' => Held(q)
  PROVE  SensorInv'
<1>1. ctl' = q.c /\ reg' = q.r
  BY DEF Become
<1>2. PICK n : n = Now'
  OBVIOUS
<1>3. n.d = q.d /\ n.m = q.m /\ n.f = q.f /\ n.c = q.c /\ n.r = q.r
  BY <1>1, <1>2 DEF Now
<1>4. ControlsOK(n) /\ (Held(q) => Held(n))
  BY <1>3, SameRecords
<1>5. ControlsOK(Now') /\ (Held(q) => Held(Now'))
  BY <1>2, <1>4
<1>6. DOMAIN ctl' = CtlNames /\ DOMAIN reg' = RegNames
  BY <1>1 DEF Shape
<1> QED
  BY <1>5, <1>6 DEF SensorInv

(* What a client's calls leave alone.                                       *)
LEMMA CallFrame ==
  /\ (\E name \in Settable : set_control(name)) \/ set_triggering \/ set_pad_format
       => /\ UNCHANGED <<chip, streaming, grabbed, holds, pm, locked, faults>>
          /\ calls < MaxCalls /\ calls' = calls + 1
          /\ faithful' \in {faithful, faithful /\ ~streaming}
  /\ write_hold_reg
       => /\ UNCHANGED <<chip, streaming, grabbed, holds, pm, locked>>
          /\ calls < MaxCalls /\ calls' = calls + 1 /\ faults < MaxFaults
          /\ faults' = faults + 1 /\ faithful' = FALSE
  /\ (\E name \in Settable : set_control(name)) \/ set_triggering \/ write_hold_reg
       => UNCHANGED <<mode, code, asked>>
<1>1. ASSUME NEW name, NEW v, SetControl(name, v)
      PROVE  /\ UNCHANGED <<chip, streaming, grabbed, holds, pm, locked, faults>>
             /\ calls < MaxCalls /\ calls' = calls + 1 /\ faithful' = faithful
             /\ UNCHANGED <<mode, code, asked>>
  BY <1>1, Zenon DEF SetControl, Call, power
<1>2. ASSUME NEW op, NEW sync, SetOperation(op, sync)
      PROVE  /\ UNCHANGED <<chip, streaming, grabbed, holds, pm, locked, faults>>
             /\ calls < MaxCalls /\ calls' = calls + 1 /\ faithful' = faithful
             /\ UNCHANGED <<mode, code, asked>>
  BY <1>2, Zenon DEF SetOperation, Call, power
<1>3. ASSUME NEW f, NEW w, NEW h, SetPadFormat(f, w, h)
      PROVE  /\ UNCHANGED <<chip, streaming, grabbed, holds, pm, locked, faults>>
             /\ calls < MaxCalls /\ calls' = calls + 1 /\ faithful' = (faithful /\ ~streaming)
  BY <1>3, Zenon DEF SetPadFormat, Call, power
<1>4. ASSUME NEW name, NEW v, WriteLost(name, v) \/ WriteFails(name, v)
      PROVE  /\ UNCHANGED <<chip, streaming, grabbed, holds, pm, locked>>
             /\ calls < MaxCalls /\ calls' = calls + 1 /\ faults < MaxFaults
             /\ faults' = faults + 1 /\ faithful' = FALSE
             /\ UNCHANGED <<mode, code, asked>>
  BY <1>4, Zenon DEF WriteLost, WriteFails, Call, power
<1> QED
  BY <1>1, <1>2, <1>3, <1>4, Zenon
     DEF set_control, set_triggering, set_pad_format, write_hold_reg

(* What a step leaves alone.                                                *)
LEMMA StepFrame ==
  ASSUME [Next]_vars
  PROVE  chip' = chip /\ (set_pad_format \/ UNCHANGED <<mode, code, asked>>)
<1>1. CASE StreamOnWaits \/ StreamOn \/ StreamOnFails \/ StreamOff \/ RuntimeSuspendBegins
  BY <1>1, Zenon DEF StreamOnWaits, StreamOn, StreamOnFails, StreamOff, RuntimeSuspendBegins
<1>2. CASE PowerOff \/ SystemSleep \/ SystemSleepFails
  BY <1>2, Zenon DEF PowerOff, SystemSleep, SystemSleepFails, power
<1>3. CASE UNCHANGED vars
  BY <1>3, Zenon DEF vars, power
<1> QED
  BY <1>1, <1>2, <1>3, CallFrame, Zenon DEF Next

(* No step changes the driver, and only set_pad_format the format.          *)
LEMMA FormatStep ==
  ASSUME IInv, [Next]_vars
  PROVE  chip' = chip /\ D' = D /\ FormatInv'
<1>1. chip' = chip
  BY StepFrame
<1>2. D' = D
  BY <1>1 DEF D
<1>3. CASE set_pad_format
  <2>1. PICK f \in SomeCodes, s \in Sizes : SetPadFormat(f, s.w, s.h)
    BY <1>3 DEF set_pad_format
  <2>2. s.w \in Nat /\ s.h \in Nat
    BY SizesAreNumbers DEF IInv
  <2> QED
    BY <1>1, <1>2, <2>1, <2>2, SetPadFormatKeeps DEF IInv
<1>4. CASE UNCHANGED <<mode, code, asked>>
  BY <1>1, <1>2, <1>4 DEF IInv, FormatInv, FormatKept
<1>5. set_pad_format \/ UNCHANGED <<mode, code, asked>>
  BY StepFrame
<1> QED
  BY <1>1, <1>2, <1>3, <1>4, <1>5

(* The flags stay Boolean.                                                  *)
LEMMA FlagsStep ==
  ASSUME IInv, [Next]_vars
  PROVE  FlagsInv'
<1>1. FlagsInv
  BY DEF IInv
<1>2. CASE (\E name \in Settable : set_control(name)) \/ set_triggering \/ set_pad_format
  <2>1. streaming' = streaming /\ grabbed' = grabbed /\ locked' = locked
        /\ faithful' \in {faithful, faithful /\ ~streaming}
    BY <1>2, CallFrame, Zenon
  <2> QED
    BY <1>1, <2>1, Zenon DEF FlagsInv
<1>3. CASE write_hold_reg
  <2>1. streaming' = streaming /\ grabbed' = grabbed /\ locked' = locked /\ faithful' = FALSE
    BY <1>3, CallFrame, Zenon
  <2> QED
    BY <1>1, <2>1, Zenon DEF FlagsInv
<1>4. CASE StreamOnWaits \/ StreamOn \/ StreamOnFails
  BY <1>1, <1>4, Zenon DEF FlagsInv, StreamOnWaits, StreamOn, StreamOnFails
<1>5. CASE StreamOff \/ RuntimeSuspendBegins \/ PowerOff
  BY <1>1, <1>5, Zenon DEF FlagsInv, StreamOff, RuntimeSuspendBegins, PowerOff
<1>6. CASE SystemSleep \/ SystemSleepFails
  BY <1>1, <1>6, Zenon DEF FlagsInv, SystemSleep, SystemSleepFails, power
<1>7. CASE UNCHANGED vars
  BY <1>1, <1>7, Zenon DEF FlagsInv, vars, power
<1> QED
  BY <1>2, <1>3, <1>4, <1>5, <1>6, <1>7, Zenon DEF Next

(* Runtime PM and the stream: a sensor that streams is held, one that is    *)
(* suspended is not, and no more holds are lost than starts have failed.    *)
LEMMA PowerStep ==
  ASSUME IInv, [Next]_vars
  PROVE  PowerInv'
<1>1. MaxCalls \in Nat /\ MaxFaults \in Nat /\ PowerInv
  BY ClientsAssumption DEF IInv
<1> USE <1>1 DEF PowerInv
<1>2. CASE /\ UNCHANGED <<streaming, grabbed, holds, pm, locked, faults>>
           /\ calls < MaxCalls /\ calls' = calls + 1
  BY <1>2
<1>3. CASE /\ UNCHANGED <<streaming, grabbed, holds, pm, locked>>
           /\ calls < MaxCalls /\ calls' = calls + 1 /\ faults < MaxFaults
           /\ faults' = faults + 1
  BY <1>3
<1>4. CASE StreamOnWaits
  BY <1>4 DEF StreamOnWaits
<1>5. CASE StreamOn
  <2>1. /\ locked /\ pm' = "active" /\ locked' = FALSE /\ streaming' = TRUE /\ grabbed' = TRUE
        /\ holds' = holds + 1 /\ faithful' = TRUE /\ calls' = calls /\ faults' = faults
    BY <1>5, Zenon DEF StreamOn
  <2> QED
    BY <2>1
<1>6. CASE StreamOnFails
  <2>1. /\ faults < MaxFaults /\ pm' = "active" /\ locked /\ locked' = FALSE
        /\ faults' = faults + 1
        /\ UNCHANGED <<streaming, grabbed, holds, faithful, calls>>
    BY <1>6, Zenon DEF StreamOnFails
  <2> QED
    BY <2>1
<1>7. CASE StreamOff
  <2>1. /\ ~locked /\ streaming /\ streaming' = FALSE /\ grabbed' = FALSE /\ holds' = holds - 1
        /\ UNCHANGED <<pm, locked, faithful, calls, faults>>
    BY <1>7, Zenon DEF StreamOff
  <2> QED
    BY <2>1
<1>8. CASE RuntimeSuspendBegins
  BY <1>8 DEF RuntimeSuspendBegins
<1>9. CASE PowerOff
  <2>1. /\ pm = "suspending" /\ pm' = "suspended"
        /\ UNCHANGED <<streaming, grabbed, holds, locked, faithful, calls, faults>>
    BY <1>9, Zenon DEF PowerOff
  <2> QED
    BY <2>1
<1>10. CASE SystemSleep
  <2>1. faithful' = TRUE /\ UNCHANGED <<streaming, grabbed, holds, pm, locked, calls, faults>>
    BY <1>10, Zenon DEF SystemSleep, power
  <2> QED
    BY <2>1
<1>11. CASE SystemSleepFails
  <2>1. /\ faults < MaxFaults /\ streaming /\ streaming' = FALSE /\ faults' = faults + 1
        /\ UNCHANGED <<grabbed, holds, pm, locked, faithful, calls>>
    BY <1>11, Zenon DEF SystemSleepFails
  <2> QED
    BY <2>1
<1>12. CASE UNCHANGED vars
  BY <1>12 DEF vars, power
<1> QED
  BY <1>2, <1>3, <1>4, <1>5, <1>6, <1>7, <1>8, <1>9, <1>10, <1>11, <1>12, CallFrame DEF Next

(* The values a client may set are numbers where they have to be.           *)
LEMMA ValuesAreNumbers ==
  ASSUME NEW name \in Settable, NEW v \in Values(name)
  PROVE  name \in {"exposure", "rate", "gain"} => v \in Int
  BY ClientsAssumption DEF Values, Settable

(* A write of one register: nothing but it changes.                         *)
LEMMA RegisterWritten ==
  ASSUME NEW p, NEW q, Sound(p, q), NEW r \in RegNames, NEW x
  PROVE  Sound(p, [q EXCEPT !.r[r] = x])
<1> DEFINE n == [q EXCEPT !.r[r] = x]
<1>1. Shape(q) /\ ControlsOK(q) /\ SameMode(p, q)
  BY DEF Sound, SameMode
<1>2. /\ DOMAIN n = DOMAIN q /\ n.d = q.d /\ n.m = q.m /\ n.f = q.f /\ n.on = q.on /\ n.c = q.c
      /\ DOMAIN n.r = DOMAIN q.r
  BY <1>1 DEF Shape
<1> HIDE DEF n
<1>3. Shape(n) /\ SameMode(p, n) /\ ControlsOK(n)
  BY <1>1, <1>2 DEF Shape, SameMode, ControlsOK, RateOK, ExposureOK, GainOK, TriggerOK
<1> QED
  BY <1>3 DEF Sound, n

(* What a control writes.                                                   *)
LEMMA RegisterOfControl ==
  ASSUME NEW name \in Settable
  PROVE  RegisterOf[name] \in RegNames
  BY DEF RegisterOf, Settable, RegNames

(* The calls of a client keep the sensor's invariant.                       *)
LEMMA CallsKeepSensor ==
  ASSUME IInv,
         \/ \E name \in Settable : set_control(name)
         \/ set_triggering \/ write_hold_reg \/ set_pad_format
  PROVE  SensorInv'
<1>1. /\ Shape(Now) /\ ControlsOK(Now) /\ DriverOK(D) /\ chip \in DOMAIN Drivers
      /\ Now.d = D /\ Now.m = mode /\ Now.f = code /\ Now.c = ctl /\ Now.r = reg
      /\ Now.on <=> holds > 0
  BY NowSound DEF IInv
<1>2. streaming /\ faithful => Held(Now) /\ Now.on
  <2>1. streaming => holds > 0
    BY DEF IInv, PowerInv
  <2>2. streaming /\ faithful => Held(Now)
    BY DEF IInv, SensorInv
  <2> QED
    BY <1>1, <2>1, <2>2, Zenon
<1>3. UNCHANGED <<chip, streaming>> /\ D' = D
  BY CallFrame DEF D
<1>4. ASSUME NEW name \in Settable, set_control(name) PROVE SensorInv'
  <2>1. PICK v \in Values(name) : SetControl(name, v)
    BY <1>4 DEF set_control
  <2> DEFINE q == Put(Now, name, v)
  <2>2. Sound(Now, q) /\ (Now.on /\ Held(Now) => Held(q))
    BY <1>1, ValuesAreNumbers, PutEffect
  <2>3. Become(q) /\ mode' = mode /\ code' = code /\ faithful' = faithful
    BY <2>1, Zenon DEF SetControl
  <2> HIDE DEF q
  <2>4. Shape(q) /\ ControlsOK(q) /\ q.d = D' /\ q.m = mode' /\ q.f = code'
    BY <1>1, <1>3, <2>2, <2>3 DEF Sound, SameMode
  <2> QED
    BY <1>2, <1>3, <2>2, <2>3, <2>4, BecomeKeeps
<1>5. CASE set_triggering
  <2>1. PICK op \in {Master, Slave}, sync \in SyncModes : SetOperation(op, sync)
    BY <1>5 DEF set_triggering
  <2> DEFINE p == [Now EXCEPT !.c.op = op, !.c.sync = sync]
             q == Write(Write(p, "xmaster", op), "extmode", D.extmode[sync])
  <2>2. Become(q) /\ mode' = mode /\ code' = code /\ ~grabbed
    BY <2>1, Zenon DEF SetOperation
  <2>3. /\ Shape(p) /\ SameMode(Now, p) /\ SameTiming(Now, p) /\ SameGain(Now, p)
        /\ p.c.op = op /\ p.c.sync = sync
    BY <1>1 DEF Shape, SameMode, SameTiming, SameGain, CtlNames
  <2> HIDE DEF p
  <2>4. PICK x : x = D.extmode[sync]
    OBVIOUS
  <2>5. PICK n : n = Write(Write(p, "xmaster", op), "extmode", x)
    OBVIOUS
  <2>6. Shape(n) /\ n.d = p.d /\ n.m = p.m /\ n.f = p.f /\ n.c = p.c /\ n.on = p.on
    BY <2>3, <2>5 DEF Write, Shape, RegNames
  <2>7. q = n
    BY <2>4, <2>5
  <2> HIDE DEF q
  <2>8. Shape(q) /\ q.d = D' /\ q.m = mode' /\ q.f = code'
    BY <1>1, <1>3, <2>2, <2>3, <2>6, <2>7 DEF SameMode
  <2>9. ControlsOK(q)
    <3>1. RateOK(p) /\ ExposureOK(p) /\ GainOK(p)
      BY <1>1, <2>3, GroupsApart
    <3>2. TriggerOK(p)
      BY <1>1, <2>3 DEF TriggerOK, SyncModes, SameMode
    <3> QED
      BY <2>6, <2>7, <3>1, <3>2 DEF ControlsOK, RateOK, ExposureOK, GainOK, TriggerOK
  <2>10. ~streaming'
    BY <1>3, <2>2 DEF IInv, PowerInv
  <2> QED
    BY <2>2, <2>8, <2>9, <2>10, BecomeKeeps
<1>6. CASE write_hold_reg
  <2>1. PICK name \in Settable : \E v \in Values(name) : WriteLost(name, v) \/ WriteFails(name, v)
    BY <1>6 DEF write_hold_reg
  <2>2. PICK v \in Values(name) : WriteLost(name, v) \/ WriteFails(name, v)
    BY <2>1
  <2>3. /\ mode' = mode /\ code' = code /\ faithful' = FALSE
        /\ \/ Become([Put(Now, name, v) EXCEPT !.r[RegisterOf[name]] = reg[RegisterOf[name]]])
           \/ Become(Cascade(Now, name, v))
    BY <2>2, Zenon DEF WriteLost, WriteFails
  <2>4. Sound(Now, Put(Now, name, v)) /\ Sound(Now, Cascade(Now, name, v))
    BY <1>1, ValuesAreNumbers, PutEffect, CascadeEffect
  <2>5. Sound(Now, [Put(Now, name, v) EXCEPT !.r[RegisterOf[name]] = reg[RegisterOf[name]]])
    BY <2>4, RegisterOfControl, RegisterWritten
  <2>6. PICK q : Sound(Now, q) /\ Become(q)
    BY <2>3, <2>4, <2>5, Zenon
  <2>7. Shape(q) /\ ControlsOK(q) /\ q.d = D' /\ q.m = mode' /\ q.f = code'
    BY <1>1, <1>3, <2>3, <2>6 DEF Sound, SameMode
  <2> QED
    BY <2>3, <2>6, <2>7, BecomeKeeps
<1>7. CASE set_pad_format
  <2>1. PICK f \in SomeCodes, s \in Sizes : SetPadFormat(f, s.w, s.h)
    BY <1>7 DEF set_pad_format
  <2> DEFINE p == [d |-> D, m |-> mode', f |-> code', on |-> holds > 0, c |-> ctl, r |-> reg]
  <2>2. \/ UNCHANGED <<mode, code, ctl, reg>>
        \/ Become(SetLimits(p))
    BY <2>1 DEF SetPadFormat
  <2>3. ~(streaming' /\ faithful')
    BY <2>1, <1>3, Zenon DEF SetPadFormat
  <2>4. CASE UNCHANGED <<mode, code, ctl, reg>>
    <3>1. Become(Now) /\ Now.d = D' /\ Now.m = mode' /\ Now.f = code'
      BY <1>1, <1>3, <2>4 DEF Become
    <3> QED
      BY <1>1, <2>3, <3>1, BecomeKeeps
  <2>5. CASE Become(SetLimits(p))
    <3>1. ModeOK(D, mode')
      <4>1. FormatInv'
        BY <1>7, FormatStep DEF Next
      <4> QED
        BY <1>1, <1>3, <4>1, TablesOK DEF FormatInv
    <3>2. /\ Shape(p) /\ p.d = D /\ p.m = mode' /\ p.f = code' /\ p.c = Now.c
      BY <1>1, <3>1 DEF Shape
    <3> HIDE DEF p
    <3>3. Bare(p)
      BY <1>1, <3>2 DEF Bare, ControlsOK, RateOK, ExposureOK, GainOK, TriggerOK
    <3>4. SameMode(p, SetLimits(p)) /\ ControlsOK(SetLimits(p))
      BY <3>2, <3>3, SetLimitsEffect
    <3>5. PICK q : q = SetLimits(p)
      OBVIOUS
    <3>6. Shape(q) /\ ControlsOK(q) /\ q.d = D' /\ q.m = mode' /\ q.f = code' /\ Become(q)
      BY <1>3, <2>5, <3>2, <3>4, <3>5 DEF SameMode
    <3> QED
      BY <2>3, <3>6, BecomeKeeps
  <2> QED
    BY <2>2, <2>4, <2>5
<1> QED
  BY <1>4, <1>5, <1>6, <1>7

(* So do the stream, system sleep and runtime PM.                           *)
LEMMA StreamKeepsSensor ==
  ASSUME IInv,
         \/ StreamOnWaits \/ StreamOn \/ StreamOnFails \/ StreamOff
         \/ RuntimeSuspendBegins \/ PowerOff \/ SystemSleep \/ SystemSleepFails
  PROVE  SensorInv'
<1>1. /\ Shape(Now) /\ ControlsOK(Now)
      /\ Now.d = D /\ Now.m = mode /\ Now.f = code /\ Now.c = ctl /\ Now.r = reg
      /\ Now.on <=> holds > 0
  BY NowSound
<1>2. /\ Powered.d = D /\ Powered.m = mode /\ Powered.f = code /\ Powered.on = TRUE
      /\ Shape(Powered) /\ ControlsOK(Powered)
  BY PoweredSound
<1>3. /\ streaming => holds > 0
      /\ streaming /\ faithful => Held(Now)
  BY DEF IInv, PowerInv, SensorInv
<1>4. UNCHANGED <<chip, mode, code>>
  BY Zenon DEF StreamOnWaits, StreamOn, StreamOnFails, StreamOff, RuntimeSuspendBegins,
       PowerOff, SystemSleep, SystemSleepFails, power
<1>5. D' = D
  BY <1>4 DEF D
<1>6. ASSUME NEW p, p.d = D, p.m = mode, p.f = code, NEW q, Sound(p, q), Become(q),
             streaming' /\ faithful' => Held(q)
      PROVE  SensorInv'
  <2>1. Shape(q) /\ ControlsOK(q) /\ q.d = D' /\ q.m = mode' /\ q.f = code'
    BY <1>4, <1>5, <1>6 DEF Sound, SameMode
  <2> QED
    BY <1>6, <2>1, BecomeKeeps
<1>7. CASE StreamOnWaits \/ RuntimeSuspendBegins
  <2>1. UNCHANGED <<ctl, reg, streaming, faithful>>
    BY <1>7, Zenon DEF StreamOnWaits, RuntimeSuspendBegins
  <2>2. Become(Now) /\ Sound(Now, Now)
    BY <1>1, <2>1 DEF Become, Sound, SameMode
  <2> QED
    BY <1>1, <1>3, <1>6, <2>1, <2>2
<1>8. CASE StreamOn
  <2>1. Become(Whole(StartStreaming(Powered)))
    BY <1>8, Zenon DEF StreamOn, Powered
  <2>2. Sound(Powered, Whole(StartStreaming(Powered))) /\ Held(Whole(StartStreaming(Powered)))
    BY <1>2, StartEffect
  <2> QED
    BY <1>2, <1>6, <2>1, <2>2
<1>9. CASE StreamOnFails
  <2>1. /\ \E k \in 1..Len(StartStreaming(Powered)) - 1 : Become(StartStreaming(Powered)[k])
        /\ locked /\ streaming' = streaming
    BY <1>9, Zenon DEF StreamOnFails, Powered
  <2>2. PICK k \in 1..Len(StartStreaming(Powered)) - 1 : Become(StartStreaming(Powered)[k])
    BY <2>1
  <2>3. Sound(Powered, StartStreaming(Powered)[k])
    BY <1>2, StartEffect
  <2>4. ~streaming'
    BY <2>1 DEF IInv, PowerInv
  <2> QED
    BY <1>2, <1>6, <2>2, <2>3, <2>4
<1>10. CASE StreamOff
  <2>1. Become(StopStreaming(Now)) /\ ~streaming'
    BY <1>10, Zenon DEF StreamOff
  <2>2. Sound(Now, StopStreaming(Now))
    BY <1>1, StopEffect DEF Sound, SameMode, ControlsOK, RateOK, ExposureOK, GainOK, TriggerOK
  <2> QED
    BY <1>1, <1>6, <2>1, <2>2
<1>11. CASE PowerOff
  <2>1. /\ ctl' = ctl /\ reg' = [Blank EXCEPT !.xmaster = reg.xmaster]
        /\ pm = "suspending" /\ streaming' = streaming
    BY <1>11, Zenon DEF PowerOff
  <2>2. ~streaming'
    BY <2>1, <1>3 DEF IInv, PowerInv
  <2> DEFINE q == [Now EXCEPT !.r = reg']
  <2>3. /\ Shape(q) /\ SameMode(Now, q) /\ q.c = ctl /\ q.r = reg'
    BY <1>1, <2>1 DEF Shape, SameMode, Blank, RegNames
  <2>4. Become(q)
    BY <2>1, <2>3 DEF Become
  <2> HIDE DEF q
  <2>5. Sound(Now, q)
    BY <1>1, <2>3 DEF Sound, SameMode, ControlsOK, RateOK, ExposureOK, GainOK, TriggerOK
  <2> QED
    BY <1>1, <1>6, <2>2, <2>4, <2>5
<1>12. CASE SystemSleep
  <2> DEFINE p == StopStreaming(Now)
  <2>1. Become(Whole(StartStreaming(p))) /\ streaming
    BY <1>12, Zenon DEF SystemSleep
  <2>2. /\ Shape(p) /\ p.c = Now.c /\ p.d = D /\ p.m = mode /\ p.f = code /\ p.on = Now.on
    BY <1>1, StopEffect DEF SameMode
  <2>3. p.on
    BY <1>1, <1>3, <2>1, <2>2
  <2> HIDE DEF p
  <2>4. ControlsOK(p)
    BY <1>1, <2>2 DEF ControlsOK, RateOK, ExposureOK, GainOK, TriggerOK
  <2>5. Sound(p, Whole(StartStreaming(p))) /\ Held(Whole(StartStreaming(p)))
    BY <2>2, <2>3, <2>4, StartEffect
  <2> QED
    BY <1>6, <2>1, <2>2, <2>5
<1>13. CASE SystemSleepFails
  <2>1. /\ \E k \in 1..Len(StartStreaming(Now)) - 1 : Become(StopStreaming(StartStreaming(Now)[k]))
        /\ ~streaming'
    BY <1>13, Zenon DEF SystemSleepFails
  <2>2. PICK k \in 1..Len(StartStreaming(Now)) - 1 : Become(StopStreaming(StartStreaming(Now)[k]))
    BY <2>1
  <2>3. PICK s : s = StartStreaming(Now)[k]
    OBVIOUS
  <2>4. Sound(Now, s)
    BY <1>1, <2>3, StartEffect
  <2>5. Sound(Now, StopStreaming(s))
    BY <2>4, SoundSteps, StopEffect
       DEF Sound, SameMode, ControlsOK, RateOK, ExposureOK, GainOK, TriggerOK
  <2> QED
    BY <1>1, <1>6, <2>1, <2>2, <2>3, <2>5
<1> QED
  BY <1>7, <1>8, <1>9, <1>10, <1>11, <1>12, <1>13

(* Every step keeps the invariant.                                          *)
LEMMA InvStep ==
  ASSUME IInv, [Next]_vars
  PROVE  IInv'
<1>1. chip' = chip /\ FormatInv' /\ FlagsInv' /\ PowerInv'
  BY FormatStep, FlagsStep, PowerStep
<1>2. CASE UNCHANGED vars
  <2>1. UNCHANGED <<chip, mode, code, ctl, reg, streaming, faithful>>
    BY <1>2, Zenon DEF vars, power
  <2>2. /\ Shape(Now) /\ ControlsOK(Now)
        /\ Now.d = D' /\ Now.m = mode' /\ Now.f = code' /\ Now.c = ctl' /\ Now.r = reg'
    BY <2>1, NowSound DEF D
  <2>3. streaming' /\ faithful' => Held(Now)
    BY <2>1, Zenon DEF IInv, SensorInv
  <2>4. SensorInv'
    BY <2>2, <2>3, BecomeKeeps DEF Become
  <2> QED
    BY <1>1, <2>4, <2>1 DEF IInv
<1>3. CASE Next
  <2>1. SensorInv'
    BY <1>3, CallsKeepSensor, StreamKeepsSensor DEF Next
  <2> QED
    BY <1>1, <2>1 DEF IInv
<1> QED
  BY <1>2, <1>3

(* probe leaves the first mode of the first code, and the controls that     *)
(* set_limits makes for it.                                                 *)
LEMMA InvInit == ASSUME Init PROVE IInv
<1>1. /\ chip \in DOMAIN Drivers /\ code = D.codes[1] /\ mode = D.modes[code][1]
      /\ reg = Blank /\ streaming = FALSE /\ grabbed = FALSE /\ holds = 0
      /\ pm = "active" /\ locked = FALSE /\ faithful = TRUE /\ calls = 0 /\ faults = 0
      /\ asked = [code |-> code, width |-> mode.width, height |-> mode.height]
      /\ init_controls
  BY Zenon DEF Init
<1>2. 1 \in DOMAIN D.codes /\ 1 \in DOMAIN D.syncs /\ DriverOK(D)
  BY <1>1, TablesOK DEF DriverOK, FormatsOK, TriggersOK
<1>3. TableOK(D, D.modes[code])
  BY <1>1, <1>2, TablesOK
<1>4. 1 \in DOMAIN D.modes[code]
  BY <1>3 DEF TableOK
<1>5. ModeOK(D, mode)
  BY <1>1, <1>3, <1>4 DEF TableOK
<1>6. FormatInv
  BY <1>1, <1>2, <1>4 DEF FormatInv, FormatKept
<1>7. FlagsInv
  BY <1>1, Zenon DEF FlagsInv
<1>8. PowerInv
  BY <1>1, ClientsAssumption DEF PowerInv
<1>9. SensorInv
  <2> DEFINE p == [d |-> D, m |-> mode, f |-> code, on |-> FALSE,
                   c |-> FirstControls, r |-> Blank]
  <2>1. ctl = SetLimits(p).c
    BY <1>1, Zenon DEF init_controls
  <2>2. Shape(p) /\ p.d = D /\ p.m = mode /\ p.f = code /\ p.c = FirstControls
    BY <1>2, <1>5 DEF Shape, FirstControls, Blank, CtlNames, RegNames
  <2> HIDE DEF p
  <2>3. Bare(p)
    <3>1. D.syncs[1] \in Syncs(D)
      BY <1>2 DEF Syncs
    <3>2. /\ p.c.exposure = 255 /\ p.c.maxExposure = 255 /\ p.c.rate = 0 /\ p.c.gain = 0
          /\ p.c.minGain = 0 /\ p.c.op = Master /\ p.c.sync = D.syncs[1]
      <4>1. /\ FirstControls.exposure = 255 /\ FirstControls.maxExposure = 255
            /\ FirstControls.rate = 0 /\ FirstControls.gain = 0 /\ FirstControls.minGain = 0
            /\ FirstControls.op = Master /\ FirstControls.sync = D.syncs[1]
        BY DEF FirstControls
      <4> QED
        BY <2>2, <4>1, Zenon
    <3>3. TriggerOK(p)
      BY <2>2, <3>1, <3>2, Zenon DEF TriggerOK
    <3>4. p.d.minLines \in 1..255 /\ p.d.maxGain \in Nat
      BY <2>2, Numbers
    <3>5. ExposureOK(p) /\ p.c.rate \in Int
      BY <3>2, <3>4 DEF ExposureOK
    <3>6. GainOK(p)
      BY <3>2, <3>4 DEF GainOK
    <3> QED
      BY <3>3, <3>5, <3>6 DEF Bare
  <2>4. SameMode(p, SetLimits(p)) /\ ControlsOK(SetLimits(p))
    BY <2>2, <2>3, SetLimitsEffect
  <2>5. PICK q : q = SetLimits(p)
    OBVIOUS
  <2>6. Shape(q) /\ ControlsOK(q) /\ q.d = D /\ q.m = mode /\ q.c = ctl
    BY <2>1, <2>2, <2>4, <2>5 DEF SameMode
  <2>7. /\ Now.d = q.d /\ Now.m = q.m /\ Now.c = q.c
    BY <2>6 DEF Now
  <2>8. ControlsOK(Now)
    BY <2>6, <2>7 DEF ControlsOK, RateOK, ExposureOK, GainOK, TriggerOK
  <2> QED
    BY <1>1, <2>6, <2>8 DEF SensorInv, Shape, Blank, RegNames
<1> QED
  BY <1>1, <1>6, <1>7, <1>8, <1>9 DEF IInv

-----------------------------------------------------------------------------
(* The theorems.                                                           *)

(* What a driver knows of a sensor is consistent in every reachable state.  *)
THEOREM Invariance == Spec => []IInv
<1>1. Init => IInv
  BY InvInit
<1>2. IInv /\ [Next]_vars => IInv'
  BY InvStep
<1> QED
  BY <1>1, <1>2, PTL DEF Spec

(* The types of the tables, and the controls within their ranges:           *)
(* init_controls, set_limits and every set_ctrl.                            *)
THEOREM TypeCorrect == Spec => []TypeOK
<1>1. ASSUME IInv PROVE TypeOK
  <2>1. /\ Now.d = D /\ Now.c = ctl /\ ControlsOK(Now) /\ DriverOK(D)
    BY <1>1, NowSound
  <2>2. ctl.exposure >= D.minLines /\ ctl.gain \in ctl.minGain..D.maxGain
    BY <2>1 DEF ControlsOK, ExposureOK, GainOK
  <2>3. ctl.sync \in SyncModes /\ ctl.op \in {Master, Slave}
    BY <2>1 DEF ControlsOK, TriggerOK, SyncModes
  <2>4. {streaming, grabbed, locked, faithful} \subseteq BOOLEAN
    BY <1>1, Zenon DEF IInv, FlagsInv
  <2>5. holds \in 0..MaxFaults + 1 /\ pm \in {"active", "suspending", "suspended"}
        /\ calls \in 0..MaxCalls /\ faults \in 0..MaxFaults
    BY <1>1, ClientsAssumption DEF IInv, PowerInv
  <2>6. DOMAIN reg = DOMAIN Blank
    BY <1>1 DEF IInv, SensorInv, Blank, RegNames
  <2>7. /\ \E i \in DOMAIN D.codes : code = D.codes[i]
        /\ \E i \in DOMAIN D.modes[code] : mode = D.modes[code][i]
    BY <1>1, Zenon DEF IInv, FormatInv
  <2> QED
    BY <2>2, <2>3, <2>4, <2>5, <2>6, <2>7, Zenon DEF TypeOK
<1> QED
  BY <1>1, Invariance, PTL

(* get_fmt answers with the code asked for last, and with the size asked    *)
(* for where the driver has it: set_pad_format may keep the code when the   *)
(* mode is the one it has, because the codes share no mode.                 *)
THEOREM FormatIsKept == Spec => []FormatKept
<1>1. IInv => FormatKept
  BY DEF IInv, FormatInv
<1> QED
  BY <1>1, Invariance, PTL

(* What the registers hold on a faithful stream, in the module's variables. *)
LEMMA FaithfulStream ==
  ASSUME IInv, streaming, faithful
  PROVE  /\ Held(Now) /\ Shape(Now) /\ ControlsOK(Now)
         /\ Now.d = D /\ Now.m = mode /\ Now.f = code /\ Now.c = ctl /\ Now.r = reg
  BY NowSound DEF IInv, SensorInv

(* On a stream without a failed write the mode's tables, the frame length,  *)
(* the gain, the conversion gain and the black level are in the sensor as   *)
(* the controls say: start_streaming writes all of them, in whatever order  *)
(* they were set before, and no cascade forgets one.                        *)
THEOREM RegistersAreFollowed == Spec => []RegistersFollow
<1>1. ASSUME IInv, streaming, faithful
      PROVE  /\ reg.tables = mode.tables
             /\ reg.vmax = ctl.length /\ ctl.length = ctl.vblank + mode.height
             /\ reg.gain = ctl.gain /\ reg.conversion = ctl.conversion
             /\ reg.black = ctl.black \div D.black[code].unit
  <2>1. /\ TimingHeld(Now) /\ GainHeld(Now) /\ BlackHeld(Now) /\ TriggerHeld(Now)
        /\ Now.d = D /\ Now.m = mode /\ Now.f = code /\ Now.c = ctl /\ Now.r = reg
    BY <1>1, FaithfulStream DEF Held
  <2>2. reg.black = ctl.black \div D.black[code].unit
    BY <2>1, Zenon DEF BlackHeld, Units
  <2>3. reg.tables = mode.tables
    BY <2>1, Zenon DEF TriggerHeld
  <2>4. reg.gain = ctl.gain /\ reg.conversion = ctl.conversion
    BY <2>1, Zenon DEF GainHeld
  <2>5. reg.vmax = ctl.length /\ ctl.length = ctl.vblank + mode.height
    BY <2>1, Zenon DEF TimingHeld
  <2> QED
    BY <2>2, <2>3, <2>4, <2>5, Zenon
<1>2. IInv => RegistersFollow
  BY <1>1, Zenon DEF RegistersFollow
<1> QED
  BY <1>2, Invariance, PTL

(* And the frame is never shorter than the least one of the mode, the       *)
(* shutter never before the least SHR0, the gain never below the least one  *)
(* of the conversion gain, and the range of the exposure that of the frame. *)
THEOREM SensorStaysInBounds == Spec => []SensorInBounds
<1>1. ASSUME IInv, streaming, faithful
      PROVE  /\ reg.vmax >= mode.frame /\ reg.shutter >= mode.shutter
             /\ reg.gain >= LeastGain(D, reg.conversion)
             /\ ctl.maxExposure = reg.vmax - mode.shutter
  <2>1. /\ TimingHeld(Now) /\ GainHeld(Now) /\ GainOK(Now) /\ Shape(Now)
        /\ Now.d = D /\ Now.m = mode /\ Now.c = ctl /\ Now.r = reg
    BY <1>1, FaithfulStream DEF Held, ControlsOK
  <2>2. reg.vmax >= mode.frame /\ reg.shutter >= mode.shutter
        /\ ctl.maxExposure = reg.vmax - mode.shutter
    BY <2>1 DEF TimingHeld
  <2>3. reg.gain = ctl.gain /\ ctl.minGain = LeastGain(D, reg.conversion)
    BY <2>1 DEF GainHeld
  <2>4. ctl.gain >= ctl.minGain
    BY <2>1, Numbers DEF GainOK
  <2> QED
    BY <2>2, <2>3, <2>4
<1>2. IInv => SensorInBounds
  BY <1>1, Zenon DEF SensorInBounds
<1> QED
  BY <1>2, Invariance, PTL

(* The trigger register, the XMASTER pin, EXTMODE and XMSTA of a sensor     *)
(* that streams are those of the operation and sync mode it reports, also   *)
(* where a shutter mode has given way to another one.                       *)
THEOREM TriggerIsKept == Spec => []TriggerKept
<1>1. ASSUME IInv, streaming, faithful
      PROVE  /\ reg.xmsta = ctl.op /\ reg.xmaster = ctl.op
             /\ reg.trigger = Triggering(D, ctl.op, ctl.sync).register
             /\ reg.extmode = D.extmode[ctl.sync]
  <2>1. TriggerHeld(Now) /\ Now.d = D /\ Now.c = ctl /\ Now.r = reg
    BY <1>1, FaithfulStream DEF Held
  <2> QED
    BY <2>1, Zenon DEF TriggerHeld
<1>2. IInv => TriggerKept
  BY <1>1, Zenon DEF TriggerKept
<1> QED
  BY <1>2, Invariance, PTL

\* What ExposureTakes says of a step.
ExposureTaken ==
    (/\ streaming /\ streaming' /\ faithful' /\ ctl'.exposure # ctl.exposure)
       => \/ reg'.shutter = ctl'.vblank + mode'.height - ctl'.exposure
          \/ ~faithful /\ reg'.shutter = ctl.vblank + mode.height - ctl'.exposure

(* Every step takes a change of the exposure to the shutter.                *)
LEMMA ExposureStep ==
  ASSUME IInv, [Next]_vars
  PROVE  ExposureTaken
<1> SUFFICES ASSUME streaming, streaming', faithful', ctl'.exposure # ctl.exposure
             PROVE  \/ reg'.shutter = ctl'.vblank + mode'.height - ctl'.exposure
                    \/ ~faithful /\ reg'.shutter = ctl.vblank + mode.height - ctl'.exposure
  BY Zenon DEF ExposureTaken
<1>1. /\ Shape(Now) /\ ControlsOK(Now)
      /\ Now.d = D /\ Now.m = mode /\ Now.f = code /\ Now.c = ctl /\ Now.r = reg
      /\ Now.on <=> holds > 0
  BY NowSound
<1>2. holds > 0 /\ grabbed /\ ~locked /\ (faithful => Held(Now))
  BY DEF IInv, PowerInv, SensorInv
<1>3. CASE \E name \in Settable : set_control(name)
  <2>1. PICK name \in Settable : set_control(name)
    BY <1>3
  <2>2. PICK v \in Values(name) : SetControl(name, v)
    BY <2>1 DEF set_control
  <2> DEFINE q == Put(Now, name, v)
  <2>3. Sound(Now, q) /\ ShutterFollows(Now, q)
    BY <1>1, ValuesAreNumbers, PutEffect
  <2>4. Become(q) /\ mode' = mode
    BY <2>2, Zenon DEF SetControl
  <2> HIDE DEF q
  <2>5. q.m = mode /\ q.c = ctl' /\ q.r = reg'
    BY <1>1, <2>3, <2>4 DEF Sound, SameMode, Become
  <2> QED
    BY <1>1, <1>2, <2>3, <2>4, <2>5 DEF ShutterFollows
<1>4. CASE SystemSleep
  <2> DEFINE p == StopStreaming(Now)
             q == Whole(StartStreaming(p))
  <2>1. Become(q) /\ mode' = mode
    BY <1>4, Zenon DEF SystemSleep
  <2>2. Shape(p) /\ p.c = ctl /\ p.m = mode /\ p.d = D /\ p.on
    BY <1>1, <1>2, StopEffect DEF SameMode
  <2> HIDE DEF p
  <2>3. ControlsOK(p)
    BY <1>1, <2>2 DEF ControlsOK, RateOK, ExposureOK, GainOK, TriggerOK
  <2>4. /\ Sound(p, q)
        /\ q.c.exposure # p.c.exposure
             => \/ q.r.shutter = q.c.vblank + q.m.height - q.c.exposure
                \/ ~Fitted(p) /\ q.r.shutter = p.c.vblank + p.m.height - q.c.exposure
    BY <2>2, <2>3, StartEffect
  <2> HIDE DEF q
  <2>5. q.m = mode /\ q.c = ctl' /\ q.r = reg'
    BY <2>1, <2>2, <2>4 DEF Sound, SameMode, Become
  <2>6. faithful => Fitted(p)
    <3>1. faithful => Fitted(Now)
      BY <1>1, <1>2, HeldIsFitted DEF Held, ControlsOK, RateOK
    <3> QED
      BY <1>1, <2>2, <3>1 DEF Fitted
  <2> QED
    BY <2>1, <2>2, <2>4, <2>5, <2>6
<1>5. CASE set_triggering \/ write_hold_reg \/ set_pad_format
  BY <1>2, <1>5, CallFrame, Zenon DEF set_pad_format, set_triggering, SetPadFormat, SetOperation
<1>6. CASE StreamOnWaits \/ StreamOn \/ StreamOnFails
  BY <1>2, <1>6, Zenon DEF StreamOnWaits, StreamOn, StreamOnFails
<1>7. CASE StreamOff \/ SystemSleepFails
  BY <1>7, Zenon DEF StreamOff, SystemSleepFails
<1>8. CASE RuntimeSuspendBegins \/ PowerOff
  BY <1>8, Zenon DEF RuntimeSuspendBegins, PowerOff
<1>9. CASE UNCHANGED vars
  BY <1>9, Zenon DEF vars
<1> QED
  BY <1>3, <1>4, <1>5, <1>6, <1>7, <1>8, <1>9 DEF Next

(* An exposure that a client sets, or that gives way to a frame become too  *)
(* short for it, reaches the shutter of a sensor that streams, counted from *)
(* the end of the frame as it is after the step; only a stream resumed with *)
(* another format than it was started with may count it from the end of the *)
(* frame before.                                                            *)
THEOREM ExposureReachesShutter == Spec => ExposureTakes
<1>1. IInv /\ [Next]_vars => [ExposureTaken]_vars
  BY ExposureStep
<1> QED
  BY <1>1, Invariance, PTL DEF Spec, ExposureTakes, ExposureTaken
=============================================================================
