----------------------------- MODULE ImxSensor -----------------------------
(***************************************************************************)
(* What the four FRAMOS sensor drivers (fr_imx662.c, fr_imx676.c,          *)
(* fr_imx678.c, fr_imx900.c) do alike: the V4L2 controls and the cascades  *)
(* between them, the active format, the stream, system sleep and runtime   *)
(* power management. A driver's own modes, bounds and trigger table are a  *)
(* record, Drivers[chip], of its own module (Imx662, ...).                 *)
(*                                                                         *)
(* Rates are whole frames per second and line times are in ticks of XCLK   *)
(* (the drivers count in millionths and nanoseconds): the divisions round  *)
(* the same way. Flips and the test pattern, which nothing else reads, are *)
(* left out; the sensor sits on MIPI. Calls hold imx->mutex from end to    *)
(* end and are one step each, except s_stream(1), which waits inside it.   *)
(***************************************************************************)
EXTENDS Integers, Sequences

CONSTANTS
    Drivers,              \* of each chip:
                          \*   codes       the media bus codes offered
                          \*   modes       get_mode_table of a code
                          \*   declared    the modes declared for its depth
                          \*   black       its black level: max, default, unit
                          \*   minLines, highGain, maxGain, even   bounds
                          \*   syncs       sync or shutter modes, the default first
                          \*   trigger     what operation and sync mode come to
                          \*   extmode     EXTMODE of a sync mode
                          \* of a mode: width, height, hmax, delta; frame, the
                          \*   lines of its shortest frame; shutter, its least
                          \*   SHR0 or SHS; tables, what set_mode writes for it
    SomeRates, SomeExposures, SomeGains, \* values clients set
    MaxCalls,             \* bound: controls and formats set
    MaxFaults             \* bound: failed register writes

XclkFreq == 74250000
Master == "master"
Slave == "slave"

\* A mode's shortest frame holds its picture, its blanking and one exposure,
\* and fits at one frame a second.
ModeOK(d, m) ==
    /\ {m.width, m.height, m.delta, m.shutter} \subseteq Nat
    /\ {m.hmax, m.frame} \subseteq Nat \ {0}
    /\ m.height + m.delta <= m.frame
    /\ m.height + m.delta - m.shutter >= d.minLines
    /\ m.frame * m.hmax <= XclkFreq

TableOK(d, table) ==
    /\ Len(table) \in Nat \ {0} /\ DOMAIN table = 1..Len(table)
    /\ \A i \in DOMAIN table : ModeOK(d, table[i])

\* The codes share no mode, and every mode declared for a code can be selected
\* at it by its size.
FormatsOK(d) ==
    /\ 1 \in DOMAIN d.codes
    /\ \A i \in DOMAIN d.codes :
          d.codes[i] \in DOMAIN d.declared /\ TableOK(d, d.modes[d.codes[i]])
    /\ \A i, j \in DOMAIN d.codes :
          \A k \in DOMAIN d.modes[d.codes[i]], l \in DOMAIN d.modes[d.codes[j]] :
             d.modes[d.codes[i]][k] = d.modes[d.codes[j]][l] => d.codes[i] = d.codes[j]
    /\ \A f \in DOMAIN d.declared : \A i \in DOMAIN d.declared[f] :
          /\ {d.declared[f][i].width, d.declared[f][i].height} \subseteq Nat
          /\ \E j \in DOMAIN d.modes[f] :
                /\ d.modes[f][j].width = d.declared[f][i].width
                /\ d.modes[f][j].height = d.declared[f][i].height

Syncs(d) == {d.syncs[i] : i \in DOMAIN d.syncs}

\* configure_triggering_pins and set_shutter_mode: what an operation and a sync
\* mode come to.
Triggering(d, op, sync) == d.trigger[op, sync]

\* A mode that gives way to another one has that one's trigger register.
TriggersOK(d) ==
    /\ 1 \in DOMAIN d.syncs
    /\ \A op \in {Master, Slave}, sync \in Syncs(d) :
          LET taken == Triggering(d, op, sync).taken
          IN  /\ taken \in Syncs(d)
              /\ Triggering(d, op, taken).register = Triggering(d, op, sync).register

DriverOK(d) ==
    /\ d.minLines \in 1..255 /\ d.maxGain \in Nat /\ d.highGain \in 0..d.maxGain
    /\ FormatsOK(d) /\ TriggersOK(d)

ASSUME DriversAssumption == \A k \in DOMAIN Drivers : DriverOK(Drivers[k])
ASSUME ClientsAssumption ==
    /\ SomeRates \subseteq Int /\ SomeExposures \subseteq Int /\ SomeGains \subseteq Int
    /\ MaxCalls \in Nat /\ MaxFaults \in Nat

VARIABLES
    chip,         \* whose driver it is
    mode, code,   \* imx->mode, imx->fmt_code
    ctl,          \* the controls' values, two of their ranges, frame_length
    reg,          \* the sensor's registers
    streaming,    \* imx->streaming
    grabbed,      \* are operation and sync mode grabbed
    holds,        \* the runtime-PM usage count
    pm,           \* runtime-PM status
    locked,       \* does an s_stream(1) hold imx->mutex in pm_runtime_get_sync
    faithful,     \* has nothing failed, nor the format changed, on this stream
    asked,        \* the last active format a client asked for
    calls, faults

D == Drivers[chip]

power == <<chip, streaming, grabbed, holds, pm, locked>>
vars == <<mode, code, ctl, reg, power, faithful, asked, calls, faults>>

Clamp(v, lo, hi) == IF v < lo THEN lo ELSE IF v > hi THEN hi ELSE v
LeastGain(d, conversion) == IF conversion = "high" THEN d.highGain ELSE 0
MaxRate(m) == XclkFreq \div (m.frame * m.hmax)
RoundLines(d, n) == IF d.even /\ n % 2 = 1 THEN n + 1 ELSE n
LinesAt(p, rate) == RoundLines(p.d, XclkFreq \div (rate * p.m.hmax))

Unset == -1
Blank == [tables |-> Unset, trigger |-> Unset, vint |-> Unset, extmode |-> Unset,
          xmsta |-> Unset, vmax |-> Unset, shutter |-> Unset, gain |-> Unset,
          conversion |-> Unset, black |-> Unset,
          xmaster |-> Slave]    \* the pin; probe asks for it high

(***************************************************************************)
(* The cascades. They work on p = [d, m, f, on, c, r]: the driver's record,*)
(* the mode and the format code, whether pm_runtime_get_if_in_use finds    *)
(* the sensor in use, the controls and the registers. PutX is v4l2's       *)
(* s_ctrl or modify_range of the control X: it clamps the value and calls  *)
(* set_ctrl on a change.                                                   *)
(***************************************************************************)
Write(p, r, v) == IF p.on THEN [p EXCEPT !.r[r] = v] ELSE p

\* A mutated form of WriteShutter: it is counted from the shortest frame.
WriteShutterAtOnce(p) == Write(p, "shutter", p.m.frame - p.c.exposure)

WriteShutter(p) == Write(p, "shutter", p.c.vblank + p.m.height - p.c.exposure)

PutExposure(p, v) ==
    LET e == Clamp(v, p.d.minLines, p.c.maxExposure)
    IN  IF e = p.c.exposure THEN p ELSE WriteShutter([p EXCEPT !.c.exposure = e])

\* A mutated form of AdjustExposureRange: the margin before the shutter is
\* forgotten.
AdjustToWholeFrame(p) ==
    LET q == [p EXCEPT !.c.maxExposure = p.c.vblank + p.m.height]
    IN  PutExposure(q, q.c.exposure)

AdjustExposureRange(p) ==
    LET q == [p EXCEPT !.c.maxExposure =
                           p.c.vblank + p.m.height - p.m.shutter]
    IN  PutExposure(q, q.c.exposure)

PutVblank(p, v) ==
    IF v = p.c.vblank THEN p ELSE AdjustExposureRange([p EXCEPT !.c.vblank = v])

UpdateFrameRate(p, rate) ==
    LET n == LinesAt(p, rate)
    IN  PutVblank([p EXCEPT !.c.length = n], n - p.m.height)

\* A mutated form of SetFrameRate: a length the sensor has is not written.
SetFrameRateIfChanged(p, rate) ==
    LET q == UpdateFrameRate(p, rate)
    IN  IF q.c.length = p.c.length THEN q ELSE Write(q, "vmax", q.c.length)

SetFrameRate(p, rate) ==
    LET q == UpdateFrameRate(p, rate) IN Write(q, "vmax", q.c.length)

PutRate(p, v) ==
    LET x == Clamp(v, 1, MaxRate(p.m))
    IN  IF x = p.c.rate THEN p ELSE [SetFrameRate(p, x) EXCEPT !.c.rate = x]

PutGain(p, v) ==
    LET g == Clamp(v, p.c.minGain, p.d.maxGain)
    IN  IF g = p.c.gain THEN p ELSE Write([p EXCEPT !.c.gain = g], "gain", g)

AdjustGainRange(p, v) ==
    PutGain([p EXCEPT !.c.minGain = LeastGain(p.d, v)], LeastGain(p.d, v))

SetConversion(p, v) == Write(AdjustGainRange(p, v), "conversion", v)

PutConversion(p, v) ==
    IF v = p.c.conversion THEN p
    ELSE [SetConversion(p, v) EXCEPT !.c.conversion = v]

WriteBlack(p) == Write(p, "black", p.c.black \div p.d.black[p.f].unit)

PutBlack(p, v) ==
    LET b == Clamp(v, 0, p.d.black[p.f].max)
    IN  IF b = p.c.black THEN p ELSE WriteBlack([p EXCEPT !.c.black = b])

SetLimits(p) ==
    LET q == [PutVblank(p, p.m.delta) EXCEPT !.c.length = p.m.frame]
        r == PutRate(q, q.c.rate)
        b == PutBlack(PutBlack(r, r.c.black), p.d.black[p.f].default)
    IN  PutRate(b, MaxRate(b.m))

\* set_mode: the register tables of the mode, its HMAX and data rate, and
\* the trigger registers.
SetMode(p) ==
    LET t == Triggering(p.d, p.c.op, p.c.sync)
    IN  Write(Write(Write(p, "tables", p.m.tables), "trigger", t.register), "vint", t.vint)

\* A mutated form of SetUpTriggers: the pin is left as it was set up.
SetUpExtmode(p) ==
    LET q == [p EXCEPT !.c.sync = Triggering(p.d, p.c.op, p.c.sync).taken]
    IN  Write(q, "extmode", p.d.extmode[q.c.sync])

\* The operation and the sync mode control, the one a pin and the other
\* EXTMODE; a shutter mode the stream could not take has given way.
SetUpTriggers(p) ==
    LET q == [p EXCEPT !.c.sync = Triggering(p.d, p.c.op, p.c.sync).taken]
    IN  Write(Write(q, "xmaster", q.c.op), "extmode", p.d.extmode[q.c.sync])

\* __v4l2_ctrl_handler_setup calls set_ctrl for every control, in the order
\* init_controls made them: VBLANK, EXPOSURE, frame rate, operation and sync
\* mode, BLACK_LEVEL, ANALOGUE_GAIN, conversion gain. What it has done after
\* some of them.
SetUpControls(p) ==
    LET a == WriteShutter(AdjustExposureRange(p))
        b == SetFrameRate(a, a.c.rate)
        c == WriteBlack(SetUpTriggers(b))
        d == Write(c, "gain", c.c.gain)
    IN  <<a, b, c, d, SetConversion(d, d.c.conversion)>>

\* start_streaming: how far it may come, ending with all of it.
StartStreaming(p) ==
    LET q == SetMode(p)
        s == SetUpControls(q)
    IN  <<p, q>> \o s \o <<Write(s[Len(s)], "xmsta", q.c.op)>>

Whole(stages) == stages[Len(stages)]

(***************************************************************************)
(* The actions.                                                            *)
(***************************************************************************)
Now == [d |-> D, m |-> mode, f |-> code, on |-> holds > 0, c |-> ctl, r |-> reg]

Become(p) == ctl' = p.c /\ reg' = p.r

\* The controls before init_controls calls set_limits.
FirstControls ==
    [vblank |-> 0, exposure |-> 255, maxExposure |-> 255, rate |-> 0,
     gain |-> 0, minGain |-> 0, conversion |-> "low", black |-> 255,
     op |-> Master, sync |-> D.syncs[1], length |-> 0]

init_controls ==
    ctl = SetLimits([d |-> D, m |-> mode, f |-> code, on |-> FALSE,
                     c |-> FirstControls, r |-> Blank]).c

\* probe: the first mode of the first code, the controls set to its limits,
\* the sensor left to runtime power management.
Init ==
    /\ chip \in DOMAIN Drivers
    /\ code = D.codes[1] /\ mode = D.modes[code][1]
    /\ init_controls
    /\ reg = Blank
    /\ streaming = FALSE /\ grabbed = FALSE /\ holds = 0
    /\ pm = "active" /\ locked = FALSE
    /\ faithful = TRUE /\ calls = 0 /\ faults = 0
    /\ asked = [code |-> code, width |-> mode.width, height |-> mode.height]

\* A client's call: the mutex is free, and the bound not reached.
Call == ~locked /\ calls < MaxCalls /\ calls' = calls + 1

\* set_ctrl of a control that is not grabbed, every write of it done.
Settable == {"exposure", "rate", "gain", "conversion", "black"}

Values(name) ==
    CASE name = "exposure" -> SomeExposures
      [] name = "rate" -> SomeRates
      [] name = "gain" -> SomeGains
      [] name = "conversion" -> {"low", "high"}
      [] name = "black" -> {0, D.black[code].max}

Put(p, name, v) ==
    CASE name = "exposure" -> PutExposure(p, v)
      [] name = "rate" -> PutRate(p, v)
      [] name = "gain" -> PutGain(p, v)
      [] name = "conversion" -> PutConversion(p, v)
      [] name = "black" -> PutBlack(p, v)

RegisterOf == [exposure |-> "shutter", rate |-> "vmax", gain |-> "gain",
               conversion |-> "conversion", black |-> "black"]

SetControl(name, v) ==
    /\ Call
    /\ Become(Put(Now, name, v))
    /\ UNCHANGED <<mode, code, power, faithful, asked, faults>>

\* write_hold_reg fails on the register itself: the result of the write that
\* releases REGHOLD takes the place of the error, and the control changes.
WriteLost(name, v) ==
    /\ Call /\ holds > 0 /\ faults < MaxFaults
    /\ LET p == Put(Now, name, v)
           r == RegisterOf[name]
       IN  /\ p.r[r] # reg[r]
           /\ Become([p EXCEPT !.r[r] = reg[r]])
    /\ faults' = faults + 1 /\ faithful' = FALSE
    /\ UNCHANGED <<mode, code, power, asked>>

\* It fails on REGHOLD: set_ctrl fails and the control keeps its value, what
\* its cascade has changed before stays changed.
Cascade(p, name, v) ==
    CASE name = "rate" -> UpdateFrameRate(p, Clamp(v, 1, MaxRate(p.m)))
      [] name = "conversion" -> AdjustGainRange(p, v)
      [] OTHER -> p

WriteFails(name, v) ==
    /\ Call /\ holds > 0 /\ faults < MaxFaults
    /\ Put(Now, name, v).r[RegisterOf[name]] # reg[RegisterOf[name]]
    /\ Become(Cascade(Now, name, v))
    /\ faults' = faults + 1 /\ faithful' = FALSE
    /\ UNCHANGED <<mode, code, power, asked>>

\* Operation and sync mode: refused while they are grabbed.
SetOperation(op, sync) ==
    /\ Call /\ ~grabbed
    /\ LET p == [Now EXCEPT !.c.op = op, !.c.sync = sync]
       IN  Become(Write(Write(p, "xmaster", op), "extmode", D.extmode[sync]))
    /\ UNCHANGED <<mode, code, power, faithful, asked, faults>>

\* get_format_code: a code the driver does not offer becomes the first one.
FormatCode(f) ==
    IF \E i \in DOMAIN D.codes : D.codes[i] = f THEN f ELSE D.codes[1]

\* v4l2_find_nearest_size: the first of the modes that differ least.
Distance(a, b) == IF a < b THEN b - a ELSE a - b

Nearest(table, w, h) ==
    LET gap == [i \in DOMAIN table |->
                   Distance(table[i].width, w) + Distance(table[i].height, h)]
    IN  table[CHOOSE i \in DOMAIN table :
                  /\ \A j \in 1..i - 1 : gap[i] < gap[j]
                  /\ \A j \in DOMAIN table : gap[i] <= gap[j]]

\* A mutated form of get_mode_table: it answers for the code the sensor has.
get_stale_mode_table(f) == D.modes[code]

get_mode_table(f) == D.modes[f]

\* set_pad_format of the image pad, V4L2_SUBDEV_FORMAT_ACTIVE: nothing keeps
\* it from a sensor that streams.
SetPadFormat(f, w, h) ==
    LET g == FormatCode(f)
        m == Nearest(get_mode_table(g), w, h)
    IN  /\ Call
        /\ asked' = [code |-> g, width |-> w, height |-> h]
        /\ IF m = mode
           THEN UNCHANGED <<mode, code, ctl, reg>>
           ELSE /\ mode' = m /\ code' = g
                /\ Become(SetLimits([d |-> D, m |-> m, f |-> g, on |-> holds > 0,
                                     c |-> ctl, r |-> reg]))
        /\ faithful' = (faithful /\ ~streaming)
        /\ UNCHANGED <<power, faults>>

\* s_stream(1) takes the mutex and asks runtime PM for the sensor, which
\* waits for a suspend under way.
StreamOnWaits ==
    /\ ~locked /\ ~streaming
    /\ locked' = TRUE
    /\ UNCHANGED <<chip, mode, code, ctl, reg, streaming, grabbed, holds, pm,
                   faithful, asked, calls, faults>>

\* The sensor is powered: it starts, and the controls are grabbed.
StreamOn ==
    /\ locked /\ pm # "suspending"
    /\ Become(Whole(StartStreaming([Now EXCEPT !.on = TRUE])))
    /\ pm' = "active" /\ locked' = FALSE
    /\ streaming' = TRUE /\ grabbed' = TRUE /\ holds' = holds + 1
    /\ faithful' = TRUE
    /\ UNCHANGED <<chip, mode, code, asked, calls, faults>>

\* A write fails on the way: the start is given up and the sensor put.
StreamOnFails ==
    /\ locked /\ pm # "suspending" /\ faults < MaxFaults
    /\ LET stages == StartStreaming([Now EXCEPT !.on = TRUE])
       IN  \E k \in 1..Len(stages) - 1 : Become(stages[k])
    /\ pm' = "active" /\ locked' = FALSE /\ faults' = faults + 1
    /\ UNCHANGED <<chip, mode, code, streaming, grabbed, holds, faithful, asked, calls>>

\* stop_streaming: XMSTA is taken back (and STANDBY entered).
StopStreaming(p) == Write(p, "xmsta", Slave)

\* s_stream(0): the sensor stops and is put.
StreamOff ==
    /\ ~locked /\ streaming
    /\ Become(StopStreaming(Now))
    /\ streaming' = FALSE /\ grabbed' = FALSE /\ holds' = holds - 1
    /\ UNCHANGED <<chip, mode, code, pm, locked, faithful, asked, calls, faults>>

\* Runtime PM finds the sensor idle and calls power_off, which waits for the
\* mutex; the registers are lost with the power. (Where no reset line is
\* wired they stay, and are written anew before they are used.)
RuntimeSuspendBegins ==
    /\ pm = "active" /\ holds = 0 /\ ~locked
    /\ pm' = "suspending"
    /\ UNCHANGED <<chip, mode, code, ctl, reg, streaming, grabbed, holds, locked,
                   faithful, asked, calls, faults>>

PowerOff ==
    /\ pm = "suspending" /\ ~locked
    /\ pm' = "suspended" /\ reg' = [Blank EXCEPT !.xmaster = reg.xmaster]
    /\ UNCHANGED <<chip, mode, code, ctl, streaming, grabbed, holds, locked,
                   faithful, asked, calls, faults>>

\* The system sleeps and wakes while the sensor streams: suspend stops it,
\* resume starts it again.
SystemSleep ==
    /\ ~locked /\ streaming
    /\ Become(Whole(StartStreaming(StopStreaming(Now))))
    /\ faithful' = TRUE
    /\ UNCHANGED <<mode, code, power, asked, calls, faults>>

\* The start fails: streaming is cleared; the sensor is not put and the
\* controls stay grabbed.
SystemSleepFails ==
    /\ ~locked /\ streaming /\ faults < MaxFaults
    /\ LET stages == StartStreaming(Now)
       IN  \E k \in 1..Len(stages) - 1 : Become(StopStreaming(stages[k]))
    /\ streaming' = FALSE /\ faults' = faults + 1
    /\ UNCHANGED <<chip, mode, code, grabbed, holds, pm, locked, faithful, asked, calls>>

-----------------------------------------------------------------------------
\* What a client may ask for: a code offered or another, a size declared.
SomeCodes == DOMAIN D.declared \cup {"other"}

Sizes == {[w |-> m.width, h |-> m.height] :
              m \in UNION {{D.declared[f][j] : j \in DOMAIN D.declared[f]} :
                           f \in DOMAIN D.declared}}

SyncModes == Syncs(D)

\* set_ctrl of one control; write_hold_reg that fails in it.
set_control(name) == \E v \in Values(name) : SetControl(name, v)

set_triggering ==
    \E op \in {Master, Slave}, sync \in SyncModes : SetOperation(op, sync)

write_hold_reg ==
    \E name \in Settable : \E v \in Values(name) :
        WriteLost(name, v) \/ WriteFails(name, v)

set_pad_format == \E f \in SomeCodes, s \in Sizes : SetPadFormat(f, s.w, s.h)

Next ==
    \/ \E name \in Settable : set_control(name)
    \/ set_triggering \/ write_hold_reg \/ set_pad_format
    \/ StreamOnWaits \/ StreamOn \/ StreamOnFails \/ StreamOff
    \/ RuntimeSuspendBegins \/ PowerOff
    \/ SystemSleep \/ SystemSleepFails

Spec == Init /\ [][Next]_vars

-----------------------------------------------------------------------------
\* The tables keep their types, and the controls their ranges.
TypeOK ==
    /\ \E i \in DOMAIN D.codes : code = D.codes[i]
    /\ \E i \in DOMAIN D.modes[code] : mode = D.modes[code][i]
    /\ {streaming, grabbed, locked, faithful} \subseteq BOOLEAN
    /\ holds \in 0..MaxFaults + 1
    /\ pm \in {"active", "suspending", "suspended"}
    /\ DOMAIN reg = DOMAIN Blank /\ calls \in 0..MaxCalls /\ faults \in 0..MaxFaults
    /\ ctl.exposure >= D.minLines /\ ctl.gain \in ctl.minGain..D.maxGain
    /\ ctl.sync \in SyncModes /\ ctl.op \in {Master, Slave}

\* get_fmt answers with the format that was asked for last: every size
\* declared for a bit depth can be selected at it, and changing to the same
\* size at another depth takes the depth along (set_pad_format compares only
\* the mode before it stores the code).
FormatKept ==
    /\ code = asked.code
    /\ (\E i \in DOMAIN D.declared[code] :
           /\ D.declared[code][i].width = asked.width
           /\ D.declared[code][i].height = asked.height)
       => (mode.width = asked.width /\ mode.height = asked.height)

\* On a stream without a failed write every register but the shutter holds
\* what its control says, whatever was set, in any order, while the sensor
\* was off, and whatever had failed on the streams before.
RegistersFollow ==
    (streaming /\ faithful) =>
        /\ reg.tables = mode.tables
        /\ reg.vmax = ctl.length /\ ctl.length = ctl.vblank + mode.height
        /\ reg.gain = ctl.gain /\ reg.conversion = ctl.conversion
        /\ reg.black = ctl.black \div D.black[code].unit

\* And the sensor is kept inside the bounds of its mode: no frame shorter
\* than the least one, no shutter before the least SHR0, no gain below the
\* least one of the conversion gain; an exposure can be taken back to one
\* line and up to all of the frame.
SensorInBounds ==
    (streaming /\ faithful) =>
        /\ reg.vmax >= mode.frame
        /\ reg.shutter >= mode.shutter
        /\ reg.gain >= LeastGain(D, reg.conversion)
        /\ ctl.maxExposure = reg.vmax - mode.shutter

\* While a sensor streams, the trigger register, the XMASTER pin, EXTMODE and
\* XMSTA are those of the operation and sync mode it reports, which were set
\* while it had no power.
TriggerKept ==
    (streaming /\ faithful) =>
        /\ reg.xmsta = ctl.op /\ reg.xmaster = ctl.op
        /\ reg.trigger = Triggering(D, ctl.op, ctl.sync).register
        /\ reg.extmode = D.extmode[ctl.sync]

\* A change of the exposure of a streaming sensor, by a client or by a
\* frame that became too short for it, reaches the shutter, counted from the
\* end of the frame as it is now. (The converse is false: a change of the
\* frame length alone leaves the shutter where it was. So a stream that is
\* resumed after its format was changed, where VBLANK comes before the frame
\* rate, may count it from the end of the frame before.)
ExposureTakes ==
    [][(/\ streaming /\ streaming' /\ faithful' /\ ctl'.exposure # ctl.exposure)
       => \/ reg'.shutter = ctl'.vblank + mode'.height - ctl'.exposure
          \/ ~faithful /\ reg'.shutter = ctl.vblank + mode.height - ctl'.exposure]_vars

\* False for the IMX900 (MCImxSensorFallback.cfg): a shutter mode that the
\* operation mode does not support is to give way "to default"
\* (set_shutter_mode), and VINT_EN is not the default mode's.
FallbackIsDefault ==
    (streaming /\ faithful) => reg.vint = Triggering(D, ctl.op, ctl.sync).vint
=============================================================================
