----------------------------- MODULE DutyCycle ------------------------------
(***************************************************************************)
(* The duty-cycle tracker of RFNet (core/duty/DutyCycleTracker.h): after a *)
(* transmission nothing may be sent for OffTime.  The deadline is a time   *)
(* of the wall clock while that is valid and a tick count since the last   *)
(* boot otherwise, and moves from one base to the other when the validity  *)
(* of the clock changes; a record of it, in whole seconds, is kept in NV.  *)
(*                                                                         *)
(* `rule` is the earliest moment the next transmission may begin, in true  *)
(* time and kept independently of the tracker; `owed` is what of it the    *)
(* code promises.  Where the code gives a deadline up knowingly, owed is   *)
(* lowered with it: at a restart to what the record holds and the clock    *)
(* lets it read, and to nothing when the clock becomes invalid ("drop the  *)
(* deadline instead of guessing").                                         *)
(*                                                                         *)
(* The tracker's mutex keeps the calls of two threads apart, but it does   *)
(* not guard the clock: a call reads IClock::isValid up to four times, and *)
(* another task may set the clock between two readings.  There is one      *)
(* operator here per reading; module NodeLife makes a step of each.        *)
(***************************************************************************)
EXTENDS Integers

CONSTANTS
    OffTime,    \* time on air * (denominator - 1)
    Second,     \* a second of the NV record, in units of time
    CommitMin,  \* cfg.nv.dutyMinCommitMs
    MaxTime     \* bound: the true time a run reaches

ASSUME DutyAssumption ==
    /\ OffTime \in Nat \ {0} /\ Second \in Nat \ {0}
    /\ CommitMin \in Nat /\ MaxTime \in Nat

VARIABLES
    now,      \* true time
    bootAt,   \* true time of the last boot, the origin of the ticks
    clockOk,  \* IClock::isValid
    duty,     \* _offUntilMs, _clockValid, _lastSavedOffMs
    nv,       \* the record: a deadline in seconds, 0 for none
    rule,     \* history: when the next transmission may begin
    owed,     \* history: what of that the code still promises
    covered,  \* history: did the record keep up with the deadline
    mixed     \* history: is a deadline on the wrong base: "none", the
              \* tracker's ("deadline"), or the one on record ("record")

dutyVars == <<now, bootAt, clockOk, duty, nv, rule, owed, covered, mixed>>
timeVars == <<now, bootAt, clockOk>>
historyVars == <<rule, owed, covered, mixed>>

Greater(a, b) == IF a > b THEN a ELSE b
Lesser(a, b) == IF a < b THEN a ELSE b

\* The two bases.  The epoch is above every tick count.
EpochBase == MaxTime + OffTime
TickMs == now - bootAt
EpochMs == EpochBase + now
TrackerNow == IF clockOk THEN EpochMs ELSE TickMs

RecordMs == nv * Second
RecordTime == Greater(now, RecordMs - EpochBase)

LoadFromNv(d) ==
    IF nv # 0 /\ clockOk /\ RecordMs > EpochMs /\ RecordMs > d.off
      THEN [d EXCEPT !.off = RecordMs, !.saved = RecordMs]
      ELSE d

\* init, before it loads the record.
FreshTracker == [off |-> 0, epoch |-> clockOk, saved |-> 0]

\* Mutated form: the deadline keeps the value it had as a tick count.
CarriedRaw(d) == [d EXCEPT !.epoch = TRUE]
Carried(d) == [d EXCEPT !.off = EpochMs + Greater(0, d.off - TickMs), !.epoch = TRUE]

\* _syncBase up to _loadFromNv, which reads the clock again.
FindsClockSet(d) == clockOk /\ ~d.epoch
SyncBase(d) ==
    IF d.epoch = clockOk THEN d
    ELSE IF clockOk THEN Carried(d)
    ELSE [d EXCEPT !.off = TickMs, !.epoch = FALSE]

\* What canTransmit and getWaitMs answer, reading the clock once more: the
\* deadline may be on the base it was on at _syncBase.  (A wait is capped at
\* 2^32 ms, which is longer than any run.)
MayTransmit(d) == TrackerNow >= d.off
WaitMs(d) == Greater(0, d.off - TrackerNow)
WrongBase(d) == FindsClockSet(d)

Extended(d) == [d EXCEPT !.off = Greater(TrackerNow, d.off) + OffTime]

\* Where a deadline of the wall clock is taken for a tick count.
Mixed(d) == IF WrongBase(d) /\ mixed = "none" THEN "deadline" ELSE mixed

Distance(a, b) == Greater(a, b) - Lesser(a, b)
\* Mutated form: one record per boot.
DueFromBoot(d) == clockOk /\ d.saved = 0
DueForCommit(d) == clockOk /\ Distance(d.off, d.saved) >= CommitMin

\* _maybeCommit.  A write that fails is not tried again: _lastSavedOffMs
\* moves on all the same.  The deadline is written as it stands, a tick count
\* too if the clock has been set since _syncBase.
MaybeCommit ==
    IF DueForCommit(duty)
      THEN \E stored \in BOOLEAN :
              /\ duty' = [duty EXCEPT !.saved = duty.off]
              /\ nv' = IF stored THEN (duty.off + Second - 1) \div Second ELSE nv
              /\ covered' = (stored /\ duty.epoch /\ mixed = "none")
              /\ mixed' = IF stored /\ ~duty.epoch /\ mixed = "none" THEN "record" ELSE mixed
      ELSE /\ covered' = (covered /\ clockOk /\ duty.epoch /\ mixed = "none")
           /\ UNCHANGED <<duty, nv, mixed>>

-----------------------------------------------------------------------------
NoTracker == [off |-> 0, epoch |-> FALSE, saved |-> 0]

InitDuty ==
    /\ now = 0 /\ bootAt = 0 /\ clockOk \in BOOLEAN
    /\ nv = 0 /\ rule = 0 /\ owed = 0 /\ covered = FALSE /\ mixed = "none"
    /\ duty = NoTracker

\* What an initialisation of the tracker can still promise.
Remembered == IF clockOk THEN Lesser(owed, RecordTime) ELSE now

\* The rule, applied to a frame that has just left.
Owe ==
    /\ rule' = Greater(rule, now) + OffTime
    /\ owed' = Greater(owed, now) + OffTime

Tick ==
    /\ now < MaxTime
    /\ now' = now + 1
    /\ mixed' = IF mixed = "record" /\ owed <= now + 1 THEN "none" ELSE mixed
    /\ UNCHANGED <<bootAt, clockOk, duty, nv, rule, owed, covered>>

\* The clock is set: a deadline read back from the record holds again.  The
\* record is read only by a tracker that has seen the clock invalid.
ClockSet ==
    /\ ~clockOk
    /\ clockOk' = TRUE
    /\ owed' = IF duty.epoch THEN owed ELSE Greater(owed, Lesser(rule, RecordTime))
    /\ covered' = (covered /\ owed <= now)
    /\ UNCHANGED <<now, bootAt, duty, nv, rule, mixed>>

ClockLost ==
    /\ clockOk
    /\ clockOk' = FALSE
    /\ owed' = now
    /\ mixed' = "none"
    /\ UNCHANGED <<now, bootAt, duty, nv, rule, covered>>

=============================================================================
