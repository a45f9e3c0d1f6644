--------------------------- MODULE NodeLifeProofs ---------------------------
(***************************************************************************)
(* Proofs about what a node keeps over the lives of its engine, for all    *)
(* constants. Of SeqCounter, the sequence counter: whatever the store does *)
(* and whenever the power fails, a nonce is reused only after the 24-bit   *)
(* wrap or a loss of persisted state. Of NodeLife: the tables have one     *)
(* driver, nothing is freed under a worker, and no frame leaves before the *)
(* off-time the code still promises is over.                               *)
(***************************************************************************)
EXTENDS NodeLife, SeqCounter, TLAPS

-----------------------------------------------------------------------------
(* The sequence counter.                                                   *)

(***************************************************************************)
(* The inductive strengthening.  As long as nothing persisted was lost:    *)
(*   - a running node hands out values above everything already aired,     *)
(*     and what it believes saved is saved;                                *)
(*   - it stays within Skip of the stored value unless a write is          *)
(*     outstanding, and an outstanding write at a power loss is a loss;    *)
(*   - a node without power resumes, from a good record, above everything  *)
(*     aired; with no record at all it has aired nothing.                  *)
(***************************************************************************)
RunningAhead ==
    /\ \A v \in aired : v < current
    /\ inHand # None => inHand < current /\ \A v \in aired : v < inHand
    /\ lastSaved = nvValue
    /\ nvState # "garbage"
    /\ lastWrite = "ok" => nvState = "ok" /\ current <= nvValue + Skip

OffCovered ==
    /\ nvState = "ok" => \A v \in aired : v < nvValue + Skip
    /\ nvState = "empty" => aired = {}

NothingLost ==
    /\ power = "run" => RunningAhead
    /\ power # "run" => OffCovered
    /\ ~Wrapped => repeated = {}

CounterInv ==
    /\ CounterTypeOK
    /\ nvState = "empty" => nvValue = 0
    /\ power # "run" => inHand = None
    /\ power # "run" => lastWrite = "ok"
    /\ Sec => "garbled" \notin losses
    /\ losses = {} => NothingLost

-----------------------------------------------------------------------------
(* Every variable keeps its type (the whole of begin(), _commit() and       *)
(* increment(), under any outcome of the store).                           *)
THEOREM CounterTypeCorrect == CounterSpec => []CounterTypeOK
<1>1. CounterInit => CounterTypeOK
  BY DEF CounterInit, CounterTypeOK, None, LossKinds
<1>2. CounterTypeOK /\ [CounterNext]_counterVars => CounterTypeOK'
  <2> SUFFICES ASSUME CounterTypeOK, [CounterNext]_counterVars PROVE CounterTypeOK'
    OBVIOUS
  <2> USE SkipAssumption DEF CounterTypeOK, None, LossKinds
  <2>1. CASE Boot
    <3>1. CASE BootFromRecord
      BY <2>1, <3>1 DEF Boot, BootFromRecord, Commit, ResumeAt, nvVars
    <3>2. CASE BootFromNothing
      BY <2>1, <3>2 DEF Boot, BootFromNothing, Commit, ResumeAt, nvVars
    <3>3. CASE BootFromGarbage
      BY <2>1, <3>3 DEF Boot, BootFromGarbage, NoCommit, ResumeAt, nvVars
    <3> QED
      BY <2>1, <3>1, <3>2, <3>3 DEF Boot
  <2>2. CASE Take
    BY <2>2 DEF Take, Commit, NoCommit, IncrementCommits, nvVars
  <2>3. CASE Air
    BY <2>3 DEF Air, nvVars
  <2>4. CASE Drop
    BY <2>4 DEF Drop, nvVars, history
  <2>5. CASE PowerLoss
    BY <2>5 DEF PowerLoss, nvVars
  <2>6. CASE Garble
    BY <2>6 DEF Garble, ramVars, history
  <2>7. CASE UNCHANGED counterVars
    BY <2>7 DEF counterVars, nvVars, ramVars, history
  <2> QED
    BY <2>1, <2>2, <2>3, <2>4, <2>5, <2>6, <2>7 DEF CounterNext
<1>3. QED
  BY <1>1, <1>2, PTL DEF CounterSpec

(* Below the 24-bit bound the wire value is the counter value itself.       *)
LEMMA WireBelowBound ==
  ASSUME NEW v \in Nat, v < SeqMod
  PROVE  Wire(v) = v
  BY SeqModAssumption DEF Wire

(* Putting a value above everything already aired on the air repeats no     *)
(* nonce, unless the 24-bit space has wrapped.                              *)
LEMMA FreshNonce ==
  ASSUME CounterTypeOK, NEW s \in Nat, s < SeqMod,
         \A v \in aired : v < s
  PROVE  ~ \E v \in aired : Wire(v) = Wire(s)
  <1> SUFFICES ASSUME NEW v \in aired PROVE Wire(v) # Wire(s)
    OBVIOUS
  <1>1. v \in Nat /\ v < s /\ v < SeqMod
    BY SeqModAssumption DEF CounterTypeOK
  <1>2. Wire(v) = v
    BY <1>1, WireBelowBound
  <1>3. Wire(s) = s
    BY WireBelowBound
  <1> QED
    BY <1>1, <1>2, <1>3

(* A commit of the current value, whatever its outcome, leaves _lastSaved   *)
(* equal to the stored value, and when it succeeded the store at hand.      *)
LEMMA CommitEffect ==
  ASSUME CounterTypeOK, nvState # "garbage", NEW value \in Nat, current' = value,
         Commit(value, nvValue)
  PROVE  /\ lastSaved' = nvValue'
         /\ nvState' # "garbage"
         /\ lastWrite' = "ok" => nvState' = "ok" /\ current' <= nvValue' + Skip
<1>1. CASE nvState' = "ok" /\ nvValue' = value /\ lastSaved' = value /\ lastWrite' = "ok"
  BY <1>1, SkipAssumption
<1>2. CASE UNCHANGED nvVars /\ lastSaved' = nvValue /\ lastWrite' = "failed"
  BY <1>2 DEF nvVars
<1> QED
  BY <1>1, <1>2 DEF Commit

(* A power-up: what begin() resumes with is above everything aired.         *)
LEMMA BootPreserves ==
  ASSUME CounterInv, CounterTypeOK', Boot
  PROVE  CounterInv'
  <1> USE SkipAssumption, SecAssumption DEF CounterInv, CounterTypeOK, None
  <1>1. CASE BootFromRecord
    <2>0. current' = nvValue + Skip /\ Commit(nvValue + Skip, nvValue)
      BY <1>1 DEF BootFromRecord, ResumeAt
    <2>1. losses' = {} => RunningAhead'
      <3>1. ASSUME losses' = {}, NEW v \in aired' PROVE v < current'
        BY <1>1, <2>0, <3>1 DEF Boot, BootFromRecord, NothingLost, OffCovered
      <3>2. /\ lastSaved' = nvValue'
            /\ nvState' # "garbage"
            /\ lastWrite' = "ok" => nvState' = "ok" /\ current' <= nvValue' + Skip
        <4> HIDE DEF CounterInv, CounterTypeOK
        <4>1. CounterTypeOK /\ nvValue + Skip \in Nat /\ nvState # "garbage"
          BY <1>1, SkipAssumption DEF CounterInv, CounterTypeOK, BootFromRecord
        <4> QED
          BY <2>0, <4>1, CommitEffect
      <3> QED
        BY <3>1, <3>2 DEF Boot, RunningAhead
    <2>2. losses' = {} => NothingLost'
      BY <1>1, <2>1 DEF Boot, BootFromRecord, NothingLost, Wrapped
    <2> QED
      BY <1>1, <2>2 DEF Boot, BootFromRecord, Commit, ResumeAt, nvVars
  <1>2. CASE BootFromNothing
    <2>1. CASE nvState = "empty"
      <3>0. current' = Skip /\ Commit(Skip, 0)
        BY <1>2 DEF BootFromNothing, ResumeAt
      <3>1. losses' = {} => RunningAhead'
        <4>1. losses' = {} => aired' = {}
          BY <1>2, <2>1 DEF Boot, BootFromNothing, NothingLost, OffCovered
        <4>2. /\ lastSaved' = nvValue'
              /\ nvState' # "garbage"
              /\ lastWrite' = "ok" => nvState' = "ok" /\ current' <= nvValue' + Skip
          <5> HIDE DEF CounterInv, CounterTypeOK
          <5>1. CounterTypeOK /\ nvValue = 0 /\ nvState # "garbage"
            BY <2>1 DEF CounterInv
          <5> QED
            BY <3>0, <5>1, CommitEffect, SkipAssumption
        <4> QED
          BY <4>1, <4>2 DEF Boot, RunningAhead
      <3>2. losses' = {} => NothingLost'
        BY <1>2, <2>1, <3>1 DEF Boot, BootFromNothing, NothingLost, Wrapped
      <3> QED
        BY <1>2, <2>1, <3>2 DEF Boot, BootFromNothing, Commit, ResumeAt, nvVars
    <2>2. CASE nvState # "empty"
      BY <1>2, <2>2 DEF Boot, BootFromNothing, Commit, ResumeAt, nvVars
    <2> QED
      BY <2>1, <2>2
  <1>3. CASE BootFromGarbage
    <2>1. CASE Sec
      BY <1>3, <2>1 DEF Boot, BootFromGarbage, NoCommit, ResumeAt, nvVars,
                        NothingLost, OffCovered, Wrapped
    <2>2. CASE ~Sec
      BY <1>3, <2>2 DEF Boot, BootFromGarbage, NoCommit, ResumeAt, nvVars
    <2> QED
      BY <2>1, <2>2
  <1> QED
    BY <1>1, <1>2, <1>3 DEF Boot

(* Taking a value: it is above everything aired, and the store is at most   *)
(* Skip behind unless the commit just failed.                               *)
LEMMA TakePreserves ==
  ASSUME CounterInv, CounterTypeOK', Take
  PROVE  CounterInv'
  <1> USE SkipAssumption DEF CounterInv, CounterTypeOK, None
  <1>1. losses' = {} => RunningAhead'
    <2>1. CASE IncrementCommits(current + 1)
      <3> HIDE DEF CounterInv, CounterTypeOK
      <3>1. Commit(current + 1, lastSaved) /\ CounterTypeOK
        BY <2>1 DEF Take, CounterInv
      <3>2. losses' = {} => RunningAhead
        BY DEF Take, CounterInv, NothingLost
      <3>3. ASSUME losses' = {}, NEW v \in aired'
            PROVE  v < current' /\ v < inHand'
        BY <3>1, <3>2, <3>3 DEF Take, RunningAhead, CounterTypeOK
      <3>4. ASSUME losses' = {}
            PROVE  /\ lastSaved' = nvValue'
                   /\ nvState' # "garbage"
                   /\ lastWrite' = "ok" => nvState' = "ok" /\ current' <= nvValue' + Skip
        <4>1. lastSaved = nvValue /\ nvState # "garbage"
          BY <3>2, <3>4 DEF RunningAhead
        <4>2. current + 1 \in Nat /\ current' = current + 1
          BY <3>1 DEF Take, CounterTypeOK
        <4> QED
          BY <3>1, <4>1, <4>2, CommitEffect
      <3>5. inHand' < current'
        BY <3>1 DEF Take, CounterTypeOK
      <3> QED
        BY <3>3, <3>4, <3>5 DEF RunningAhead
    <2>2. CASE ~IncrementCommits(current + 1)
      BY <2>2 DEF Take, NoCommit, IncrementCommits, nvVars, NothingLost, RunningAhead
    <2> QED
      BY <2>1, <2>2
  <1>2. losses' = {} => NothingLost'
    BY <1>1 DEF Take, NothingLost, Wrapped
  <1> QED
    BY <1>2 DEF Take, Commit, NoCommit, nvVars

(* Putting a frame on the air keeps the order of the values, hence the      *)
(* nonces apart.                                                            *)
LEMMA AirPreserves ==
  ASSUME CounterInv, CounterTypeOK', Air
  PROVE  CounterInv'
  <1> USE DEF CounterInv, CounterTypeOK, None
  <1>1. losses' = {} => RunningAhead'
    BY DEF Air, nvVars, NothingLost, RunningAhead
  <1>2. ASSUME losses' = {}, ~Wrapped' PROVE repeated' = {}
    <2>1. ~Wrapped /\ inHand < SeqMod
      BY <1>2, SeqModAssumption DEF Air, Wrapped
    <2>2. \A v \in aired : v < inHand
      BY <1>2 DEF Air, NothingLost, RunningAhead
    <2>3. ~ \E v \in aired : Wire(v) = Wire(inHand)
      BY <2>1, <2>2, FreshNonce DEF Air
    <2> QED
      BY <1>2, <2>1, <2>3 DEF Air, NothingLost
  <1>3. losses' = {} => NothingLost'
    BY <1>1, <1>2 DEF Air, NothingLost
  <1> QED
    BY <1>3 DEF Air, nvVars

(* The inductive invariant holds in every reachable state.                  *)
THEOREM InductiveInvariant == CounterSpec => []CounterInv
<1>1. CounterInit => CounterInv
  <2>1. CounterInit => CounterTypeOK
    BY DEF CounterInit, CounterTypeOK, None, LossKinds
  <2> QED
    BY <2>1 DEF CounterInit, CounterInv, NothingLost, OffCovered, Wrapped, LossKinds
<1>2. CounterInv /\ CounterTypeOK' /\ [CounterNext]_counterVars => CounterInv'
  <2> SUFFICES ASSUME CounterInv, CounterTypeOK', [CounterNext]_counterVars PROVE CounterInv'
    OBVIOUS
  <2>1. CASE Boot
    BY <2>1, BootPreserves
  <2>2. CASE Take
    BY <2>2, TakePreserves
  <2>3. CASE Air
    BY <2>3, AirPreserves
  <2> USE SkipAssumption DEF CounterInv, CounterTypeOK, None
  <2>4. CASE Drop
    BY <2>4 DEF Drop, nvVars, history, NothingLost, RunningAhead, Wrapped
  <2>5. CASE PowerLoss
    BY <2>5 DEF PowerLoss, nvVars, NothingLost, RunningAhead, OffCovered, Wrapped
  <2>6. CASE Garble
    BY <2>6 DEF Garble, ramVars, history, NothingLost, OffCovered, Wrapped
  <2>7. CASE UNCHANGED counterVars
    BY <2>7 DEF counterVars, nvVars, ramVars, history, NothingLost, RunningAhead,
                OffCovered, Wrapped
  <2> QED
    BY <2>1, <2>2, <2>3, <2>4, <2>5, <2>6, <2>7 DEF CounterNext
<1>3. QED
  BY <1>1, <1>2, CounterTypeCorrect, PTL DEF CounterSpec

(* A nonce is reused only after the 24-bit wrap, a write that failed and    *)
(* was not retried before the power went, an unreadable record, or, on a    *)
(* node that does not encrypt, a garbled one.                               *)
THEOREM NonceFreshness == CounterSpec => []ReuseOnlyAfterLoss
<1>1. CounterInv => ReuseOnlyAfterLoss
  <2> SUFFICES ASSUME CounterInv, repeated # {}, ~Wrapped
               PROVE  \/ losses \cap {"writeLost", "misread"} # {}
                      \/ (~Sec /\ "garbled" \in losses)
    BY DEF ReuseOnlyAfterLoss
  <2>1. losses # {}
    BY DEF CounterInv, NothingLost
  <2>2. PICK l \in losses : l \in LossKinds
    BY <2>1 DEF CounterInv, CounterTypeOK
  <2> QED
    BY <2>2 DEF CounterInv, LossKinds
<1>2. QED
  BY <1>1, InductiveInvariant, PTL

(* While nothing was lost, the RAM copy of the persisted value is right.    *)
THEOREM RamAgreesWithStore == CounterSpec => []LastSavedIsStored
<1>1. CounterInv => LastSavedIsStored
  BY DEF CounterInv, NothingLost, RunningAhead, LastSavedIsStored
<1>2. QED
  BY <1>1, InductiveInvariant, PTL

-----------------------------------------------------------------------------
(* The duty-cycle tracker.                                                 *)

Tracker == [off : Nat, epoch : BOOLEAN, saved : Int]

DutyTypes ==
    /\ now \in Nat /\ now <= MaxTime /\ bootAt \in Nat /\ bootAt <= now /\ clockOk \in BOOLEAN
    /\ duty \in Tracker
    /\ nv \in Nat /\ rule \in Int /\ owed \in Int
    /\ covered \in BOOLEAN /\ mixed \in {"none", "deadline", "record"}

\* The present on the base of the deadline, and the record while the tracker
\* is still to read it.
DeadlineBase == IF duty.epoch THEN EpochMs ELSE TickMs
Unread == clockOk /\ nv # 0 /\ (~duty.epoch \/ loading # Nobody)

\* How long the tracker will refuse, were its calls not disturbed.
Wait ==
    IF duty.epoch /\ ~clockOk THEN 0
    ELSE Greater(Greater(0, duty.off - DeadlineBase),
                 IF Unread THEN RecordMs - EpochMs ELSE 0)

\* A deadline of the wall clock that is taken for a tick count, or was carried
\* over from one: it refuses for longer than any run takes.
Muted ==
    /\ duty.epoch => clockOk
    /\ duty.off >= IF duty.epoch THEN EpochBase + MaxTime + OffTime ELSE EpochBase

USE DutyAssumption

LEMMA Times ==
    ASSUME DutyTypes
    PROVE  /\ TickMs \in Nat /\ EpochMs \in Nat /\ TrackerNow \in Nat /\ DeadlineBase \in Nat
           /\ RecordMs \in Nat /\ EpochBase \in Nat /\ EpochMs = EpochBase + now
           /\ EpochBase = MaxTime + OffTime /\ TickMs = now - bootAt
           /\ duty.off \in Nat /\ duty.epoch \in BOOLEAN /\ duty.saved \in Int
           /\ clockOk \in BOOLEAN /\ now \in Nat /\ nv \in Nat /\ bootAt \in Nat
           /\ now <= MaxTime /\ bootAt <= now
           /\ rule \in Int /\ owed \in Int /\ (nv = 0 => RecordMs = 0)
  BY DEF DutyTypes, Tracker, TickMs, EpochMs, EpochBase, TrackerNow, RecordMs, DeadlineBase

LEMMA Greatest ==
    \A a, b \in Int : /\ Greater(a, b) \in Int /\ a <= Greater(a, b) /\ b <= Greater(a, b)
                      /\ Greater(a, b) = a \/ Greater(a, b) = b
  BY DEF Greater

LEMMA WaitNat == ASSUME DutyTypes PROVE Wait \in Nat
  BY Times DEF Wait, Greater

-----------------------------------------------------------------------------
(* The wait after each step of a call.                                     *)

\* _syncBase moves the deadline to the base of the clock, and keeps the wait.
LEMMA SyncWait ==
    ASSUME DutyTypes, loading = Nobody, duty' = SyncBase(duty),
           UNCHANGED <<now, bootAt, clockOk, nv, rule, owed, covered, mixed>>,
           loading' # Nobody <=> FindsClockSet(duty)
    PROVE  /\ DutyTypes' /\ Wait' = Wait /\ (Muted => Muted')
           /\ duty'.epoch = clockOk /\ duty'.saved = duty.saved
<1>1. /\ TickMs' = TickMs /\ EpochMs' = EpochMs /\ RecordMs' = RecordMs /\ EpochBase' = EpochBase
  BY DEF TickMs, EpochMs, EpochBase, RecordMs
<1>2. CASE duty.epoch = clockOk
  <2>1. duty' = duty /\ loading' = Nobody
    BY <1>2, Times DEF SyncBase, FindsClockSet
  <2> QED
    BY <1>1, <1>2, <2>1 DEF DutyTypes, Wait, Muted, DeadlineBase, Unread
<1>3. CASE duty.epoch /\ ~clockOk
  <2>1. duty' = [duty EXCEPT !.off = TickMs, !.epoch = FALSE] /\ loading' = Nobody
    BY <1>3, Times DEF SyncBase, FindsClockSet
  <2>2. /\ duty' \in Tracker /\ duty'.off = TickMs /\ duty'.epoch = FALSE
        /\ duty'.saved = duty.saved
    BY <2>1, Times DEF Tracker, DutyTypes
  <2>3. DutyTypes'
    BY <2>2 DEF DutyTypes
  <2>4. Wait = 0 /\ ~Muted
    BY <1>3 DEF Wait, Muted
  <2>5. Wait' = Greater(Greater(0, TickMs - TickMs), 0)
    BY <1>1, <1>3, <2>2, Times DEF Wait, DeadlineBase, Unread
  <2>6. Wait' = 0
    BY <2>5, Times DEF Greater
  <2>7. duty'.epoch = clockOk
    BY <1>3, <2>2, Times
  <2> QED
    BY <2>2, <2>3, <2>4, <2>6, <2>7
<1>4. CASE ~duty.epoch /\ clockOk
  <2> DEFINE g == Greater(0, duty.off - TickMs)
  <2>1. duty' = Carried(duty) /\ loading' # Nobody
    BY <1>4, Times DEF SyncBase, FindsClockSet
  <2>2. g \in Int /\ g >= duty.off - TickMs /\ g >= 0
    BY Times DEF Greater
  <2>3. duty' = [duty EXCEPT !.off = EpochMs + g, !.epoch = TRUE]
    BY <2>1 DEF Carried
  <2> HIDE DEF g
  <2>4. /\ duty' \in Tracker /\ duty'.off = EpochMs + g /\ duty'.epoch = TRUE
        /\ duty'.saved = duty.saved
    <3>1. EpochMs + g \in Nat
      BY <2>2, Times
    <3> QED
      BY <2>3, <3>1 DEF Tracker, DutyTypes
  <2>5. DutyTypes'
    BY <2>4 DEF DutyTypes
  <2>6. Wait = Greater(g, IF nv # 0 THEN RecordMs - EpochMs ELSE 0)
    BY <1>4, Times DEF Wait, DeadlineBase, Unread, g
  <2>7. Wait' = Greater(Greater(0, g), IF nv # 0 THEN RecordMs - EpochMs ELSE 0)
    <3>1. DeadlineBase' = EpochMs /\ (Unread' <=> nv # 0) /\ ~(duty'.epoch /\ ~clockOk')
      BY <1>1, <1>4, <2>1, <2>4 DEF DeadlineBase, Unread
    <3>2. duty'.off - DeadlineBase' = g
      <4>1. g \in Int /\ EpochMs \in Int
        BY <2>2, Times
      <4>2. duty'.off = EpochMs + g /\ DeadlineBase' = EpochMs
        BY <2>4, <3>1
      <4> QED
        BY <4>1, <4>2
    <3>3. RecordMs' - EpochMs' = RecordMs - EpochMs
      BY <1>1
    <3>4. Wait' = Greater(Greater(0, duty'.off - DeadlineBase'),
                          IF Unread' THEN RecordMs' - EpochMs' ELSE 0)
      BY <3>1 DEF Wait
    <3>5. CASE nv # 0
      <4>1. Wait' = Greater(Greater(0, duty'.off - DeadlineBase'), RecordMs' - EpochMs')
        BY <3>1, <3>4, <3>5
      <4> QED
        BY <3>2, <3>3, <3>5, <4>1
    <3>6. CASE nv = 0
      <4>1. Wait' = Greater(Greater(0, duty'.off - DeadlineBase'), 0)
        BY <3>1, <3>4, <3>6
      <4> QED
        BY <3>2, <3>6, <4>1
    <3> QED
      BY <3>5, <3>6
  <2>8. Greater(0, g) = g
    BY <2>2 DEF Greater
  <2>9. Muted => Muted'
    <3> SUFFICES ASSUME Muted PROVE Muted'
      OBVIOUS
    <3>1. duty.off >= EpochBase
      BY <1>4 DEF Muted
    <3>2. EpochMs + g >= EpochBase + MaxTime + OffTime
      BY <2>2, <3>1, Times
    <3> QED
      BY <1>1, <1>4, <2>4, <3>2 DEF Muted
  <2>10. duty'.epoch = clockOk
    BY <1>4, <2>4, Times
  <2> QED
    BY <2>4, <2>5, <2>6, <2>7, <2>8, <2>9, <2>10
<1> QED
  BY <1>2, <1>3, <1>4, Times

\* What _loadFromNv makes of a tracker.
LEMMA Loaded ==
    ASSUME DutyTypes
    PROVE  LET takes == nv # 0 /\ clockOk /\ RecordMs > EpochMs /\ RecordMs > duty.off
               d == LoadFromNv(duty)
           IN  /\ d \in Tracker /\ d.epoch = duty.epoch
               /\ takes => d.off = RecordMs /\ d.saved = RecordMs
               /\ ~takes => d = duty
<1>1. CASE nv # 0 /\ clockOk /\ RecordMs > EpochMs /\ RecordMs > duty.off
  <2>1. LoadFromNv(duty) = [duty EXCEPT !.off = RecordMs, !.saved = RecordMs]
    BY <1>1 DEF LoadFromNv
  <2>2. RecordMs \in Nat /\ duty \in Tracker
    <3>1. RecordMs \in Nat
      BY Times
    <3> QED
      BY <3>1 DEF DutyTypes
  <2> DEFINE e == [duty EXCEPT !.off = RecordMs]
  <2>3. e \in Tracker /\ e.off = RecordMs /\ e.epoch = duty.epoch
    BY <2>2 DEF Tracker
  <2>4. LoadFromNv(duty) = [e EXCEPT !.saved = RecordMs]
    BY <2>1
  <2> HIDE DEF e
  <2>5. /\ LoadFromNv(duty) \in Tracker /\ LoadFromNv(duty).epoch = duty.epoch
        /\ LoadFromNv(duty).off = RecordMs /\ LoadFromNv(duty).saved = RecordMs
    BY <2>2, <2>3, <2>4 DEF Tracker
  <2> QED
    BY <1>1, <2>5
<1>2. CASE ~(nv # 0 /\ clockOk /\ RecordMs > EpochMs /\ RecordMs > duty.off)
  <2>1. LoadFromNv(duty) = duty
    BY <1>2 DEF LoadFromNv
  <2> QED
    BY <1>2, <2>1 DEF DutyTypes
<1> QED
  BY <1>1, <1>2

\* After it the record has been read, and the wait is what it was.
LEMMA LoadWait ==
    ASSUME DutyTypes, loading # Nobody, duty.epoch, loading' = Nobody, duty' = LoadFromNv(duty),
           UNCHANGED <<now, bootAt, clockOk, nv, rule, owed, covered, mixed>>
    PROVE  /\ DutyTypes' /\ Wait' = Wait /\ (Muted => Muted')
           /\ duty'.saved \in {duty.saved, RecordMs}
<1>1. /\ TickMs' = TickMs /\ EpochMs' = EpochMs /\ RecordMs' = RecordMs /\ EpochBase' = EpochBase
  BY DEF TickMs, EpochMs, EpochBase, RecordMs
<1> DEFINE takes == nv # 0 /\ clockOk /\ RecordMs > EpochMs /\ RecordMs > duty.off
<1>2. /\ duty' \in Tracker /\ duty'.epoch = duty.epoch
      /\ takes => duty'.off = RecordMs /\ duty'.saved = RecordMs
      /\ ~takes => duty' = duty
  BY Loaded
<1>3. DutyTypes'
  BY <1>2 DEF DutyTypes
<1>4. duty'.off >= duty.off /\ duty'.off \in Int
  BY <1>2, Times
<1>5. Muted => Muted'
  BY <1>1, <1>2, <1>4, Times DEF Muted
<1>6. CASE ~clockOk
  BY <1>2, <1>3, <1>5, <1>6 DEF Wait
<1>7. CASE clockOk
  <2>1. Wait = Greater(Greater(0, duty.off - EpochMs), IF nv # 0 THEN RecordMs - EpochMs ELSE 0)
    BY <1>7, Times DEF Wait, DeadlineBase, Unread
  <2>2. Wait' = Greater(Greater(0, duty'.off - EpochMs), 0)
    BY <1>1, <1>2, <1>7, Times DEF Wait, DeadlineBase, Unread
  <2>3. CASE takes
    <3>1. duty'.off = RecordMs /\ RecordMs > EpochMs /\ RecordMs > duty.off /\ nv # 0
      BY <1>2, <2>3
    <3>2. Wait = RecordMs - EpochMs
      BY <2>1, <3>1, Times DEF Greater
    <3>3. Wait' = RecordMs - EpochMs
      BY <2>2, <3>1, Times DEF Greater
    <3> QED
      BY <1>2, <1>3, <1>5, <2>3, <3>2, <3>3
  <2>4. CASE ~takes
    <3>1. duty' = duty /\ (nv = 0 \/ RecordMs <= EpochMs \/ RecordMs <= duty.off)
      BY <1>2, <1>7, <2>4, Times
    <3>2. Wait = Greater(0, duty.off - EpochMs)
      BY <2>1, <3>1, Times DEF Greater
    <3>3. Wait' = Greater(0, duty.off - EpochMs)
      BY <2>2, <3>1, Times DEF Greater
    <3> QED
      BY <1>3, <1>5, <3>1, <3>2, <3>3
  <2> QED
    BY <2>3, <2>4
<1> QED
  BY <1>6, <1>7

\* A tracker made by begin() knows what the record holds, unless the clock was
\* set within init: then the record's deadline stands for a tick count.
LEMMA FreshWait ==
    ASSUME DutyTypes, duty.off = 0, duty.saved = 0, duty' = LoadFromNv(duty), owed' = Remembered,
           loading' = Nobody, UNCHANGED <<now, bootAt, clockOk, nv, rule, covered>>,
           mixed' = IF WrongBase(duty) /\ LoadFromNv(duty) # duty THEN "deadline" ELSE "none"
    PROVE  /\ DutyTypes'
           /\ mixed' = "none" => owed' - now' <= Wait'
           /\ mixed' = "deadline" => Muted'
           /\ duty'.saved \in {0, RecordMs}
<1>1. /\ TickMs' = TickMs /\ EpochMs' = EpochMs /\ RecordMs' = RecordMs /\ EpochBase' = EpochBase
  BY DEF TickMs, EpochMs, EpochBase, RecordMs
<1> DEFINE takes == nv # 0 /\ clockOk /\ RecordMs > EpochMs /\ RecordMs > duty.off
<1>2. /\ duty' \in Tracker /\ duty'.epoch = duty.epoch
      /\ takes => duty'.off = RecordMs /\ duty'.saved = RecordMs
      /\ ~takes => duty' = duty
  BY Loaded
<1>3. RecordTime \in Int /\ RecordTime = now + Greater(0, RecordMs - EpochMs)
  BY Times DEF RecordTime, Greater
<1>4. owed' \in Int
  BY <1>3, Times DEF Remembered, Lesser
<1>5. DutyTypes'
  BY <1>2, <1>4 DEF DutyTypes
<1>6. mixed' = "deadline" => Muted'
  <2> SUFFICES ASSUME mixed' = "deadline" PROVE Muted'
    OBVIOUS
  <2>1. WrongBase(duty) /\ duty' # duty
    OBVIOUS
  <2>2. takes /\ ~duty.epoch
    BY <1>2, <2>1 DEF WrongBase, FindsClockSet
  <2> QED
    BY <1>1, <1>2, <2>2, Times DEF Muted
<1>7. mixed' = "none" => owed' - now' <= Wait'
  <2> SUFFICES ASSUME mixed' = "none" PROVE owed' - now <= Wait'
    OBVIOUS
  <2>0. Wait' \in Nat
    <3>1. (DutyTypes => Wait \in Nat)'
      BY WaitNat, PTL
    <3> QED
      BY <1>5, <3>1
  <2>1. CASE ~clockOk
    BY <2>0, <2>1, Times DEF Remembered
  <2>2. CASE clockOk
    <3>1. owed' <= RecordTime
      BY <1>3, <2>2, Times DEF Remembered, Lesser
    <3>2. owed' - now <= Greater(0, RecordMs - EpochMs)
      BY <1>3, <1>4, <3>1, Times DEF Greater
    <3>3. CASE takes
      <4>1. duty.epoch
        BY <1>2, <2>2, <3>3, Times DEF WrongBase, FindsClockSet
      <4>2. duty'.off = RecordMs /\ RecordMs > EpochMs
        BY <1>2, <3>3
      <4>3. Wait' = Greater(Greater(0, RecordMs - EpochMs), 0)
        BY <1>1, <1>2, <2>2, <4>1, <4>2, Times DEF Wait, DeadlineBase, Unread
      <4> QED
        BY <1>4, <3>2, <4>2, <4>3, Times DEF Greater
    <3>4. CASE ~takes
      <4>1. Greater(0, RecordMs - EpochMs) = 0
        <5>1. 0 <= EpochMs
          BY Times
        <5>2. nv = 0 \/ RecordMs <= EpochMs \/ RecordMs <= 0
          BY <2>2, <3>4, Times
        <5> QED
          BY <5>1, <5>2, Times DEF Greater
      <4> QED
        BY <1>4, <2>0, <3>2, <4>1, Times
    <3> QED
      BY <3>3, <3>4
  <2> QED
    BY <2>1, <2>2
<1>8. duty'.saved \in {0, RecordMs}
  BY <1>2
<1> QED
  BY <1>5, <1>6, <1>7, <1>8

\* addTransmission adds the whole off-time to the wait, unless the clock has
\* been set since _syncBase: then the deadline is past all waiting.
LEMMA ExtendWait ==
    ASSUME DutyTypes, loading = Nobody, loading' = Nobody,
           duty' = Extended(duty), mixed' = Mixed(duty),
           UNCHANGED <<now, bootAt, clockOk, nv, rule, owed, covered>>
    PROVE  /\ DutyTypes'
           /\ duty.epoch = clockOk => Wait' = Wait + OffTime /\ mixed' = mixed
           /\ duty.epoch /\ ~clockOk => mixed' = mixed
           /\ WrongBase(duty) => mixed' # "none" /\ Muted'
           /\ Muted => Muted'
           /\ duty'.epoch = duty.epoch /\ duty'.saved = duty.saved
<1>1. /\ TickMs' = TickMs /\ EpochMs' = EpochMs /\ RecordMs' = RecordMs /\ EpochBase' = EpochBase
  BY DEF TickMs, EpochMs, EpochBase, RecordMs
<1>2. Greater(TrackerNow, duty.off) \in Nat /\ Greater(TrackerNow, duty.off) >= duty.off
      /\ Greater(TrackerNow, duty.off) >= TrackerNow
  <2>1. TrackerNow \in Nat /\ duty.off \in Nat
    BY Times
  <2> QED
    BY <2>1 DEF Greater
<1>3. /\ duty' \in Tracker /\ duty'.off = Greater(TrackerNow, duty.off) + OffTime
      /\ duty'.epoch = duty.epoch /\ duty'.saved = duty.saved
  BY <1>2 DEF Extended, DutyTypes, Tracker
<1>4. mixed' \in {"none", "deadline", "record"}
  BY DEF Mixed, DutyTypes
<1>5. DutyTypes'
  BY <1>3, <1>4 DEF DutyTypes
<1>6. Muted => Muted'
  BY <1>1, <1>2, <1>3, Times DEF Muted
<1>7. ASSUME WrongBase(duty) PROVE mixed' # "none" /\ Muted'
  <2>1. ~duty.epoch /\ clockOk
    BY <1>7 DEF WrongBase, FindsClockSet
  <2>2. TrackerNow = EpochMs
    BY <2>1 DEF TrackerNow
  <2>3. duty'.off >= EpochBase /\ duty'.off \in Int
    BY <1>2, <1>3, <2>2, Times
  <2>4. mixed' # "none"
    BY <1>7 DEF Mixed
  <2> QED
    BY <1>1, <1>3, <2>1, <2>3, <2>4 DEF Muted
<1>8. ASSUME duty.epoch = clockOk PROVE Wait' = Wait + OffTime /\ mixed' = mixed
  <2>1. ~WrongBase(duty) /\ ~Unread /\ DeadlineBase = TrackerNow
    BY <1>8 DEF WrongBase, FindsClockSet, Unread, DeadlineBase, TrackerNow
  <2>2. Wait = Greater(Greater(0, duty.off - TrackerNow), 0)
    BY <1>8, <2>1 DEF Wait
  <2>3. TrackerNow' = TrackerNow /\ DeadlineBase' = TrackerNow /\ ~Unread'
    BY <1>1, <1>3, <1>8 DEF Unread, DeadlineBase, TrackerNow
  <2>4. Wait' = Greater(Greater(0, duty'.off - TrackerNow), 0)
    BY <1>3, <1>8, <2>3 DEF Wait
  <2> QED
    BY <1>3, <2>1, <2>2, <2>4, Times DEF Greater, Mixed
<1>9. duty.epoch /\ ~clockOk => mixed' = mixed
  BY DEF Mixed, WrongBase, FindsClockSet
<1> QED
  BY <1>3, <1>5, <1>6, <1>7, <1>8, <1>9

\* Rounded up to whole seconds, a deadline is not earlier.
LEMMA RoundedUp ==
    ASSUME NEW x \in Nat, NEW s \in Nat \ {0}
    PROVE  (x + s - 1) \div s \in Nat /\ ((x + s - 1) \div s) * s >= x
  OBVIOUS

\* _maybeCommit leaves the deadline alone; where it writes a record that the
\* tracker has not read, the record is a tick count.
LEMMA SaveWait ==
    ASSUME DutyTypes, loading = Nobody, loading' = Nobody, MaybeCommit,
           UNCHANGED <<now, bootAt, clockOk, rule, owed>>
    PROVE  /\ DutyTypes'
           /\ mixed' = "none" => Wait' = Wait /\ mixed = "none"
           /\ mixed' = "deadline" => mixed = "deadline"
           /\ Muted => Muted'
<1>1. /\ TickMs' = TickMs /\ EpochMs' = EpochMs /\ EpochBase' = EpochBase
  BY DEF TickMs, EpochMs, EpochBase
<1>2. /\ duty' \in Tracker /\ duty'.off = duty.off /\ duty'.epoch = duty.epoch
      /\ duty' = duty \/ duty' = [duty EXCEPT !.saved = duty.off]
  BY DEF MaybeCommit, DutyTypes, Tracker
<1>3. nv' = nv \/ nv' = (duty.off + Second - 1) \div Second
  BY DEF MaybeCommit
<1>4. nv' \in Nat
  BY <1>3, RoundedUp, Times
<1>5. /\ covered' \in BOOLEAN /\ mixed' \in {"none", "deadline", "record"}
      /\ mixed' = mixed \/ (mixed = "none" /\ mixed' = "record")
      /\ nv' = nv \/ duty.epoch \/ mixed' # "none"
  BY DEF MaybeCommit, DutyTypes
<1>6. DutyTypes'
  BY <1>2, <1>4, <1>5 DEF DutyTypes
<1>7. Muted => Muted'
  BY <1>1, <1>2 DEF Muted
<1>8. ASSUME mixed' = "none" PROVE Wait' = Wait
  <2>1. nv' = nv => RecordMs' = RecordMs
    BY DEF RecordMs
  <2>2. nv' = nv \/ duty.epoch
    BY <1>5, <1>8
  <2>3. CASE duty.epoch
    <3>1. ~Unread /\ ~Unread'
      BY <1>2, <2>3 DEF Unread
    <3> QED
      BY <1>1, <1>2, <2>3, <3>1 DEF Wait, DeadlineBase
  <2>4. CASE nv' = nv
    BY <1>1, <1>2, <2>1, <2>4 DEF Wait, DeadlineBase, Unread
  <2> QED
    BY <2>2, <2>3, <2>4
<1> QED
  BY <1>5, <1>6, <1>7, <1>8

\* canTransmit lets a frame go only when there is nothing left to wait for,
\* unless the clock has been set since _syncBase.
LEMMA JudgeWait ==
    ASSUME DutyTypes, loading = Nobody, MayTransmit(duty), ~WrongBase(duty)
    PROVE  Wait = 0 /\ ~Muted
<1>1. CASE duty.epoch /\ ~clockOk
  BY <1>1 DEF Wait, Muted
<1>2. CASE duty.epoch = clockOk
  <2>1. ~Unread /\ DeadlineBase = TrackerNow /\ duty.off <= TrackerNow
    BY <1>2, Times DEF Unread, DeadlineBase, TrackerNow, MayTransmit
  <2>2. Wait = Greater(Greater(0, duty.off - TrackerNow), 0)
    BY <1>2, <2>1 DEF Wait
  <2>3. Wait = 0
    BY <2>1, <2>2, Times DEF Greater
  <2>4. TrackerNow < IF duty.epoch THEN EpochBase + MaxTime + OffTime ELSE EpochBase
    BY <1>2, Times DEF TrackerNow
  <2>5. ~Muted
    BY <2>1, <2>4, Times DEF Muted
  <2> QED
    BY <2>3, <2>5
<1> QED
  BY <1>1, <1>2, Times DEF WrongBase, FindsClockSet

\* One unit of time takes at most one from the wait.
LEMMA TickWait ==
    ASSUME DutyTypes, Tick, UNCHANGED loading
    PROVE  /\ DutyTypes' /\ owed' - now' = owed - now - 1 /\ Wait' >= Wait - 1
           /\ Muted => Muted'
           /\ mixed' = mixed \/ (mixed' = "none" /\ owed' <= now')
<1>1. /\ DutyTypes' /\ now' = now + 1 /\ owed' = owed /\ bootAt' = bootAt
      /\ duty' = duty /\ clockOk' = clockOk /\ nv' = nv
  BY DEF DutyTypes, Tick
<1>2. /\ EpochMs' = EpochMs + 1 /\ TickMs' = TickMs + 1 /\ RecordMs' = RecordMs
      /\ DeadlineBase' = DeadlineBase + 1 /\ EpochBase' = EpochBase /\ Unread' = Unread
  BY <1>1, Times DEF EpochMs, EpochBase, TickMs, DeadlineBase, RecordMs, Unread
<1>3. Wait' >= Wait - 1
  BY <1>1, <1>2, Times DEF Wait, Greater
<1>4. Muted => Muted'
  BY <1>1, <1>2 DEF Muted
<1> QED
  BY <1>1, <1>3, <1>4, Times DEF Tick

\* The clock becomes valid: the tracker will carry its wait over, or take the
\* later deadline the record holds.
LEMMA ClockSetWait ==
    ASSUME DutyTypes, ClockSet, UNCHANGED loading
    PROVE  /\ DutyTypes' /\ mixed' = mixed /\ (Muted => Muted')
           /\ \A x \in Nat : owed - now <= Wait + x => owed' - now' <= Wait' + x
<1>1. /\ ~clockOk /\ clockOk' = TRUE /\ now' = now /\ duty' = duty /\ nv' = nv /\ mixed' = mixed
      /\ TickMs' = TickMs /\ EpochMs' = EpochMs /\ RecordMs' = RecordMs /\ EpochBase' = EpochBase
      /\ owed' = IF duty.epoch THEN owed ELSE Greater(owed, Lesser(rule, RecordTime))
  BY DEF ClockSet, TickMs, EpochMs, EpochBase, RecordMs
<1>2. RecordTime \in Int /\ RecordTime = now + Greater(0, RecordMs - EpochMs)
  BY Times DEF RecordTime, Greater
<1>3. DutyTypes'
  <2>1. owed' \in Int
    BY <1>1, <1>2, Times DEF Greater, Lesser
  <2> QED
    BY <1>1, <2>1 DEF DutyTypes, ClockSet
<1>4. Muted => Muted'
  BY <1>1 DEF Muted
<1>5. Wait' \in Nat /\ Wait \in Nat
  <2>1. (DutyTypes => Wait \in Nat)'
    BY WaitNat, PTL
  <2> QED
    BY <1>3, <2>1, WaitNat
<1>6. ASSUME NEW x \in Nat, owed - now <= Wait + x PROVE owed' - now' <= Wait' + x
  <2>1. CASE duty.epoch
    <3>1. Wait = 0
      BY <1>1, <2>1 DEF Wait
    <3> QED
      BY <1>1, <1>5, <1>6, <2>1, <3>1, Times
  <2>2. CASE ~duty.epoch
    <3> DEFINE g == Greater(0, duty.off - TickMs)
               r == IF nv # 0 THEN RecordMs - EpochMs ELSE 0
    <3>1. g \in Int /\ r \in Int /\ g >= 0
      BY Times DEF Greater
    <3>2. Wait = Greater(g, 0)
      BY <1>1, <2>2 DEF Wait, DeadlineBase, Unread
    <3>3. Wait' = Greater(g, r)
      BY <1>1, <2>2 DEF Wait, DeadlineBase, Unread
    <3>4. Greater(0, RecordMs - EpochMs) = Greater(0, r)
      BY Times DEF Greater
    <3> HIDE DEF g, r
    <3>5. RecordTime - now <= Wait' /\ Wait <= Wait'
      BY <1>2, <3>1, <3>2, <3>3, <3>4, Times DEF Greater
    <3>6. owed' = owed \/ owed' <= RecordTime
      BY <1>1, <1>2, <2>2, Times DEF Greater, Lesser
    <3>7. owed' \in Int
      BY <1>3 DEF DutyTypes
    <3>8. CASE owed' = owed
      BY <1>1, <1>5, <1>6, <3>5, <3>8, Times
    <3>9. CASE owed' <= RecordTime
      BY <1>1, <1>2, <1>5, <3>5, <3>7, <3>9, Times
    <3> QED
      BY <3>6, <3>8, <3>9
  <2> QED
    BY <2>1, <2>2
<1> QED
  BY <1>1, <1>3, <1>4, <1>6


-----------------------------------------------------------------------------
(* The node around it.                                                     *)

(***************************************************************************)
(* A worker that is alive was started on the engine there is, has not said *)
(* that it exited, and somebody knows of it: startWorkerTask has not       *)
(* returned yet, it is announced, or end() waits or has given up waiting   *)
(* for it.                                                                 *)
(***************************************************************************)
WorkerKnown ==
    pc["worker"] # "none" =>
        /\ engine = "up" /\ spawned /\ ~flags.exited
        /\ pc["app"] \in {"spawned", "ending"} \/ flags.started \/ stuck

AppDrives == pc["app"] \in Driving => engine = "up" /\ ~flags.started /\ ~stuck

EndSignalled == stuck \/ pc["app"] = "ending" => flags.shutting

SpawnedUp == pc["app"] = "spawned" => engine = "up"

InitAlone == pc["app"] = "init" => engine = "none"

LifeTypes ==
    /\ flags \in [started : BOOLEAN, shutting : BOOLEAN, exited : BOOLEAN]
    /\ pc \in [Threads -> Places]
    /\ pc["worker"] \notin {"idle", "spawned", "ending", "init", "budget", "answer"}
    /\ stuck \in BOOLEAN

LifeInv == LifeTypes /\ WorkerKnown /\ AppDrives /\ EndSignalled /\ SpawnedUp /\ InitAlone

USE DEF LifeInv, LifeTypes, WorkerKnown, AppDrives, EndSignalled, SpawnedUp, InitAlone,
        Threads, Places, Driving, Go, Idle, Calls, Inside

\* Where a call goes on after _syncBase.
LEMMA After ==
    /\ AfterSync["check"] = "judge" /\ AfterSync["wait"] = "read"
    /\ AfterSync["account"] = "extend" /\ AfterSync["budget"] = "answer"
  BY DEF AfterSync

LEMMA LifeInit == Init => LifeInv
<1> SUFFICES ASSUME Init PROVE LifeInv
  OBVIOUS
<1>1. pc \in [Threads -> Places] /\ pc["app"] = "idle" /\ pc["worker"] = "none"
  BY DEF Init
<1>2. flags \in [started : BOOLEAN, shutting : BOOLEAN, exited : BOOLEAN] /\ ~stuck
  BY DEF Init, NoFlags
<1> QED
  BY <1>1, <1>2 DEF Init

LEMMA LifeNext == LifeInv /\ [Next]_vars => LifeInv'
<1> SUFFICES ASSUME LifeInv, [Next]_vars PROVE LifeInv'
  OBVIOUS
<1> USE DEF lifeVars, workVars, counts, dutyVars, timeVars, historyVars
<1>1. CASE BeginOk \/ InitLoads
  BY <1>1 DEF BeginOk, InitLoads
<1>2. CASE BeginFails
  BY <1>2 DEF BeginFails
<1>3. CASE StartWorkerTask
  BY <1>3 DEF StartWorkerTask
<1>4. CASE MarkStarted
  BY <1>4 DEF MarkStarted
<1>5. CASE Send \/ SendLarge \/ Answer
  BY <1>5 DEF Send, SendLarge, Answer
<1>6. CASE Poll
  BY <1>6 DEF Poll, PollRefused
<1>7. CASE EndSignals
  BY <1>7 DEF EndSignals
<1>8. CASE EndAgain
  BY <1>8 DEF EndAgain
<1>9. CASE EndWithoutWorker
  BY <1>9 DEF EndWithoutWorker, Deleted, NoFlags
<1>10. CASE EndTearsDown
  BY <1>10 DEF EndTearsDown, MayTearDown, Deleted, NoFlags
<1>11. CASE EndGivesUp
  BY <1>11 DEF EndGivesUp
<1>12. CASE WorkerTests
  <2>1. CASE flags.started
    <3>1. UNCHANGED <<engine, flags, spawned, stuck>> /\ pc' = [pc EXCEPT !["worker"] = "pop"]
      BY <1>12, <2>1 DEF WorkerTests
    <3> QED
      BY <1>12, <3>1 DEF WorkerTests
  <2>2. CASE ~flags.started
    <3>1. /\ UNCHANGED <<engine, spawned, stuck>> /\ pc' = [pc EXCEPT !["worker"] = "none"]
          /\ flags' = [flags EXCEPT !.exited = TRUE]
      BY <1>12, <2>2 DEF WorkerTests
    <3> QED
      BY <3>1
  <2> QED
    BY <2>1, <2>2
<1>13. CASE TimePasses
  BY <1>13 DEF TimePasses
<1>14. CASE ClockChanges
  BY <1>14 DEF ClockChanges
<1>15. CASE PowerCycle
  <2>1. pc' \in [Threads -> Places] /\ pc'["app"] = "idle" /\ pc'["worker"] = "none"
    BY <1>15 DEF PowerCycle
  <2>2. flags' = NoFlags /\ stuck' = FALSE
    BY <1>15 DEF PowerCycle, Deleted
  <2> QED
    BY <2>1, <2>2 DEF NoFlags
<1>16. ASSUME NEW t \in Threads, DriveStep(t) PROVE LifeInv'
  <2>1. CASE PopRequest(t)
    BY <2>1 DEF PopRequest
  <2>2. CASE PopShutdown(t)
    <3>1. CASE t = "worker"
      <4>1. pc' = [pc EXCEPT !["worker"] = "none"] /\ UNCHANGED <<engine, stuck>>
        BY <2>2, <3>1 DEF PopShutdown
      <4>2. flags' = [flags EXCEPT !.exited = TRUE]
        BY <2>2, <3>1 DEF PopShutdown
      <4> QED
        BY <4>1, <4>2
    <3>2. CASE t # "worker"
      BY <2>2, <3>2 DEF PopShutdown
    <3> QED
      BY <3>1, <3>2
  <2>3. CASE PopNothing(t)
    BY <2>3 DEF PopNothing
  <2>4. CASE Service(t)
    BY <2>4 DEF Service
  <2>5. CASE Sync(t)
    <3>1. CASE FindsClockSet(duty)
      BY <2>5, <3>1 DEF Sync
    <3>2. CASE ~FindsClockSet(duty)
      BY <2>5, <3>2, After DEF Sync
    <3> QED
      BY <3>1, <3>2
  <2>6. CASE Load(t)
    BY <2>6, After DEF Load
  <2>7. CASE CheckRefuses(t) \/ CheckPasses(t) \/ Sent(t) \/ Extend(t) \/ Save(t)
    BY <2>7 DEF CheckRefuses, CheckPasses, Sent, Extend, Save
  <2>8. CASE ReadWait(t) \/ NotSent(t) \/ Callback(t)
    BY <2>8 DEF ReadWait, NotSent, Callback, Resume
  <2> QED
    BY <1>16, <2>1, <2>2, <2>3, <2>4, <2>5, <2>6, <2>7, <2>8 DEF DriveStep
<1>17. CASE UNCHANGED vars
  BY <1>17 DEF vars
<1> QED
  BY <1>1, <1>2, <1>3, <1>4, <1>5, <1>6, <1>7, <1>8, <1>9, <1>10, <1>11, <1>12, <1>13,
     <1>14, <1>15, <1>16, <1>17 DEF Next

LEMMA LifeAlways == Spec => []LifeInv
  BY LifeInit, LifeNext, PTL DEF Spec

\* The tables of the engine have one driver at a time, whatever the threads do.
THEOREM SingleDriver == Spec => []OneDriver
<1>1. LifeInv => OneDriver
  BY DEF OneDriver
<1> QED
  BY <1>1, LifeAlways, PTL

\* The engine is never freed under a worker task that lives.
THEOREM FreedAlone == Spec => []NoUseAfterFree
<1>1. LifeInv => NoUseAfterFree
  BY DEF NoUseAfterFree
<1> QED
  BY <1>1, LifeAlways, PTL

-----------------------------------------------------------------------------
(***************************************************************************)
(* The mutex of the tracker: one thread at most is inside a call, and none *)
(* while another is still about to load the record - which is begin() with *)
(* a tracker of its own, or a call whose _syncBase found the clock set.    *)
(***************************************************************************)
Locks ==
    /\ ~(pc["app"] \in Inside /\ pc["worker"] \in Inside)
    /\ loading # Nobody =>
         /\ loading \in Threads /\ pc["app"] \notin Inside /\ pc["worker"] \notin Inside
         /\ pc[loading] = "init" \/ (pc[loading] \in Calls /\ duty.epoch = TRUE)
    /\ pc["app"] = "init" => loading = "app" /\ duty.off = 0 /\ duty.saved = 0

LEMMA LocksInit == Init => Locks
  BY DEF Init, Locks

\* Steps that leave the tracker alone, and a thread that is in it.
LEMMA LocksStay ==
    ASSUME LifeInv, Locks, UNCHANGED <<loading, duty>>,
           \A t \in Threads : \/ pc'[t] = pc[t]
                              \/ /\ loading # t
                                 /\ pc'[t] \in Inside => pc[t] \in Inside
                                 /\ pc'[t] # "init"
    PROVE  Locks'
  BY DEF Locks

LEMMA LocksNext == LifeInv /\ DutyTypes /\ Locks /\ [Next]_vars => Locks'
<1> SUFFICES ASSUME LifeInv, DutyTypes, Locks, [Next]_vars PROVE Locks'
  OBVIOUS
<1> USE DEF lifeVars, workVars, counts, dutyVars, timeVars, historyVars
<1>0. \A t \in Threads : pc[t] \notin Calls \cup {"init"} => loading # t
  BY DEF Locks, Nobody
<1>1. CASE BeginOk
  <2>1. duty'.off = 0 /\ duty'.saved = 0 /\ loading' = "app"
    BY <1>1 DEF BeginOk, FreshTracker
  <2>2. pc["worker"] = "none" /\ pc' = [pc EXCEPT !["app"] = "init"]
    BY <1>1 DEF BeginOk
  <2> QED
    BY <2>1, <2>2 DEF Locks
<1>2. CASE InitLoads
  BY <1>2 DEF InitLoads, Locks
<1>3. CASE StartWorkerTask \/ MarkStarted \/ WorkerTests
  BY <1>0, <1>3, LocksStay DEF StartWorkerTask, MarkStarted, WorkerTests
<1>4. CASE BeginFails \/ Send \/ TimePasses \/ ClockChanges \/ UNCHANGED vars
  <2>1. UNCHANGED <<loading, duty, pc>>
    BY <1>4 DEF BeginFails, Send, TimePasses, Tick, ClockChanges, ClockSet, ClockLost, vars
  <2> QED
    BY <2>1, LocksStay
<1>5. CASE SendLarge \/ Poll \/ EndSignals \/ EndAgain \/ EndGivesUp
  BY <1>0, <1>5, LocksStay DEF SendLarge, Poll, EndSignals, EndAgain, EndGivesUp
<1>6. CASE Answer
  BY <1>0, <1>6, LocksStay DEF Answer
<1>7. CASE EndWithoutWorker \/ EndTearsDown
  <2>1. loading' = Nobody /\ pc'["app"] = "idle" /\ pc'["worker"] = pc["worker"]
    BY <1>7 DEF EndWithoutWorker, EndTearsDown, Deleted
  <2> QED
    BY <2>1 DEF Locks
<1>8. CASE PowerCycle
  <2>1. loading' = Nobody /\ pc'["app"] = "idle" /\ pc'["worker"] = "none"
    BY <1>8 DEF PowerCycle, Deleted
  <2> QED
    BY <2>1 DEF Locks
<1>9. ASSUME NEW t \in Threads, DriveStep(t) PROVE Locks'
  <2>1. CASE PopRequest(t) \/ PopShutdown(t) \/ PopNothing(t) \/ Service(t)
    BY <1>0, <2>1, LocksStay DEF PopRequest, PopShutdown, PopNothing, Service
  <2>2. CASE Sync(t) /\ FindsClockSet(duty)
    <3>1. duty' = Carried(duty)
      BY <2>2, Times DEF Sync, SyncBase, FindsClockSet
    <3>2. duty'.epoch = TRUE
      BY <3>1 DEF Carried, DutyTypes, Tracker
    <3>3. loading' = t /\ pc' = pc /\ loading = Nobody /\ pc[t] \in Calls
          /\ pc["app"] \notin Inside /\ pc["worker"] \notin Inside
      BY <2>2 DEF Sync
    <3>4. pc["app"] # "init"
      BY <3>3 DEF Locks, Nobody
    <3> QED
      BY <3>2, <3>3, <3>4 DEF Locks
  <2>3. CASE Sync(t) /\ ~FindsClockSet(duty)
    <3>1. /\ loading' = Nobody /\ loading = Nobody /\ pc[t] \in Calls
          /\ pc' = [pc EXCEPT ![t] = AfterSync[pc[t]]]
          /\ pc["app"] \notin Inside /\ pc["worker"] \notin Inside
      BY <2>3 DEF Sync
    <3>2. pc["app"] # "init" /\ AfterSync[pc[t]] # "init"
      BY <3>1, After DEF Locks, Nobody
    <3> QED
      BY <3>1, <3>2 DEF Locks
  <2>4. CASE Load(t)
    <3>1. /\ loading' = Nobody /\ loading = t /\ pc[t] \in Calls
          /\ pc' = [pc EXCEPT ![t] = AfterSync[pc[t]]]
      BY <2>4 DEF Load
    <3>2. pc["app"] \notin Inside /\ pc["worker"] \notin Inside /\ pc["app"] # "init"
      BY <3>1 DEF Locks, Nobody
    <3>3. AfterSync[pc[t]] # "init"
      BY <3>1, After
    <3> QED
      BY <3>1, <3>2, <3>3 DEF Locks
  <2>5. CASE CheckRefuses(t) \/ ReadWait(t) \/ CheckPasses(t) \/ NotSent(t) \/ Sent(t) \/ Callback(t)
    BY <1>0, <2>5, LocksStay DEF CheckRefuses, ReadWait, CheckPasses, NotSent, Sent, Callback, Resume
  <2>6. CASE Extend(t) \/ Save(t)
    <3>1. loading' = loading /\ pc[t] \in Inside
          /\ \E p \in {"commit", "callback"} : pc' = [pc EXCEPT ![t] = p]
      BY <2>6 DEF Extend, Save
    <3>2. loading = Nobody /\ pc["app"] # "init"
      BY <3>1 DEF Locks, Nobody
    <3> QED
      BY <3>1, <3>2 DEF Locks
  <2> QED
    BY <1>9, <2>1, <2>2, <2>3, <2>4, <2>5, <2>6 DEF DriveStep
<1> QED
  BY <1>1, <1>2, <1>3, <1>4, <1>5, <1>6, <1>7, <1>8, <1>9 DEF Next

-----------------------------------------------------------------------------
(***************************************************************************)
(* A thread that accounts for its frame on the base of a clock that has    *)
(* been lost since _syncBase: nothing was owed at that moment any more,    *)
(* and nobody else transmits.                                              *)
(***************************************************************************)
Accounts(t) == pc[t] = "extend" \/ (pc[t] = "account" /\ loading = t)

Held == \A t \in Threads : Accounts(t) /\ duty.epoch /\ ~clockOk => owed <= now

LEMMA HeldInit == Init => Held
  BY DEF Init, Held, Accounts

\* Steps that leave the tracker, the clock and what is owed alone.
LEMMA HeldStays ==
    ASSUME Held, UNCHANGED <<duty, clockOk, owed, now>>,
           \A t \in Threads : Accounts(t)' => Accounts(t)
    PROVE  Held'
  BY DEF Held

LEMMA HeldNext == LifeInv /\ DutyTypes /\ Locks /\ Held /\ [Next]_vars => Held'
<1> SUFFICES ASSUME LifeInv, DutyTypes, Locks, Held, [Next]_vars PROVE Held'
  OBVIOUS
<1> USE DEF lifeVars, workVars, counts, dutyVars, timeVars, historyVars
<1>1. CASE BeginOk \/ InitLoads
  <2>1. pc'["worker"] = "none" /\ pc'["app"] \in {"init", "idle"}
    BY <1>1 DEF BeginOk, InitLoads
  <2> QED
    BY <2>1 DEF Held, Accounts
<1>2. CASE StartWorkerTask \/ MarkStarted \/ WorkerTests
  <2>1. UNCHANGED <<duty, clockOk, owed, now, loading>>
    BY <1>2 DEF StartWorkerTask, MarkStarted, WorkerTests
  <2>2. \A t \in Threads : pc'[t] = pc[t] \/ pc'[t] \notin {"account", "extend"}
    BY <1>2 DEF StartWorkerTask, MarkStarted, WorkerTests
  <2> QED
    BY <2>1, <2>2, HeldStays DEF Accounts
<1>3. CASE BeginFails \/ Send \/ UNCHANGED vars
  <2>1. UNCHANGED <<duty, clockOk, owed, now, loading, pc>>
    BY <1>3 DEF BeginFails, Send, vars
  <2> QED
    BY <2>1, HeldStays DEF Accounts
<1>4. CASE SendLarge \/ Answer \/ Poll \/ EndSignals \/ EndAgain \/ EndGivesUp
  <2>1. UNCHANGED <<duty, clockOk, owed, now, loading>>
    BY <1>4 DEF SendLarge, Answer, Poll, EndSignals, EndAgain, EndGivesUp
  <2>2. \A t \in Threads : pc'[t] = pc[t] \/ pc'[t] \notin {"account", "extend"}
    BY <1>4 DEF SendLarge, Answer, Poll, EndSignals, EndAgain, EndGivesUp
  <2> QED
    BY <2>1, <2>2, HeldStays DEF Accounts
<1>5. CASE EndWithoutWorker \/ EndTearsDown \/ PowerCycle
  <2>1. duty'.epoch = FALSE
    BY <1>5 DEF EndWithoutWorker, EndTearsDown, PowerCycle, Deleted, NoTracker
  <2> QED
    BY <2>1 DEF Held
<1>6. CASE TimePasses
  <2>1. now' = now + 1 /\ UNCHANGED <<duty, clockOk, owed, loading, pc>>
    BY <1>6 DEF TimePasses, Tick
  <2>2. owed \in Int /\ now \in Int
    BY DEF DutyTypes
  <2> QED
    BY <2>1, <2>2 DEF Held, Accounts
<1>7. CASE ClockChanges
  <2>1. clockOk' = TRUE \/ (owed' = now /\ now' = now)
    BY <1>7 DEF ClockChanges, ClockSet, ClockLost
  <2>2. now \in Int
    BY DEF DutyTypes
  <2> QED
    BY <2>1, <2>2 DEF Held
<1>8. ASSUME NEW t \in Threads, DriveStep(t) PROVE Held'
  <2>1. CASE PopRequest(t) \/ PopShutdown(t) \/ PopNothing(t) \/ Service(t) \/ CheckRefuses(t)
             \/ ReadWait(t) \/ CheckPasses(t) \/ NotSent(t) \/ Callback(t)
    <3>1. UNCHANGED <<duty, clockOk, owed, now, loading>>
      BY <2>1 DEF PopRequest, PopShutdown, PopNothing, Service, CheckRefuses, ReadWait,
                  CheckPasses, NotSent, Callback
    <3>2. \A u \in Threads : pc'[u] = pc[u] \/ pc'[u] \notin {"account", "extend"}
      BY <2>1 DEF PopRequest, PopShutdown, PopNothing, Service, CheckRefuses, ReadWait,
                  CheckPasses, NotSent, Callback, Resume
    <3> QED
      BY <3>1, <3>2, HeldStays DEF Accounts
  <2>2. CASE Sync(t)
    <3>1. duty' = SyncBase(duty) /\ clockOk' = clockOk
      BY <2>2 DEF Sync
    <3>2. duty'.epoch = clockOk
      BY <3>1, Times DEF SyncBase, Carried, DutyTypes, Tracker
    <3> QED
      BY <3>1, <3>2 DEF Held
  <2>3. CASE Load(t)
    <3>1. /\ loading = t /\ loading' = Nobody /\ pc[t] \in Calls
          /\ pc' = [pc EXCEPT ![t] = AfterSync[pc[t]]]
          /\ duty' = LoadFromNv(duty) /\ UNCHANGED <<now, owed, clockOk>>
      BY <2>3 DEF Load
    <3>2. duty'.epoch = duty.epoch
      BY <3>1, Loaded
    <3>3. \A u \in Threads : Accounts(u)' => Accounts(u)
      BY <3>1, After DEF Accounts, Nobody
    <3> QED
      BY <3>1, <3>2, <3>3 DEF Held
  <2>4. CASE Sent(t)
    <3>1. /\ loading' = loading /\ pc[t] = "air" /\ pc' = [pc EXCEPT ![t] = "account"]
      BY <2>4 DEF Sent
    <3>2. loading # t
      BY <3>1 DEF Locks, Nobody
    <3>3. \A u \in Threads : ~Accounts(u)'
      BY <3>1, <3>2 DEF Accounts
    <3> QED
      BY <3>3 DEF Held
  <2>5. CASE Extend(t) \/ Save(t)
    <3>1. \E p \in {"commit", "callback"} : pc' = [pc EXCEPT ![t] = p]
          /\ UNCHANGED <<now, owed, clockOk, loading>>
      BY <2>5 DEF Extend, Save
    <3>2. duty'.epoch = duty.epoch
      BY <2>5 DEF Extend, Extended, Save, MaybeCommit, DutyTypes, Tracker
    <3>3. \A u \in Threads : Accounts(u)' => Accounts(u)
      BY <3>1 DEF Accounts
    <3> QED
      BY <3>1, <3>2, <3>3 DEF Held
  <2> QED
    BY <1>8, <2>1, <2>2, <2>3, <2>4, <2>5 DEF DriveStep
<1> QED
  BY <1>1, <1>2, <1>3, <1>4, <1>5, <1>6, <1>7, <1>8 DEF Next

-----------------------------------------------------------------------------
(***************************************************************************)
(* What is owed never exceeds what the tracker would wait for, except that *)
(* a frame that has left is not in the account yet while a thread stands   *)
(* between the transmission and the account, and except while a deadline   *)
(* is on the wrong base: the tracker's own is too late then, never early.  *)
(***************************************************************************)
Pending ==
    IF \E t \in Threads : pc[t] \in {"account", "extend"} THEN OffTime ELSE 0

Debt ==
    /\ DutyTypes
    /\ engine = "up" => /\ mixed = "none" => owed - now <= Wait + Pending
                        /\ mixed = "deadline" => Muted

HIDE DEF LifeInv, LifeTypes, WorkerKnown, AppDrives, EndSignalled, SpawnedUp, InitAlone, Places

LEMMA Placed ==
    ASSUME LifeInv
    PROVE  pc \in [Threads -> Places] /\ (pc["app"] = "init" => pc["worker"] = "none")
  BY DEF LifeInv, LifeTypes, WorkerKnown, InitAlone

\* No worker is alive on an engine that has not been asked for one.
LEMMA FirstWorker ==
    ASSUME LifeInv, ~spawned
    PROVE  pc["worker"] = "none"
  BY DEF LifeInv, WorkerKnown

LEMMA Sums ==
    /\ \A w \in Int : w + 0 = w
    /\ \A a, b, w, c, d \in Int : a <= w + d /\ b = a - 1 /\ c >= w - 1 => b <= c + d
    /\ \A a, b \in Int, w, p \in Nat : a <= b => a - b <= w + p
  OBVIOUS

LEMMA PendingNat == Pending \in Nat /\ OffTime \in Nat
  BY DutyAssumption DEF Pending

\* One frame is pending at most, and none while a thread does something else
\* in the loop.
LEMMA OnePending ==
    ASSUME LifeInv, NEW t \in Threads, pc[t] \in Driving
    PROVE  /\ engine = "up"
           /\ pc[t] \in {"account", "extend"} => Pending = OffTime
           /\ pc[t] \notin {"account", "extend"} => Pending = 0
           /\ \A u \in Threads : u # t => pc[u] \notin {"account", "extend"}
  BY DEF Pending, LifeInv, LifeTypes, WorkerKnown, AppDrives

\* A step of the thread t, which is in the loop.
LEMMA StillPending ==
    ASSUME LifeInv, NEW t \in Threads, pc[t] \in Driving,
           NEW p, pc' = [pc EXCEPT ![t] = p]
    PROVE  Pending' = IF p \in {"account", "extend"} THEN OffTime ELSE 0
<1>1. pc'[t] = p /\ \A u \in Threads : u # t => pc'[u] = pc[u]
  BY Placed
<1>2. \A u \in Threads : u # t => pc'[u] \notin {"account", "extend"}
  BY <1>1, OnePending
<1> QED
  BY <1>1, <1>2 DEF Pending

\* Most steps leave the tracker alone.
LEMMA DutyUntouched ==
    ASSUME Debt, UNCHANGED <<now, bootAt, clockOk, duty, nv, rule, owed, covered, mixed, loading>>,
           engine' = "up" => engine = "up", Pending' = Pending
    PROVE  Debt'
<1>1. DutyTypes' /\ owed' = owed /\ now' = now
  BY DEF Debt, DutyTypes
<1>2. Wait' = Wait
  BY DEF Wait, DeadlineBase, Unread, EpochMs, EpochBase, TickMs, RecordMs
<1>3. Muted => Muted'
  BY DEF Muted, EpochBase
<1> QED
  BY <1>1, <1>2, <1>3 DEF Debt

LEMMA DebtInit == Init => Debt
<1> SUFFICES ASSUME Init PROVE Debt
  OBVIOUS
<1>1. NoTracker \in Tracker
  BY DEF NoTracker, Tracker
<1>2. now = 0 /\ bootAt = 0 /\ clockOk \in BOOLEAN /\ nv = 0 /\ rule = 0 /\ owed = 0
      /\ covered = FALSE /\ mixed = "none" /\ duty = NoTracker /\ engine = "none"
  BY DEF Init, InitDuty
<1>3. DutyTypes /\ engine = "none"
  <2>1. now \in Nat /\ now <= MaxTime /\ bootAt \in Nat /\ bootAt <= now
        /\ nv \in Nat /\ rule \in Int /\ owed \in Int
    BY <1>2
  <2>2. /\ clockOk \in BOOLEAN /\ covered \in BOOLEAN /\ mixed \in {"none", "deadline", "record"}
        /\ duty \in Tracker /\ engine = "none"
    BY <1>1, <1>2
  <2> QED
    BY <2>1, <2>2 DEF DutyTypes
<1> QED
  BY <1>3 DEF Debt

LEMMA DebtNext == LifeInv /\ Locks /\ Held /\ Debt /\ [Next]_vars => Debt'
<1> SUFFICES ASSUME LifeInv, Locks, Held, Debt, [Next]_vars PROVE Debt'
  OBVIOUS
<1> USE DEF lifeVars, workVars, counts, dutyVars, timeVars, historyVars
<1>0. DutyTypes /\ Wait \in Nat /\ owed \in Int /\ now \in Int
  BY WaitNat, Times DEF Debt
<1>1. CASE BeginOk
  <2>1. engine' = "none" /\ duty' = FreshTracker
        /\ UNCHANGED <<now, bootAt, clockOk, nv, rule, owed, covered, mixed>>
    BY <1>1 DEF BeginOk
  <2>2. FreshTracker \in Tracker
    BY <1>0, Times DEF FreshTracker, Tracker
  <2>3. DutyTypes'
    BY <1>0, <2>1, <2>2 DEF DutyTypes
  <2> QED
    BY <2>1, <2>3 DEF Debt
<1>2. CASE InitLoads
  <2>1. DutyTypes' /\ (mixed' = "none" => owed' - now' <= Wait') /\ (mixed' = "deadline" => Muted')
    <3>1. duty.off = 0 /\ duty.saved = 0
      BY <1>2 DEF InitLoads, Locks
    <3> QED
      BY <1>0, <1>2, <3>1, FreshWait DEF InitLoads
  <2>2. Pending' = 0
    <3>1. pc'["app"] = "idle" /\ pc'["worker"] = "none"
      BY <1>2, Placed DEF InitLoads
    <3> QED
      BY <3>1 DEF Pending
  <2>3. Wait' \in Nat
    <3>1. (DutyTypes => Wait \in Nat)'
      BY WaitNat, PTL
    <3> QED
      BY <2>1, <3>1
  <2>4. Wait' + Pending' = Wait'
    <3>1. Wait' \in Int
      BY <2>3
    <3> QED
      BY <2>2, <3>1, Sums
  <2> QED
    BY <2>1, <2>4 DEF Debt
<1>3. CASE BeginFails \/ Send \/ UNCHANGED vars
  <2>1. UNCHANGED <<now, bootAt, clockOk, duty, nv, rule, owed, covered, mixed, loading, pc>>
    BY <1>3 DEF BeginFails, Send, vars
  <2>2. engine' = "up" => engine = "up"
    BY <1>3 DEF BeginFails, Send, vars
  <2> QED
    BY <2>1, <2>2, DutyUntouched DEF Pending
<1>4. CASE StartWorkerTask \/ MarkStarted \/ WorkerTests \/ SendLarge \/ Answer \/ Poll
           \/ EndSignals \/ EndAgain \/ EndGivesUp
  <2>1. /\ UNCHANGED <<now, bootAt, clockOk, duty, nv, rule, owed, covered, mixed, loading>>
        /\ engine' = engine
    BY <1>4 DEF StartWorkerTask, MarkStarted, WorkerTests, SendLarge, Answer, Poll,
                EndSignals, EndAgain, EndGivesUp
  <2>2. \A t \in Threads : \/ pc'[t] = pc[t]
                          \/ /\ pc[t] \notin {"account", "extend"}
                             /\ pc'[t] \notin {"account", "extend"}
    <3>1. CASE StartWorkerTask
      BY <3>1, Placed, FirstWorker DEF StartWorkerTask
    <3>2. CASE WorkerTests
      BY <3>2, Placed DEF WorkerTests
    <3>3. CASE Answer
      BY <3>3, Placed DEF Answer
    <3>4. CASE MarkStarted \/ SendLarge \/ Poll \/ EndSignals \/ EndAgain \/ EndGivesUp
      BY <3>4, Placed DEF MarkStarted, SendLarge, Poll, EndSignals, EndAgain, EndGivesUp
    <3> QED
      BY <1>4, <3>1, <3>2, <3>3, <3>4
  <2>3. Pending' = Pending
    BY <2>2 DEF Pending
  <2> QED
    BY <2>1, <2>3, DutyUntouched
<1>5. CASE EndWithoutWorker \/ EndTearsDown
  <2>1. /\ engine' = "none" /\ duty' = NoTracker
        /\ UNCHANGED <<now, bootAt, clockOk, nv, rule, owed, covered, mixed>>
    BY <1>5 DEF EndWithoutWorker, EndTearsDown, Deleted
  <2>2. NoTracker \in Tracker
    BY DEF NoTracker, Tracker
  <2>3. DutyTypes'
    BY <1>0, <2>1, <2>2 DEF DutyTypes
  <2> QED
    BY <2>1, <2>3 DEF Debt
<1>6. CASE TimePasses
  <2>1. /\ DutyTypes' /\ owed' - now' = owed - now - 1 /\ Wait' >= Wait - 1
        /\ Muted => Muted'
        /\ mixed' = mixed \/ (mixed' = "none" /\ owed' <= now')
    BY <1>0, <1>6, TickWait DEF TimePasses
  <2>2. Pending' = Pending /\ engine' = engine
    BY <1>6 DEF TimePasses, Pending
  <2>3. Wait' \in Nat
    <3>1. (DutyTypes => Wait \in Nat)'
      BY WaitNat, PTL
    <3> QED
      BY <2>1, <3>1
  <2>4. owed' \in Int /\ now' \in Int
    BY <2>1 DEF DutyTypes
  <2>5. owed - now <= Wait + Pending => owed' - now' <= Wait' + Pending'
    <3>1. owed - now \in Int /\ owed' - now' \in Int
      BY <1>0, <2>4
    <3>2. Wait \in Int /\ Wait' \in Int /\ Pending \in Int /\ Pending' = Pending
      BY <1>0, <2>2, <2>3, PendingNat
    <3> QED
      BY <2>1, <3>1, <3>2, Sums
  <2>6. owed' <= now' => owed' - now' <= Wait' + Pending'
    BY <2>2, <2>3, <2>4, PendingNat, Sums
  <2> QED
    BY <2>1, <2>2, <2>5, <2>6 DEF Debt
<1>7. CASE ClockChanges /\ ClockSet
  <2>1. Pending' = Pending /\ engine' = engine /\ UNCHANGED loading
    BY <1>7 DEF ClockChanges, Pending
  <2>2. /\ DutyTypes' /\ mixed' = mixed /\ (Muted => Muted')
        /\ owed - now <= Wait + Pending => owed' - now' <= Wait' + Pending
    BY <1>0, <1>7, <2>1, ClockSetWait, PendingNat
  <2> QED
    BY <2>1, <2>2 DEF Debt
<1>8. CASE ClockChanges /\ ClockLost
  <2>1. /\ clockOk' = FALSE /\ owed' = now /\ mixed' = "none"
        /\ UNCHANGED <<now, bootAt, duty, nv, rule, covered>>
    BY <1>8 DEF ClockLost
  <2>2. DutyTypes'
    <3>1. clockOk' \in BOOLEAN /\ owed' \in Int /\ mixed' \in {"none", "deadline", "record"}
      BY <1>0, <2>1
    <3>2. now' \in Nat /\ now' <= MaxTime /\ bootAt' \in Nat /\ bootAt' <= now'
          /\ duty' \in Tracker /\ nv' \in Nat /\ rule' \in Int /\ covered' \in BOOLEAN
      BY <1>0, <2>1 DEF DutyTypes
    <3> QED
      BY <3>1, <3>2 DEF DutyTypes
  <2>3. Pending' = Pending
    BY <1>8 DEF ClockChanges, Pending
  <2>4. Wait' \in Nat
    <3>1. (DutyTypes => Wait \in Nat)'
      BY WaitNat, PTL
    <3> QED
      BY <2>2, <3>1
  <2>5. owed' - now' = 0
    BY <1>0, <2>1
  <2> QED
    BY <2>1, <2>2, <2>3, <2>4, <2>5, PendingNat DEF Debt
<1>9. CASE PowerCycle
  <2>1. /\ engine' = "none" /\ duty' = NoTracker /\ now' = now /\ bootAt' = now
        /\ clockOk' \in BOOLEAN /\ mixed' = "none" /\ UNCHANGED <<nv, rule, covered>>
        /\ owed' = IF clockOk' THEN Lesser(owed, RecordTime) ELSE now
    BY <1>9 DEF PowerCycle, Deleted
  <2>2. NoTracker \in Tracker
    BY DEF NoTracker, Tracker
  <2>3. owed' \in Int
    BY <1>0, <2>1, Times DEF RecordTime, Greater, Lesser
  <2>4. DutyTypes'
    BY <1>0, <2>1, <2>2, <2>3 DEF DutyTypes
  <2> QED
    BY <2>1, <2>4 DEF Debt
<1>10. ASSUME NEW t \in Threads, DriveStep(t) PROVE Debt'
  <2>1. CASE PopRequest(t) \/ PopShutdown(t) \/ PopNothing(t) \/ Service(t) \/ CheckRefuses(t)
             \/ ReadWait(t) \/ CheckPasses(t) \/ NotSent(t) \/ Callback(t)
    <3>1. /\ UNCHANGED <<now, bootAt, clockOk, duty, nv, rule, owed, covered, mixed, loading>>
          /\ engine' = engine
      BY <2>1 DEF PopRequest, PopShutdown, PopNothing, Service, CheckRefuses, ReadWait,
                  CheckPasses, NotSent, Callback
    <3>2. \A u \in Threads : \/ pc'[u] = pc[u]
                            \/ /\ pc[u] \notin {"account", "extend"}
                               /\ pc'[u] \notin {"account", "extend"}
      BY <2>1, Placed DEF PopRequest, PopShutdown, PopNothing, Service, CheckRefuses, ReadWait,
                          CheckPasses, NotSent, Callback, Resume
    <3>3. Pending' = Pending
      BY <3>2 DEF Pending
    <3> QED
      BY <3>1, <3>3, DutyUntouched
  <2>2. CASE Sync(t)
    <3>1. /\ duty' = SyncBase(duty) /\ loading = Nobody /\ engine' = engine
          /\ UNCHANGED <<now, bootAt, clockOk, nv, rule, owed, covered, mixed>>
          /\ loading' # Nobody <=> FindsClockSet(duty)
      BY <2>2 DEF Sync, Nobody
    <3>2. DutyTypes' /\ Wait' = Wait /\ (Muted => Muted')
      BY <1>0, <3>1, SyncWait
    <3>3. \A u \in Threads : pc'[u] \in {"account", "extend"} <=> pc[u] \in {"account", "extend"}
      BY <2>2, After, Placed DEF Sync
    <3>4. Pending' = Pending
      BY <3>3 DEF Pending
    <3> QED
      BY <3>1, <3>2, <3>4 DEF Debt
  <2>3. CASE Load(t)
    <3>1. /\ duty' = LoadFromNv(duty) /\ loading = t /\ loading' = Nobody /\ engine' = engine
          /\ UNCHANGED <<now, bootAt, clockOk, nv, rule, owed, covered, mixed>>
      BY <2>3 DEF Load
    <3>2. loading # Nobody /\ duty.epoch
      BY <2>3, <3>1 DEF Locks, Nobody, Load
    <3>3. DutyTypes' /\ Wait' = Wait /\ (Muted => Muted')
      BY <1>0, <3>1, <3>2, LoadWait
    <3>4. \A u \in Threads : pc'[u] \in {"account", "extend"} <=> pc[u] \in {"account", "extend"}
      BY <2>3, After, Placed DEF Load
    <3>5. Pending' = Pending
      BY <3>4 DEF Pending
    <3> QED
      BY <3>1, <3>3, <3>5 DEF Debt
  <2>4. CASE Sent(t)
    <3>1. /\ pc[t] = "air" /\ pc' = [pc EXCEPT ![t] = "account"]
          /\ UNCHANGED <<now, bootAt, clockOk, duty, nv, covered, mixed, loading, engine>>
          /\ rule' = Greater(rule, now) + OffTime /\ owed' = Greater(owed, now) + OffTime
      BY <2>4 DEF Sent, Owe
    <3>2. Pending = 0 /\ Pending' = OffTime
      BY <3>1, OnePending, StillPending
    <3>3. Wait' = Wait /\ (Muted => Muted')
      BY <3>1 DEF Wait, DeadlineBase, Unread, EpochMs, EpochBase, TickMs, RecordMs, Muted
    <3>4. rule' \in Int /\ owed' \in Int
      BY <1>0, <3>1, Times DEF Greater
    <3>5. DutyTypes'
      BY <1>0, <3>1, <3>4 DEF DutyTypes
    <3>6. owed - now <= Wait + Pending => owed' - now' <= Wait' + Pending'
      BY <1>0, <3>1, <3>2, <3>3, PendingNat DEF Greater
    <3> QED
      BY <3>1, <3>3, <3>5, <3>6 DEF Debt
  <2>5. CASE Extend(t)
    <3>1. /\ pc[t] = "extend" /\ pc' = [pc EXCEPT ![t] = "commit"]
          /\ duty' = Extended(duty) /\ mixed' = Mixed(duty) /\ loading' = loading
          /\ UNCHANGED <<now, bootAt, clockOk, nv, rule, owed, covered, engine>>
      BY <2>5 DEF Extend
    <3>2. loading = Nobody
      BY <3>1 DEF Locks
    <3>3. Pending = OffTime /\ Pending' = 0
      <4>1. pc[t] \in Driving /\ pc[t] \in {"account", "extend"} /\ "commit" \notin {"account", "extend"}
        BY <3>1
      <4> QED
        BY <3>1, <4>1, OnePending, StillPending
    <3>4. /\ DutyTypes'
          /\ duty.epoch = clockOk => Wait' = Wait + OffTime /\ mixed' = mixed
          /\ duty.epoch /\ ~clockOk => mixed' = mixed
          /\ WrongBase(duty) => mixed' # "none" /\ Muted'
          /\ Muted => Muted'
      BY <1>0, <3>1, <3>2, ExtendWait
    <3>5. Wait' \in Nat
      <4>1. (DutyTypes => Wait \in Nat)'
        BY WaitNat, PTL
      <4> QED
        BY <3>4, <4>1
    <3>6. CASE WrongBase(duty)
      BY <3>4, <3>6 DEF Debt
    <3>7. CASE duty.epoch = clockOk
      <4>1. Wait' + Pending' = Wait + Pending
        BY <1>0, <3>3, <3>4, <3>7, PendingNat
      <4> QED
        BY <3>1, <3>4, <3>7, <4>1 DEF Debt
    <3>8. CASE duty.epoch /\ ~clockOk
      <4>1. owed <= now
        BY <3>1, <3>8 DEF Held, Accounts
      <4>2. owed' - now' <= Wait' + Pending'
        <5>1. owed' = owed /\ now' = now /\ Pending' \in Nat
          BY <3>1, <3>3
        <5> QED
          BY <1>0, <3>5, <4>1, <5>1, Sums
      <4> QED
        BY <3>1, <3>4, <3>8, <4>2 DEF Debt
    <3> QED
      BY <1>0, <3>6, <3>7, <3>8, Times DEF WrongBase, FindsClockSet
  <2>6. CASE Save(t)
    <3>1. /\ pc[t] = "commit" /\ pc' = [pc EXCEPT ![t] = "callback"]
          /\ MaybeCommit /\ loading' = loading
          /\ UNCHANGED <<now, bootAt, clockOk, rule, owed, engine>>
      BY <2>6 DEF Save
    <3>2. loading = Nobody
      BY <3>1 DEF Locks
    <3>3. Pending = 0 /\ Pending' = 0
      <4>1. pc[t] \in Driving /\ pc[t] \notin {"account", "extend"} /\ "callback" \notin {"account", "extend"}
        BY <3>1
      <4> QED
        BY <3>1, <4>1, OnePending, StillPending
    <3>4. /\ DutyTypes'
          /\ mixed' = "none" => Wait' = Wait /\ mixed = "none"
          /\ mixed' = "deadline" => mixed = "deadline"
          /\ Muted => Muted'
      BY <1>0, <3>1, <3>2, SaveWait
    <3> QED
      BY <3>1, <3>3, <3>4 DEF Debt
  <2> QED
    BY <1>10, <2>1, <2>2, <2>3, <2>4, <2>5, <2>6 DEF DriveStep
<1> QED
  BY <1>1, <1>2, <1>3, <1>4, <1>5, <1>6, <1>7, <1>8, <1>9, <1>10 DEF Next, ClockChanges

\* No frame leaves before the off-time the code still promises is over: across
\* changes of the clock's validity, restarts of the engine and power cycles,
\* but for a clock set between the two readings of canTransmit, and for a
\* tick count that such a moment has left in the record.
THEOREM OffTimeIsKept == Spec => OffTimeKept
<1> DEFINE Inv == LifeInv /\ Locks /\ Held /\ Debt
<1>1. Init => Inv
  BY LifeInit, LocksInit, HeldInit, DebtInit
<1>2. Inv /\ [Next]_vars => Inv'
  BY LifeNext, LocksNext, HeldNext, DebtNext DEF Debt
<1>3. ASSUME Inv, [Next]_vars, NEW t \in Threads, pc[t] # "air", pc'[t] = "air"
      PROVE  now >= owed \/ WrongBase(duty) \/ mixed = "record"
  <2> USE DEF lifeVars, workVars, counts
  <2>1. CASE \/ BeginOk \/ InitLoads \/ BeginFails \/ StartWorkerTask \/ MarkStarted \/ Send
             \/ SendLarge \/ Answer \/ Poll \/ EndSignals \/ EndAgain \/ EndWithoutWorker
             \/ EndTearsDown \/ EndGivesUp \/ WorkerTests
             \/ TimePasses \/ ClockChanges \/ UNCHANGED vars
    BY <1>3, <2>1, Placed DEF BeginOk, InitLoads, BeginFails, StartWorkerTask, MarkStarted, Send,
         SendLarge, Answer, Poll, EndSignals, EndAgain, EndWithoutWorker, EndTearsDown,
         EndGivesUp, WorkerTests, TimePasses, ClockChanges, vars
  <2>2. CASE PowerCycle
    BY <1>3, <2>2 DEF PowerCycle
  <2>3. ASSUME NEW u \in Threads, DriveStep(u)
        PROVE  now >= owed \/ WrongBase(duty) \/ mixed = "record"
    <3>1. CASE CheckPasses(u)
      <4>1. pc[u] = "judge" /\ MayTransmit(duty)
        BY <3>1 DEF CheckPasses
      <4>2. Pending = 0 /\ engine = "up" /\ loading = Nobody
        <5>1. pc[u] \in Driving /\ pc[u] \notin {"account", "extend"} /\ pc[u] \in Inside
          BY <4>1
        <5> QED
          BY <1>3, <5>1, OnePending DEF Locks
      <4>3. DutyTypes /\ mixed \in {"none", "deadline", "record"} /\ owed \in Int /\ now \in Int
        BY <1>3 DEF Debt, DutyTypes
      <4> SUFFICES ASSUME ~WrongBase(duty), mixed # "record" PROVE now >= owed
        OBVIOUS
      <4>4. Wait = 0 /\ ~Muted
        BY <4>1, <4>2, <4>3, JudgeWait
      <4>5. owed - now <= 0 + 0
        BY <1>3, <4>2, <4>3, <4>4 DEF Debt
      <4> QED
        BY <4>3, <4>5
    <3>2. CASE ~CheckPasses(u)
      <4>1. pc'[u] # "air" /\ \A v \in Threads : v # u => pc'[v] = pc[v]
        <5>1. CASE Sync(u) \/ Load(u)
          BY <1>3, <5>1, After, Placed DEF Sync, Load
        <5>2. CASE PopRequest(u) \/ PopShutdown(u) \/ PopNothing(u) \/ Service(u)
          BY <1>3, <5>2, Placed DEF PopRequest, PopShutdown, PopNothing, Service
        <5>3. CASE CheckRefuses(u) \/ ReadWait(u) \/ NotSent(u) \/ Sent(u) \/ Extend(u) \/ Save(u)
                   \/ Callback(u)
          BY <1>3, <5>3, Placed DEF CheckRefuses, ReadWait, NotSent, Sent, Extend, Save, Callback,
                                    Resume
        <5> QED
          BY <2>3, <3>2, <5>1, <5>2, <5>3 DEF DriveStep
      <4> QED
        BY <1>3, <4>1
    <3> QED
      BY <3>1, <3>2
  <2> QED
    BY <1>3, <2>1, <2>2, <2>3 DEF Next
<1>4. Inv /\ [Next]_vars =>
        [\A t \in Threads :
           pc[t] # "air" /\ pc'[t] = "air" => now >= owed \/ WrongBase(duty) \/ mixed = "record"]_vars
  BY <1>3
<1> HIDE DEF Inv
<1> QED
  BY <1>1, <1>2, <1>4, PTL DEF Spec, OffTimeKept

-----------------------------------------------------------------------------
(***************************************************************************)
(* The record: what was saved is in it while it is covered, and once the   *)
(* frames that left are in the account it is CommitMin behind at most.     *)
(***************************************************************************)
NoneAccounts == \A t \in Threads : pc[t] \notin {"account", "extend", "commit"}

Near == owed <= RecordTime \/ owed < RecordTime + CommitMin

KeptUp ==
    /\ covered => duty.saved <= RecordMs
    /\ covered /\ clockOk /\ NoneAccounts => Near

\* While owed and the record stay, the record keeps up.
LEMMA RecordStays ==
    ASSUME DutyTypes, KeptUp, UNCHANGED <<nv, owed, covered, clockOk>>,
           now' \in Int, now' >= now, covered => duty'.saved <= RecordMs,
           NoneAccounts' => NoneAccounts
    PROVE  KeptUp'
<1>1. RecordMs' = RecordMs /\ EpochBase' = EpochBase
  BY DEF RecordMs, EpochBase
<1>2. /\ RecordTime = Greater(now, RecordMs - EpochBase)
      /\ RecordTime' = Greater(now', RecordMs - EpochBase)
  BY <1>1 DEF RecordTime
<1>3. RecordTime \in Int /\ RecordTime' \in Int /\ RecordTime <= RecordTime'
  BY <1>2, Times DEF Greater
<1>4. Near => Near'
  BY <1>3, Times, DutyAssumption DEF Near
<1> QED
  BY <1>1, <1>4 DEF KeptUp

\* Where owed becomes what the record holds, the record keeps up.
LEMMA RecordIsOwed ==
    ASSUME DutyTypes, KeptUp, UNCHANGED <<now, nv>>, owed' \in Int, clockOk' => owed' <= RecordTime,
           covered' => covered, duty'.saved \in {0, duty.saved, RecordMs}
    PROVE  KeptUp'
<1>1. RecordMs' = RecordMs /\ RecordTime' = RecordTime
  BY DEF RecordMs, RecordTime, EpochBase
<1> QED
  BY <1>1, Times DEF KeptUp, Near

\* _maybeCommit leaves the record at most CommitMin behind the deadline,
\* unless a write failed, the clock is invalid or the base is wrong.
LEMMA SaveRecords ==
    ASSUME DutyTypes, MaybeCommit, covered => duty.saved <= RecordMs
    PROVE  covered' =>
             /\ duty'.saved <= RecordMs' /\ nv' \in Nat
             /\ clockOk /\ duty.epoch /\ mixed = "none"
             /\ duty.off <= RecordMs' \/ duty.off < RecordMs' + CommitMin
<1> SUFFICES ASSUME covered'
             PROVE  /\ duty'.saved <= RecordMs' /\ nv' \in Nat
                    /\ clockOk /\ duty.epoch /\ mixed = "none"
                    /\ duty.off <= RecordMs' \/ duty.off < RecordMs' + CommitMin
  OBVIOUS
<1>1. RecordMs' = nv' * Second
  BY DEF RecordMs
<1>2. CASE DueForCommit(duty)
  <2>1. /\ duty' = [duty EXCEPT !.saved = duty.off]
        /\ nv' = (duty.off + Second - 1) \div Second
        /\ duty.epoch /\ mixed = "none" /\ clockOk
    BY <1>2 DEF MaybeCommit, DueForCommit
  <2>2. duty'.saved = duty.off
    BY <2>1 DEF DutyTypes, Tracker
  <2>3. RecordMs' >= duty.off /\ nv' \in Nat
    BY <1>1, <2>1, RoundedUp, Times
  <2> QED
    BY <2>1, <2>2, <2>3
<1>3. CASE ~DueForCommit(duty)
  <2>1. duty' = duty /\ nv' = nv /\ covered /\ clockOk /\ duty.epoch /\ mixed = "none"
    BY <1>3 DEF MaybeCommit
  <2>2. RecordMs' = RecordMs /\ RecordMs \in Nat /\ duty.off \in Nat /\ duty.saved \in Int
    BY <2>1, Times DEF RecordMs
  <2>3. duty.off - duty.saved < CommitMin
    BY <1>3, <2>1, <2>2 DEF DueForCommit, Distance, Greater, Lesser
  <2>4. duty.off < RecordMs + CommitMin
    <3>1. duty.saved <= RecordMs
      BY <2>1
    <3> QED
      BY <2>2, <2>3, <3>1
  <2> QED
    BY <2>1, <2>2, <2>4, Times
<1> QED
  BY <1>2, <1>3

\* Initially nothing is covered.
LEMMA KeptUpInit == Init => KeptUp
  BY DEF Init, InitDuty, KeptUp

\* Every step keeps the record up.
LEMMA KeptUpNext == LifeInv /\ Locks /\ Debt /\ KeptUp /\ [Next]_vars => KeptUp'
<1> SUFFICES ASSUME LifeInv, Locks, Debt, KeptUp, [Next]_vars PROVE KeptUp'
  OBVIOUS
<1> USE DEF lifeVars, workVars, counts, timeVars, dutyVars, historyVars
<1>0. /\ DutyTypes /\ now \in Int /\ (covered => duty.saved <= RecordMs) /\ RecordTime \in Int
      /\ now <= RecordTime /\ RecordMs \in Nat /\ EpochBase \in Nat
      /\ RecordTime >= RecordMs - EpochBase
  BY Times DEF Debt, KeptUp, RecordTime, Greater
<1>1. CASE BeginOk
  <2>1. duty'.saved = 0 /\ UNCHANGED <<nv, owed, covered, clockOk, now>>
    BY <1>1 DEF BeginOk, FreshTracker
  <2>2. NoneAccounts' => NoneAccounts
    BY <1>1, Placed DEF BeginOk, NoneAccounts
  <2> QED
    BY <1>0, <2>1, <2>2, RecordStays
<1>2. CASE InitLoads
  <2>1. duty'.saved \in {duty.saved, RecordMs}
    BY <1>0, <1>2, Loaded DEF InitLoads
  <2>2. owed' \in Int /\ (clockOk' => owed' <= RecordTime) /\ UNCHANGED <<now, nv, covered>>
    BY <1>0, <1>2, Times DEF InitLoads, Remembered, Lesser
  <2> QED
    BY <1>0, <2>1, <2>2, RecordIsOwed
<1>3. CASE BeginFails \/ Send \/ UNCHANGED vars
  <2>1. UNCHANGED <<now, clockOk, duty, nv, owed, covered, pc>>
    BY <1>3 DEF BeginFails, Send, vars
  <2> QED
    BY <1>0, <2>1, RecordStays DEF NoneAccounts
<1>4. CASE StartWorkerTask \/ MarkStarted \/ WorkerTests \/ SendLarge \/ Answer \/ Poll
           \/ EndSignals \/ EndAgain \/ EndGivesUp
  <2>1. UNCHANGED <<now, clockOk, duty, nv, owed, covered>>
    BY <1>4 DEF StartWorkerTask, MarkStarted, WorkerTests, SendLarge, Answer, Poll,
                EndSignals, EndAgain, EndGivesUp
  <2>2. \A t \in Threads : pc[t] \in {"account", "extend", "commit"} => pc'[t] = pc[t]
    <3>1. CASE StartWorkerTask \/ MarkStarted
      BY <3>1, Placed, FirstWorker DEF StartWorkerTask, MarkStarted
    <3>2. CASE WorkerTests
      BY <3>2, Placed DEF WorkerTests
    <3>3. CASE Answer
      BY <3>3, Placed DEF Answer
    <3>4. CASE SendLarge \/ Poll \/ EndSignals \/ EndAgain \/ EndGivesUp
      BY <3>4, Placed DEF SendLarge, Poll, EndSignals, EndAgain, EndGivesUp
    <3> QED
      BY <1>4, <3>1, <3>2, <3>3, <3>4
  <2>3. NoneAccounts' => NoneAccounts
    BY <2>2 DEF NoneAccounts
  <2> QED
    BY <1>0, <2>1, <2>3, RecordStays
<1>5. CASE EndWithoutWorker \/ EndTearsDown
  <2>1. duty'.saved = 0 /\ UNCHANGED <<nv, owed, covered, clockOk, now>>
    BY <1>5 DEF EndWithoutWorker, EndTearsDown, Deleted, NoTracker
  <2>2. NoneAccounts' => NoneAccounts
    BY <1>5, Placed DEF EndWithoutWorker, EndTearsDown, NoneAccounts
  <2> QED
    BY <1>0, <2>1, <2>2, RecordStays
<1>6. CASE TimePasses
  <2>1. now' = now + 1 /\ UNCHANGED <<duty, nv, owed, covered, clockOk, pc>>
    BY <1>6 DEF TimePasses, Tick
  <2> QED
    BY <1>0, <2>1, RecordStays DEF NoneAccounts
<1>7. CASE ClockChanges /\ ClockSet
  <2>1. /\ UNCHANGED <<now, nv, duty>> /\ covered' = (covered /\ owed <= now)
        /\ owed' = IF duty.epoch THEN owed ELSE Greater(owed, Lesser(rule, RecordTime))
    BY <1>7 DEF ClockSet
  <2>2. CASE covered /\ owed <= now
    <3>1. owed' <= RecordTime /\ owed' \in Int
      BY <1>0, <2>1, <2>2, Times DEF Greater, Lesser
    <3> QED
      BY <1>0, <2>1, <2>2, <3>1, RecordIsOwed
  <2>3. CASE ~(covered /\ owed <= now)
    BY <2>1, <2>3 DEF KeptUp
  <2> QED
    BY <2>2, <2>3
<1>8. CASE ClockChanges /\ ClockLost
  <2>1. clockOk' = FALSE /\ UNCHANGED <<now, nv, duty, covered>> /\ owed' = now
    BY <1>8 DEF ClockLost
  <2> QED
    BY <1>0, <2>1, RecordIsOwed
<1>9. CASE PowerCycle
  <2>1. /\ duty'.saved = 0 /\ UNCHANGED <<now, nv, covered>>
        /\ owed' = IF clockOk' THEN Lesser(owed, RecordTime) ELSE now
    BY <1>9 DEF PowerCycle, Deleted, NoTracker
  <2>2. owed' \in Int /\ (clockOk' => owed' <= RecordTime)
    BY <1>0, <2>1, Times DEF Lesser
  <2> QED
    BY <1>0, <2>1, <2>2, RecordIsOwed
<1>10. ASSUME NEW t \in Threads, DriveStep(t) PROVE KeptUp'
  <2>1. CASE PopRequest(t) \/ PopShutdown(t) \/ PopNothing(t) \/ Service(t) \/ CheckRefuses(t)
             \/ ReadWait(t) \/ CheckPasses(t) \/ NotSent(t) \/ Callback(t)
    <3>1. UNCHANGED <<now, clockOk, duty, nv, owed, covered>>
      BY <2>1 DEF PopRequest, PopShutdown, PopNothing, Service, CheckRefuses, ReadWait,
                  CheckPasses, NotSent, Callback
    <3>2. \A u \in Threads : pc[u] \in {"account", "extend", "commit"} => pc'[u] = pc[u]
      BY <2>1, Placed DEF PopRequest, PopShutdown, PopNothing, Service, CheckRefuses, ReadWait,
                          CheckPasses, NotSent, Callback
    <3>3. NoneAccounts' => NoneAccounts
      BY <3>2 DEF NoneAccounts
    <3> QED
      BY <1>0, <3>1, <3>3, RecordStays
  <2>2. CASE Sync(t)
    <3>1. /\ duty' = SyncBase(duty) /\ loading = Nobody
          /\ UNCHANGED <<now, bootAt, clockOk, nv, rule, owed, covered, mixed>>
          /\ loading' # Nobody <=> FindsClockSet(duty)
      BY <2>2 DEF Sync, Nobody
    <3>2. duty'.saved = duty.saved
      BY <1>0, <3>1, SyncWait
    <3>3. NoneAccounts' => NoneAccounts
      BY <2>2, After, Placed DEF Sync, NoneAccounts
    <3> QED
      BY <1>0, <3>1, <3>2, <3>3, RecordStays
  <2>3. CASE Load(t)
    <3>1. duty' = LoadFromNv(duty) /\ UNCHANGED <<now, clockOk, nv, owed, covered>>
      BY <2>3 DEF Load
    <3>2. duty'.saved \in {duty.saved, RecordMs}
      BY <1>0, <3>1, Loaded
    <3>3. covered => duty'.saved <= RecordMs
      BY <1>0, <3>2
    <3>4. NoneAccounts' => NoneAccounts
      BY <2>3, After, Placed DEF Load, NoneAccounts
    <3> QED
      BY <1>0, <3>1, <3>3, <3>4, RecordStays
  <2>4. CASE Sent(t)
    <3>1. pc'[t] = "account" /\ UNCHANGED <<duty, nv, covered>>
      BY <2>4, Placed DEF Sent
    <3>2. ~NoneAccounts' /\ RecordMs' = RecordMs
      BY <3>1 DEF NoneAccounts, RecordMs
    <3> QED
      BY <3>1, <3>2 DEF KeptUp
  <2>5. CASE Extend(t)
    <3>1. /\ pc'[t] = "commit" /\ UNCHANGED <<nv, covered>> /\ duty' = Extended(duty)
      BY <2>5, Placed DEF Extend
    <3>2. duty'.saved = duty.saved
      BY <1>0, <3>1 DEF Extended, DutyTypes, Tracker
    <3>3. ~NoneAccounts' /\ RecordMs' = RecordMs
      BY <3>1 DEF NoneAccounts, RecordMs
    <3> QED
      BY <3>1, <3>2, <3>3 DEF KeptUp
  <2>6. CASE Save(t)
    <3>1. /\ pc[t] = "commit" /\ MaybeCommit /\ UNCHANGED <<now, clockOk, owed>>
      BY <2>6 DEF Save
    <3>2. Pending = 0 /\ engine = "up" /\ loading = Nobody
      <4>1. pc[t] \in Driving /\ pc[t] \notin {"account", "extend"} /\ pc[t] \in Inside
        BY <3>1
      <4> QED
        BY <4>1, OnePending DEF Locks
    <3> SUFFICES ASSUME covered' PROVE KeptUp'
      BY DEF KeptUp
    <3>3. /\ duty'.saved <= RecordMs' /\ nv' \in Nat
          /\ clockOk /\ duty.epoch /\ mixed = "none"
          /\ duty.off <= RecordMs' \/ duty.off < RecordMs' + CommitMin
      BY <1>0, <3>1, SaveRecords
    <3>4. owed - now <= Wait
      <4>1. owed - now <= Wait + 0 /\ Wait \in Nat
        BY <1>0, <3>2, <3>3, WaitNat DEF Debt
      <4> QED
        BY <4>1, Sums
    <3>5. Wait = Greater(Greater(0, duty.off - EpochMs), 0)
      BY <3>2, <3>3 DEF Wait, Unread, DeadlineBase
    <3>6. owed <= now \/ owed <= duty.off - EpochBase
      <4>1. /\ duty.off \in Nat /\ EpochMs \in Nat /\ EpochMs = EpochBase + now
            /\ owed \in Int /\ now \in Nat /\ EpochBase \in Nat
        BY <1>0, Times
      <4>2. Wait = 0 \/ Wait = duty.off - EpochMs
        BY <3>5, <4>1 DEF Greater
      <4>3. CASE Wait = 0
        BY <3>4, <4>1, <4>3
      <4>4. CASE Wait = duty.off - EpochMs
        <5>1. owed - now <= duty.off - EpochMs
          BY <3>4, <4>4
        <5> QED
          BY <4>1, <5>1
      <4> QED
        BY <4>2, <4>3, <4>4
    <3>7. RecordMs' \in Nat /\ RecordTime' = Greater(now, RecordMs' - EpochBase)
      <4>1. RecordMs' \in Nat
        <5>1. RecordMs' = nv' * Second
          BY DEF RecordMs
        <5>2. nv' \in Nat /\ Second \in Nat
          BY <3>3, DutyAssumption
        <5>3. \A a, b \in Nat : a * b \in Nat
          OBVIOUS
        <5> QED
          BY <5>1, <5>2, <5>3, Zenon
      <4>2. EpochBase' = EpochBase
        BY DEF EpochBase
      <4> QED
        BY <3>1, <4>1, <4>2 DEF RecordTime
    <3>8. RecordTime' \in Int /\ RecordMs' - EpochBase <= RecordTime' /\ now <= RecordTime'
      <4>1. now \in Int /\ RecordMs' - EpochBase \in Int
        BY <1>0, <3>7
      <4> QED
        BY <3>7, <4>1, Greatest
    <3>9. owed <= RecordTime' \/ owed < RecordTime' + CommitMin
      <4>1. \A o, n, f, r, b, m, c \in Int :
               /\ o <= n \/ o <= f - b
               /\ r - b <= m
               /\ n <= m
               /\ f <= r \/ f < r + c
               => o <= m \/ o < m + c
        OBVIOUS
      <4>2. /\ owed \in Int /\ now \in Int /\ duty.off \in Int /\ RecordMs' \in Int
            /\ EpochBase \in Int /\ RecordTime' \in Int /\ CommitMin \in Int
        BY <1>0, <3>7, <3>8, Times
      <4> QED
        BY <3>3, <3>6, <3>8, <4>1, <4>2
    <3> QED
      BY <3>1, <3>3, <3>9 DEF KeptUp, Near
  <2> QED
    BY <1>10, <2>1, <2>2, <2>3, <2>4, <2>5, <2>6 DEF DriveStep
<1> QED
  BY <1>1, <1>2, <1>3, <1>4, <1>5, <1>6, <1>7, <1>8, <1>9, <1>10 DEF Next, ClockChanges

\* While the clock stays valid and NV accepts the writes, a reboot loses at
\* most CommitMin of the off-time that is owed.
THEOREM RecordIsKeptUp == Spec => []RecordKeepsUp
<1> DEFINE Inv == LifeInv /\ Locks /\ Held /\ Debt /\ KeptUp
<1>1. Init => Inv
  BY LifeInit, LocksInit, HeldInit, DebtInit, KeptUpInit
<1>2. Inv /\ [Next]_vars => Inv'
  BY LifeNext, LocksNext, HeldNext, DebtNext, KeptUpNext DEF Debt
<1>3. Inv => RecordKeepsUp
  BY DEF KeptUp, Near, NoneAccounts, RecordKeepsUp
<1> HIDE DEF Inv
<1> QED
  BY <1>1, <1>2, <1>3, PTL DEF Spec
=============================================================================
