-------------------------- MODULE KillSwitchProofs --------------------------
(***************************************************************************)
(* For any pool size, any traffic on the other channels and any use of the *)
(* switches: the panel never waits for an answer that will not come; and,  *)
(* as long as the drone has not restarted, its RX lamp is not lit for a    *)
(* drone that did not run its KILL handler.                                *)
(***************************************************************************)
EXTENDS KillSwitch, TLAPS

USE DEF PortA, PortB, MaskRx

\* Every variable keeps its type, under every action.
THEOREM TypeCorrect == Spec => []TypeOK
<1>1. Init => TypeOK
  BY BoundsAssumption DEF Init, TypeOK
<1>2. TypeOK /\ [Next]_vars => TypeOK'
  <2> SUFFICES ASSUME TypeOK, [Next]_vars PROVE TypeOK'
    OBVIOUS
  <2> USE DEF TypeOK
  <2>1. CASE LoopStep
    <3>1. CASE ReadSwitches
      BY <3>1 DEF ReadSwitches, Goto, operator, radio, drone
    <3>9. CASE ReadArmOnly
      <4>1. sampled' \subseteq {"kill", "arm"}
        BY <3>9 DEF ReadArmOnly
      <4> QED BY <3>9, <4>1 DEF ReadArmOnly, Goto, operator, radio, drone
    <3>2. CASE TakeAck
      BY <3>2 DEF TakeAck, Goto, operator, radio, drone
    <3>3. CASE TakeFail
      BY <3>3 DEF TakeFail, AfterFail, Goto, operator, radio, drone
    <3>4. CASE Disarmed \/ Waits
      <4>1. at' = "flush"
        BY <3>4 DEF Disarmed, Waits, Goto
      <4>2. UNCHANGED <<operator, sampled, killState, flags, latch, lamp, gap, radio, drone>>
        BY <3>4 DEF Disarmed, Waits
      <4> QED BY <4>1, <4>2 DEF operator, radio, drone
    <3>5. CASE Released
      BY <3>5 DEF Released, AfterRelease, Goto, operator, radio, drone
    <3>6. CASE SendKill
      BY <3>6 DEF SendKill, FreeSlots, Goto, operator, drone
    <3>7. CASE SendKillRefused
      BY <3>7 DEF SendKillRefused, Goto, operator, radio, drone
    <3>8. ASSUME NEW written \in SUBSET {PortA, PortB}, FlushLeds(UNION written)
          PROVE  TypeOK'
      BY <3>8 DEF FlushLeds, Goto, operator, radio, drone
    <3> QED
      BY <2>1, <3>1, <3>2, <3>3, <3>4, <3>5, <3>6, <3>7, <3>8, <3>9 DEF LoopStep
  <2>2. CASE GapElapses
    BY <2>2 DEF GapElapses, operator, radio, drone
  <2>3. ASSUME NEW button \in {"kill", "arm"}, Operate(button) PROVE TypeOK'
    BY <2>3, BoundsAssumption DEF Operate, loop, radio, drone
  <2>4. ASSUME NEW s \in Slots, Reach(s) \/ Outcome(s) PROVE TypeOK'
    <3>1. slots' \in [Slots -> {"free", "sent", "acked", "other"}]
      BY <2>4 DEF Reach, Outcome, OnSendOk, OnSendFail
    <3>2. flags' \subseteq {"ack", "fail"}
      BY <2>4 DEF Reach, Outcome, OnSendOk, OnSendFail
    <3>3. stray' \in {"no", "yes"} /\ handling' \in {"no", "yes"}
      BY <2>4 DEF Reach, Answered, Outcome, OnSendOk, OnSendFail, drone
    <3>4. UNCHANGED <<operator, loop, boot, fc, psu, killed, everKilled, reboots>>
      BY <2>4 DEF Reach, Outcome, OnSendOk, OnSendFail, drone
    <3> QED BY <3>1, <3>2, <3>3, <3>4 DEF operator, loop
  <2>5. ASSUME NEW s \in Slots, OthersTake(s) \/ OthersRelease(s) PROVE TypeOK'
    <3>1. slots' \in [Slots -> {"free", "sent", "acked", "other"}]
      BY <2>5 DEF OthersTake, OthersRelease
    <3>2. UNCHANGED <<operator, loop, flags, stray, drone>>
      BY <2>5 DEF OthersTake, OthersRelease
    <3> QED BY <3>1, <3>2 DEF operator, loop, drone
  <2>6. CASE ReachLate \/ LoseStray
    <3>1. UNCHANGED <<operator, loop, flags, slots, boot, handling, reboots>>
      BY <2>6 DEF ReachLate, LoseStray, EngageKillswitch, drone
    <3>2. stray' \in {"no", "yes"}
      BY <2>6 DEF ReachLate, LoseStray
    <3>3. /\ fc' \in {"low", "high"} /\ psu' \in {"low", "high"}
          /\ killed' \in {"no", "yes"} /\ everKilled' \in {"no", "yes"}
      BY <2>6 DEF ReachLate, LoseStray, EngageKillswitch, drone
    <3> QED BY <3>1, <3>2, <3>3 DEF operator, loop
  <2>7. CASE StartWorker \/ ArmFc \/ HandleKill
    BY <2>7 DEF StartWorker, ArmFc, HandleKill, EngageKillswitch, operator, loop, radio
  <2>8. CASE Reboot
    BY <2>8, BoundsAssumption DEF Reboot, operator, loop
  <2>9. CASE UNCHANGED vars
    BY <2>9 DEF vars, operator, loop, radio, drone
  <2> QED
    BY <2>1, <2>2, <2>3, <2>4, <2>5, <2>6, <2>7, <2>8, <2>9 DEF Next
<1> QED BY <1>1, <1>2, PTL DEF Spec

\* NoLostWait is inductive: a send leaves the engine only by raising a flag,
\* and loop() drops a flag only when it leaves INFLIGHT.
THEOREM NothingIsWaitedForInVain == Spec => []NoLostWait
<1>1. Init => NoLostWait
  BY DEF Init, NoLostWait
<1>2. TypeOK /\ NoLostWait /\ [Next]_vars => NoLostWait'
  <2> SUFFICES ASSUME TypeOK, NoLostWait, [Next]_vars PROVE NoLostWait'
    OBVIOUS
  <2> USE DEF NoLostWait
  <2>1. CASE LoopStep
    <3>1. CASE ReadSwitches \/ ReadArmOnly \/ Disarmed \/ Waits
      BY <3>1 DEF ReadSwitches, ReadArmOnly, Disarmed, Waits, radio
    <3>2. CASE TakeAck \/ TakeFail
      BY <3>2 DEF TakeAck, TakeFail, AfterFail, radio
    <3>3. CASE Released \/ SendKillRefused
      BY <3>3 DEF Released, AfterRelease, SendKillRefused
    <3>4. CASE SendKill
      BY <3>4 DEF SendKill, FreeSlots, TypeOK
    <3>5. ASSUME NEW written \in SUBSET {PortA, PortB}, FlushLeds(UNION written)
          PROVE  NoLostWait'
      BY <3>5 DEF FlushLeds, radio
    <3> QED BY <2>1, <3>1, <3>2, <3>3, <3>4, <3>5 DEF LoopStep
  <2>2. ASSUME NEW s \in Slots, Reach(s) PROVE NoLostWait'
    BY <2>2 DEF Reach, TypeOK, loop
  <2>3. ASSUME NEW s \in Slots, Outcome(s) PROVE NoLostWait'
    BY <2>3 DEF Outcome, OnSendOk, OnSendFail
  <2>4. ASSUME NEW s \in Slots, OthersTake(s) \/ OthersRelease(s) PROVE NoLostWait'
    BY <2>4 DEF OthersTake, OthersRelease, TypeOK, loop
  <2>5. CASE \/ GapElapses \/ ReachLate \/ LoseStray \/ StartWorker \/ ArmFc
             \/ HandleKill \/ Reboot \/ UNCHANGED vars
    BY <2>5 DEF GapElapses, ReachLate, LoseStray, StartWorker, ArmFc, HandleKill,
                Reboot, vars, loop, radio
  <2>6. ASSUME NEW button \in {"kill", "arm"}, Operate(button) PROVE NoLostWait'
    BY <2>6 DEF Operate, loop, radio
  <2> QED BY <2>1, <2>2, <2>3, <2>4, <2>5, <2>6 DEF Next
<1> QED BY <1>1, <1>2, TypeCorrect, PTL DEF Spec

-----------------------------------------------------------------------------
\* An acknowledgement, at any stage between the drone's radio and the lamp.
Acknowledged ==
    \/ \E s \in Slots : slots[s] = "acked"
    \/ "ack" \in flags \/ "RX" \in latch \/ "RX" \in lamp

\* RxMeansKilled made inductive: as long as the drone has not restarted, an
\* acknowledgement implies a handler that has run or is about to.
AckMeansHandled ==
    reboots = 0 /\ Acknowledged => everKilled = "yes" \/ handling = "yes"

\* A drone that has not restarted has run its KILL handler when the lamp says so.
THEOREM ConfirmedIsKilled == Spec => []RxMeansKilled
<1>1. Init => AckMeansHandled
  BY DEF Init, AckMeansHandled, Acknowledged
<1>2. TypeOK /\ AckMeansHandled /\ [Next]_vars => AckMeansHandled'
  <2> SUFFICES ASSUME TypeOK, AckMeansHandled, [Next]_vars PROVE AckMeansHandled'
    OBVIOUS
  <2> USE DEF AckMeansHandled, Acknowledged
  <2>1. CASE LoopStep
    <3>1. CASE ReadSwitches \/ ReadArmOnly \/ Disarmed \/ Waits
      BY <3>1 DEF ReadSwitches, ReadArmOnly, Disarmed, Waits, radio, drone
    <3>2. CASE TakeAck \/ TakeFail
      BY <3>2 DEF TakeAck, TakeFail, radio, drone
    <3>3. CASE Released \/ SendKillRefused
      BY <3>3 DEF Released, SendKillRefused, radio, drone
    <3>4. CASE SendKill
      BY <3>4 DEF SendKill, FreeSlots, TypeOK, drone
    <3>5. ASSUME NEW written \in SUBSET {PortA, PortB}, FlushLeds(UNION written)
          PROVE  AckMeansHandled'
      BY <3>5 DEF FlushLeds, radio, drone
    <3> QED BY <2>1, <3>1, <3>2, <3>3, <3>4, <3>5 DEF LoopStep
  <2>2. ASSUME NEW s \in Slots, Reach(s) PROVE AckMeansHandled'
    BY <2>2 DEF Reach, Answered
  <2>3. ASSUME NEW s \in Slots, Outcome(s) PROVE AckMeansHandled'
    BY <2>3 DEF Outcome, OnSendOk, OnSendFail, TypeOK, loop, drone
  <2>4. ASSUME NEW s \in Slots, OthersTake(s) \/ OthersRelease(s)
        PROVE  AckMeansHandled'
    BY <2>4 DEF OthersTake, OthersRelease, TypeOK, loop, drone
  <2>5. CASE HandleKill \/ ReachLate
    BY <2>5 DEF HandleKill, ReachLate, EngageKillswitch, loop, radio
  <2>6. CASE GapElapses \/ LoseStray \/ StartWorker \/ ArmFc \/ UNCHANGED vars
    BY <2>6 DEF GapElapses, LoseStray, StartWorker, ArmFc, vars, loop, radio, drone
  <2>7. ASSUME NEW button \in {"kill", "arm"}, Operate(button) PROVE AckMeansHandled'
    BY <2>7 DEF Operate, loop, radio, drone
  <2>8. CASE Reboot
    <3>1. reboots' # 0
      BY <2>8 DEF Reboot, TypeOK
    <3> QED BY <3>1
  <2> QED BY <2>1, <2>2, <2>3, <2>4, <2>5, <2>6, <2>7, <2>8 DEF Next
<1>3. TypeOK /\ AckMeansHandled => RxMeansKilled
  BY DEF TypeOK, AckMeansHandled, Acknowledged, RxMeansKilled
<1> QED BY <1>1, <1>2, <1>3, TypeCorrect, PTL DEF Spec

=============================================================================
