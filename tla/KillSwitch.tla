----------------------------- MODULE KillSwitch -----------------------------
(***************************************************************************)
(* The kill switch, end to end, for one drone: the ground panel            *)
(* (src/killswitch/main.cpp), whose loop() polls the switches, fires KILLs *)
(* and drives the lamps while the RF worker task raises its two flags; the *)
(* radio; and the drone (src/node/main_node.cpp), whose setup() raises the *)
(* power gates after it has started the worker that runs the KILL handler. *)
(*                                                                         *)
(* The four channels of the panel share no state but the message pool of   *)
(* the engine, so one channel is modelled and the rest occupy slots.       *)
(***************************************************************************)
EXTENDS Integers, FiniteSets

CONSTANTS
    Slots,      \* the message pool of the panel's engine (RF_POOL_SIZE)
    MaxOthers,  \* how many of them the other channels hold at most
    MaxToggles, \* bound: switches the operator throws
    MaxReboots  \* bound: restarts of the drone

ASSUME SlotsAssumption == IsFiniteSet(Slots) /\ Slots # {}
ASSUME BoundsAssumption == MaxOthers \in Nat /\ MaxToggles \in Nat /\ MaxReboots \in Nat

VARIABLES
    pressed,    \* what the operator holds: a subset of {"kill", "arm"}
    toggles,    \* how many switches were thrown
    sampled,    \* swStable (this drone's bit) and armed, as loop() last read them
    at,         \* where loop() is
    killState,  \* killState[i]
    flags,      \* ackFlag[i] and failFlag[i]: the subset of {"ack", "fail"} raised
    latch,      \* this channel's bits of latchA and latchB
    lamp,       \* what the MCP23017 shows of them
    gap,        \* "over" iff RESEND_GAP_MS have passed since lastSendMs[i]
    slots,      \* what each slot of the pool holds
    stray,      \* "yes" iff a KILL the panel gave up is still in the drone's radio
    boot,       \* how far the drone's setup() is
    fc, psu,    \* KILLSWITCH_FC_CTL and KILLSWITCH_PSU_CTL
    handling,   \* "yes" iff the drone's worker is about to run the receive handler
    killed,     \* history: "yes" iff the handler ran since the drone booted
    everKilled, \* history: "yes" iff it ever ran
    reboots

operator == <<pressed, toggles>>
loop == <<sampled, at, killState, latch, lamp, gap>>
radio == <<slots, stray>>
drone == <<boot, fc, psu, handling, killed, everKilled, reboots>>
vars == <<operator, loop, flags, radio, drone>>

\* Both boards power up; the operator's switches may be in any position.
Init ==
    /\ pressed \in SUBSET {"kill", "arm"} /\ toggles = 0 /\ sampled = {} /\ at = "top"
    /\ killState = "IDLE" /\ flags = {} /\ latch = {} /\ lamp = {} /\ gap = "over"
    /\ slots = [s \in Slots |-> "free"] /\ stray = "no"
    /\ boot = "low" /\ fc = "low" /\ psu = "high"
    /\ handling = "no" /\ killed = "no" /\ everKilled = "no" /\ reboots = 0

-----------------------------------------------------------------------------
(* The panel's loop().                                                     *)

Goto(from, to) == at = from /\ at' = to

\* The arm switch is read directly, the kill switch over I2C and debounced:
\* what it was may stand for any number of passes.
ReadSwitches ==
    /\ Goto("top", "ack")
    /\ sampled' = pressed
    /\ UNCHANGED <<operator, killState, flags, latch, lamp, gap, radio, drone>>

ReadArmOnly ==
    /\ Goto("top", "ack")
    /\ sampled' = (sampled \cap {"kill"}) \cup (pressed \cap {"arm"})
    /\ UNCHANGED <<operator, killState, flags, latch, lamp, gap, radio, drone>>

MaskRx == {"RX"}

TakeAck ==
    /\ Goto("ack", "fail")
    /\ IF "ack" \in flags
       THEN /\ flags' = flags \ {"ack"}
            /\ latch' = (latch \cup MaskRx) \ {"FAULT"}
            /\ killState' = "DONE"
       ELSE UNCHANGED <<flags, latch, killState>>
    /\ UNCHANGED <<operator, sampled, lamp, gap, radio, drone>>

\* Mutant of AfterFail: the channel keeps waiting for the send that failed.
AfterFailWaiting == killState

AfterFail == "IDLE"

TakeFail ==
    /\ Goto("fail", "switch")
    /\ IF "fail" \in flags
       THEN /\ flags' = flags \ {"fail"}
            /\ latch' = latch \cup {"FAULT"}
            /\ killState' = AfterFail
       ELSE UNCHANGED <<flags, latch, killState>>
    /\ UNCHANGED <<operator, sampled, lamp, gap, radio, drone>>

Safe == at = "switch" /\ "arm" \notin sampled

Disarmed ==
    /\ Safe
    /\ Goto("switch", "flush")
    /\ UNCHANGED <<operator, sampled, killState, flags, latch, lamp, gap, radio, drone>>

\* Mutant of AfterRelease: the flags are dropped and the state is kept.
AfterReleaseKept == killState

AfterRelease == "IDLE"

Released ==
    /\ ~Safe /\ "kill" \notin sampled
    /\ Goto("switch", "flush")
    /\ killState' = AfterRelease
    /\ flags' = {}
    /\ latch' = {}
    /\ UNCHANGED <<operator, sampled, lamp, gap, radio, drone>>

Fires == ~Safe /\ "kill" \in sampled /\ killState = "IDLE" /\ gap = "over"

Waits ==
    /\ ~Safe /\ "kill" \in sampled /\ ~Fires
    /\ Goto("switch", "flush")
    /\ UNCHANGED <<operator, sampled, killState, flags, latch, lamp, gap, radio, drone>>

FreeSlots == {s \in Slots : slots[s] = "free"}

\* sendKill, accepted: the engine owns a slot until it has told the outcome.
SendKill ==
    /\ Fires /\ FreeSlots # {}
    /\ Goto("switch", "flush")
    /\ \E s \in FreeSlots : slots' = [slots EXCEPT ![s] = "sent"]
    /\ killState' = "INFLIGHT"
    /\ latch' = latch \cup {"KILLED"}
    /\ gap' = "running"
    /\ UNCHANGED <<operator, sampled, flags, lamp, stray, drone>>

\* sendKill, refused: the pool is exhausted.
SendKillRefused ==
    /\ Fires /\ FreeSlots = {}
    /\ Goto("switch", "flush")
    /\ killState' = "IDLE"
    /\ latch' = latch \cup {"KILLED", "FAULT"}
    /\ gap' = "running"
    /\ UNCHANGED <<operator, sampled, flags, lamp, radio, drone>>

PortA == {"FAULT", "RX"}
PortB == {"KILLED"}

\* flushLeds: either port may fail to be written and is then tried next pass.
FlushLeds(written) ==
    /\ Goto("flush", "top")
    /\ lamp' = (latch \cap written) \cup (lamp \ written)
    /\ UNCHANGED <<operator, sampled, killState, flags, latch, gap, radio, drone>>

LoopStep ==
    \/ ReadSwitches \/ ReadArmOnly
    \/ TakeAck \/ TakeFail
    \/ Disarmed \/ Released \/ Waits \/ SendKill \/ SendKillRefused
    \/ \E written \in SUBSET {PortA, PortB} : FlushLeds(UNION written)

GapElapses ==
    /\ gap = "running" /\ gap' = "over"
    /\ UNCHANGED <<operator, sampled, at, killState, latch, lamp, flags, radio, drone>>

Operate(button) ==
    /\ toggles < MaxToggles /\ toggles' = toggles + 1
    /\ pressed' = IF button \in pressed THEN pressed \ {button} ELSE pressed \cup {button}
    /\ UNCHANGED <<loop, flags, radio, drone>>

-----------------------------------------------------------------------------
(* The radio and the callbacks of the panel's worker.                      *)

EngageKillswitch ==
    /\ fc' = "low" /\ psu' = "low"
    /\ killed' = "yes" /\ everKilled' = "yes"

Listening == boot # "low" /\ handling = "no"

\* Mutant of Answered: the frame is acknowledged and never handed on.
AnsweredOnly == handling' = handling

Answered == handling' = "yes"

\* The drone's _handleRaw acknowledges, and only then calls the handler.
Reach(s) ==
    /\ slots[s] = "sent" /\ Listening
    /\ slots' = [slots EXCEPT ![s] = "acked"]
    /\ Answered
    /\ UNCHANGED <<operator, loop, flags, stray, boot, fc, psu, killed, everKilled, reboots>>

\* A frame whose sender no longer waits for the ACK is handled all the same.
ReachLate ==
    /\ stray = "yes" /\ Listening
    /\ stray' = "no"
    /\ EngageKillswitch
    /\ UNCHANGED <<operator, loop, flags, slots, boot, handling, reboots>>

OnSendOk(s) ==
    /\ slots[s] = "acked"
    /\ slots' = [slots EXCEPT ![s] = "free"]
    /\ flags' = flags \cup {"ack"}
    /\ UNCHANGED <<operator, loop, stray, drone>>

\* The KILL was not sent, or it or its ACK was lost, or the ACK came too late.
OnSendFail(s) ==
    /\ slots[s] \in {"sent", "acked"}
    /\ slots' = [slots EXCEPT ![s] = "free"]
    /\ flags' = flags \cup {"fail"}
    /\ stray' \in IF slots[s] = "sent" THEN {stray, "yes"} ELSE {stray}
    /\ UNCHANGED <<operator, loop, drone>>

LoseStray ==
    /\ stray = "yes" /\ stray' = "no"
    /\ UNCHANGED <<operator, loop, flags, slots, drone>>

\* The KILLs of the other channels.
OthersTake(s) ==
    /\ Cardinality({t \in Slots : slots[t] = "other"}) < MaxOthers
    /\ slots[s] = "free" /\ slots' = [slots EXCEPT ![s] = "other"]
    /\ UNCHANGED <<operator, loop, flags, stray, drone>>

OthersRelease(s) ==
    /\ slots[s] = "other" /\ slots' = [slots EXCEPT ![s] = "free"]
    /\ UNCHANGED <<operator, loop, flags, stray, drone>>

-----------------------------------------------------------------------------
(* The drone.                                                              *)

\* setup(): FC low and PSU high, then begin() and startWorkerTask() ...
StartWorker ==
    /\ boot = "low" /\ boot' = "listening"
    /\ UNCHANGED <<operator, loop, flags, radio, fc, psu, handling, killed, everKilled, reboots>>

\* ... and "Radio is up, so the aircraft may have power".
ArmFc ==
    /\ boot = "listening" /\ boot' = "armed"
    /\ fc' = "high"
    /\ UNCHANGED <<operator, loop, flags, radio, psu, handling, killed, everKilled, reboots>>

\* The receive handler runs for the frame just acknowledged.
HandleKill ==
    /\ handling = "yes" /\ handling' = "no"
    /\ EngageKillswitch
    /\ UNCHANGED <<operator, loop, flags, radio, boot, reboots>>

Reboot ==
    /\ reboots < MaxReboots /\ reboots' = reboots + 1
    /\ boot' = "low" /\ fc' = "low" /\ psu' = "high"
    /\ handling' = "no" /\ killed' = "no" /\ stray' = "no"
    /\ UNCHANGED <<operator, loop, flags, slots, everKilled>>

-----------------------------------------------------------------------------
Outcome(s) == OnSendOk(s) \/ OnSendFail(s)

Next ==
    \/ LoopStep \/ GapElapses
    \/ \E button \in {"kill", "arm"} : Operate(button)
    \/ \E s \in Slots : Reach(s) \/ Outcome(s) \/ OthersTake(s) \/ OthersRelease(s)
    \/ ReachLate \/ LoseStray
    \/ StartWorker \/ ArmFc \/ HandleKill \/ Reboot

Spec == Init /\ [][Next]_vars

\* loop() keeps running, time passes, the drone's tasks run, the engine tells
\* the outcome of every send (Settles of EngineTx); and a switch read, a lamp
\* written, a KILL or an ACK put in the air succeeds if it is tried over and
\* over.
Fairness ==
    /\ WF_vars(LoopStep) /\ WF_vars(GapElapses)
    /\ SF_vars(ReadSwitches) /\ SF_vars(FlushLeds(PortA \cup PortB))
    /\ SF_vars(\E s \in Slots : Reach(s)) /\ SF_vars(\E s \in Slots : OnSendOk(s))
    /\ \A s \in Slots : WF_vars(Outcome(s))
    /\ WF_vars(StartWorker) /\ WF_vars(ArmFc) /\ WF_vars(HandleKill)

FairSpec == Spec /\ Fairness

-----------------------------------------------------------------------------
(* Properties.                                                             *)

TypeOK ==
    /\ pressed \subseteq {"kill", "arm"} /\ sampled \subseteq {"kill", "arm"}
    /\ at \in {"top", "ack", "fail", "switch", "flush"}
    /\ killState \in {"IDLE", "INFLIGHT", "DONE"}
    /\ flags \subseteq {"ack", "fail"}
    /\ latch \subseteq PortA \cup PortB /\ lamp \subseteq PortA \cup PortB
    /\ gap \in {"running", "over"}
    /\ slots \in [Slots -> {"free", "sent", "acked", "other"}]
    /\ stray \in {"no", "yes"} /\ handling \in {"no", "yes"}
    /\ boot \in {"low", "listening", "armed"}
    /\ fc \in {"low", "high"} /\ psu \in {"low", "high"}
    /\ killed \in {"no", "yes"} /\ everKilled \in {"no", "yes"}
    /\ toggles \in 0..MaxToggles /\ reboots \in 0..MaxReboots

\* The panel never waits for an answer that will not come: while a channel is
\* INFLIGHT, a KILL of it is still with the engine or its outcome is flagged.
\* loop() would not fire again otherwise, however long the switch is held
\* (main.cpp:359), and it clears the flags itself when the switch is released.
NoLostWait ==
    killState = "INFLIGHT" =>
        flags # {} \/ \E s \in Slots : slots[s] \in {"sent", "acked"}

\* The RX lamp means "confirmed KILLED (ack)": once the drone's worker is done
\* with the frame it acknowledged, the KILL handler has run.  A drone that
\* restarts between the acknowledgement and the handler is the exception.
RxMeansKilled ==
    "RX" \in lamp /\ handling = "no" /\ reboots = 0 => everKilled = "yes"

\* "A KILL from the ground panel drops both gates" (main_node.cpp:166), and
\* only a restart of the drone raises them again.
KillDropsBothGates == killed = "yes" => fc = "low" /\ psu = "low"

\* An armed switch that stays held ends with the lamp lit for good: failures
\* are retried after RESEND_GAP_MS, and no earlier outcome stops the retries.
PressIsConfirmed == <>[](pressed = {"kill", "arm"}) => <>[]("RX" \in lamp)

=============================================================================
