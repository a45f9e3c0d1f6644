------------------------------ MODULE BridgeTx ------------------------------
(***************************************************************************)
(* The transmit side of the UART bridge (node/UartRfBridge.cpp): SENDMSG   *)
(* intake, the bounded queue of accepted messages, the one message RFNet   *)
(* owns, and the verdict flags the RF worker task publishes for pumpTx().  *)
(* Two tasks interleave: the one that calls poll(), and the RF worker that *)
(* runs onSendOk and onSendFail.                                           *)
(*                                                                         *)
(* RFNode is external here: it accepts or refuses a send and reports an    *)
(* accepted one exactly once (module EngineTx, ReportOnce).                *)
(***************************************************************************)
EXTENDS Integers, Sequences, FiniteSets

CONSTANTS
    Msgs,          \* SENDMSG requests of the host, each accepted at most once
    Bytes,         \* payload length of each
    Unreachable,   \* those whose peer never acknowledges
    MaxQueued,     \* MAX_QUEUED_TX
    MaxBytes,      \* MAX_QUEUED_TX_BYTES
    FastAttempts   \* TX_FAST_ATTEMPTS; bound: attempts are counted up to here

ASSUME BytesAssumption == Bytes \in [Msgs -> Nat] /\ Unreachable \subseteq Msgs
ASSUME BoundsAssumption ==
    /\ MaxQueued \in Nat \ {0} /\ MaxBytes \in Nat
    /\ FastAttempts \in Nat \ {0}

None == "none"      \* no message
ASSUME NoneAssumption == None \notin Msgs

VARIABLES
    pc,         \* the poll task: between two polls, or inside pumpTx/submitTx
    txQueue,    \* _txQueue
    queuedBytes,\* _queuedTxBytes
    hand,       \* the message submitTx works on
    inFlight,   \* _inFlightTx
    attempts,   \* PendingTx::attempts
    waiting,    \* the messages whose notBeforeMs lies ahead
    txDone, txOk, txRetryable,  \* the verdict flags
    rf,         \* what RFNode and its callback are doing with the message
    verdict,    \* history: how RFNode last settled each message
    status      \* history: per message, what has become of it

pollVars == <<pc, txQueue, queuedBytes, hand, inFlight, attempts>>
flags == <<txDone, txOk, txRetryable>>
rfVars == <<rf, verdict>>
vars == <<pollVars, waiting, flags, rfVars, status>>

Verdicts == {"ok", "transient", "permanent"}

Init ==
    /\ pc = "idle" /\ txQueue = <<>> /\ queuedBytes = 0
    /\ hand = None /\ inFlight = None
    /\ attempts = [m \in Msgs |-> 0] /\ waiting = {}
    /\ txDone = FALSE /\ txOk = TRUE /\ txRetryable = FALSE
    /\ rf = [at |-> "idle", msg |-> None]
    /\ verdict = [m \in Msgs |-> "ok"]
    /\ status = [m \in Msgs |-> "host"]

-----------------------------------------------------------------------------
(* Intake.                                                                 *)

\* Mutant of Room: the slot a retry relies on is given to the host.
RoomToTheBrim(m) == Len(txQueue) <= MaxQueued /\ queuedBytes + Bytes[m] <= MaxBytes

\* The two bounds of handleSendmsg; the queue itself is one slot deeper.
Room(m) == Len(txQueue) < MaxQueued /\ queuedBytes + Bytes[m] <= MaxBytes

\* handleSendmsg: queued and acknowledged, or neither.
HandleSendmsg(m) ==
    /\ pc = "idle"
    /\ status[m] \in {"host", "refused"}
    /\ IF Bytes[m] > 0 /\ Room(m)
       THEN /\ txQueue' = Append(txQueue, m)
            /\ queuedBytes' = queuedBytes + Bytes[m]
            /\ status' = [status EXCEPT ![m] = "queued"]
       ELSE /\ UNCHANGED <<txQueue, queuedBytes>>
            /\ status' = [status EXCEPT ![m] = "refused"]
    /\ UNCHANGED <<pc, hand, inFlight, attempts, waiting, flags, rfVars>>

-----------------------------------------------------------------------------
(* pumpTx.                                                                 *)

\* Mutant of Rotated: back to the front.
RotatedToFront(m) == txQueue' = <<m>> \o txQueue /\ queuedBytes' = queuedBytes + Bytes[m]

Rotated(m) == txQueue' = Append(txQueue, m) /\ queuedBytes' = queuedBytes + Bytes[m]

\* requeueTx: to the tail, spaced by retryBackoffMs; without room it is lost.
Requeue(m) ==
    IF Len(txQueue) < MaxQueued + 1
    THEN /\ Rotated(m)
         /\ waiting' = IF attempts[m] < FastAttempts THEN waiting ELSE waiting \cup {m}
         /\ UNCHANGED status
    ELSE /\ status' = [status EXCEPT ![m] = "lost"]
         /\ UNCHANGED <<txQueue, queuedBytes, waiting>>

\* Mutant of Completed: the flag is not looked at.
CompletedAnyway == inFlight # None

Completed == inFlight # None /\ txDone

\* pumpTx, the send in flight has completed: free, drop or rotate.
SettleOk ==
    /\ pc = "idle" /\ Completed /\ txOk
    /\ pc' = "offer" /\ inFlight' = None
    /\ status' = [status EXCEPT ![inFlight] = "sent"]
    /\ UNCHANGED <<txQueue, queuedBytes, hand, attempts, waiting, flags, rfVars>>

SettleDrop ==
    /\ pc = "idle" /\ Completed /\ ~txOk /\ ~txRetryable
    /\ pc' = "offer" /\ inFlight' = None
    /\ status' = [status EXCEPT ![inFlight] = "dropped"]
    /\ UNCHANGED <<txQueue, queuedBytes, hand, attempts, waiting, flags, rfVars>>

SettleRotate ==
    /\ pc = "idle" /\ Completed /\ ~txOk /\ txRetryable
    /\ pc' = "offer" /\ inFlight' = None
    /\ Requeue(inFlight)
    /\ UNCHANGED <<hand, attempts, flags, rfVars>>

\* pumpTx with nothing in flight goes straight to the queue.
Pump ==
    /\ pc = "idle" /\ inFlight = None /\ txQueue # <<>>
    /\ pc' = "offer"
    /\ UNCHANGED <<txQueue, queuedBytes, hand, inFlight, attempts, waiting, flags,
                   rfVars, status>>

\* The head of the queue is missing or not due: pumpTx returns.
OfferNothing ==
    /\ pc = "offer"
    /\ txQueue # <<>> => Head(txQueue) \in waiting
    /\ pc' = "idle"
    /\ UNCHANGED <<txQueue, queuedBytes, hand, inFlight, attempts, waiting, flags,
                   rfVars, status>>

\* Mutant of ArmBefore: the flags are reset once RFNode has the message.
ArmAfter(sent) == IF sent THEN txOk' = TRUE /\ txDone' = FALSE
                          ELSE UNCHANGED <<txOk, txDone>>

\* submitTx arms the flags before it calls sendAck, so no verdict is missed.
ArmBefore(sent) == IF sent THEN UNCHANGED <<txOk, txDone>>
                           ELSE txOk' = TRUE /\ txDone' = FALSE

\* The head is taken off the queue; submitTx counts the attempt.
Offer ==
    /\ pc = "offer" /\ txQueue # <<>> /\ Head(txQueue) \notin waiting
    /\ pc' = "submit"
    /\ hand' = Head(txQueue)
    /\ txQueue' = Tail(txQueue)
    /\ queuedBytes' = queuedBytes - Bytes[Head(txQueue)]
    /\ attempts' = [attempts EXCEPT ![Head(txQueue)] =
                        IF @ < FastAttempts THEN @ + 1 ELSE @]
    /\ ArmBefore(FALSE)
    /\ UNCHANGED <<inFlight, waiting, txRetryable, rfVars, status>>

\* sendAck returned OK: from here on the callback may run.
Accept ==
    /\ pc = "submit"
    /\ pc' = "accepted"
    /\ rf' = [at |-> "sending", msg |-> hand]
    /\ UNCHANGED <<txQueue, queuedBytes, hand, inFlight, attempts, waiting, flags,
                   verdict, status>>

\* submitTx records the message RFNode owns; pumpTx's loop ends.
Own ==
    /\ pc = "accepted"
    /\ pc' = "idle" /\ inFlight' = hand /\ hand' = None
    /\ ArmBefore(TRUE)
    /\ UNCHANGED <<txQueue, queuedBytes, attempts, waiting, txRetryable, rfVars, status>>

\* sendAck refused and always will: the next message is offered.
RefusePermanently ==
    /\ pc = "submit"
    /\ pc' = "offer" /\ hand' = None
    /\ txDone' = TRUE
    /\ status' = [status EXCEPT ![hand] = "dropped"]
    /\ UNCHANGED <<txQueue, queuedBytes, inFlight, attempts, waiting, txOk,
                   txRetryable, rfVars>>

\* sendAck refused for now: the message rotates and pumpTx gives up.
RefuseForNow ==
    /\ pc = "submit"
    /\ pc' = "idle" /\ hand' = None
    /\ txDone' = TRUE
    /\ Requeue(hand)
    /\ UNCHANGED <<inFlight, attempts, txOk, txRetryable, rfVars>>

-----------------------------------------------------------------------------
(* The RF worker task's callbacks, one store at a time, and the clock.     *)

OnSendOk(m) ==
    /\ rf = [at |-> "sending", msg |-> m]
    /\ m \notin Unreachable
    /\ txDone' = TRUE
    /\ rf' = [at |-> "idle", msg |-> None]
    /\ verdict' = [verdict EXCEPT ![m] = "ok"]
    /\ UNCHANGED <<pollVars, waiting, txOk, txRetryable, status>>

\* onSendFail: the two verdict stores come before the release of txDone.
OnSendFail ==
    /\ rf.at = "sending"
    /\ \E reason \in {"transient", "permanent"} :
        /\ txRetryable' = (reason = "transient")
        /\ verdict' = [verdict EXCEPT ![rf.msg] = reason]
    /\ rf' = [rf EXCEPT !.at = "failing"]
    /\ UNCHANGED <<pollVars, waiting, txDone, txOk, status>>

StoreNotOk ==
    /\ rf.at = "failing"
    /\ txOk' = FALSE
    /\ rf' = [rf EXCEPT !.at = "failed"]
    /\ UNCHANGED <<pollVars, waiting, txDone, txRetryable, verdict, status>>

ReleaseDone ==
    /\ rf.at = "failed"
    /\ txDone' = TRUE
    /\ rf' = [at |-> "idle", msg |-> None]
    /\ UNCHANGED <<pollVars, waiting, txOk, txRetryable, verdict, status>>

\* A message's backoff is over.
ComesDue(m) ==
    /\ m \in waiting
    /\ waiting' = waiting \ {m}
    /\ UNCHANGED <<pollVars, flags, rfVars, status>>

Settle == SettleOk \/ SettleDrop \/ SettleRotate
Refuse == RefusePermanently \/ RefuseForNow
PumpStep == Settle \/ Pump \/ OfferNothing \/ Offer \/ Own
Callback == (\E m \in Msgs : OnSendOk(m)) \/ OnSendFail \/ StoreNotOk \/ ReleaseDone

Next ==
    \/ \E m \in Msgs : HandleSendmsg(m) \/ ComesDue(m)
    \/ PumpStep \/ Accept \/ Refuse \/ Callback

\* Both tasks are scheduled and time passes.  RFNode's refusals are transient
\* ("all clear on their own"): a message to a reachable peer is accepted if it
\* is offered, and gets through if it is sent, again and again.  Nothing is
\* assumed of the others.
Fairness ==
    /\ WF_vars(PumpStep) /\ WF_vars(Accept \/ Refuse) /\ WF_vars(Callback)
    /\ \A m \in Msgs : WF_vars(ComesDue(m))
    /\ \A m \in Msgs \ Unreachable : SF_vars(Accept /\ hand = m) /\ SF_vars(OnSendOk(m))

Spec == Init /\ [][Next]_vars
FairSpec == Spec /\ Fairness

-----------------------------------------------------------------------------
(* Properties.                                                             *)

\* Types, and the depths of the two bounded structures.
TypeOK ==
    /\ pc \in {"idle", "offer", "submit", "accepted"}
    /\ txQueue \in Seq(Msgs) /\ Len(txQueue) <= MaxQueued + 1
    /\ queuedBytes \in Nat
    /\ hand \in Msgs \cup {None} /\ inFlight \in Msgs \cup {None}
    /\ attempts \in [Msgs -> 0..FastAttempts]
    /\ waiting \subseteq Msgs
    /\ txDone \in BOOLEAN /\ txOk \in BOOLEAN /\ txRetryable \in BOOLEAN
    /\ rf \in [at : {"idle", "sending", "failing", "failed"}, msg : Msgs \cup {None}]
    /\ verdict \in [Msgs -> Verdicts]
    /\ status \in [Msgs -> {"host", "refused", "queued", "sent", "dropped", "lost"}]

Places(m) == Cardinality({i \in DOMAIN txQueue : txQueue[i] = m})
               + Cardinality({p \in {1} : hand = m}) + Cardinality({p \in {1} : inFlight = m})

\* total is the length of the payloads in q: so many bytes up to each place.
AddsUp(q, total) ==
    /\ q = <<>> => total = 0
    /\ \E upTo \in [DOMAIN q -> 0..total] :
          /\ \A i \in DOMAIN q : upTo[i] = Bytes[q[i]] + (IF i = 1 THEN 0 ELSE upTo[i - 1])
          /\ q # <<>> => upTo[Len(q)] = total

\* A message the host was told is queued is in exactly one place until it is
\* sent or found undeliverable; in particular the retry reservation always has
\* room for it (UartRfBridge.h, MAX_QUEUED_TX; requeueTx "Unreachable"), and
\* _queuedTxBytes is what the queue holds: the bound neither leaks nor wraps.
NothingLost ==
    /\ \A m \in Msgs : /\ Places(m) = IF status[m] = "queued" THEN 1 ELSE 0
                       /\ status[m] # "lost"
    /\ AddsUp(txQueue, queuedBytes)

\* pumpTx acts on the verdict of this very send: once txDone is seen, txOk and
\* txRetryable are the ones its callback stored, never an earlier message's.
VerdictIsOurs ==
    pc = "idle" /\ inFlight # None /\ txDone =>
        /\ txOk <=> verdict[inFlight] = "ok"
        /\ ~txOk => (txRetryable <=> verdict[inFlight] = "transient")
        /\ rf.msg # inFlight

\* While RFNode owns a payload the bridge keeps it: the fragmenter reads it
\* until the send completes (the comment on PendingTx).
PayloadKept == rf.msg # None => (rf.msg = inFlight \/ rf.msg = hand)

\* An unreachable peer wedges nobody: whatever else the queue holds, an accepted
\* message to a reachable peer is sent in the end, or refused for good.
NoWedge ==
    \A m \in Msgs \ Unreachable :
        status[m] = "queued" ~> status[m] \in {"sent", "dropped"}
=============================================================================
