------------------------------ MODULE HostLink ------------------------------
(***************************************************************************)
(* The serial link between the Raspberry Pi and the ESP: loracom's         *)
(* transactions (firmware_CMDB/loracom/LoRaCom.cpp) against the frame      *)
(* handlers of the bridge (node/UartRfBridge.cpp), with frames lost or     *)
(* corrupted on the line, and a device that may answer after the host has  *)
(* given up waiting.                                                       *)
(*                                                                         *)
(* One loracom process runs one transaction (main.cpp, under DeviceLock)   *)
(* and flushes the line when it opens it (BasicUart).  A frame whose       *)
(* checksum fails is dropped by the device, so towards the device          *)
(* corruption is loss.                                                     *)
(***************************************************************************)
EXTENDS Integers, Sequences, FiniteSets

CONSTANTS
    Incoming,    \* messages that arrive over RF for the host
    Outgoing,    \* messages the host wants sent, one transaction each
    Calls,       \* the transactions used: a subset of {"get", "send", "conf"}
    MaxRetries,  \* --retries
    RxDepth,     \* MAX_QUEUED_MESSAGES
    MaxFaults,   \* bound: frames lost or corrupted
    MaxLate,     \* bound: answers that come after the host's timeout
    MaxCalls     \* bound: transactions

ASSUME CallsAssumption == Calls \subseteq {"get", "send", "conf"}
ASSUME BoundsAssumption ==
    /\ MaxRetries \in Nat /\ RxDepth \in Nat \ {0}
    /\ MaxFaults \in Nat /\ MaxLate \in Nat /\ MaxCalls \in Nat

VARIABLES
    rxQueue,   \* _rxQueue of the bridge
    peeked,    \* _pendingGetmsg
    queued,    \* how often the device queued each outgoing message
    up, down,  \* frames under way to the device, and received by the host's tty
    call,      \* the transaction of the running loracom process
    coming,    \* messages that have not arrived over RF yet
    arrived,   \* history: those _rxQueue took, in order; the rest were dropped
    popped,    \* history: messages handleAck removed, and what the ACK was meant for
    got,       \* history: messages loracom printed, in order
    result,    \* history: what loracom said of each outgoing message
    faults, lates, calls

device == <<rxQueue, peeked, queued, popped>>
line == <<up, down>>
arrivals == <<coming, arrived>>
told == <<got, result>>
bounds == <<faults, lates, calls>>
vars == <<device, line, call, arrivals, told, bounds>>

NoMsg == "nothing"
Ack == [type |-> "ack", msg |-> NoMsg]
Conf == [type |-> "conf", msg |-> NoMsg]
Get == [type |-> "get", msg |-> NoMsg]
Carrying(t, m) == [type |-> t, msg |-> m]
Configuration == "configuration"
ASSUME NamesAssumption == NoMsg \notin Incoming \cup Outgoing /\ Configuration \notin Incoming
Corrupted == [type |-> "corrupted", msg |-> NoMsg]

Idle == [op |-> "idle", msg |-> NoMsg, attempt |-> 0, again |-> FALSE]

Init ==
    /\ rxQueue = <<>> /\ peeked = NoMsg
    /\ queued = [m \in Outgoing |-> 0] /\ popped = {}
    /\ up = <<>> /\ down = <<>>
    /\ call = Idle
    /\ coming = Incoming /\ arrived = <<>>
    /\ got = <<>> /\ result = [m \in Outgoing |-> "none"]
    /\ faults = 0 /\ lates = 0 /\ calls = 0

-----------------------------------------------------------------------------
(* The host.                                                               *)

Request(op, m) == IF op = "send" THEN Carrying("send", m)
                                 ELSE Carrying(op, NoMsg)

\* A new process: the tty is flushed, the request written.
Start(op, m) ==
    /\ call = Idle /\ calls < MaxCalls
    /\ op \in Calls
    /\ IF op = "send" THEN m \in Outgoing /\ result[m] = "none" ELSE m = NoMsg
    /\ calls' = calls + 1
    /\ call' = [op |-> op, msg |-> m, attempt |-> 0, again |-> FALSE]
    /\ down' = <<>>
    /\ up' = Append(up, Request(op, m))
    /\ UNCHANGED <<device, arrivals, told, faults, lates>>

Ends(how) ==
    /\ call' = Idle
    /\ result' = IF call.op = "send" THEN [result EXCEPT ![call.msg] = how] ELSE result

\* Mutant of NextAttempt: the attempt is not counted.
AttemptUncounted == call.attempt

NextAttempt == call.attempt + 1

\* The loops of sendTransmission and getTransmission: write the request again,
\* or throw EREMOTEIO.
Retry ==
    IF call.attempt < MaxRetries
    THEN /\ call' = [call EXCEPT !.attempt = NextAttempt, !.again = FALSE]
         /\ up' = Append(up, Request(call.op, call.msg))
         /\ result' = result
    ELSE Ends("error") /\ up' = up

\* awaitReply: a corrupted frame is waited out once more, for twice the time.
ReceiveCorrupted ==
    /\ call # Idle /\ down # <<>> /\ Head(down) = Corrupted
    /\ down' = Tail(down)
    /\ IF call.again THEN Retry
                     ELSE call' = [call EXCEPT !.again = TRUE] /\ UNCHANGED <<up, result>>
    /\ UNCHANGED <<device, arrivals, got, bounds>>

\* An ACK ends a send well, and says of anything else that there is nothing.
ReceiveAck ==
    /\ call # Idle /\ down # <<>> /\ Head(down) = Ack
    /\ down' = Tail(down)
    /\ Ends("ok")
    /\ UNCHANGED <<device, up, arrivals, got, bounds>>

\* The device does not see what an ACK is meant for; the history does.
Acknowledged == IF call.op = "get" THEN Head(down).msg ELSE Configuration

\* The awaited content: acknowledged, printed.
ReceiveContent ==
    /\ call # Idle /\ down # <<>>
    /\ Head(down).type = call.op
    /\ down' = Tail(down)
    /\ up' = Append(up, Carrying("ack", Acknowledged))
    /\ call' = Idle
    /\ got' = IF call.op = "get" THEN Append(got, Head(down).msg) ELSE got
    /\ UNCHANGED <<device, arrivals, result, bounds>>

\* Any other type is a reason to write the request again.
ReceiveOther ==
    /\ call # Idle /\ down # <<>>
    /\ Head(down).type \notin {call.op, "ack", "corrupted"}
    /\ down' = Tail(down)
    /\ Retry
    /\ UNCHANGED <<device, arrivals, got, bounds>>

\* Nothing has come within the timeout: nothing will, or the device is late.
Timeout ==
    /\ call # Idle /\ down = <<>>
    /\ IF up = <<>> THEN lates' = lates
                    ELSE lates < MaxLate /\ lates' = lates + 1
    /\ Retry
    /\ UNCHANGED <<device, down, arrivals, got, faults, calls>>

-----------------------------------------------------------------------------
(* The device: one valid frame per call of onFrame.                        *)

Reading(t) == up # <<>> /\ Head(up).type = t
Answer(f) == up' = Tail(up) /\ down' = Append(down, f)

\* Mutant of NowPeeked: the head is looked up again for every request.
PeekedAfresh == IF rxQueue = <<>> THEN NoMsg ELSE rxQueue[Len(rxQueue)]

\* handleGetmsg peeks; an unacknowledged message is the answer again.
NowPeeked == IF peeked = NoMsg /\ rxQueue # <<>> THEN Head(rxQueue) ELSE peeked

HandleGetmsg ==
    /\ Reading("get")
    /\ peeked' = NowPeeked
    /\ Answer(IF NowPeeked = NoMsg THEN Ack ELSE Carrying("get", NowPeeked))
    /\ UNCHANGED <<rxQueue, queued, popped, call, arrivals, told, bounds>>

\* handleSendmsg: queued and acknowledged, or (queue full) neither.
AcceptSendmsg ==
    /\ Reading("send")
    /\ queued' = [queued EXCEPT ![Head(up).msg] = @ + 1]
    /\ Answer(Ack)
    /\ UNCHANGED <<rxQueue, peeked, popped, call, arrivals, told, bounds>>

\* Mutant of Refusal: a refused message is acknowledged too.
RefusalAcked == Answer(Ack)

Refusal == up' = Tail(up) /\ down' = down

RefuseSendmsg ==
    /\ Reading("send")
    /\ Refusal
    /\ UNCHANGED <<device, call, arrivals, told, bounds>>

HandleGetconf ==
    /\ Reading("conf")
    /\ Answer(Conf)
    /\ UNCHANGED <<device, call, arrivals, told, bounds>>

Popping == peeked # NoMsg

\* handleAck: the message that was peeked leaves the queue, if one was.
HandleAck ==
    /\ Reading("ack")
    /\ up' = Tail(up)
    /\ IF Popping
       THEN /\ rxQueue' = Tail(rxQueue)
            /\ popped' = popped \cup {<<Head(rxQueue), Head(up).msg>>}
            /\ peeked' = NoMsg
       ELSE UNCHANGED <<rxQueue, popped, peeked>>
    /\ UNCHANGED <<queued, down, call, arrivals, told, bounds>>

HasRoom == Len(rxQueue) < RxDepth

\* Mutant of Queued: to the front of the queue.
QueuedInFront(m) == <<m>> \o rxQueue

Queued(m) == Append(rxQueue, m)

\* onReceive, on the RF worker task: queued, or dropped when the queue is full.
OnReceive(m) ==
    /\ m \in coming
    /\ coming' = coming \ {m}
    /\ IF HasRoom
       THEN rxQueue' = Queued(m) /\ arrived' = Append(arrived, m)
       ELSE UNCHANGED <<rxQueue, arrived>>
    /\ UNCHANGED <<peeked, queued, popped, line, call, told, bounds>>

-----------------------------------------------------------------------------
(* The line.                                                               *)

Fault == faults < MaxFaults /\ faults' = faults + 1

LoseUp ==
    /\ Fault /\ up # <<>>
    /\ up' = Tail(up)
    /\ UNCHANGED <<device, down, call, arrivals, told, lates, calls>>

LoseDown ==
    /\ Fault /\ down # <<>>
    /\ down' = SubSeq(down, 1, Len(down) - 1)
    /\ UNCHANGED <<device, up, call, arrivals, told, lates, calls>>

CorruptDown ==
    /\ Fault /\ down # <<>>
    /\ down' = [down EXCEPT ![Len(down)] = Corrupted]
    /\ UNCHANGED <<device, up, call, arrivals, told, lates, calls>>

HostReceives == ReceiveCorrupted \/ ReceiveAck \/ ReceiveContent \/ ReceiveOther
DeviceStep == HandleGetmsg \/ AcceptSendmsg \/ RefuseSendmsg \/ HandleGetconf \/ HandleAck

Next ==
    \/ \E op \in Calls, m \in Outgoing \cup {NoMsg} : Start(op, m)
    \/ HostReceives \/ Timeout
    \/ DeviceStep
    \/ \E m \in Incoming : OnReceive(m)
    \/ LoseUp \/ LoseDown \/ CorruptDown

\* The process runs, its timeout ends every wait, the device serves its line.
Spec == Init /\ [][Next]_vars
FairSpec == Spec /\ WF_vars(HostReceives) /\ WF_vars(Timeout) /\ WF_vars(DeviceStep)

-----------------------------------------------------------------------------
(* Properties.                                                             *)

Frames == {Ack, Conf, Get, Corrupted} \cup {Carrying("get", m) : m \in Incoming}
            \cup {Carrying("send", m) : m \in Outgoing}
            \cup {Carrying("ack", m) : m \in Incoming \cup {Configuration}}

\* Types, and the depth of the bridge's receive queue.
TypeOK ==
    /\ rxQueue \in Seq(Incoming) /\ Len(rxQueue) <= RxDepth
    /\ peeked \in Incoming \cup {NoMsg}
    /\ queued \in [Outgoing -> Nat]
    /\ up \in Seq(Frames) /\ down \in Seq(Frames)
    /\ call \in [op : Calls \cup {"idle"}, msg : Outgoing \cup {NoMsg},
                 attempt : 0..MaxRetries, again : BOOLEAN]
    /\ coming \subseteq Incoming /\ arrived \in Seq(Incoming) /\ popped \subseteq Incoming \X (Incoming \cup {Configuration})
    /\ got \in Seq(Incoming)
    /\ result \in [Outgoing -> {"none", "ok", "error"}]
    /\ faults \in 0..MaxFaults /\ lates \in 0..MaxLate /\ calls \in 0..MaxCalls

Printed(m) == \E i \in DOMAIN got : got[i] = m

\* The ACK of a message pops this message and no other, and only once loracom
\* has printed it, whatever is lost, corrupted or asked again.  Answers carry no
\* number, so this is so as long as none came after the host's timeout.  And
\* handleAck "pops the same message we peeked": whatever RF delivers between the
\* peek and the ACK, the peeked message is still the head of the queue.
AckPopsItsOwn ==
    /\ lates = 0 =>
          \A p \in popped : p[2] # Configuration => p[2] = p[1] /\ Printed(p[1])
    /\ peeked # NoMsg => rxQueue # <<>> /\ peeked = Head(rxQueue)

\* UartRfBridge.cpp:455, the stray ACK "for a GETCONF response" does nothing: a
\* message leaves the device only after loracom has printed it.
PopMeansGot == \A p \in popped : Printed(p[1])

\* protocol.adoc, "ACK means the device queued the message": loracom reports
\* success only for a message the device queued, again if no answer was late.
AckMeansQueued ==
    lates = 0 => \A m \in Outgoing : result[m] = "ok" => queued[m] > 0

\* protocol.adoc, "No ACK means it was not queued ... and nothing will be sent":
\* loracom reports failure only for a message the device did not queue.
NoAckMeansNotQueued == \A m \in Outgoing : result[m] = "error" => queued[m] = 0

Rank(m) == CHOOSE n \in DOMAIN arrived : arrived[n] = m

\* loracom prints the messages in the order the bridge queued them; one that is
\* printed again (its ACK was lost) comes right after itself.
ReadInOrder ==
    \A i, j \in DOMAIN got : i < j => Rank(got[i]) <= Rank(got[j])

\* Every transaction ends: retries are bounded, whatever the line does.
CallEnds == call.op # "idle" ~> call.op = "idle"
=============================================================================
