---------------------------- MODULE FragTransfer ----------------------------
(***************************************************************************)
(* A large message of RFNet end to end: the stop-and-wait sessions of      *)
(* several senders (core/fragment/LargeTxSession.cpp, the fragment paths   *)
(* of engine/Engine.cpp), a medium that loses, delays and reorders frames, *)
(* and the receiver (core/fragment/Reassembler.cpp and the fragment branch *)
(* of Engine::_handleRaw), which may restart.                              *)
(*                                                                         *)
(* A transmission takes a fresh sequence number.  It is only compared for  *)
(* equality, so <<message, index, try>> stands for it.  A second copy of   *)
(* one transmission is dropped as a replay before it gets here (module     *)
(* MeshFlood), so each arrives at most once - or never: no step has to     *)
(* deliver a frame, which is how one is lost.  The message itself stands   *)
(* for the content of its fragments.                                       *)
(*                                                                         *)
(* Time: a sender that may transmit settles a fragment within half a       *)
(* reassembly timeout (Engine::_reasmTimeoutMs), so the receiver's clocks  *)
(* run out only for messages whose session is over or waits for the duty   *)
(* cycle, whose waits that bound does not count.                           *)
(***************************************************************************)
EXTENDS Integers, Sequences, FiniteSets, SequencesExt

CONSTANTS
    Sources,     \* the sending nodes
    AckSources,  \* those that ask for acknowledgements
    Sends,       \* per source: how many large messages it sends
    Totals,      \* the fragment counts a message may have: more than one
                 \* (RFNode::_sendImpl fragments what one frame cannot carry)
    IdSpace,     \* message ids before they repeat, 256
    Slots,       \* RF_REASM_SLOTS
    RetryMax,    \* cfg.fragRetryMax
    LongWaits,   \* may a duty-cycle wait outlast the reassembly timeout
    MaxWaits,    \* bound: duty-cycle waits
    MaxRestarts  \* bound: restarts of the receiver

ASSUME CountAssumption ==
    /\ AckSources \subseteq Sources
    /\ Sends \in [Sources -> Nat] /\ RetryMax \in Nat
    /\ IdSpace \in Nat \ {0} /\ Slots \in Nat \ {0}
    /\ Totals \subseteq Nat \ {0, 1}
    /\ MaxWaits \in Nat /\ MaxRestarts \in Nat
ASSUME WaitAssumption == LongWaits \in BOOLEAN

Messages == UNION {{s} \X (1..Sends[s]) : s \in Sources}
None == <<>>

VARIABLES
    session,   \* per source: _largeTx[0]
    number,    \* per source: messages offered so far
    air,       \* data frames under way
    slots,     \* the used reassembly slots, least recently active first
    aborted,   \* the ring of aborted messages, newest last
    outcome,   \* history: what the sender was told
    handed,    \* history: how often the receive callback got a message
    payloads,  \* history: what it got
    forgot,    \* history: messages of which the receiver lost a record
    waits, restarts

senderVars == <<session, number, outcome>>
receiverVars == <<slots, aborted, handed, payloads, forgot>>
bounds == <<waits, restarts>>
vars == <<senderVars, receiverVars, air, bounds>>

Idle == [at |-> "idle", msg |-> None, total |-> 0, next |-> 0, retries |-> 0,
         try |-> 0, ack |-> FALSE, coming |-> FALSE]

Init ==
    /\ session = [s \in Sources |-> Idle]
    /\ number = [s \in Sources |-> 0]
    /\ air = {}
    /\ slots = <<>> /\ aborted = <<>>
    /\ outcome = [m \in Messages |-> "new"]
    /\ handed = [m \in Messages |-> 0]
    /\ payloads = {} /\ forgot = {}
    /\ waits = 0 /\ restarts = 0

-----------------------------------------------------------------------------
(* The senders.                                                            *)

\* _nextOutgoingMsgId++.
MsgId(m) == m[2] % IdSpace

\* startLargeSend.
Offer(s, total) ==
    /\ session[s].at = "idle" /\ number[s] < Sends[s]
    /\ number' = [number EXCEPT ![s] = @ + 1]
    /\ session' = [session EXCEPT ![s] =
           [Idle EXCEPT !.at = "ready", !.msg = <<s, number[s] + 1>>,
                        !.total = total, !.ack = s \in AckSources]]
    /\ outcome' = [outcome EXCEPT ![<<s, number[s] + 1>>] = "open"]
    /\ UNCHANGED <<receiverVars, air, bounds>>

\* _completeLargeSend.
Complete(s, how) ==
    /\ session' = [session EXCEPT ![s] = Idle]
    /\ outcome' = [outcome EXCEPT ![session[s].msg] = how]
    /\ number' = number

\* onFragmentResult(true): the next fragment, or done.
Advance(s) ==
    IF session[s].next + 1 >= session[s].total
    THEN Complete(s, IF session[s].ack THEN "ok" ELSE "sent")
    ELSE /\ session' = [session EXCEPT ![s].at = "ready", ![s].next = @ + 1,
                                       ![s].retries = 0, ![s].try = 0, ![s].coming = FALSE]
         /\ UNCHANGED <<number, outcome>>

\* onFragmentResult(false): the same fragment again, or give up.
Retry(s) ==
    IF session[s].retries < RetryMax
    THEN /\ session' = [session EXCEPT ![s].at = "ready", ![s].retries = @ + 1,
                                       ![s].coming = FALSE]
         /\ UNCHANGED <<number, outcome>>
    ELSE Complete(s, "failed")

\* _sendMsg puts the fragment on the air; without ACK_REQ that is its success.
Send(s) ==
    /\ session[s].at = "ready"
    /\ air' = air \cup {[msg |-> session[s].msg, idx |-> session[s].next,
                         total |-> session[s].total, try |-> session[s].try + 1,
                         ack |-> session[s].ack]}
    /\ IF session[s].ack
       THEN /\ session' = [session EXCEPT ![s].at = "waiting", ![s].try = @ + 1]
            /\ UNCHANGED <<number, outcome>>
       ELSE Advance(s)
    /\ UNCHANGED <<receiverVars, bounds>>

\* The channel is busy or the radio fails.
SendFails(s) ==
    /\ session[s].at = "ready"
    /\ Retry(s)
    /\ UNCHANGED <<receiverVars, air, bounds>>

\* The duty cycle forbids it: the fragment is rescheduled, no retry counted.
PutOff(s) ==
    /\ session[s].at = "ready" /\ waits < MaxWaits
    /\ session' = [session EXCEPT ![s].at = "duty"]
    /\ waits' = waits + 1
    /\ UNCHANGED <<number, outcome, receiverVars, air, restarts>>

Resume(s) ==
    /\ session[s].at = "duty"
    /\ session' = [session EXCEPT ![s].at = "ready"]
    /\ UNCHANGED <<number, outcome, receiverVars, air, bounds>>

\* _checkTimeouts: the ACK has not come, or not yet.
AckTimeout(s) ==
    /\ session[s].at = "waiting"
    /\ Retry(s)
    /\ UNCHANGED <<receiverVars, air, bounds>>

\* _handleRaw, the ACK a pending entry waits for.
GetAck(s) ==
    /\ session[s].at = "waiting" /\ session[s].coming
    /\ Advance(s)
    /\ UNCHANGED <<receiverVars, air, bounds>>

\* A frame acknowledged now: its ACK is under way, unless nobody waits for the
\* sequence number any more, when _handleRaw will ignore it.
AckUnderWay(f) ==
    LET s == f.msg[1]
    IN  IF /\ session[s].at = "waiting" /\ session[s].msg = f.msg
           /\ session[s].next = f.idx /\ session[s].try = f.try
        THEN [session EXCEPT ![s].coming = TRUE] ELSE session

-----------------------------------------------------------------------------
(* The receiver.                                                           *)

\* A slot: who sends, which id, and the content of the indices that arrived.
Key(m) == <<m[1], MsgId(m)>>

\* Mutant of SlotOf: the source is not compared.
SlotOfId(key) == {i \in DOMAIN slots : slots[i].key[2] = key[2]}

SlotOf(key) == {i \in DOMAIN slots : slots[i].key = key}
RingDepth == 2 * Slots

IsAborted(key) == \E i \in DOMAIN aborted : aborted[i].key = key /\ aborted[i].live

\* Mutant of MarkAborted: a lost slot leaves no record.
MarkNothing(slot) == UNCHANGED <<aborted, forgot>>

\* markAborted: overwrites the oldest entry of the ring.
MarkAborted(slot) ==
    LET entry == [key |-> slot.key, msgs |-> slot.parts, live |-> TRUE]
        full == Len(aborted) = RingDepth
    IN  /\ aborted' = Append(IF full THEN Tail(aborted) ELSE aborted, entry)
        /\ forgot' = IF full /\ Head(aborted).live
                     THEN forgot \cup Range(Head(aborted).msgs) ELSE forgot

Fresh(f) == [key |-> Key(f.msg), total |-> f.total, parts |-> <<>>]

\* The slot the fragment goes to, once found: another total, or other content
\* under the same index, means another message under the same id.
Base(old, f) ==
    IF old.total # f.total THEN Fresh(f)
    ELSE IF f.idx \in DOMAIN old.parts /\ old.parts[f.idx] # f.msg THEN Fresh(f)
    ELSE old

\* Write the fragment into the slot, which becomes the most recently active;
\* hand the message over and free the slot when it is complete.
Store(base, others, f) ==
    LET parts == [i \in DOMAIN base.parts \cup {f.idx} |->
                      IF i = f.idx THEN f.msg ELSE base.parts[i]]
    IN  IF DOMAIN parts = 0..(f.total - 1)
        THEN /\ slots' = others
             /\ handed' = [handed EXCEPT ![f.msg] = @ + 1]
             /\ payloads' = payloads \cup {parts}
        ELSE /\ slots' = Append(others, [base EXCEPT !.parts = parts])
             /\ UNCHANGED <<handed, payloads>>

\* Reassembler::ingest for a fragment that is accepted.
Ingest(f) ==
    LET mine == SlotOf(Key(f.msg))
    IN  IF mine # {}
        THEN LET i == CHOOSE j \in mine : TRUE
                 base == Base(slots[i], f)
             IN  IF f.idx \in DOMAIN base.parts
                 THEN UNCHANGED <<slots, handed, payloads, aborted, forgot>>
                 ELSE /\ Store(base, RemoveAt(slots, i), f)
                      /\ UNCHANGED <<aborted, forgot>>
        ELSE IF Len(slots) < Slots
        THEN Store(Fresh(f), slots, f) /\ UNCHANGED <<aborted, forgot>>
        ELSE Store(Fresh(f), Tail(slots), f) /\ MarkAborted(Head(slots))

\* Mutant of Acked: also what was refused.
AckedAnyway(f) == f.ack

\* Only an accepted fragment is acknowledged.
Acked(f) == f.ack /\ ~IsAborted(Key(f.msg))

\* _handleRaw, a fragment: refused if its message was aborted, else stored,
\* acknowledged - at once or by _processOutgoingAcks - and handed over.
Receive(f) ==
    /\ f \in air
    /\ air' = air \ {f}
    /\ IF IsAborted(Key(f.msg))
       THEN UNCHANGED <<slots, handed, payloads, aborted, forgot>>
       ELSE Ingest(f)
    /\ session' = IF Acked(f) THEN AckUnderWay(f) ELSE session
    /\ UNCHANGED <<number, outcome, bounds>>

\* May the receiver's clock for this message run out.
Stalled(key) ==
    LET owner == session[key[1]]
        active == owner.at # "idle" /\ Key(owner.msg) = key
    IN  active => LongWaits /\ owner.at = "duty"

\* Reassembler::tick, a slot without activity for too long.
SlotTimeout(i) ==
    /\ i \in DOMAIN slots /\ Stalled(slots[i].key)
    /\ slots' = RemoveAt(slots, i)
    /\ MarkAborted(slots[i])
    /\ UNCHANGED <<senderVars, air, handed, payloads, bounds>>

\* isAborted finds the entry too old.
RecordExpires(i) ==
    /\ i \in DOMAIN aborted /\ aborted[i].live /\ Stalled(aborted[i].key)
    /\ aborted' = [aborted EXCEPT ![i].live = FALSE]
    /\ forgot' = forgot \cup Range(aborted[i].msgs)
    /\ UNCHANGED <<senderVars, slots, air, handed, payloads, bounds>>

\* The receiver restarts: begin() finds all of this empty.
Restart ==
    /\ restarts < MaxRestarts
    /\ restarts' = restarts + 1
    /\ slots' = <<>> /\ aborted' = <<>>
    /\ forgot' = forgot \cup (UNION {Range(slots[i].parts) : i \in DOMAIN slots})
                        \cup (UNION {Range(aborted[i].msgs) : i \in DOMAIN aborted})
    /\ UNCHANGED <<senderVars, air, handed, payloads, waits>>

-----------------------------------------------------------------------------
Next ==
    \/ \E s \in Sources :
          \/ \E total \in Totals : Offer(s, total)
          \/ Send(s) \/ SendFails(s) \/ PutOff(s) \/ Resume(s)
          \/ AckTimeout(s) \/ GetAck(s)
    \/ \E f \in air : Receive(f)
    \/ \E i \in 1..Slots : SlotTimeout(i)
    \/ \E i \in 1..RingDepth : RecordExpires(i)
    \/ Restart

\* No fairness: that a sender comes to an end is EngineTx's Settles.
Spec == Init /\ [][Next]_vars

-----------------------------------------------------------------------------
(* Properties.                                                             *)

Sessions == [at : {"idle", "ready", "waiting", "duty"}, msg : Messages \cup {None},
             total : Totals \cup {0}, next : Nat, retries : 0..RetryMax,
             try : 0..(RetryMax + 1), ack : BOOLEAN, coming : BOOLEAN]

\* Every variable holds a value of its kind; retries and tries stay in their
\* budget, and a used slot is never already full.
TypeOK ==
    /\ session \in [Sources -> Sessions]
    /\ \A s \in Sources : number[s] \in 0..Sends[s]
    /\ Len(slots) <= Slots /\ Len(aborted) <= RingDepth
    /\ \A i \in DOMAIN slots :
          DOMAIN slots[i].parts \in (SUBSET (0..(slots[i].total - 1)))
                                       \ {{}, 0..(slots[i].total - 1)}
    /\ forgot \subseteq Messages
    /\ waits \in 0..MaxWaits /\ restarts \in 0..MaxRestarts

\* A message handed to the receive callback is one that was sent, whole: no
\* fragment of another message, of this sender or the next, is spliced in,
\* in whatever order fragments and retransmissions arrive and whatever slots
\* are evicted, as long as ids do not repeat (Reassembler.h:9-18).
NoSplice == \A p \in payloads : Cardinality(Range(p)) = 1

\* While an acknowledged session is under way, the receiver has every fragment
\* the session has passed: it is in the slot of the message, or the message is
\* handed over, or recorded as aborted so that the rest will be refused - or
\* the receiver has lost that record (Engine.cpp:1113: "an Aborted/Dropped
\* fragment must not be ACKed, or the sender sees false success").
AckedIsKept ==
    \A s \in Sources :
        session[s].ack /\ session[s].next > 0 =>
            LET m == session[s].msg
            IN  \/ handed[m] > 0
                \/ m \in forgot
                \/ IsAborted(Key(m))
                \/ \E i \in SlotOf(Key(m)) :
                      \A k \in 0..(session[s].next - 1) :
                          k \in DOMAIN slots[i].parts /\ slots[i].parts[k] = m

Promise == INSTANCE LargeDelivery WITH MaxHanded <- RetryMax + 1

\* The transfer implements what RFNet promises of a large message: one verdict
\* for each, a success only for what was handed over (or what the receiver has
\* forgotten about), and at most one hand-over per retransmission.
Implements == Promise!Spec

\* A success means that the receiver's application got the message:
\* Engine.cpp:1113 takes care that "the sender" never "sees false success for
\* an undeliverable message".
NoFalseSuccess == \A m \in Messages : outcome[m] = "ok" => handed[m] > 0

=============================================================================
