------------------------------ MODULE EngineTx ------------------------------
(***************************************************************************)
(* The transmit side of one RFNet engine (engine/Engine.cpp): the          *)
(* application thread that submits messages, the worker task that          *)
(* transmits them, and the radio interrupt.  They share the message pool,  *)
(* the event queue and the `used` flag of the large-send session; the      *)
(* pending, deferred and delayed tables belong to the worker alone.        *)
(*                                                                         *)
(* One action is one stretch of code between two accesses to shared        *)
(* state.  The worker's call stack inside one loop iteration is `todo`:    *)
(* the calls it still has to make, the next one first.                     *)
(*                                                                         *)
(* A sequence number is only ever compared for equality and is never       *)
(* repeated (module SeqCounter), so a received ACK is represented by the   *)
(* pool slot whose pending entry carries its number, or by Stale.          *)
(***************************************************************************)
EXTENDS Integers, Sequences, FiniteSets

CONSTANTS
    Msgs,          \* single-frame messages, each submitted at most once
    WantAck,       \* those sent with requireAck
    Larges,        \* messages above RF_MAX_PAYLOAD, each submitted at most once
    Total,         \* fragments per large message
    PoolSize,      \* RF_POOL_SIZE
    QueueDepth,    \* RF_EVENT_QUEUE_DEPTH
    FragRetryMax,  \* cfg.fragRetryMax
    MaxIrq,        \* bound: radio interrupts
    MaxDuty        \* bound: fragments put off by the duty cycle

ASSUME SizeAssumption ==
    /\ PoolSize \in Nat /\ PoolSize > 1      \* static_assert, one session
    /\ QueueDepth \in Nat \ {0}              \* static_assert
    /\ Total \in Nat \ {0, 1}
    /\ FragRetryMax \in Nat /\ MaxIrq \in Nat /\ MaxDuty \in Nat

Slots == 1..PoolSize
Frags == Larges \X (0..(Total - 1))
Items == Msgs \cup Larges
NoMsg == <<>>        \* no message
NoSlot == 0          \* an empty table entry, nothing in hand
Irq == 0             \* an HW_IRQ event; a TX_REQ event is its slot
Stale == -1          \* a received frame that acknowledges nothing pending

\* The application's messages are told apart from each other and from fragments.
ASSUME MsgAssumption == /\ WantAck \subseteq Msgs
                        /\ Msgs \cap Larges = {} /\ Msgs \cap Frags = {}

VARIABLES
    pool,      \* _pool: the message in each slot; a free one keeps its last
    used,      \* the slots whose `used` flag is set
    queue,     \* _eventQueue
    session,   \* _largeTx[0]
    app,       \* the application thread inside send() or startLargeSend()
    phase,     \* where the worker is in one iteration of _workerLoop
    todo,      \* the calls the worker has still to make
    scan,      \* the index _checkTimeouts looks at
    pending,   \* _pending, by table index
    clock,     \* per pending entry: is its ACK timeout over
    deferred,  \* _deferred
    parked,    \* _delayedTx entries whose wake time lies ahead
    ripe,      \* _delayedTx entries whose wake time has come
    jittered,  \* slots whose message has _jitterApplied set
    radio,     \* the received frame the radio holds, or NoSlot
    outcome,   \* history: per message, what the application was told
    reports,   \* history: per message, how often a callback reported it
    delivered, \* history: fragments sent (and acknowledged, where asked for)
    early,     \* history: messages failed with ACK_TIMEOUT before it was over
    irqs,      \* how often the radio interrupted
    duties     \* how often the duty cycle put a fragment off

workerVars == <<phase, todo, scan>>
tableVars == <<pending, clock, deferred, parked, ripe, jittered>>
history == <<outcome, reports, delivered, early>>
bounds == <<irqs, duties>>
poolVars == <<pool, used>>
vars == <<poolVars, queue, session, app, workerVars, tableVars, radio, history, bounds>>

Idle == [used |-> FALSE, large |-> NoMsg, next |-> 0, retries |-> 0,
         ack |-> FALSE, waiting |-> FALSE]
Resting == [at |-> "idle", slot |-> NoSlot, item |-> NoMsg]

IsFragment(s) == pool[s] \in Frags
FreeSlots(limit) == (1..limit) \ used
NeedsAck(s) == IF IsFragment(s) THEN session.ack ELSE pool[s] \in WantAck

Init ==
    /\ pool = [s \in Slots |-> NoMsg] /\ used = {}
    /\ queue = <<>>
    /\ session = Idle
    /\ app = Resting
    /\ phase = "wait" /\ todo = <<>> /\ scan = 1
    /\ pending = [i \in Slots |-> NoSlot]
    /\ clock = [i \in Slots |-> "off"]
    /\ deferred = <<>> /\ parked = {} /\ ripe = {} /\ jittered = {}
    /\ radio = NoSlot
    /\ outcome = [x \in Items |-> "new"]
    /\ reports = [x \in Items |-> 0]
    /\ delivered = {} /\ early = {}
    /\ irqs = 0 /\ duties = 0

-----------------------------------------------------------------------------
(* Telling the application, the pool.                                      *)

Report(x, how) ==
    /\ outcome' = [outcome EXCEPT ![x] = how]
    /\ reports' = [reports EXCEPT ![x] = @ + 1]

NoReport == UNCHANGED <<outcome, reports>>

\* Mutant of AllocLimit: no slot is kept back for fragments.
WholePool(forFragment) == PoolSize

\* _poolAlloc: the last slot is for fragments only (one session).
AllocLimit(forFragment) == IF forFragment THEN PoolSize ELSE PoolSize - 1

LowestFree(forFragment) ==
    CHOOSE s \in FreeSlots(AllocLimit(forFragment)) :
        \A r \in FreeSlots(AllocLimit(forFragment)) : s <= r

CanAlloc(forFragment) == FreeSlots(AllocLimit(forFragment)) # {}

\* _poolAlloc, and what the caller writes into the slot.
Filled(s, x) == pool' = [pool EXCEPT ![s] = x] /\ used' = used \cup {s}

\* _poolFree.
Freed(s) == used' = used \ {s} /\ pool' = pool

-----------------------------------------------------------------------------
(* The application thread.                                                 *)

\* acquire() and the filling of the message: RFNode::_sendImpl, len small.
Acquire(m) ==
    /\ app.at = "idle" /\ outcome[m] = "new"
    /\ CanAlloc(FALSE)
    /\ Filled(LowestFree(FALSE), m)
    /\ app' = [at |-> "holding", slot |-> LowestFree(FALSE), item |-> m]
    /\ UNCHANGED <<queue, session, workerVars, tableVars, radio, history, bounds>>

\* send(msg): queue it, or free the slot and answer QUEUE_FULL.
Submit ==
    /\ app.at = "holding"
    /\ app' = Resting
    /\ jittered' = jittered \ {app.slot}
    /\ IF Len(queue) < QueueDepth
       THEN /\ queue' = Append(queue, app.slot)
            /\ outcome' = [outcome EXCEPT ![app.item] = "accepted"]
            /\ UNCHANGED poolVars
       ELSE /\ queue' = queue
            /\ outcome' = [outcome EXCEPT ![app.item] = "rejected"]
            /\ Freed(app.slot)
    /\ UNCHANGED <<session, workerVars, pending, clock, deferred, parked, ripe, radio,
                   reports, delivered, early, bounds>>

\* startLargeSend up to LargeTxSession::start, whose last store publishes the
\* session to the worker.
OpenSession(l, ack) ==
    /\ app.at = "idle" /\ outcome[l] = "new"
    /\ ~session.used
    /\ session' = [used |-> TRUE, large |-> l, next |-> 0, retries |-> 0,
                   ack |-> ack, waiting |-> FALSE]
    /\ app' = [at |-> "opened", slot |-> NoSlot, item |-> l]
    /\ UNCHANGED <<poolVars, queue, workerVars, tableVars, radio, history, bounds>>

\* _poolAlloc(true) and _fillFragmentMsg; without a slot, POOL_EXHAUSTED.
FillFirst ==
    /\ app.at = "opened"
    /\ IF CanAlloc(TRUE)
       THEN /\ Filled(LowestFree(TRUE), <<app.item, session.next>>)
            /\ app' = [app EXCEPT !.at = "filled", !.slot = LowestFree(TRUE)]
            /\ UNCHANGED <<session, outcome>>
       ELSE /\ session' = Idle
            /\ app' = Resting
            /\ outcome' = [outcome EXCEPT ![app.item] = "rejected"]
            /\ UNCHANGED poolVars
    /\ UNCHANGED <<queue, workerVars, tableVars, radio, reports, delivered, early, bounds>>

\* Queue the first fragment, or release the session: QUEUE_FULL.
SubmitFirst ==
    /\ app.at = "filled"
    /\ app' = Resting
    /\ IF Len(queue) < QueueDepth
       THEN /\ queue' = Append(queue, app.slot)
            /\ outcome' = [outcome EXCEPT ![app.item] = "accepted"]
            /\ UNCHANGED <<poolVars, session>>
       ELSE /\ Freed(app.slot)
            /\ session' = Idle
            /\ outcome' = [outcome EXCEPT ![app.item] = "rejected"]
            /\ queue' = queue
    /\ UNCHANGED <<workerVars, tableVars, radio, reports, delivered, early, bounds>>

AppStep ==
    \/ \E m \in Msgs : Acquire(m)
    \/ Submit
    \/ \E l \in Larges, ack \in BOOLEAN : OpenSession(l, ack)
    \/ FillFirst
    \/ SubmitFirst

-----------------------------------------------------------------------------
(* The worker: calls inside one iteration of _workerLoop.                  *)

Drain == <<"drain", NoSlot>>             \* _drainRadioEvents
Route(s) == <<"route", s>>               \* _routeTxReq
Transmit(s) == <<"send", s>>             \* _sendMsg
Flush == <<"flush", NoSlot>>             \* _flushDeferred
NextFragment(late) == <<"next", IF late THEN 1 ELSE 0>>  \* _sendNextFragment

Calling(call) == todo # <<>> /\ todo[1][1] = call
Arg == todo[1][2]
At(p) == phase = p /\ todo = <<>>

\* A late ACK for the slot s will match nothing.
Forget(s) == radio' = IF radio = s THEN Stale ELSE radio

\* Mutant of Finish: the slot is not freed.
FinishKept(s, how) == UNCHANGED poolVars /\ Report(pool[s], how)

\* _fireSend, _fireSendFail: tell the application, free the slot.
Finish(s, how) == Freed(s) /\ Report(pool[s], how)

\* Mutant of Done: one fragment early.
DoneEarly(ok) == IF ok THEN session.next + 2 >= Total
                       ELSE session.retries >= FragRetryMax

\* LargeTxSession::onFragmentResult says done.
Done(ok) == IF ok THEN session.next + 1 >= Total
                  ELSE session.retries >= FragRetryMax

\* Mutant of Continue: nothing is sent again after a failed fragment.
ContinueIfSent(ok, late) == IF ok THEN <<NextFragment(late)>> ELSE <<>>

\* A session that is not done sends its next fragment, or the same one again.
Continue(ok, late) == <<NextFragment(late)>>

\* _completeLargeSend: release the session, tell the application, then flush.
CompleteLarge(how, rest) ==
    /\ session' = Idle
    /\ Report(session.large, how)
    /\ todo' = <<Flush>> \o rest

\* The result of the fragment in slot s, and what its callers do with it.
FragmentResult(s, ok, late, rest) ==
    /\ Freed(s)
    /\ delivered' = IF ok THEN delivered \cup {pool[s]} ELSE delivered
    /\ IF Done(ok)
       THEN CompleteLarge(IF ok THEN "ok" ELSE "failed", rest)
       ELSE /\ session' = IF ok THEN [session EXCEPT !.next = @ + 1, !.retries = 0]
                                ELSE [session EXCEPT !.retries = @ + 1]
            /\ NoReport
            /\ todo' = Continue(ok, late) \o rest

\* The message in slot s got its ACK, or was sent and wants none.
Delivered(s, rest) ==
    IF IsFragment(s)
    THEN FragmentResult(s, TRUE, FALSE, rest)
    ELSE /\ Finish(s, "ok")
         /\ todo' = rest
         /\ UNCHANGED <<session, delivered>>

\* _routeTxReq: a fragment goes out; anything else waits for the session to
\* end, is put off once by the originated jitter, or goes out.
RouteTxReq ==
    /\ Calling("route")
    /\ \/ /\ IsFragment(Arg) \/ ~session.used
          /\ todo' = <<Transmit(Arg)>> \o Tail(todo)
          /\ UNCHANGED <<deferred, parked, jittered>>
       \/ /\ ~IsFragment(Arg) /\ ~session.used /\ Arg \notin jittered
          /\ jittered' = jittered \cup {Arg}
          /\ parked' = parked \cup {Arg}
          /\ todo' = Tail(todo)
          /\ UNCHANGED deferred
       \/ /\ ~IsFragment(Arg) /\ session.used
          /\ deferred' = Append(deferred, Arg)
          /\ todo' = Tail(todo)
          /\ UNCHANGED <<parked, jittered>>
    /\ UNCHANGED <<poolVars, queue, session, app, phase, scan, pending, clock, ripe,
                   radio, history, bounds>>

\* _sendMsg, a message that cannot be built or sent: every reason is final.
SendFails ==
    /\ Calling("send") /\ ~IsFragment(Arg)
    /\ Finish(Arg, "failed")
    /\ todo' = Tail(todo)
    /\ UNCHANGED <<queue, session, app, phase, scan, tableVars, radio,
                   delivered, early, bounds>>

\* _sendMsg, a fragment that cannot be built ends the session.
FragmentUnbuildable ==
    /\ Calling("send") /\ IsFragment(Arg)
    /\ Freed(Arg)
    /\ CompleteLarge("failed", Tail(todo))
    /\ UNCHANGED <<queue, app, phase, scan, tableVars, radio, delivered, early, bounds>>

\* _sendMsg, the duty cycle forbids the fragment for now: no retry is counted.
FragmentPutOff ==
    /\ Calling("send") /\ IsFragment(Arg) /\ duties < MaxDuty
    /\ duties' = duties + 1
    /\ Freed(Arg)
    /\ todo' = <<NextFragment(TRUE)>> \o Tail(todo)
    /\ UNCHANGED <<queue, session, app, phase, scan, tableVars, radio, history, irqs>>

\* _sendMsg, channel busy (the retry backs off) or a radio error.
FragmentSendFails ==
    /\ Calling("send") /\ IsFragment(Arg)
    /\ \E late \in BOOLEAN : FragmentResult(Arg, FALSE, late, Tail(todo))
    /\ UNCHANGED <<queue, app, phase, scan, tableVars, radio, early, bounds>>

FreeEntry == CHOOSE i \in Slots : /\ pending[i] = NoSlot
                                  /\ \A j \in 1..(i - 1) : pending[j] # NoSlot

\* _sendMsg succeeds: the frame is out.  The radio sends over no unread frame.
\* A stamp taken while _checkTimeouts runs lies after the `now` it compares to.
Sent ==
    /\ Calling("send") /\ radio = NoSlot
    /\ IF NeedsAck(Arg)
       THEN /\ pending' = [pending EXCEPT ![FreeEntry] = Arg]
            /\ clock' = [clock EXCEPT ![FreeEntry] =
                             IF phase = "timeouts" THEN "future" ELSE "waiting"]
            /\ todo' = Tail(todo)
            /\ NoReport
            /\ UNCHANGED <<poolVars, session, delivered>>
       ELSE /\ Delivered(Arg, Tail(todo))
            /\ UNCHANGED <<pending, clock>>
    /\ UNCHANGED <<queue, app, phase, scan, deferred, parked, ripe, jittered,
                   radio, early, bounds>>

\* _sendNextFragment: no pool slot or no room in the queue leaves the session
\* waiting; a delayed fragment is parked instead of queued.
SendNextFragment ==
    /\ Calling("next")
    /\ todo' = Tail(todo)
    /\ LET s == LowestFree(TRUE)
           fill == Filled(s, <<session.large, session.next>>)
       IN  \/ /\ CanAlloc(TRUE) /\ Arg = 1
              /\ fill /\ parked' = parked \cup {s}
              /\ session' = [session EXCEPT !.waiting = FALSE]
              /\ UNCHANGED queue
           \/ /\ CanAlloc(TRUE) /\ Arg = 0 /\ Len(queue) < QueueDepth
              /\ fill /\ queue' = Append(queue, s)
              /\ session' = [session EXCEPT !.waiting = FALSE]
              /\ UNCHANGED parked
           \/ /\ ~CanAlloc(TRUE) \/ (Arg = 0 /\ Len(queue) = QueueDepth)
              /\ session' = [session EXCEPT !.waiting = TRUE]
              /\ UNCHANGED <<poolVars, queue, parked>>
    /\ UNCHANGED <<app, phase, scan, pending, clock, deferred, ripe, jittered,
                   radio, history, bounds>>

\* _flushDeferred: a snapshot of the table, each message routed again.
FlushDeferred ==
    /\ Calling("flush")
    /\ todo' = [i \in DOMAIN deferred |-> Route(deferred[i])] \o Tail(todo)
    /\ deferred' = <<>>
    /\ UNCHANGED <<poolVars, queue, session, app, phase, scan, pending, clock, parked,
                   ripe, jittered, radio, history, bounds>>

\* Mutant of ClearEntry: the entry stays in the table.
LeaveEntry(i) == UNCHANGED <<pending, clock>>

\* A _pending entry is given up, by an ACK or by a timeout.
ClearEntry(i) == /\ pending' = [pending EXCEPT ![i] = NoSlot]
                 /\ clock' = [clock EXCEPT ![i] = "off"]

\* _drainRadioEvents and the ACK branch of _handleRaw, one frame per step.
DrainRadio ==
    /\ Calling("drain")
    /\ radio' = NoSlot
    /\ IF radio \in Slots
       THEN LET i == CHOOSE j \in Slots : pending[j] = radio
            IN  /\ ClearEntry(i)
                /\ Delivered(radio, todo)
       ELSE /\ todo' = IF radio = NoSlot THEN Tail(todo) ELSE todo
            /\ NoReport
            /\ UNCHANGED <<poolVars, session, pending, clock, delivered>>
    /\ UNCHANGED <<queue, app, phase, scan, deferred, parked, ripe, jittered,
                   early, bounds>>

-----------------------------------------------------------------------------
(* The worker: the loop itself.                                            *)

\* _nextWakeMs: what ends the wait when no event does.
TimerDue == \/ \E i \in Slots : clock[i] = "elapsed"
            \/ ripe # {}
            \/ session.used /\ session.waiting

\* Mutant of Serve: the radio is drained for an HW_IRQ event only.
ServeUndrained(event) == IF event = Irq THEN <<Drain>> ELSE <<Route(event)>>

Serve(event) == IF event = Irq THEN <<Drain>> ELSE <<Drain, Route(event)>>

\* _eventQueue->pop returns; the radio is drained before the event is served.
Wake ==
    /\ At("wait")
    /\ phase' = "delayed"
    /\ IF queue # <<>>
       THEN /\ queue' = Tail(queue)
            /\ todo' = Serve(Head(queue))
       ELSE /\ TimerDue
            /\ queue' = queue
            /\ todo' = <<Drain>>
    /\ UNCHANGED <<poolVars, session, app, scan, tableVars, radio, history, bounds>>

\* _processDelayedTx: one due entry per iteration, if any.
ProcessDelayed ==
    /\ At("delayed")
    /\ phase' = "timeouts" /\ scan' = 1
    /\ ripe = {}
    /\ UNCHANGED <<poolVars, queue, session, app, todo, tableVars, radio, history, bounds>>

DispatchDelayed ==
    /\ At("delayed")
    /\ phase' = "dispatched"
    /\ \E s \in ripe : ripe' = ripe \ {s} /\ todo' = <<Route(s)>>
    /\ UNCHANGED <<poolVars, queue, session, app, scan, pending, clock, deferred, parked,
                   jittered, radio, history, bounds>>

StartScan ==
    /\ At("dispatched")
    /\ phase' = "timeouts" /\ scan' = 1
    /\ UNCHANGED <<poolVars, queue, session, app, todo, tableVars, radio, history, bounds>>

\* Entries that (now - _sentTick) >= ackTimeoutMs holds of: the unsigned
\* difference to a stamp taken after `now` is huge.
Expired == {i \in scan..PoolSize : clock[i] \in {"elapsed", "future"}}

\* _checkTimeouts, the next entry that expired.
Expire ==
    /\ At("timeouts")
    /\ \E i \in Expired :
        /\ \A j \in Expired : i <= j
        /\ scan' = i + 1
        /\ ClearEntry(i)
        /\ Forget(pending[i])
        /\ early' = IF clock[i] = "future" THEN early \cup {pool[pending[i]]} ELSE early
        /\ IF IsFragment(pending[i])
           THEN FragmentResult(pending[i], FALSE, FALSE, <<>>)
           ELSE /\ Finish(pending[i], "failed")
                /\ UNCHANGED <<todo, session, delivered>>
    /\ UNCHANGED <<queue, app, phase, deferred, parked, ripe, jittered, bounds>>

\* _checkTimeouts is through; later scans see the new stamps in the past.
EndScan ==
    /\ At("timeouts") /\ Expired = {}
    /\ phase' = "drive"
    /\ clock' = [i \in Slots |-> IF clock[i] = "future" THEN "waiting" ELSE clock[i]]
    /\ UNCHANGED <<poolVars, queue, session, app, todo, scan, pending, deferred, parked,
                   ripe, jittered, radio, history, bounds>>

\* Mutants of DriveAgain: any running session is driven, and none is.
DriveAlways == session.used

DriveNever == FALSE

DriveAgain == session.used /\ session.waiting

\* _driveFragmentSessions: a session that found no slot or no room tries again.
DriveSessions ==
    /\ At("drive")
    /\ phase' = "wait"
    /\ todo' = IF DriveAgain THEN <<NextFragment(FALSE)>> ELSE <<>>
    /\ UNCHANGED <<poolVars, queue, session, app, scan, tableVars, radio, history, bounds>>

WorkerStep ==
    \/ RouteTxReq \/ SendFails \/ FragmentUnbuildable \/ FragmentPutOff
    \/ FragmentSendFails \/ Sent \/ SendNextFragment \/ FlushDeferred
    \/ DrainRadio \/ Wake \/ ProcessDelayed \/ DispatchDelayed \/ StartScan
    \/ Expire \/ EndScan \/ DriveSessions

-----------------------------------------------------------------------------
(* Surroundings: the radio and the clock.                                  *)

\* A frame has been received: the ACK of a pending message, or anything else.
\* The line is edge-triggered and the queue may be full: the event can be lost.
FrameArrives ==
    /\ irqs < MaxIrq
    /\ irqs' = irqs + 1
    /\ \E f \in ({pending[i] : i \in Slots} \ {NoSlot}) \cup {Stale} : radio' = f
    /\ queue' = IF radio = NoSlot /\ Len(queue) < QueueDepth THEN Append(queue, Irq)
                                                             ELSE queue
    /\ UNCHANGED <<poolVars, session, app, workerVars, tableVars, history, duties>>

\* _checkTimeouts reads the clock once, so time stands still for its scan.
Elapse(i) ==
    /\ clock[i] = "waiting" /\ phase # "timeouts"
    /\ clock' = [clock EXCEPT ![i] = "elapsed"]
    /\ UNCHANGED <<poolVars, queue, session, app, workerVars, pending, deferred, parked,
                   ripe, jittered, radio, history, bounds>>

Ripen(s) ==
    /\ s \in parked
    /\ parked' = parked \ {s} /\ ripe' = ripe \cup {s}
    /\ UNCHANGED <<poolVars, queue, session, app, workerVars, pending, clock, deferred,
                   jittered, radio, history, bounds>>

TimeStep == \E i \in Slots : Elapse(i) \/ Ripen(i)

Next == AppStep \/ WorkerStep \/ FrameArrives \/ TimeStep

\* The RTOS runs a ready worker, a thread inside send() gets out of it, and the
\* clock advances: strongly fair, as it may do so between scans only.
Fairness == /\ WF_vars(WorkerStep)
            /\ WF_vars(Submit \/ FillFirst \/ SubmitFirst)
            /\ \A i \in Slots : SF_vars(Elapse(i)) /\ WF_vars(Ripen(i))

Spec == Init /\ [][Next]_vars
FairSpec == Spec /\ Fairness

-----------------------------------------------------------------------------
(* Properties.                                                             *)

\* Every variable keeps its type: slots, tables and calls are well formed.
TypeOK ==
    /\ pool \in [Slots -> {NoMsg} \cup Msgs \cup Frags]
    /\ used \subseteq Slots
    /\ queue \in Seq(Slots \cup {Irq}) /\ Len(queue) <= QueueDepth
    /\ session \in [used : BOOLEAN, large : Larges \cup {NoMsg}, next : 0..(Total - 1),
                    retries : 0..FragRetryMax, ack : BOOLEAN, waiting : BOOLEAN]
    /\ app \in [at : {"idle", "holding", "opened", "filled"},
                slot : Slots \cup {NoSlot}, item : Items \cup {NoMsg}]
    /\ phase \in {"wait", "delayed", "dispatched", "timeouts", "drive"}
    /\ todo \in Seq({Drain, Flush, NextFragment(TRUE), NextFragment(FALSE)}
                    \cup {Route(s) : s \in Slots} \cup {Transmit(s) : s \in Slots})
    /\ scan \in 1..(PoolSize + 1)
    /\ pending \in [Slots -> Slots \cup {NoSlot}]
    /\ clock \in [Slots -> {"off", "waiting", "elapsed", "future"}]
    /\ deferred \in Seq(Slots)
    /\ parked \subseteq Slots /\ ripe \subseteq Slots /\ jittered \subseteq Slots
    /\ radio \in Slots \cup {NoSlot, Stale}
    /\ outcome \in [Items -> {"new", "accepted", "rejected", "ok", "failed"}]
    /\ reports \in [Items -> Nat]
    /\ delivered \subseteq Frags /\ early \subseteq Items \cup Frags
    /\ irqs \in 0..MaxIrq /\ duties \in 0..MaxDuty

Times(n, s) == Cardinality({i \in DOMAIN n : n[i] = s})
InSet(S, s) == IF s \in S THEN 1 ELSE 0

\* How many owners the slot s has: the application thread, a queued TX_REQ, a
\* table entry, or a call the worker is about to make.
Owners(s) ==
    InSet({app.slot}, s) + Times(queue, s) + Times(pending, s) + Times(deferred, s)
      + InSet(parked, s) + InSet(ripe, s)
      + Times(todo, Route(s)) + Times(todo, Transmit(s))

\* A pool slot in use has exactly one owner and a free one none: no slot leaks,
\* none is freed while a table still points at it.  Since each table has one
\* entry per slot, none overflows either (Engine.cpp _poolAlloc, _poolFree and
\* the tables _pending, _deferred, _delayedTx).
OneOwner == \A s \in Slots : Owners(s) = InSet(used, s)

InFlight == {s \in used : IsFragment(s)}

\* Stop and wait: at most one fragment is anywhere in the engine, and it is the
\* one the running session stands at (LargeTxSession, _sendNextFragment).
StopAndWait ==
    \A s \in InFlight : /\ InFlight = {s}
                        /\ session.used
                        /\ pool[s] = <<session.large, session.next>>

\* A running session is never forgotten: when neither thread is at work on it
\* the session has its fragment in the engine, or waits for the next round.
SessionNotForgotten ==
    session.used /\ app.at = "idle" /\ todo = <<>>
        => InFlight # {} \/ session.waiting

\* The slot reserve of _poolAlloc: a session without a fragment in the engine
\* can always get a slot, however many other messages are waiting.
FragmentReserve == session.used /\ InFlight = {} => CanAlloc(TRUE)

\* A large message reported sent has had every fragment sent, or acknowledged
\* where it asked for that (onFragmentResult, _completeLargeSend).
LargeOkMeansAll ==
    \A l \in Larges : outcome[l] = "ok" =>
        \A k \in 0..(Total - 1) : <<l, k>> \in delivered

\* RFConfig.h:55-56: a lost HW_IRQ event is harmless.  Whenever the worker
\* blocks on the queue with a frame unread, an event is there to wake it.
LostIrqHarmless == At("wait") /\ radio # NoSlot => queue # <<>>

\* The callbacks: one, for a message send() accepted, and never another.
ReportOnce ==
    [][\A x \in Items : reports'[x] # reports[x] =>
            outcome[x] = "accepted" /\ outcome'[x] \in {"ok", "failed"}]_vars

\* Engine.h:159-160: sends parked while a session is in flight are "drained on
\* completion", so a worker at rest without a session has none parked.
DeferredOnlyInSession == At("wait") /\ app.at = "idle" /\ deferred # <<>> => session.used

\* A message the worker rests on, with no session left to flush it.
Stranded(x) == ~DeferredOnlyInSession /\ \E i \in DOMAIN deferred : pool[deferred[i]] = x

\* An accepted message is reported, sent or failed.  The exception is one that
\* startLargeSend's QUEUE_FULL has stranded, while the worker rests and no
\* send is under way; a session that ends in any other way must flush what it parked.
Settles ==
    \A x \in Items : outcome[x] = "accepted" ~>
        \/ outcome[x] \in {"ok", "failed"}
        \/ Stranded(x)

\* RFNode.h:86, "Per-message ACK timeout": a message fails with ACK_TIMEOUT only
\* once its own timeout is over.
NoEarlyTimeout == early = {}
=============================================================================
