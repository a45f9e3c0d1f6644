------------------------------ MODULE NodeLife ------------------------------
(***************************************************************************)
(* The life of an RFNet node: RFNode::begin, startWorkerTask, poll and end *)
(* (engine/RFNode.cpp, engine/Engine.cpp) called by the application's      *)
(* thread, the worker task they start and stop, and the way every frame    *)
(* takes through Engine::_txAndAccount - the check of the duty cycle, the  *)
(* transmission, the account - in whichever thread drives the engine,      *)
(* while time passes, the wall clock comes and goes and the power fails.   *)
(* A call of the duty-cycle tracker takes several steps, one per reading   *)
(* of the clock, under the tracker's mutex.                                *)
(*                                                                         *)
(* The application keeps to RFNode.h: it starts a worker at most once per  *)
(* begin(), and after an end() that gave up it only calls end() again.     *)
(***************************************************************************)
EXTENDS DutyCycle, Sequences

CONSTANTS
    TimeOnAir,   \* of a frame
    QueueDepth,  \* RF_EVENT_QUEUE_DEPTH
    MaxSends,    \* bound: messages the application submits
    MaxBoots,    \* bound: power cycles
    MaxBegins    \* bound: calls of begin() that make an engine

ASSUME LifeAssumption ==
    /\ TimeOnAir \in Nat /\ QueueDepth \in Nat \ {0}
    /\ MaxSends \in Nat /\ MaxBoots \in Nat /\ MaxBegins \in Nat

Threads == {"app", "worker"}
Driving == {"pop", "service", "check", "judge", "wait", "read", "air",
            "account", "extend", "commit", "callback"}
Places == {"idle", "spawned", "ending", "none", "fresh", "test",
           "init", "budget", "answer"} \cup Driving

\* Where a thread is about to call the tracker, and where it is after
\* _syncBase, with the mutex in its hands.
AfterSync == [check |-> "judge", wait |-> "read", account |-> "extend",
              budget |-> "answer"]
Calls == {"check", "wait", "account", "budget"}
Inside == {"judge", "read", "extend", "commit", "answer"}
Nobody == "nobody"
NotParked == -1

VARIABLES
    engine,  \* RFNode::_engine: none, failed (begin refused) or up
    flags,   \* _workerStarted, _shuttingDownWorker, _workerExited
    spawned, \* has startWorkerTask been called on this engine
    stuck,   \* has end() given up on this engine
    queue,   \* _eventQueue
    parked,  \* when a frame kept back for its off-time is due
    pc,      \* where each thread is
    until,   \* when the frame on air ends
    loading, \* the thread between _syncBase, or init, and _loadFromNv
    sends, boots, begins

lifeVars == <<engine, flags, spawned, stuck>>
workVars == <<queue, parked, until>>
counts == <<sends, boots, begins>>
vars == <<dutyVars, lifeVars, workVars, loading, pc, counts>>

NoFlags == [started |-> FALSE, shutting |-> FALSE, exited |-> FALSE]

Idle == pc["app"] = "idle"
Go(t, where) == pc' = [pc EXCEPT ![t] = where]

\* Where a thread goes on when it is done with a frame.
Resume(t) == IF t = "app" THEN "pop" ELSE "service"

Init ==
    /\ InitDuty
    /\ engine = "none" /\ flags = NoFlags /\ spawned = FALSE /\ stuck = FALSE
    /\ queue = <<>> /\ parked = NotParked /\ until = 0 /\ loading = Nobody
    /\ pc = [app |-> "idle", worker |-> "none"]
    /\ sends = 0 /\ boots = 0 /\ begins = 0

-----------------------------------------------------------------------------
(* The application's thread.                                               *)

\* A new engine object, with new flags; the tracker starts afresh and then
\* loads the record.
BeginOk ==
    /\ Idle /\ engine = "none" /\ begins < MaxBegins
    /\ duty' = FreshTracker
    /\ loading' = "app"
    /\ Go("app", "init")
    /\ begins' = begins + 1
    /\ UNCHANGED <<timeVars, nv, historyVars, lifeVars, workVars, sends, boots>>

InitLoads ==
    /\ pc["app"] = "init"
    /\ engine' = "up"
    /\ duty' = LoadFromNv(duty)
    /\ owed' = Remembered
    /\ mixed' = IF WrongBase(duty) /\ LoadFromNv(duty) # duty THEN "deadline" ELSE "none"
    /\ loading' = Nobody
    /\ Go("app", "idle")
    /\ UNCHANGED <<timeVars, nv, rule, covered, flags, spawned, stuck, workVars, counts>>

\* A refusal leaves the engine object behind: begin() again says
\* ALREADY_STARTED until end() has been called.
BeginFails ==
    /\ Idle /\ engine = "none" /\ begins < MaxBegins
    /\ engine' = "failed"
    /\ begins' = begins + 1
    /\ UNCHANGED <<dutyVars, flags, spawned, stuck, workVars, pc, loading, sends, boots>>

StartWorkerTask ==
    /\ Idle /\ engine = "up" /\ ~spawned
    /\ flags' = [flags EXCEPT !.exited = FALSE]
    /\ \/ /\ spawned' = TRUE
          /\ pc' = [pc EXCEPT !["app"] = "spawned", !["worker"] = "fresh"]
       \/ UNCHANGED <<spawned, pc>>
    /\ UNCHANGED <<dutyVars, engine, stuck, workVars, loading, counts>>

MarkStarted ==
    /\ pc["app"] = "spawned"
    /\ flags' = [flags EXCEPT !.started = TRUE]
    /\ Go("app", "idle")
    /\ UNCHANGED <<dutyVars, engine, spawned, stuck, workVars, loading, counts>>

Send ==
    /\ Idle /\ engine = "up" /\ sends < MaxSends
    /\ Len(queue) < QueueDepth
    /\ queue' = Append(queue, "TX_REQ")
    /\ sends' = sends + 1
    /\ UNCHANGED <<dutyVars, lifeVars, parked, until, pc, loading, boots, begins>>

\* startLargeSend asks getWaitMs before it queues the first fragment.
SendLarge ==
    /\ Idle /\ engine = "up" /\ sends < MaxSends
    /\ sends' = sends + 1
    /\ Go("app", "budget")
    /\ UNCHANGED <<dutyVars, lifeVars, workVars, loading, boots, begins>>

\* It may be refused for other reasons too.
Answer ==
    /\ pc["app"] = "answer"
    /\ \/ /\ WaitMs(duty) = 0 /\ Len(queue) < QueueDepth
          /\ queue' = Append(queue, "TX_REQ")
       \/ UNCHANGED queue
    /\ Go("app", "idle")
    /\ UNCHANGED <<dutyVars, lifeVars, parked, until, loading, counts>>

\* Mutated form: poll() does not look at _workerStarted.
PollNeverRefused == FALSE
PollRefused == flags.started

Poll ==
    /\ Idle /\ engine = "up" /\ ~stuck
    /\ ~PollRefused
    /\ Go("app", "pop")
    /\ UNCHANGED <<dutyVars, lifeVars, workVars, loading, counts>>

\* delete _engine: its flags, tables, queue and tracker go with it.
Deleted ==
    /\ engine' = "none" /\ flags' = NoFlags
    /\ spawned' = FALSE /\ stuck' = FALSE
    /\ queue' = <<>> /\ parked' = NotParked /\ until' = 0
    /\ duty' = NoTracker /\ loading' = Nobody
    /\ UNCHANGED <<nv, rule, covered>>

\* Mutated form: the SHUTDOWN event is never pushed.
ShutdownDropped(q) == q
ShutdownPushed(q) == IF Len(q) < QueueDepth THEN Append(q, "SHUTDOWN") ELSE q

\* end() up to its wait for the worker.
EndSignals ==
    /\ Idle /\ flags.started
    /\ flags' = [flags EXCEPT !.started = FALSE, !.shutting = TRUE]
    /\ queue' = ShutdownPushed(queue)
    /\ Go("app", "ending")
    /\ UNCHANGED <<dutyVars, engine, spawned, stuck, parked, until, loading, counts>>

EndAgain ==
    /\ Idle /\ ~flags.started /\ flags.shutting
    /\ Go("app", "ending")
    /\ UNCHANGED <<dutyVars, lifeVars, workVars, loading, counts>>

EndWithoutWorker ==
    /\ Idle /\ engine # "none" /\ ~flags.started /\ ~flags.shutting
    /\ Deleted
    /\ UNCHANGED <<timeVars, owed, mixed, pc, counts>>

\* Mutated form: end() does not wait.
TearDownAtOnce == TRUE
MayTearDown == flags.exited

EndTearsDown ==
    /\ pc["app"] = "ending"
    /\ MayTearDown
    /\ Deleted
    /\ Go("app", "idle")
    /\ UNCHANGED <<timeVars, owed, mixed, counts>>

\* RF_WORKER_SHUTDOWN_TIMEOUT_MS pass: the engine is kept alive.
EndGivesUp ==
    /\ pc["app"] = "ending" /\ ~flags.exited
    /\ stuck' = TRUE
    /\ Go("app", "idle")
    /\ UNCHANGED <<dutyVars, engine, flags, spawned, workVars, loading, counts>>

-----------------------------------------------------------------------------
(* The loop, in the worker task or within poll().                          *)

\* while (_workerStarted), the first time after startReceive().
WorkerTests ==
    /\ pc["worker"] \in {"fresh", "test"}
    /\ IF flags.started
         THEN Go("worker", "pop") /\ UNCHANGED flags
         ELSE /\ Go("worker", "none")
              /\ flags' = [flags EXCEPT !.exited = TRUE]
    /\ UNCHANGED <<dutyVars, engine, spawned, stuck, workVars, loading, counts>>

PopRequest(t) ==
    /\ pc[t] = "pop" /\ queue # <<>> /\ Head(queue) = "TX_REQ"
    /\ queue' = Tail(queue)
    /\ Go(t, "check")
    /\ UNCHANGED <<dutyVars, lifeVars, parked, until, loading, counts>>

\* poll() knows no SHUTDOWN.
PopShutdown(t) ==
    /\ pc[t] = "pop" /\ queue # <<>> /\ Head(queue) = "SHUTDOWN"
    /\ queue' = Tail(queue)
    /\ IF t = "worker"
         THEN /\ Go(t, "none")
              /\ flags' = [flags EXCEPT !.exited = TRUE]
         ELSE UNCHANGED <<pc, flags>>
    /\ UNCHANGED <<dutyVars, engine, spawned, stuck, parked, until, loading, counts>>

Due == parked # NotParked /\ parked <= now

\* The worker sleeps until something is due, poll() never does.
PopNothing(t) ==
    /\ pc[t] = "pop" /\ queue = <<>>
    /\ t = "worker" => Due
    /\ Go(t, "service")
    /\ UNCHANGED <<dutyVars, lifeVars, workVars, loading, counts>>

\* _processForwards, _processOutgoingAcks, _processDelayedTx.
Service(t) ==
    /\ pc[t] = "service"
    /\ IF Due
         THEN Go(t, "check") /\ parked' = NotParked
         ELSE /\ Go(t, IF t = "app" THEN "idle" ELSE "test")
              /\ UNCHANGED parked
    /\ UNCHANGED <<dutyVars, lifeVars, queue, until, loading, counts>>

\* The call of the tracker takes its mutex and runs _syncBase.
Sync(t) ==
    /\ pc[t] \in Calls
    /\ loading = Nobody /\ \A u \in Threads : pc[u] \notin Inside
    /\ duty' = SyncBase(duty)
    /\ IF FindsClockSet(duty)
         THEN loading' = t /\ UNCHANGED pc
         ELSE Go(t, AfterSync[pc[t]]) /\ UNCHANGED loading
    /\ UNCHANGED <<timeVars, nv, historyVars, lifeVars, workVars, counts>>

Load(t) ==
    /\ pc[t] \in Calls /\ loading = t
    /\ duty' = LoadFromNv(duty)
    /\ loading' = Nobody
    /\ Go(t, AfterSync[pc[t]])
    /\ UNCHANGED <<timeVars, nv, historyVars, lifeVars, workVars, counts>>

\* canTransmit says no: _txAndAccount asks how long to wait.
CheckRefuses(t) ==
    /\ pc[t] = "judge" /\ ~MayTransmit(duty)
    /\ Go(t, "wait")
    /\ UNCHANGED <<dutyVars, lifeVars, workVars, loading, counts>>

\* A message of one frame fails, and so does a frame with nothing to wait
\* for any more; others are kept back.
ReadWait(t) ==
    /\ pc[t] = "read"
    /\ parked' \in {parked, IF parked = NotParked /\ WaitMs(duty) > 0
                               THEN now + WaitMs(duty) ELSE parked}
    /\ Go(t, Resume(t))
    /\ UNCHANGED <<dutyVars, lifeVars, queue, until, loading, counts>>

CheckPasses(t) ==
    /\ pc[t] = "judge" /\ MayTransmit(duty)
    /\ now + TimeOnAir <= MaxTime
    /\ Go(t, "air")
    /\ until' = now + TimeOnAir
    /\ UNCHANGED <<dutyVars, lifeVars, queue, parked, loading, counts>>

\* The channel is busy, or the chip reports an error: nothing went out.
NotSent(t) ==
    /\ pc[t] = "judge" /\ MayTransmit(duty)
    /\ Go(t, Resume(t))
    /\ UNCHANGED <<dutyVars, lifeVars, workVars, loading, counts>>

Sent(t) ==
    /\ pc[t] = "air" /\ now >= until
    /\ Owe
    /\ until' = 0
    /\ Go(t, "account")
    /\ UNCHANGED <<timeVars, duty, nv, covered, mixed, lifeVars, queue, parked, loading,
                   counts>>

\* addTransmission, after _syncBase.
Extend(t) ==
    /\ pc[t] = "extend"
    /\ duty' = Extended(duty)
    /\ mixed' = Mixed(duty)
    /\ Go(t, "commit")
    /\ UNCHANGED <<timeVars, nv, rule, owed, covered, lifeVars, workVars, loading, counts>>

Save(t) ==
    /\ pc[t] = "commit"
    /\ MaybeCommit
    /\ Go(t, "callback")
    /\ UNCHANGED <<timeVars, rule, owed, lifeVars, workVars, loading, counts>>

\* The application's handler returns, after any time.
Callback(t) ==
    /\ pc[t] = "callback"
    /\ Go(t, Resume(t))
    /\ UNCHANGED <<dutyVars, lifeVars, workVars, loading, counts>>

DriveStep(t) ==
    \/ PopRequest(t) \/ PopShutdown(t) \/ PopNothing(t) \/ Service(t)
    \/ Sync(t) \/ Load(t)
    \/ CheckRefuses(t) \/ ReadWait(t) \/ CheckPasses(t) \/ NotSent(t)
    \/ Sent(t) \/ Extend(t) \/ Save(t) \/ Callback(t)

-----------------------------------------------------------------------------
(* The world.                                                              *)

\* The radio is busy for the time on air, not longer.
TimePasses ==
    /\ \A t \in Threads : pc[t] = "air" => now < until
    /\ Tick
    /\ UNCHANGED <<lifeVars, workVars, pc, loading, counts>>

ClockChanges ==
    /\ ClockSet \/ ClockLost
    /\ UNCHANGED <<lifeVars, workVars, pc, loading, counts>>

PowerCycle ==
    /\ boots < MaxBoots
    /\ boots' = boots + 1
    /\ bootAt' = now
    /\ clockOk' \in BOOLEAN
    /\ owed' = IF clockOk' THEN Lesser(owed, RecordTime) ELSE now
    /\ mixed' = "none"
    /\ Deleted
    /\ pc' = [app |-> "idle", worker |-> "none"]
    /\ UNCHANGED <<now, sends, begins>>

Next ==
    \/ BeginOk \/ InitLoads \/ BeginFails \/ StartWorkerTask \/ MarkStarted
    \/ Send \/ SendLarge \/ Answer \/ Poll
    \/ EndSignals \/ EndAgain \/ EndWithoutWorker \/ EndTearsDown \/ EndGivesUp
    \/ WorkerTests
    \/ \E t \in Threads : DriveStep(t)
    \/ TimePasses \/ ClockChanges \/ PowerCycle

Spec == Init /\ [][Next]_vars

\* The scheduler runs the worker, and the application's thread within a call of
\* the library; transmissions end and handlers return.
FairSpec ==
    /\ Spec
    /\ WF_vars(WorkerTests \/ DriveStep("worker"))
    /\ WF_vars(DriveStep("app") \/ Answer)
    /\ WF_vars(TimePasses)

-----------------------------------------------------------------------------
(* Properties.                                                             *)

\* Every variable keeps its type, and the event queue its depth.
TypeOK ==
    /\ now \in 0..MaxTime /\ bootAt \in 0..now /\ clockOk \in BOOLEAN
    /\ duty \in [off : Nat, epoch : BOOLEAN, saved : Nat]
    /\ nv \in Nat /\ rule \in Nat /\ owed \in Nat
    /\ covered \in BOOLEAN /\ mixed \in {"none", "deadline", "record"}
    /\ engine \in {"none", "failed", "up"}
    /\ flags \in [started : BOOLEAN, shutting : BOOLEAN, exited : BOOLEAN]
    /\ spawned \in BOOLEAN /\ stuck \in BOOLEAN
    /\ queue \in Seq({"TX_REQ", "SHUTDOWN"}) /\ Len(queue) <= QueueDepth
    /\ parked \in {NotParked} \cup Nat /\ until \in 0..MaxTime
    /\ loading \in Threads \cup {Nobody}
    /\ pc \in [Threads -> Places]
    /\ pc["app"] \in {"idle", "spawned", "ending", "init", "budget", "answer"} \cup Driving
    /\ pc["worker"] \in {"none", "fresh", "test"} \cup Driving
    /\ sends \in 0..MaxSends /\ boots \in 0..MaxBoots /\ begins \in 0..MaxBegins

\* The tables of the engine have no lock: at most one thread is in its loop.
\* poll() refuses while a worker has been announced, and begin() never makes
\* an engine while a worker of the last one is alive.
OneDriver == ~(pc["app"] \in Driving /\ pc["worker"] \in Driving)

\* The queue, the mutexes and the engine itself are freed only when no worker
\* task is left that would touch them: Engine::end waits for _workerExited,
\* which a worker from an earlier start must not have left set.
NoUseAfterFree == engine = "none" => pc["worker"] = "none"

\* The off-time is kept: no frame goes on the air before the last one's
\* off-time is over - across changes of the clock's validity, an end() and
\* begin(), and power cycles as far as the record reaches.  Two frames may be
\* early: one for which the clock was set between the two readings of the
\* canTransmit that let it go, and one sent when such a moment in _maybeCommit
\* has put a tick count in the place of the record, as long as time that was
\* owed by then is left.
OffTimeKept ==
    [][\A t \in Threads :
         pc[t] # "air" /\ pc'[t] = "air" => now >= owed \/ WrongBase(duty) \/ mixed = "record"]_vars

\* "No further TX allowed until Toff has elapsed".
OffTimeElapses ==
    [][\A t \in Threads : pc[t] # "air" /\ pc'[t] = "air" => now >= owed]_vars

\* The record is "the off-deadline as an epoch second", or 0.
RecordIsEpoch == nv = 0 \/ RecordMs >= EpochBase

\* A deadline that changes its base is carried over with "the remaining wait":
\* the tracker never waits for longer than the frames there were are worth,
\* and the rounding of the record.
WaitIsEarned ==
    engine = "up" /\ (\A t \in Threads : pc[t] \notin Inside)
        => WaitMs(SyncBase(duty)) <= sends * (OffTime + Second)

\* While the clock stays valid and NV accepts the writes, the record is at
\* most CommitMin behind what a reboot would have to know (with CommitMin = 0,
\* not behind at all).
RecordKeepsUp ==
    covered /\ clockOk /\ (\A t \in Threads : pc[t] \notin {"account", "extend", "commit"})
        => owed <= RecordTime \/ owed < RecordTime + CommitMin

\* A worker that end() has told to stop stops, even if the event queue had no
\* room for the SHUTDOWN event.
WorkerStops == flags.shutting ~> pc["worker"] = "none"

\* startWorkerTask() returned true: a task "owning the node" runs.
WorkerOwnsNode == Idle /\ flags.started => pc["worker"] # "none"

=============================================================================
