----------------------------- MODULE MeshFlood ------------------------------
(***************************************************************************)
(* A mesh of RFNet nodes: Engine::_handleRaw, _scheduleForward,            *)
(* _processForwards, the ACKs and their retries (engine/Engine.cpp), the   *)
(* routing strategies (core/routing) and the duplicate suppression of      *)
(* module Freshness, over a radio that loses and reorders frames.          *)
(*                                                                         *)
(* A frame on the air is one reception to come per node in range, taken in *)
(* any order.  The jitter and backoff of a queued frame are the freedom of *)
(* when it is taken up.  Single-frame messages; EngineTx has the sender's  *)
(* tables and FragTransfer the fragments.                                  *)
(***************************************************************************)
EXTENDS Freshness

CONSTANTS
    Nodes,
    Neighbours,  \* per node: who hears it
    Strong,      \* pairs <<from, to>> heard above the suppression threshold
    Messages,    \* what is sent: [src, dst, areq, hops, number]
    Broadcast,   \* ADDR_BROADCAST
    AckHops,     \* cfg.hopCount, the budget of an ACK
    FirstSeq,    \* the sequence number of the first message of a node
    Strategies,  \* the routing strategies a run looks at
    NextHop,     \* per node: the static routes, a partial function
    FwdDepth, FwdRetryMax,  \* RF_FWD_QUEUE_SIZE, RF_FWD_RETRY_MAX
    AckDepth, AckRetryMax,  \* RF_ACK_QUEUE_SIZE, cfg.ackRetryMax
    MaxFaults    \* bound: busy channels, chip errors and lost receptions

ASSUME MeshAssumption ==
    /\ IsFiniteSet(Nodes) /\ Neighbours \in [Nodes -> SUBSET Nodes]
    /\ Strong \subseteq Nodes \X Nodes
    /\ Broadcast \notin Nodes
    /\ Messages \subseteq [src : Nodes, dst : Nodes \cup {Broadcast},
                           areq : BOOLEAN, hops : 0..7, number : Nat]
    /\ Strategies \subseteq {"flooding", "static", "static_drop"}
    /\ \A n \in Nodes : DOMAIN NextHop[n] \subseteq Nodes
    /\ AckHops \in 0..7 /\ FirstSeq \in Sequences24
    /\ {FwdDepth, AckDepth} \subseteq Nat \ {0}
    /\ {FwdRetryMax, AckRetryMax, MaxFaults} \subseteq Nat

VARIABLES
    strategy,   \* cfg.routing
    unsent,     \* messages the applications have still to send
    air,        \* receptions to come: a frame, where it was aimed, from, to
    windows,    \* per node: _replay
    seen,       \* per node: _seen
    fwdQueue,   \* per node: _fwdQueue
    ackQueue,   \* per node: _ackQueue
    pending,    \* per node: messages waiting for an ACK
    told,       \* history: per message what its sender was told
    accepted,   \* history: per node the messages that passed its window
    handed,     \* history: per node how often it was handed a message, up to 2
    relayed,    \* history: per node how often it relayed a message, up to 2
    forgotten,  \* history: <<node, sender>> pairs evicted from a window
    lost,       \* history: was any frame lost
    faults

tables == <<windows, seen, fwdQueue, ackQueue, pending>>
histories == <<told, accepted, handed, relayed, forgotten, lost>>
vars == <<strategy, unsent, air, tables, histories, faults>>

\* Once or more than once is all the histories tell.
OneMore(k) == IF k = 0 THEN 1 ELSE 2

WireSeq(m) == (FirstSeq + m.number) % SeqSpace

Data(m) == [ack |-> FALSE, src |-> m.src, dst |-> m.dst, hops |-> m.hops, of |-> m]
AckOf(m, n) == [ack |-> TRUE, src |-> n, dst |-> m.src, hops |-> AckHops, of |-> m]

Init ==
    /\ strategy \in Strategies
    /\ unsent = Messages
    /\ air = {}
    /\ windows = [n \in Nodes |-> <<>>] /\ seen = [n \in Nodes |-> <<>>]
    /\ fwdQueue = [n \in Nodes |-> {}] /\ ackQueue = [n \in Nodes |-> {}]
    /\ pending = [n \in Nodes |-> {}]
    /\ told = [m \in Messages |-> "nothing"]
    /\ accepted = [n \in Nodes |-> {}]
    /\ handed = [n \in Nodes |-> [m \in Messages |-> 0]]
    /\ relayed = [n \in Nodes |-> [m \in Messages |-> 0]]
    /\ forgotten = {} /\ lost = FALSE /\ faults = 0

-----------------------------------------------------------------------------
(* Routing.                                                                *)

HasRoute(n, dst) == dst \in DOMAIN NextHop[n]

ResolveL2(n, dst) ==
    IF dst = Broadcast \/ strategy = "flooding" THEN Broadcast
    ELSE IF HasRoute(n, dst) THEN NextHop[n][dst]
    ELSE IF strategy = "static" THEN Broadcast ELSE dst

\* The receptions of one transmission; the chip's driver filters the others.
Receptions(f, n) ==
    LET l2 == ResolveL2(n, f.dst)
    IN  {[frame |-> f, from |-> n, to |-> k] :
            k \in {k \in Neighbours[n] : l2 \in {k, Broadcast}}}

StrategyForwards(n, f, from) ==
    IF strategy = "flooding" THEN <<from, n>> \notin Strong
    ELSE f.dst = Broadcast \/ HasRoute(n, f.dst) \/ strategy = "static"

\* Mutants of ShouldForward: the budget is not looked at; a node takes a
\* broadcast to be for itself alone.
ForwardRegardless(n, f, from) == f.dst # n /\ StrategyForwards(n, f, from)
ForwardUnicast(n, f, from) ==
    f.hops > 0 /\ f.dst \notin {n, Broadcast} /\ StrategyForwards(n, f, from)

ShouldForward(n, f, from) ==
    /\ f.hops > 0
    /\ f.dst # n
    /\ StrategyForwards(n, f, from)

DecrementHop(f) == [f EXCEPT !.hops = @ - 1]

Parked(f) == [frame |-> f, retries |-> 0]

\* A full queue drops the frame, which is remembered as seen all the same.
ScheduleForward(n, f) ==
    IF Cardinality(fwdQueue[n]) < FwdDepth
      THEN /\ fwdQueue' = [fwdQueue EXCEPT ![n] = @ \cup {Parked(DecrementHop(f))}]
           /\ UNCHANGED lost
      ELSE lost' = TRUE /\ UNCHANGED fwdQueue

Forwarding(n, f, from) ==
    IF ShouldForward(n, f, from) THEN ScheduleForward(n, f)
                                 ELSE UNCHANGED <<fwdQueue, lost>>

-----------------------------------------------------------------------------
(* The sender.                                                             *)

\* The numbers of a node go on the air in the order they are given out.
Originate(m) ==
    /\ m \in unsent
    /\ \A k \in unsent : k.src = m.src => k.number >= m.number
    /\ unsent' = unsent \ {m}
    /\ air' = air \cup Receptions(Data(m), m.src)
    /\ pending' = [pending EXCEPT ![m.src] = IF m.areq THEN @ \cup {m} ELSE @]
    /\ UNCHANGED <<strategy, windows, seen, fwdQueue, ackQueue, histories, faults>>

AckTimeout(n) ==
    \E m \in pending[n] :
        /\ pending' = [pending EXCEPT ![n] = @ \ {m}]
        /\ told' = [told EXCEPT ![m] = "timeout"]
        /\ UNCHANGED <<strategy, unsent, air, windows, seen, fwdQueue, ackQueue,
                       accepted, handed, relayed, forgotten, lost, faults>>

-----------------------------------------------------------------------------
(* Reception: _drainRadioEvents and _handleRaw.                            *)

Consume(r) == air' = air \ {r}

OwnFrame(r) ==
    /\ r.frame.src = r.to
    /\ Consume(r)
    /\ UNCHANGED <<strategy, unsent, tables, histories, faults>>

Identity(f) == <<f.src, f.dst, WireSeq(f.of)>>

SeenAck(r) ==
    /\ r.frame.ack /\ r.frame.src # r.to
    /\ Contains(seen[r.to], Identity(r.frame))
    /\ Consume(r)
    /\ UNCHANGED <<strategy, unsent, tables, histories, faults>>

\* Mutant of Answers: any ACK from the peer will do.
AnswersAnything(m, f) == m.dst = f.src

Answers(m, f) == m.dst = f.src /\ WireSeq(m) = WireSeq(f.of)

NewAck(r) ==
    LET f == r.frame
        answered == IF f.dst = r.to THEN {m \in pending[r.to] : Answers(m, f)} ELSE {}
    IN  /\ f.ack /\ f.src # r.to
        /\ ~Contains(seen[r.to], Identity(f))
        /\ seen' = [seen EXCEPT ![r.to] = SeenAfter(@, Identity(f))]
        /\ pending' = [pending EXCEPT ![r.to] = @ \ answered]
        /\ told' = [m \in Messages |-> IF m \in answered THEN "ok" ELSE told[m]]
        /\ Forwarding(r.to, f, r.from)
        /\ Consume(r)
        /\ UNCHANGED <<strategy, unsent, windows, ackQueue, accepted, handed,
                       relayed, forgotten, faults>>

Replayed(r) == IsReplay(windows[r.to], r.frame.src, WireSeq(r.frame.of))

Remember(r) ==
    windows' = [windows EXCEPT ![r.to] = AfterFrame(@, r.frame.src, WireSeq(r.frame.of))]

ReplayedData(r) ==
    /\ ~r.frame.ack /\ r.frame.src # r.to
    /\ Replayed(r)
    /\ Remember(r)
    /\ Consume(r)
    /\ UNCHANGED <<strategy, unsent, seen, fwdQueue, ackQueue, pending, histories, faults>>

Evicted(r) ==
    IF Evicts(windows[r.to], r.frame.src)
      THEN {<<r.to, Victim(windows[r.to])>>} ELSE {}

IsForMe(r) == r.frame.dst \in {r.to, Broadcast}

\* An ACK that cannot go out now is parked, if there is room.
Acknowledge(r) ==
    LET n == r.to
        a == AckOf(r.frame.of, n)
    IN  IF ~(r.frame.of.areq /\ r.frame.dst = n)
          THEN air' = air \ {r} /\ UNCHANGED <<ackQueue, faults>>
          ELSE \/ /\ air' = (air \ {r}) \cup Receptions(a, n)
                  /\ UNCHANGED <<ackQueue, faults>>
               \/ /\ faults < MaxFaults
                  /\ faults' = faults + 1
                  /\ Consume(r)
                  /\ ackQueue' = IF Cardinality(ackQueue[n]) < AckDepth
                                   THEN [ackQueue EXCEPT ![n] = @ \cup {Parked(a)}]
                                   ELSE ackQueue

\* Forwarding comes before the question whom the frame is for, and the ACK
\* before the receive callback.
NewData(r) ==
    LET m == r.frame.of
        n == r.to
    IN  /\ ~r.frame.ack /\ r.frame.src # n
        /\ ~Replayed(r)
        /\ Remember(r)
        /\ accepted' = [accepted EXCEPT ![n] = @ \cup {m}]
        /\ forgotten' = forgotten \cup Evicted(r)
        /\ Forwarding(n, r.frame, r.from)
        /\ IF IsForMe(r)
             THEN /\ Acknowledge(r)
                  /\ handed' = [handed EXCEPT ![n][m] = OneMore(@)]
             ELSE /\ Consume(r)
                  /\ UNCHANGED <<handed, ackQueue, faults>>
        /\ UNCHANGED <<strategy, unsent, seen, pending, told, relayed>>

Receive(r) == OwnFrame(r) \/ SeenAck(r) \/ NewAck(r) \/ ReplayedData(r) \/ NewData(r)

Lose(r) ==
    /\ faults < MaxFaults
    /\ faults' = faults + 1
    /\ lost' = TRUE
    /\ Consume(r)
    /\ UNCHANGED <<strategy, unsent, tables, told, accepted, handed, relayed, forgotten>>

-----------------------------------------------------------------------------
(* The queues of the worker loop.                                          *)

Relay(n, e) ==
    /\ fwdQueue' = [fwdQueue EXCEPT ![n] = @ \ {e}]
    /\ air' = air \cup Receptions(e.frame, n)
    /\ relayed' = IF e.frame.ack THEN relayed
                  ELSE [relayed EXCEPT ![n][e.frame.of] = OneMore(@)]
    /\ UNCHANGED <<strategy, unsent, windows, seen, ackQueue, pending,
                   told, accepted, handed, forgotten, lost, faults>>

Again(e) == [e EXCEPT !.retries = @ + 1]

\* A busy channel is tried again, up to RF_FWD_RETRY_MAX times; a chip error
\* is not.
RelayFails(n, e) ==
    /\ faults < MaxFaults
    /\ faults' = faults + 1
    /\ \/ /\ e.retries < FwdRetryMax
          /\ fwdQueue' = [fwdQueue EXCEPT ![n] = (@ \ {e}) \cup {Again(e)}]
          /\ UNCHANGED lost
       \/ /\ fwdQueue' = [fwdQueue EXCEPT ![n] = @ \ {e}]
          /\ lost' = TRUE
    /\ UNCHANGED <<strategy, unsent, air, windows, seen, ackQueue, pending,
                   told, accepted, handed, relayed, forgotten>>

SendParkedAck(n, e) ==
    /\ ackQueue' = [ackQueue EXCEPT ![n] = @ \ {e}]
    /\ air' = air \cup Receptions(e.frame, n)
    /\ UNCHANGED <<strategy, unsent, windows, seen, fwdQueue, pending, histories, faults>>

ParkedAckFails(n, e) ==
    /\ faults < MaxFaults
    /\ faults' = faults + 1
    /\ ackQueue' = [ackQueue EXCEPT ![n] =
                      IF e.retries < AckRetryMax THEN (@ \ {e}) \cup {Again(e)}
                                                 ELSE @ \ {e}]
    /\ UNCHANGED <<strategy, unsent, air, windows, seen, fwdQueue, pending, histories>>

Serve(n) ==
    \/ \E e \in fwdQueue[n] : Relay(n, e) \/ RelayFails(n, e)
    \/ \E e \in ackQueue[n] : SendParkedAck(n, e) \/ ParkedAckFails(n, e)

Next ==
    \/ \E m \in Messages : Originate(m)
    \/ \E n \in Nodes : AckTimeout(n) \/ Serve(n)
    \/ \E r \in air : Receive(r) \/ Lose(r)

Spec == Init /\ [][Next]_vars

-----------------------------------------------------------------------------
(* Properties.                                                             *)

Windows == [src : Nodes, last : Sequences24, bits : SUBSET (0..(WindowBits - 1))]
Queued == [frame : [ack : BOOLEAN, src : Nodes, dst : Nodes \cup {Broadcast},
                    hops : 0..7, of : Messages],
           retries : 0..(FwdRetryMax + AckRetryMax)]

\* Every table keeps its type and its bounds; no hop count runs below zero,
\* which on the wire would be a budget of seven again.
TypeOK ==
    /\ strategy \in Strategies
    /\ \A n \in Nodes :
         /\ windows[n] \in Seq(Windows) /\ Len(windows[n]) <= MaxPeers
         /\ \A i, j \in 1..Len(windows[n]) :
              windows[n][i].src = windows[n][j].src => i = j
         /\ Len(seen[n]) <= SeenSize
         /\ fwdQueue[n] \subseteq Queued /\ Cardinality(fwdQueue[n]) <= FwdDepth
         /\ ackQueue[n] \subseteq Queued /\ Cardinality(ackQueue[n]) <= AckDepth
         /\ pending[n] \subseteq Messages

\* The copies of a flood do not multiply: over whatever paths they come, the
\* receive callback of a node gets a message at most once and the node relays
\* it at most once, unless the window of its sender was evicted at that node.
NoDuplicates ==
    \A n \in Nodes, m \in Messages :
        handed[n][m] > 1 \/ relayed[n][m] > 1 => <<n, m.src>> \in forgotten

\* An acknowledged message was handed to the application it is for.
OkMeansHanded ==
    \A m \in Messages : told[m] = "ok" => handed[m.dst][m] > 0

\* A new message is not taken for a replay, across the wrap of the numbers
\* and however late it comes, as long as it is within the window.
NoFreshRefused ==
    [][\A r \in air :
         ReplayedData(r) =>
            \/ r.frame.of \in accepted[r.to]
            \/ \E k \in accepted[r.to] :
                 /\ k.src = r.frame.src
                 /\ k.number >= r.frame.of.number + WindowBits]_vars

\* The nodes at most k hops from s.
Within(k, s) ==
    {n \in Nodes :
        \E p \in [0..k -> Nodes] :
            /\ p[0] = s /\ p[k] = n
            /\ \A i \in 0..(k - 1) : p[i + 1] \in Neighbours[p[i]] \cup {p[i]}}

BudgetReach == [m \in Messages |-> Within(m.hops + 1, m.src)]
Connected == [s \in Nodes |-> Within(Cardinality(Nodes), s)]

\* A message stays within its hop budget, in whatever order its copies travel
\* and even where a window forgets it.
WithinBudget ==
    \A n \in Nodes, m \in Messages : handed[n][m] > 0 => n \in BudgetReach[m]

Quiet == air = {} /\ \A n \in Nodes : fwdQueue[n] = {}

\* No node has forgotten the sender of m, and the sender is not so far ahead
\* that a window would refuse m for its age.
Remembers(m) ==
    /\ \A n \in Nodes : <<n, m.src>> \notin forgotten
    /\ \A k \in Messages \ unsent : k.src = m.src => k.number < m.number + WindowBits

\* A broadcast whose budget lets it take the longest way reaches every node
\* that is connected, unless a frame was lost or suppressed on the way, a
\* window evicted or the message overtaken.  With a smaller budget it need
\* not: a node that hears the copy of a longer way first takes the one with
\* more hops left for a duplicate.
BroadcastReaches ==
    \A m \in {m \in Messages : m.dst = Broadcast
                               /\ m.hops + 2 >= Cardinality(Nodes) /\ Strong = {}} :
        m \notin unsent /\ Quiet /\ ~lost /\ Remembers(m) =>
            \A n \in Connected[m.src] \ {m.src} : handed[n][m] > 0
=============================================================================
