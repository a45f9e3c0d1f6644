--------------------------- MODULE BridgeTxProofs ---------------------------
(***************************************************************************)
(* For any messages, lengths and queue bounds of the bridge: nothing that  *)
(* the host was told is queued gets lost, _queuedTxBytes is what the queue *)
(* holds, pumpTx acts on the verdict of its own send, and a payload RFNode *)
(* reads is kept.                                                          *)
(***************************************************************************)
EXTENDS BridgeTx, SequenceTheorems, FiniteSetTheorems, TLAPS

-----------------------------------------------------------------------------
(* The queue as the set of what is in it.                                  *)

Members(q) == {q[i] : i \in DOMAIN q}
Distinct(q) == \A i, j \in DOMAIN q : q[i] = q[j] => i = j
Queued == Members(txQueue)

\* AddsUp, and the bytes up to a place grow along the queue: so that those of
\* the head can be taken off all of them.
Splits(q, total) ==
    /\ q = <<>> => total = 0
    /\ \E upTo \in [DOMAIN q -> 0..total] :
          /\ \A i \in DOMAIN q : upTo[i] = Bytes[q[i]] + (IF i = 1 THEN 0 ELSE upTo[i - 1])
          /\ q # <<>> => upTo[Len(q)] = total
          /\ \A i, j \in DOMAIN q : i <= j => upTo[i] <= upTo[j]

\* Appending a message that is not there yet adds it, and its bytes.
LEMMA AppendEffect ==
  ASSUME NEW q \in Seq(Msgs), NEW m \in Msgs, NEW total \in Nat
  PROVE  /\ Append(q, m) \in Seq(Msgs) /\ Len(Append(q, m)) = Len(q) + 1
         /\ Members(Append(q, m)) = Members(q) \cup {m}
         /\ Distinct(q) /\ m \notin Members(q) => Distinct(Append(q, m))
         /\ Splits(q, total) => Splits(Append(q, m), total + Bytes[m])
<1> DEFINE r == Append(q, m)
           n == Len(q)
<1>1. /\ n \in Nat /\ DOMAIN q = 1..n /\ DOMAIN r = 1..(n + 1) /\ r \in Seq(Msgs)
      /\ Len(r) = n + 1 /\ r[n + 1] = m /\ \A i \in 1..n : r[i] = q[i] /\ q[i] \in Msgs
  BY AppendProperties, LenProperties, ElementOfSeq
<1>2. r # <<>> /\ (q = <<>> <=> n = 0)
  BY <1>1, EmptySeq
<1>3. Bytes[m] \in Nat /\ \A i \in 1..n : Bytes[q[i]] \in Nat
  BY <1>1, BytesAssumption
<1> HIDE DEF r, n
<1>4. Members(r) = Members(q) \cup {m}
  BY <1>1 DEF Members
<1>5. ASSUME Distinct(q), m \notin Members(q) PROVE Distinct(r)
  BY <1>1, <1>5 DEF Distinct, Members
<1>6. ASSUME Splits(q, total) PROVE Splits(r, total + Bytes[m])
  <2>1. PICK old \in [1..n -> 0..total] :
           /\ \A i \in 1..n : old[i] = Bytes[q[i]] + (IF i = 1 THEN 0 ELSE old[i - 1])
           /\ q # <<>> => old[n] = total
           /\ \A i, j \in 1..n : i <= j => old[i] <= old[j]
    BY <1>1, <1>6 DEF Splits, n
  <2>2. q = <<>> => total = 0
    BY <1>6 DEF Splits
  <2> DEFINE new == [i \in 1..(n + 1) |-> IF i = n + 1 THEN total + Bytes[m] ELSE old[i]]
  <2>3. new \in [DOMAIN r -> 0..(total + Bytes[m])]
    BY <1>1, <1>3
  <2>4. new[n + 1] = total + Bytes[m] /\ \A i \in 1..n : new[i] = old[i]
    BY <1>1
  <2>5. ASSUME NEW i \in DOMAIN r
        PROVE  new[i] = Bytes[r[i]] + (IF i = 1 THEN 0 ELSE new[i - 1])
    <3>1. CASE i \in 1..n
      <4>1. i # 1 => i - 1 \in 1..n
        BY <1>1, <3>1
      <4> QED BY <1>1, <2>1, <2>4, <3>1, <4>1
    <3>2. CASE i = n + 1 /\ n = 0
      BY <1>1, <1>2, <1>3, <2>2, <2>4, <3>2
    <3>3. CASE i = n + 1 /\ n # 0
      <4>1. n \in 1..n /\ i - 1 = n /\ new[n] = total
        BY <1>1, <1>2, <2>1, <2>4, <3>3
      <4> QED BY <1>1, <1>3, <2>4, <3>3, <4>1
    <3> QED BY <1>1, <3>1, <3>2, <3>3
  <2>6. \A i, j \in DOMAIN r : i <= j => new[i] <= new[j]
    BY <1>1, <1>3, <2>1, <2>4
  <2> HIDE DEF new
  <2> QED BY <1>1, <1>2, <2>3, <2>4, <2>5, <2>6 DEF Splits
<1> QED BY <1>1, <1>4, <1>5, <1>6 DEF r, n

\* Taking the head takes its bytes.
LEMMA TailEffect ==
  ASSUME NEW q \in Seq(Msgs), q # <<>>, Distinct(q), NEW total \in Nat
  PROVE  /\ Tail(q) \in Seq(Msgs) /\ Len(Tail(q)) = Len(q) - 1 /\ Head(q) \in Msgs
         /\ Members(q) = Members(Tail(q)) \cup {Head(q)} /\ Head(q) \notin Members(Tail(q))
         /\ Distinct(Tail(q))
         /\ Splits(q, total) =>
               total - Bytes[Head(q)] \in Nat /\ Splits(Tail(q), total - Bytes[Head(q)])
<1> DEFINE r == Tail(q)
           n == Len(q)
           h == Head(q)
<1>1. /\ n \in Nat /\ n > 0 /\ DOMAIN q = 1..n /\ \A i \in 1..n : q[i] \in Msgs
      /\ h = q[1]
      /\ r \in Seq(Msgs) /\ Len(r) = n - 1 /\ DOMAIN r = 1..(n - 1)
      /\ \A i \in 1..(n - 1) : r[i] = q[i + 1]
  BY HeadTailProperties, LenProperties, ElementOfSeq, EmptySeq
<1>0. n \in Nat /\ n > 0
  BY <1>1
<1>2. r = <<>> <=> n = 1
  BY <1>1, EmptySeq
<1>3. \A i \in 1..n : Bytes[q[i]] \in Nat
  BY <1>1, BytesAssumption
<1> HIDE DEF r, n, h
<1>4. Members(q) = Members(r) \cup {h} /\ h \notin Members(r)
  <2>1. ASSUME NEW i \in 1..n PROVE q[i] \in Members(r) \cup {h}
    <3>1. CASE i = 1
      BY <1>1, <3>1
    <3>2. CASE i # 1
      <4>1. i - 1 \in 1..(n - 1) /\ r[i - 1] = q[i]
        BY <1>1, <3>2
      <4> QED BY <1>1, <4>1 DEF Members
    <3> QED BY <3>1, <3>2
  <2>2. ASSUME NEW i \in 1..(n - 1) PROVE r[i] \in Members(q) /\ r[i] # h
    <3>1. i + 1 \in 1..n /\ 1 \in 1..n /\ i + 1 # 1
      BY <1>0
    <3>2. r[i] = q[i + 1] /\ q[i + 1] # q[1]
      BY <1>1, <3>1 DEF Distinct
    <3> QED BY <1>1, <3>1, <3>2 DEF Members
  <2>3. h \in Members(q)
    BY <1>0, <1>1 DEF Members
  <2>4. Members(r) = {r[i] : i \in 1..(n - 1)} /\ Members(q) = {q[i] : i \in 1..n}
    BY <1>1 DEF Members
  <2> QED BY <2>1, <2>2, <2>3, <2>4
<1>5. Distinct(r)
  <2> SUFFICES ASSUME NEW i \in 1..(n - 1), NEW j \in 1..(n - 1), r[i] = r[j] PROVE i = j
    BY <1>1 DEF Distinct
  <2>1. i + 1 \in 1..n /\ j + 1 \in 1..n
    BY <1>0
  <2>2. q[i + 1] = q[j + 1]
    BY <1>1
  <2>3. i + 1 = j + 1
    BY <1>1, <2>1, <2>2 DEF Distinct
  <2> QED BY <2>3
<1>6. ASSUME Splits(q, total)
      PROVE  total - Bytes[h] \in Nat /\ Splits(r, total - Bytes[h])
  <2>1. PICK old \in [1..n -> 0..total] :
           /\ \A i \in 1..n : old[i] = Bytes[q[i]] + (IF i = 1 THEN 0 ELSE old[i - 1])
           /\ old[n] = total
           /\ \A i, j \in 1..n : i <= j => old[i] <= old[j]
    BY <1>1, <1>6, EmptySeq DEF Splits, n
  <2>2. PICK b \in Nat : b = Bytes[h]
    BY <1>1, <1>3
  <2>3. 1 \in 1..n /\ n \in 1..n /\ old[1] = b
    BY <1>1, <2>1, <2>2
  <2>4. \A i \in 1..n : old[i] \in b..total
    BY <2>1, <2>3
  <2>5. total - b \in Nat
    BY <2>3, <2>4
  <2> DEFINE new == [i \in 1..(n - 1) |-> old[i + 1] - b]
  <2>6. new \in [DOMAIN r -> 0..(total - b)]
    BY <1>1, <2>1, <2>2, <2>4
  <2>7. \A i \in 1..(n - 1) : new[i] = old[i + 1] - b /\ i + 1 \in 1..n
    BY <1>0
  <2> HIDE DEF new
  <2>8. ASSUME NEW i \in DOMAIN r
        PROVE  new[i] = Bytes[r[i]] + (IF i = 1 THEN 0 ELSE new[i - 1])
    <3>1. /\ i \in 1..(n - 1) /\ i + 1 \in 1..n /\ i + 1 # 1 /\ i \in 1..n
          /\ old[i + 1] = Bytes[q[i + 1]] + old[i]
          /\ r[i] = q[i + 1] /\ Bytes[q[i + 1]] \in Nat /\ old[i] \in Nat
      <4>a. i \in 1..(n - 1) /\ r[i] = q[i + 1]
        BY <1>1
      <4>b. i \in Nat /\ i > 0 /\ i < n
        BY <1>0, <4>a
      <4>1. i + 1 \in 1..n /\ i + 1 # 1 /\ i \in 1..n /\ (i + 1) - 1 = i
        BY <1>0, <4>b
      <4>2. old[i + 1] = Bytes[q[i + 1]] + (IF i + 1 = 1 THEN 0 ELSE old[(i + 1) - 1])
        BY <2>1, <4>1
      <4> QED BY <1>3, <2>1, <4>a, <4>1, <4>2
    <3>2. CASE i = 1
      BY <2>2, <2>3, <2>7, <3>1, <3>2
    <3>3. CASE i # 1
      <4>1. i - 1 \in 1..(n - 1) /\ (i - 1) + 1 = i
        BY <1>0, <3>1, <3>3
      <4>2. new[i - 1] = old[i] - b
        BY <2>7, <4>1
      <4>3. new[i] = old[i + 1] - b /\ Bytes[r[i]] \in Nat /\ b \in Nat
        BY <2>7, <3>1
      <4> QED BY <3>1, <3>3, <4>2, <4>3
    <3> QED BY <3>2, <3>3
  <2>9. \A i, j \in DOMAIN r : i <= j => new[i] <= new[j]
    <3> SUFFICES ASSUME NEW i \in 1..(n - 1), NEW j \in 1..(n - 1), i <= j
                 PROVE  new[i] <= new[j]
      BY <1>1
    <3>1. old[i + 1] <= old[j + 1] /\ old[i + 1] \in Nat /\ old[j + 1] \in Nat
      BY <1>1, <2>1, <2>7
    <3> QED BY <2>2, <2>7, <3>1
  <2>10. r # <<>> => new[n - 1] = total - b
    <3> SUFFICES ASSUME r # <<>> PROVE new[n - 1] = total - b
      OBVIOUS
    <3>1. n - 1 \in 1..(n - 1) /\ (n - 1) + 1 = n
      BY <1>1, <1>2
    <3> QED BY <2>1, <2>7, <3>1
  <2>11. r = <<>> => total - b = 0
    BY <1>2, <2>1, <2>2, <2>3
  <2> QED BY <1>1, <2>2, <2>5, <2>6, <2>8, <2>9, <2>10, <2>11 DEF Splits
<1> QED BY <1>1, <1>4, <1>5, <1>6 DEF r, n, h

-----------------------------------------------------------------------------
(* The inductive invariant.                                                *)

\* Whom RFNode answers to: the message it was given last, if it is not settled.
Owned == IF pc = "accepted" THEN hand ELSE inFlight

\* A message that is queued is in one place, and the one outside the queue has
\* a slot to return to.
PlacesOK ==
    /\ Distinct(txQueue)
    /\ hand # None <=> pc \in {"submit", "accepted"}
    /\ inFlight # None => pc = "idle"
    /\ hand \notin Queued /\ inFlight \notin Queued
    /\ \A m \in Msgs : status[m] = "queued" <=> m \in Queued \cup {hand, inFlight}
    /\ \A m \in Msgs : status[m] # "lost"
    /\ Len(txQueue) + (IF hand = None /\ inFlight = None THEN 0 ELSE 1) <= MaxQueued + 1

\* RFNode works for the owned message only, and txDone separates its stores
\* from the reads of pumpTx.
FlagsOK ==
    /\ rf.at = "idle" <=> rf.msg = None
    /\ rf.msg \in {None, Owned}
    /\ rf.msg # None => ~txDone
    /\ pc = "submit" => ~txDone /\ txOk
    /\ rf.at \in {"sending", "failing"} => txOk
    /\ rf.at \in {"failing", "failed"} =>
          /\ verdict[rf.msg] # "ok"
          /\ txRetryable <=> verdict[rf.msg] = "transient"
    /\ rf.at = "failed" => ~txOk
    /\ Owned # None /\ rf.at = "idle" =>
          /\ txDone
          /\ txOk <=> verdict[Owned] = "ok"
          /\ ~txOk => (txRetryable <=> verdict[Owned] = "transient")

BytesOK == Splits(txQueue, queuedBytes)

Types ==
    /\ pc \in {"idle", "offer", "submit", "accepted"}
    /\ txQueue \in Seq(Msgs) /\ Len(txQueue) \in Nat
    /\ queuedBytes \in Nat
    /\ hand \in Msgs \cup {None} /\ inFlight \in Msgs \cup {None}
    /\ attempts \in [Msgs -> 0..FastAttempts]
    /\ waiting \subseteq Msgs
    /\ txDone \in BOOLEAN /\ txOk \in BOOLEAN /\ txRetryable \in BOOLEAN
    /\ rf \in [at : {"idle", "sending", "failing", "failed"}, msg : Msgs \cup {None}]
    /\ verdict \in [Msgs -> Verdicts]
    /\ status \in [Msgs -> {"host", "refused", "queued", "sent", "dropped", "lost"}]

IInv == Types /\ PlacesOK /\ BytesOK /\ FlagsOK

\* At the start nothing is queued and RFNode has nothing.
LEMMA InvInit == Init => IInv
<1> SUFFICES ASSUME Init PROVE IInv
  OBVIOUS
<1>1. Len(<<>>) = 0 /\ <<>> \in Seq(Msgs) /\ DOMAIN <<>> = {}
  BY EmptySeq
<1>2. Types
  <2>1. /\ pc = "idle" /\ txQueue = <<>> /\ queuedBytes = 0 /\ hand = None /\ inFlight = None
        /\ attempts = [m \in Msgs |-> 0] /\ waiting = {}
        /\ txDone = FALSE /\ txOk = TRUE /\ txRetryable = FALSE
    BY DEF Init
  <2>2. attempts \in [Msgs -> 0..FastAttempts]
    BY <2>1, BoundsAssumption
  <2>3. rf \in [at : {"idle", "sending", "failing", "failed"}, msg : Msgs \cup {None}]
    BY DEF Init
  <2>4. /\ verdict \in [Msgs -> Verdicts]
        /\ status \in [Msgs -> {"host", "refused", "queued", "sent", "dropped", "lost"}]
    BY DEF Init, Verdicts
  <2> QED BY <1>1, <2>1, <2>2, <2>3, <2>4 DEF Types
<1>3. Queued = {} /\ Distinct(txQueue)
  BY <1>1 DEF Init, Queued, Members, Distinct
<1>4. PlacesOK
  BY <1>1, <1>3, NoneAssumption, BoundsAssumption DEF Init, PlacesOK
<1>5. BytesOK
  <2>1. [i \in {} |-> 0] \in [DOMAIN <<>> -> 0..0]
    BY <1>1
  <2> QED BY <1>1, <2>1 DEF Init, BytesOK, Splits
<1>6. FlagsOK
  BY DEF Init, FlagsOK, Owned
<1> QED BY <1>2, <1>4, <1>5, <1>6 DEF IInv

\* What only the flags and RFNode do leaves the queue as it is.
LEMMA QueueStays ==
  ASSUME IInv, UNCHANGED <<txQueue, queuedBytes, hand, inFlight, status>>,
         pc' = pc \/ (pc \in {"idle", "offer"} /\ pc' \in {"idle", "offer"} /\ inFlight = None)
                  \/ (pc = "submit" /\ pc' = "accepted")
  PROVE  PlacesOK' /\ BytesOK'
<1>1. Queued' = Queued
  BY DEF Queued, Members
<1>2. Distinct(txQueue)'
  BY DEF IInv, PlacesOK, Distinct
<1>3. (hand # None <=> pc \in {"submit", "accepted"})' /\ (inFlight # None => pc = "idle")'
  BY DEF IInv, PlacesOK
<1>4. PlacesOK'
  BY <1>1, <1>2, <1>3 DEF IInv, PlacesOK
<1>5. BytesOK'
  BY DEF IInv, BytesOK, Splits
<1> QED BY <1>4, <1>5

\* A message that leaves the hand or the flight for good.
LEMMA LeaveEffect ==
  ASSUME IInv, NEW m \in Msgs, m = hand \/ m = inFlight, UNCHANGED <<txQueue, queuedBytes>>,
         hand' = None, inFlight' = None, pc' \in {"idle", "offer"},
         NEW how \in {"sent", "dropped"}, status' = [status EXCEPT ![m] = how]
  PROVE  PlacesOK' /\ BytesOK'
<1>1. Queued' = Queued /\ m \notin Queued /\ Queued \subseteq Msgs
  BY LenProperties, ElementOfSeq DEF IInv, Types, PlacesOK, Queued, Members
<1>2. m # None /\ None \notin Queued /\ (hand = None \/ inFlight = None)
  BY <1>1, NoneAssumption DEF IInv, PlacesOK
<1>3. PlacesOK'
  BY <1>1, <1>2, BoundsAssumption DEF IInv, Types, PlacesOK, Distinct
<1>4. BytesOK'
  BY DEF IInv, BytesOK, Splits
<1> QED BY <1>3, <1>4

\* requeueTx always has room: the message goes to the tail of the queue.
LEMMA RequeueEffect ==
  ASSUME IInv, NEW m \in Msgs, m = hand \/ m = inFlight, Requeue(m),
         hand' = None, inFlight' = None, pc' \in {"idle", "offer"}
  PROVE  /\ PlacesOK' /\ BytesOK' /\ status' = status
         /\ txQueue' \in Seq(Msgs) /\ Len(txQueue') \in Nat /\ queuedBytes' \in Nat
         /\ waiting' \subseteq Msgs
<1>1. m \notin Queued /\ m # None /\ (hand = None \/ inFlight = None) /\ status[m] = "queued"
  BY NoneAssumption DEF IInv, PlacesOK
<1>2. Len(txQueue) < MaxQueued + 1
  BY <1>1, BoundsAssumption DEF IInv, Types, PlacesOK
<1>3. /\ txQueue' = Append(txQueue, m) /\ queuedBytes' = queuedBytes + Bytes[m]
      /\ status' = status /\ waiting' \subseteq Msgs
  BY <1>2 DEF Requeue, Rotated, IInv, Types
<1>4. /\ txQueue \in Seq(Msgs) /\ queuedBytes \in Nat /\ Len(txQueue) \in Nat
      /\ Bytes[m] \in Nat
      /\ Distinct(txQueue) /\ Splits(txQueue, queuedBytes)
  BY BytesAssumption DEF IInv, Types, PlacesOK, BytesOK
<1>5. /\ txQueue' \in Seq(Msgs) /\ Len(txQueue') = Len(txQueue) + 1
      /\ Members(txQueue') = Members(txQueue) \cup {m}
      /\ Distinct(txQueue') /\ Splits(txQueue', queuedBytes')
  BY <1>1, <1>3, <1>4, AppendEffect DEF Queued
<1>6. Queued' = Queued \cup {m} /\ None \notin Queued'
  <2>1. Queued \subseteq Msgs
    BY <1>4, LenProperties, ElementOfSeq DEF Queued, Members
  <2> QED BY <1>5, <2>1, NoneAssumption DEF Queued
<1>7. PlacesOK'
  <2>1. Distinct(txQueue)'
    BY <1>5 DEF Distinct
  <2>2. Len(txQueue)' <= MaxQueued + 1
    BY <1>2, <1>4, <1>5, BoundsAssumption
  <2> QED BY <1>1, <1>3, <1>6, <2>1, <2>2 DEF IInv, PlacesOK
<1>8. BytesOK'
  BY <1>5 DEF BytesOK, Splits
<1> QED BY <1>3, <1>4, <1>5, <1>7, <1>8

-----------------------------------------------------------------------------
(* Every step keeps it.                                                    *)

\* The disjuncts of Next.
LEMMA StepOf ==
  ASSUME [Next]_vars
  PROVE  \/ \E m \in Msgs : HandleSendmsg(m)
         \/ \E m \in Msgs : ComesDue(m)
         \/ SettleOk \/ SettleDrop \/ SettleRotate
         \/ Pump \/ OfferNothing \/ Offer \/ Own
         \/ Accept \/ RefusePermanently \/ RefuseForNow
         \/ (\E m \in Msgs : OnSendOk(m)) \/ OnSendFail \/ StoreNotOk \/ ReleaseDone
         \/ UNCHANGED vars
  BY Zenon DEF Next, PumpStep, Settle, Refuse, Callback

\* Where the messages are, and how many bytes are queued.
LEMMA PlacesNext ==
  ASSUME IInv, [Next]_vars
  PROVE  PlacesOK' /\ BytesOK'
<1>1. Types /\ PlacesOK /\ BytesOK /\ FlagsOK
  BY DEF IInv
<1>2. Queued \subseteq Msgs /\ None \notin Queued
  BY <1>1, NoneAssumption, LenProperties, ElementOfSeq DEF Types, Queued, Members
<1>3. ASSUME NEW m \in Msgs, HandleSendmsg(m) PROVE PlacesOK' /\ BytesOK'
  <2>1. /\ status[m] \in {"host", "refused"} /\ pc = "idle" /\ hand = None
        /\ m \notin Queued /\ m # inFlight
        /\ pc' = pc /\ hand' = hand /\ inFlight' = inFlight
    BY <1>1, <1>3 DEF HandleSendmsg, PlacesOK
  <2>2. CASE Bytes[m] > 0 /\ Room(m)
    <3>1. /\ txQueue' = Append(txQueue, m) /\ queuedBytes' = queuedBytes + Bytes[m]
          /\ status' = [status EXCEPT ![m] = "queued"] /\ Len(txQueue) < MaxQueued
      BY <1>3, <2>2 DEF HandleSendmsg, Room
    <3>2. /\ Len(txQueue') = Len(txQueue) + 1 /\ Len(txQueue) \in Nat
          /\ Members(txQueue') = Members(txQueue) \cup {m}
          /\ Distinct(txQueue') /\ Splits(txQueue', queuedBytes')
      BY <1>1, <2>1, <3>1, AppendEffect DEF Types, PlacesOK, BytesOK, Queued
    <3>3. Queued' = Queued \cup {m}
      BY <3>2 DEF Queued
    <3>4. Distinct(txQueue)' /\ BytesOK'
      BY <3>2 DEF Distinct, BytesOK, Splits
    <3>5. \A k \in Msgs : /\ (status'[k] = "queued") <=> (k \in Queued' \cup {hand, inFlight})
                          /\ status'[k] # "lost"
      <4> SUFFICES ASSUME NEW k \in Msgs
                   PROVE  /\ (status'[k] = "queued") <=> (k \in Queued' \cup {hand, inFlight})
                          /\ status'[k] # "lost"
        OBVIOUS
      <4>1. CASE k = m
        BY <1>1, <3>1, <3>3, <4>1 DEF Types
      <4>2. CASE k # m
        BY <1>1, <3>1, <3>3, <4>2 DEF PlacesOK
      <4> QED BY <4>1, <4>2
    <3>6. Len(txQueue') + 1 <= MaxQueued + 1
      BY <3>1, <3>2, BoundsAssumption
    <3>7. hand \notin Queued' /\ inFlight \notin Queued'
      BY <1>1, <2>1, <3>3, NoneAssumption DEF PlacesOK
    <3>8. (hand # None <=> pc \in {"submit", "accepted"})' /\ (inFlight # None => pc = "idle")'
      BY <1>1, <2>1 DEF PlacesOK
    <3>9. \A k \in Msgs : /\ (status'[k] = "queued") <=> (k \in Queued' \cup {hand', inFlight'})
                          /\ status'[k] # "lost"
      BY <2>1, <3>5
    <3>10. Len(txQueue') + (IF hand' = None /\ inFlight' = None THEN 0 ELSE 1) <= MaxQueued + 1
      BY <3>2, <3>6, BoundsAssumption
    <3> QED BY <2>1, <3>4, <3>7, <3>8, <3>9, <3>10 DEF PlacesOK
  <2>3. CASE ~(Bytes[m] > 0 /\ Room(m))
    <3>1. UNCHANGED <<txQueue, queuedBytes>> /\ status' = [status EXCEPT ![m] = "refused"]
      BY <1>3, <2>3 DEF HandleSendmsg
    <3>2. Queued' = Queued
      BY <3>1 DEF Queued, Members
    <3>3. \A k \in Msgs : /\ (status'[k] = "queued") <=> (status[k] = "queued")
                          /\ status'[k] # "lost"
      <4> SUFFICES ASSUME NEW k \in Msgs
                   PROVE  /\ (status'[k] = "queued") <=> (status[k] = "queued")
                          /\ status'[k] # "lost"
        OBVIOUS
      <4>1. CASE k = m
        BY <1>1, <2>1, <3>1, <4>1 DEF Types
      <4>2. CASE k # m
        BY <1>1, <3>1, <4>2 DEF PlacesOK
      <4> QED BY <4>1, <4>2
    <3>4. Distinct(txQueue)' /\ BytesOK'
      BY <1>1, <3>1 DEF PlacesOK, Distinct, BytesOK, Splits
    <3> QED BY <1>1, <2>1, <3>1, <3>2, <3>3, <3>4 DEF PlacesOK
  <2> QED BY <2>2, <2>3
<1>4. CASE SettleOk \/ SettleDrop
  <2>1. /\ pc = "idle" /\ inFlight # None /\ inFlight' = None /\ pc' = "offer" /\ hand' = hand
        /\ UNCHANGED <<txQueue, queuedBytes>>
        /\ \E how \in {"sent", "dropped"} : status' = [status EXCEPT ![inFlight] = how]
    BY <1>4 DEF SettleOk, SettleDrop, Completed
  <2>2. inFlight \in Msgs /\ hand = None
    BY <1>1, <2>1 DEF Types, PlacesOK
  <2> QED BY <2>1, <2>2, LeaveEffect
<1>5. CASE SettleRotate
  <2>1. /\ pc = "idle" /\ inFlight # None /\ inFlight' = None /\ pc' = "offer" /\ hand' = hand
        /\ Requeue(inFlight)
    BY <1>5 DEF SettleRotate, Completed
  <2>2. inFlight \in Msgs /\ hand = None
    BY <1>1, <2>1 DEF Types, PlacesOK
  <2> QED BY <2>1, <2>2, RequeueEffect
<1>6. CASE Offer
  <2>1. PICK m \in Msgs : m = Head(txQueue)
    BY <1>1, <1>6, TailEffect DEF Offer, Types, PlacesOK
  <2>2. /\ pc = "offer" /\ pc' = "submit" /\ hand' = m /\ inFlight' = inFlight
        /\ txQueue' = Tail(txQueue) /\ queuedBytes' = queuedBytes - Bytes[m]
        /\ status' = status
    BY <1>6, <2>1 DEF Offer
  <2>3. /\ Len(txQueue') = Len(txQueue) - 1 /\ Len(txQueue) \in Nat
        /\ Members(txQueue) = Members(txQueue') \cup {m} /\ m \notin Members(txQueue')
        /\ Distinct(txQueue') /\ Splits(txQueue', queuedBytes')
    BY <1>1, <1>6, <2>1, <2>2, TailEffect DEF Offer, Types, PlacesOK, BytesOK
  <2>4. Queued = Queued' \cup {m} /\ m \notin Queued'
    BY <2>3 DEF Queued
  <2>5. hand = None /\ inFlight = None /\ m # None
    BY <1>1, <2>2, NoneAssumption DEF PlacesOK
  <2>6. Distinct(txQueue)' /\ BytesOK'
    BY <2>3 DEF Distinct, BytesOK, Splits
  <2>7. \A k \in Msgs : (status'[k] = "queued") <=> (k \in Queued' \cup {m, None})
    BY <1>1, <2>2, <2>4, <2>5, NoneAssumption DEF PlacesOK
  <2>8. Len(txQueue') + 1 <= MaxQueued + 1
    BY <1>1, <2>3, <2>5, BoundsAssumption DEF PlacesOK
  <2>9. hand' \notin Queued' /\ inFlight' \notin Queued'
    BY <1>2, <2>2, <2>4, <2>5
  <2>10. \A k \in Msgs : /\ (status'[k] = "queued") <=> (k \in Queued' \cup {hand', inFlight'})
                         /\ status'[k] # "lost"
    BY <1>1, <2>2, <2>5, <2>7 DEF PlacesOK
  <2> QED BY <2>2, <2>5, <2>6, <2>8, <2>9, <2>10 DEF PlacesOK
<1>7. CASE Own
  <2>1. /\ pc = "accepted" /\ pc' = "idle" /\ inFlight' = hand /\ hand' = None
        /\ UNCHANGED <<txQueue, queuedBytes, status>>
    BY <1>7 DEF Own
  <2>2. Queued' = Queued /\ inFlight = None
    BY <1>1, <2>1 DEF Queued, Members, PlacesOK
  <2>3. Distinct(txQueue)' /\ BytesOK'
    BY <1>1, <2>1 DEF PlacesOK, Distinct, BytesOK, Splits
  <2> QED BY <1>1, <1>2, <2>1, <2>2, <2>3 DEF PlacesOK
<1>8. CASE RefusePermanently
  <2>1. /\ pc = "submit" /\ hand' = None /\ pc' = "offer" /\ inFlight' = inFlight
        /\ UNCHANGED <<txQueue, queuedBytes>> /\ status' = [status EXCEPT ![hand] = "dropped"]
    BY <1>8 DEF RefusePermanently
  <2>2. hand \in Msgs /\ inFlight = None
    BY <1>1, <2>1 DEF Types, PlacesOK
  <2> QED BY <2>1, <2>2, LeaveEffect
<1>9. CASE RefuseForNow
  <2>1. pc = "submit" /\ hand' = None /\ pc' = "idle" /\ inFlight' = inFlight /\ Requeue(hand)
    BY <1>9 DEF RefuseForNow
  <2>2. hand \in Msgs /\ inFlight = None
    BY <1>1, <2>1 DEF Types, PlacesOK
  <2> QED BY <2>1, <2>2, RequeueEffect
<1>10. CASE \/ \E m \in Msgs : ComesDue(m) \/ OnSendOk(m)
            \/ OnSendFail \/ StoreNotOk \/ ReleaseDone \/ UNCHANGED vars
  <2>1. UNCHANGED <<pc, txQueue, queuedBytes, hand, inFlight, status>>
    BY <1>10 DEF ComesDue, OnSendOk, OnSendFail, StoreNotOk, ReleaseDone, vars, pollVars
  <2> QED BY <2>1, QueueStays
<1>11. CASE Pump \/ OfferNothing \/ Accept
  <2>1. /\ UNCHANGED <<txQueue, queuedBytes, hand, inFlight, status>>
        /\ \/ (pc \in {"idle", "offer"} /\ pc' \in {"idle", "offer"} /\ inFlight = None)
           \/ (pc = "submit" /\ pc' = "accepted")
    BY <1>1, <1>11 DEF Pump, OfferNothing, Accept, PlacesOK
  <2> QED BY <2>1, QueueStays
<1> QED BY <1>3, <1>4, <1>5, <1>6, <1>7, <1>8, <1>9, <1>10, <1>11, StepOf

\* The kinds of the variables.
LEMMA TypesNext ==
  ASSUME IInv, [Next]_vars
  PROVE  Types'
<1>1. Types /\ PlacesOK /\ FlagsOK
  BY DEF IInv
<1>2. ASSUME NEW m \in Msgs, HandleSendmsg(m) PROVE Types'
  <2>1. /\ status' \in [Msgs -> {"host", "refused", "queued", "sent", "dropped", "lost"}]
        /\ UNCHANGED <<pc, hand, inFlight, attempts, waiting, flags, rfVars>>
    BY <1>1, <1>2 DEF HandleSendmsg, Types
  <2>2. txQueue' \in Seq(Msgs) /\ Len(txQueue') \in Nat /\ queuedBytes' \in Nat
    <3>1. CASE Bytes[m] > 0 /\ Room(m)
      <4>1. txQueue' = Append(txQueue, m) /\ queuedBytes' = queuedBytes + Bytes[m]
        BY <1>2, <3>1 DEF HandleSendmsg
      <4>2. Bytes[m] \in Nat
        BY BytesAssumption
      <4> QED BY <1>1, <4>1, <4>2, AppendEffect DEF Types
    <3>2. CASE ~(Bytes[m] > 0 /\ Room(m))
      BY <1>1, <1>2, <3>2 DEF HandleSendmsg, Types
    <3> QED BY <3>1, <3>2
  <2> QED BY <1>1, <2>1, <2>2 DEF Types, flags, rfVars
<1>3. CASE SettleOk \/ SettleDrop
  <2>1. inFlight \in Msgs
    BY <1>1, <1>3 DEF SettleOk, SettleDrop, Completed, Types
  <2>2. status' \in [Msgs -> {"host", "refused", "queued", "sent", "dropped", "lost"}]
    BY <1>1, <1>3, <2>1 DEF SettleOk, SettleDrop, Types
  <2>3. /\ pc' = "offer" /\ inFlight' = None
        /\ UNCHANGED <<txQueue, queuedBytes, hand, attempts, waiting, flags, rfVars>>
    BY <1>3 DEF SettleOk, SettleDrop
  <2> QED BY <1>1, <2>2, <2>3 DEF Types, flags, rfVars
<1>4. CASE SettleRotate \/ RefuseForNow
  <2>1. PICK m \in Msgs : (m = hand \/ m = inFlight) /\ Requeue(m)
    BY <1>1, <1>4 DEF SettleRotate, RefuseForNow, Completed, Types, PlacesOK
  <2>2. hand' = None /\ inFlight' = None /\ pc' \in {"idle", "offer"}
    BY <1>1, <1>4 DEF SettleRotate, RefuseForNow, Completed, PlacesOK
  <2>3. /\ txQueue' \in Seq(Msgs) /\ Len(txQueue') \in Nat /\ queuedBytes' \in Nat
        /\ waiting' \subseteq Msgs /\ status' = status
    BY <2>1, <2>2, RequeueEffect
  <2>4. UNCHANGED <<attempts, txOk, txRetryable, rf, verdict>> /\ txDone' \in BOOLEAN
    BY <1>1, <1>4 DEF SettleRotate, RefuseForNow, flags, rfVars, Types
  <2> QED BY <1>1, <2>2, <2>3, <2>4 DEF Types
<1>5. CASE Offer
  <2>1. /\ pc' = "submit" /\ hand' = Head(txQueue) /\ txQueue' = Tail(txQueue)
        /\ txQueue # <<>>
        /\ queuedBytes' = queuedBytes - Bytes[Head(txQueue)]
        /\ attempts' = [attempts EXCEPT ![Head(txQueue)] =
                            IF @ < FastAttempts THEN @ + 1 ELSE @]
        /\ txOk' = TRUE /\ txDone' = FALSE
        /\ UNCHANGED <<inFlight, waiting, txRetryable, rfVars, status>>
    BY <1>5 DEF Offer, ArmBefore
  <2>2. /\ Head(txQueue) \in Msgs /\ txQueue' \in Seq(Msgs) /\ queuedBytes' \in Nat
    BY <2>1, TailEffect DEF IInv, Types, PlacesOK, BytesOK
  <2>3. Len(txQueue') \in Nat
    BY <2>2, LenProperties
  <2>4. attempts' \in [Msgs -> 0..FastAttempts]
    <3>1. \A a \in 0..FastAttempts : (IF a < FastAttempts THEN a + 1 ELSE a) \in 0..FastAttempts
      BY BoundsAssumption
    <3> QED BY <1>1, <2>1, <2>2, <3>1 DEF Types
  <2> QED BY <1>1, <2>1, <2>2, <2>3, <2>4 DEF Types, rfVars
<1>6. CASE Accept
  <2>1. hand \in Msgs
    BY <1>1, <1>6 DEF Accept, Types, PlacesOK
  <2>2. rf' \in [at : {"idle", "sending", "failing", "failed"}, msg : Msgs \cup {None}]
    BY <1>6, <2>1 DEF Accept
  <2>3. /\ pc' = "accepted"
        /\ UNCHANGED <<txQueue, queuedBytes, hand, inFlight, attempts, waiting, flags,
                       verdict, status>>
    BY <1>6 DEF Accept
  <2> QED BY <1>1, <2>2, <2>3 DEF Types, flags
<1>7. CASE Own
  BY <1>1, <1>7 DEF Own, ArmBefore, Types, rfVars
<1>8. CASE RefusePermanently
  <2>1. hand \in Msgs
    BY <1>1, <1>8 DEF RefusePermanently, Types, PlacesOK
  <2>2. status' \in [Msgs -> {"host", "refused", "queued", "sent", "dropped", "lost"}]
    BY <1>1, <1>8, <2>1 DEF RefusePermanently, Types
  <2>3. /\ pc' = "offer" /\ hand' = None /\ txDone' = TRUE
        /\ UNCHANGED <<txQueue, queuedBytes, inFlight, attempts, waiting, txOk,
                       txRetryable, rfVars>>
    BY <1>8 DEF RefusePermanently
  <2> QED BY <1>1, <2>2, <2>3 DEF Types, rfVars
<1>9. ASSUME NEW m \in Msgs, ComesDue(m) PROVE Types'
  BY <1>1, <1>9 DEF ComesDue, Types, pollVars, flags, rfVars
<1>10. CASE Pump \/ OfferNothing
  BY <1>1, <1>10 DEF Pump, OfferNothing, Types, flags, rfVars
<1>11. ASSUME NEW m \in Msgs, OnSendOk(m) PROVE Types'
  <2>1. rf' \in [at : {"idle", "sending", "failing", "failed"}, msg : Msgs \cup {None}]
    BY <1>11 DEF OnSendOk
  <2>2. verdict' \in [Msgs -> Verdicts]
    BY <1>1, <1>11 DEF OnSendOk, Types, Verdicts
  <2> QED BY <1>1, <1>11, <2>1, <2>2 DEF OnSendOk, Types, pollVars
<1>12. CASE OnSendFail
  <2>1. rf.msg \in Msgs /\ rf' = [rf EXCEPT !.at = "failing"]
    BY <1>1, <1>12 DEF OnSendFail, FlagsOK, Types
  <2>2. rf' \in [at : {"idle", "sending", "failing", "failed"}, msg : Msgs \cup {None}]
    BY <1>1, <2>1 DEF Types
  <2>3. verdict' \in [Msgs -> Verdicts]
    BY <1>1, <1>12, <2>1 DEF OnSendFail, Types, Verdicts
  <2>4. UNCHANGED <<pollVars, waiting, txDone, txOk, status>> /\ txRetryable' \in BOOLEAN
    BY <1>12 DEF OnSendFail
  <2> QED BY <1>1, <2>2, <2>3, <2>4 DEF Types, pollVars
<1>13. CASE StoreNotOk
  <2>1. rf' \in [at : {"idle", "sending", "failing", "failed"}, msg : Msgs \cup {None}]
    BY <1>1, <1>13 DEF StoreNotOk, Types
  <2> QED BY <1>1, <1>13, <2>1 DEF StoreNotOk, Types, pollVars
<1>14. CASE ReleaseDone
  <2>1. rf' \in [at : {"idle", "sending", "failing", "failed"}, msg : Msgs \cup {None}]
    BY <1>14 DEF ReleaseDone
  <2> QED BY <1>1, <1>14, <2>1 DEF ReleaseDone, Types, pollVars
<1>15. CASE UNCHANGED vars
  BY <1>1, <1>15 DEF Types, vars, pollVars, flags, rfVars
<1> QED BY <1>2, <1>3, <1>4, <1>5, <1>6, <1>7, <1>8, <1>9, <1>10, <1>11, <1>12, <1>13,
           <1>14, <1>15, StepOf

\* RFNode's callback and the flags.
LEMMA FlagsNext ==
  ASSUME IInv, [Next]_vars
  PROVE  FlagsOK'
<1>1. Types /\ PlacesOK /\ FlagsOK
  BY DEF IInv
<1>0. rf.at # "idle" => rf.msg = Owned /\ Owned # None /\ pc # "submit" /\ ~txDone
  BY <1>1 DEF FlagsOK, PlacesOK, Owned
<1>2. ASSUME UNCHANGED <<txDone, txOk, txRetryable, rf, verdict>>, Owned' = Owned,
             pc' = "submit" => pc = "submit"
      PROVE  FlagsOK'
  BY <1>1, <1>2 DEF FlagsOK
<1>3. ASSUME rf' = rf, rf.at = "idle", Owned' = None,
             pc' = "submit" => ~txDone' /\ txOk'
      PROVE  FlagsOK'
  BY <1>1, <1>3 DEF FlagsOK
<1>4. ASSUME NEW m \in Msgs, HandleSendmsg(m) PROVE FlagsOK'
  BY <1>1, <1>2, <1>4 DEF HandleSendmsg, flags, rfVars, Owned
<1>5. ASSUME NEW m \in Msgs, ComesDue(m) PROVE FlagsOK'
  BY <1>1, <1>2, <1>5 DEF ComesDue, flags, rfVars, pollVars, Owned
<1>6. CASE SettleOk \/ SettleDrop \/ SettleRotate
  <2>1. /\ pc = "idle" /\ pc' = "offer" /\ inFlight' = None /\ txDone /\ rf' = rf
    BY <1>6 DEF SettleOk, SettleDrop, SettleRotate, Completed, rfVars
  <2>2. rf.at = "idle"
    BY <1>1, <2>1 DEF FlagsOK
  <2> QED BY <1>3, <2>1, <2>2 DEF Owned
<1>7. CASE Pump \/ OfferNothing
  <2>1. /\ pc \in {"idle", "offer"} /\ pc' \in {"idle", "offer"} /\ inFlight' = inFlight
        /\ UNCHANGED <<txDone, txOk, txRetryable, rf, verdict>>
    BY <1>7 DEF Pump, OfferNothing, flags, rfVars
  <2> QED BY <1>2, <2>1 DEF Owned
<1>8. CASE Offer
  <2>1. /\ pc = "offer" /\ pc' = "submit" /\ inFlight' = inFlight /\ rf' = rf
        /\ txOk' = TRUE /\ txDone' = FALSE
    BY <1>8 DEF Offer, ArmBefore, rfVars
  <2>2. inFlight = None
    BY <1>1, <2>1 DEF PlacesOK
  <2>3. rf.at = "idle"
    BY <1>1, <2>1, <2>2 DEF FlagsOK, Owned
  <2> QED BY <1>3, <2>1, <2>2, <2>3 DEF Owned
<1>9. CASE Accept
  <2>1. /\ pc = "submit" /\ pc' = "accepted" /\ hand' = hand
        /\ rf' = [at |-> "sending", msg |-> hand]
        /\ UNCHANGED <<txDone, txOk, txRetryable, verdict>>
    BY <1>9 DEF Accept, flags
  <2>2. ~txDone /\ txOk /\ hand # None
    BY <1>1, <2>1 DEF FlagsOK, PlacesOK
  <2>3. rf'.at = "sending" /\ rf'.msg = hand /\ Owned' = hand
    BY <2>1 DEF Owned
  <2> QED BY <2>1, <2>2, <2>3 DEF FlagsOK
<1>10. CASE Own
  <2>1. /\ pc = "accepted" /\ pc' = "idle" /\ inFlight' = hand
        /\ UNCHANGED <<txDone, txOk, txRetryable, rf, verdict>>
    BY <1>10 DEF Own, ArmBefore, rfVars
  <2> QED BY <1>2, <2>1 DEF Owned
<1>11. CASE RefusePermanently \/ RefuseForNow
  <2>1. /\ pc = "submit" /\ pc' \in {"idle", "offer"} /\ inFlight' = inFlight /\ rf' = rf
    BY <1>11 DEF RefusePermanently, RefuseForNow, rfVars
  <2>2. inFlight = None
    BY <1>1, <2>1 DEF PlacesOK
  <2>3. rf.at = "idle"
    BY <1>1, <2>1, <2>2 DEF FlagsOK, Owned
  <2> QED BY <1>3, <2>1, <2>2, <2>3 DEF Owned
<1>12. ASSUME NEW m \in Msgs, OnSendOk(m) PROVE FlagsOK'
  <2>1. /\ rf.at = "sending" /\ rf.msg = m /\ txDone' = TRUE
        /\ rf'.at = "idle" /\ rf'.msg = None
        /\ verdict' = [verdict EXCEPT ![m] = "ok"]
        /\ UNCHANGED <<pc, hand, inFlight, txOk, txRetryable>>
    BY <1>12 DEF OnSendOk, pollVars
  <2>2. txOk /\ m = Owned /\ pc # "submit" /\ m # None
    BY <1>0, <1>1, <2>1 DEF FlagsOK
  <2>3. Owned' = m /\ verdict'[m] = "ok"
    BY <1>1, <2>1, <2>2 DEF Owned, Types
  <2> QED BY <2>1, <2>2, <2>3 DEF FlagsOK
<1>13. CASE OnSendFail
  <2>1. /\ rf.at = "sending" /\ rf.msg \in Msgs /\ rf.msg = Owned
        /\ ~txDone /\ txOk /\ pc # "submit"
    BY <1>0, <1>1, <1>13 DEF OnSendFail, FlagsOK, Types
  <2>2. PICK reason \in {"transient", "permanent"} :
           /\ txRetryable' = (reason = "transient")
           /\ verdict' = [verdict EXCEPT ![rf.msg] = reason]
    BY <1>13 DEF OnSendFail
  <2>3. /\ rf'.at = "failing" /\ rf'.msg = rf.msg
        /\ UNCHANGED <<pc, hand, inFlight, txDone, txOk>>
    BY <1>1, <1>13 DEF OnSendFail, pollVars, Types
  <2>4. Owned' = Owned /\ verdict'[rf.msg] = reason
    BY <1>1, <2>1, <2>2, <2>3 DEF Owned, Types
  <2>5. reason # "ok" /\ rf.msg # None
    BY <2>1, NoneAssumption
  <2> QED BY <2>1, <2>2, <2>3, <2>4, <2>5 DEF FlagsOK
<1>14. CASE StoreNotOk
  <2>1. /\ rf.at = "failing" /\ rf'.at = "failed" /\ rf'.msg = rf.msg /\ txOk' = FALSE
        /\ UNCHANGED <<pc, hand, inFlight, txDone, txRetryable, verdict>>
    BY <1>1, <1>14 DEF StoreNotOk, pollVars, Types
  <2>2. Owned' = Owned /\ rf.msg # None /\ pc # "submit"
    BY <1>0, <2>1 DEF Owned
  <2> QED BY <1>0, <1>1, <2>1, <2>2 DEF FlagsOK
<1>15. CASE ReleaseDone
  <2>1. /\ rf.at = "failed" /\ rf'.at = "idle" /\ rf'.msg = None /\ txDone' = TRUE
        /\ UNCHANGED <<pc, hand, inFlight, txOk, txRetryable, verdict>>
    BY <1>15 DEF ReleaseDone, pollVars
  <2>2. Owned' = Owned /\ rf.msg = Owned /\ pc # "submit"
    BY <1>0, <2>1 DEF Owned
  <2> QED BY <1>1, <2>1, <2>2 DEF FlagsOK
<1>16. CASE UNCHANGED vars
  BY <1>1, <1>2, <1>16 DEF vars, pollVars, flags, rfVars, Owned
<1> QED BY <1>4, <1>5, <1>6, <1>7, <1>8, <1>9, <1>10, <1>11, <1>12, <1>13, <1>14, <1>15,
           <1>16, StepOf

\* So the invariant always holds.
LEMMA InvAlways == Spec => []IInv
<1>1. Init => IInv
  BY InvInit
<1>2. IInv /\ [Next]_vars => IInv'
  BY PlacesNext, TypesNext, FlagsNext DEF IInv
<1> QED BY <1>1, <1>2, PTL DEF Spec

-----------------------------------------------------------------------------
(* What it says.                                                           *)

\* The variables keep their kinds, and the queue is never deeper than its storage
\* of MAX_QUEUED_TX + 1.
THEOREM TypesAlways == Spec => []TypeOK
<1>1. IInv => TypeOK
  <2> SUFFICES ASSUME IInv PROVE TypeOK
    OBVIOUS
  <2>1. Len(txQueue) <= MaxQueued + 1
    BY BoundsAssumption DEF IInv, Types, PlacesOK
  <2> QED BY <2>1 DEF IInv, Types, TypeOK
<1> QED BY <1>1, InvAlways, PTL

\* For any number of messages and any bounds: what the host was told is queued is
\* in exactly one place until it is sent or found undeliverable, requeueTx always
\* has room for it, and _queuedTxBytes is the sum of what the queue holds.
THEOREM QueuedIsKept == Spec => []NothingLost
<1>1. IInv => NothingLost
  <2> SUFFICES ASSUME IInv PROVE NothingLost
    OBVIOUS
  <2>1. AddsUp(txQueue, queuedBytes)
    BY DEF IInv, BytesOK, Splits, AddsUp
  <2>2. ASSUME NEW m \in Msgs
        PROVE  Places(m) = IF status[m] = "queued" THEN 1 ELSE 0
    <3> DEFINE Here(b) == IF b THEN 1 ELSE 0
    <3>1. Cardinality({i \in DOMAIN txQueue : txQueue[i] = m}) = Here(m \in Queued)
      <4>1. CASE m \in Queued
        <5>1. PICK i \in DOMAIN txQueue : txQueue[i] = m
          BY <4>1 DEF Queued, Members
        <5>2. {j \in DOMAIN txQueue : txQueue[j] = m} = {i}
          BY <5>1 DEF IInv, PlacesOK, Distinct
        <5> QED BY <4>1, <5>2, FS_Singleton
      <4>2. CASE m \notin Queued
        <5>1. {j \in DOMAIN txQueue : txQueue[j] = m} = {}
          BY <4>2 DEF Queued, Members
        <5> QED BY <4>2, <5>1, FS_EmptySet
      <4> QED BY <4>1, <4>2
    <3>2. Cardinality({p \in {1} : hand = m}) = Here(hand = m)
      <4>1. CASE hand = m
        <5>1. {p \in {1} : hand = m} = {1}
          BY <4>1
        <5> QED BY <4>1, <5>1, FS_Singleton
      <4>2. CASE hand # m
        <5>1. {p \in {1} : hand = m} = {}
          BY <4>2
        <5> QED BY <4>2, <5>1, FS_EmptySet
      <4> QED BY <4>1, <4>2
    <3>3. Cardinality({p \in {1} : inFlight = m}) = Here(inFlight = m)
      <4>1. CASE inFlight = m
        <5>1. {p \in {1} : inFlight = m} = {1}
          BY <4>1
        <5> QED BY <4>1, <5>1, FS_Singleton
      <4>2. CASE inFlight # m
        <5>1. {p \in {1} : inFlight = m} = {}
          BY <4>2
        <5> QED BY <4>2, <5>1, FS_EmptySet
      <4> QED BY <4>1, <4>2
    <3>4. Places(m) = Here(m \in Queued) + Here(hand = m) + Here(inFlight = m)
      BY <3>1, <3>2, <3>3 DEF Places
    <3>5. status[m] = "queued" <=> m \in Queued \cup {hand, inFlight}
      BY DEF IInv, PlacesOK
    <3>6. /\ hand \notin Queued /\ inFlight \notin Queued
          /\ hand = None \/ inFlight = None
          /\ m # None
      BY NoneAssumption DEF IInv, PlacesOK
    <3> QED BY <3>4, <3>5, <3>6
  <2>3. \A m \in Msgs : status[m] # "lost"
    BY DEF IInv, PlacesOK
  <2> QED BY <2>1, <2>2, <2>3 DEF NothingLost
<1> QED BY <1>1, InvAlways, PTL

\* However the RF worker's three stores fall between the steps of the poll task:
\* when pumpTx sees txDone, txOk and txRetryable are the verdict on its own send.
THEOREM VerdictIsTheirs == Spec => []VerdictIsOurs
<1>1. IInv => VerdictIsOurs
  <2> SUFFICES ASSUME IInv, pc = "idle", inFlight # None, txDone
               PROVE  /\ txOk <=> verdict[inFlight] = "ok"
                      /\ ~txOk => (txRetryable <=> verdict[inFlight] = "transient")
                      /\ rf.msg # inFlight
    BY DEF VerdictIsOurs
  <2>1. Owned = inFlight /\ rf.msg = None /\ rf.at = "idle"
    BY DEF IInv, FlagsOK, Owned
  <2> QED BY <2>1 DEF IInv, FlagsOK
<1> QED BY <1>1, InvAlways, PTL

\* RFNode never works on a message the bridge has let go of.
THEOREM PayloadIsKept == Spec => []PayloadKept
<1>1. IInv => PayloadKept
  BY DEF IInv, FlagsOK, Owned, PayloadKept
<1> QED BY <1>1, InvAlways, PTL
=============================================================================
