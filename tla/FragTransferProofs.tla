------------------------- MODULE FragTransferProofs -------------------------
(***************************************************************************)
(* For any number of senders and messages, of any fragment counts, any     *)
(* number of reassembly slots, retries and restarts of the receiver: as    *)
(* long as message ids do not repeat, no message is put together from      *)
(* pieces of two, what a sender was acknowledged is kept, and the transfer *)
(* implements LargeDelivery.                                               *)
(***************************************************************************)
EXTENDS FragTransfer, SequenceTheorems, FiniteSetTheorems, TLAPS

\* The limit Reassembler.h:9-18 states: a sender that has used up its ids may
\* not assume that its first message is forgotten.
IdsDoNotRepeat == \A s \in Sources : Sends[s] <= IdSpace

-----------------------------------------------------------------------------
(* Ids, keys and sequences of slots.                                       *)

\* Numbers from 1 to n keep apart modulo n: ids, until they run out.
LEMMA ModInjective ==
  ASSUME NEW n \in Nat \ {0}, NEW i \in 1..n, NEW j \in 1..n, i % n = j % n
  PROVE  i = j
<1>1. \A k \in 0..(n - 1) : k % n = k
  OBVIOUS
<1>2. n % n = 0
  OBVIOUS
<1> QED BY <1>1, <1>2

\* A message is its source and its number.
LEMMA MessageShape ==
  /\ \A m \in Messages : /\ m[1] \in Sources /\ m[2] \in 1..Sends[m[1]]
                         /\ m = <<m[1], m[2]>> /\ m # None
  /\ \A s \in Sources : \A n \in 1..Sends[s] : <<s, n>> \in Messages
  BY DEF Messages, None

\* Two messages never share source and id.
LEMMA KeysDiffer ==
  ASSUME IdsDoNotRepeat, NEW m1 \in Messages, NEW m2 \in Messages, Key(m1) = Key(m2)
  PROVE  m1 = m2
<1>1. m1[1] = m2[1] /\ m1[2] % IdSpace = m2[2] % IdSpace
  BY DEF Key, MsgId
<1>2. m1[2] \in 1..IdSpace /\ m2[2] \in 1..IdSpace
  BY MessageShape, CountAssumption DEF IdsDoNotRepeat
<1>3. m1[2] = m2[2]
  BY <1>1, <1>2, ModInjective, CountAssumption
<1> QED BY <1>1, <1>3, MessageShape

\* A sequence of slots with one of them taken out.
LEMMA RemoveAtProperties ==
  ASSUME NEW S, NEW q \in Seq(S), NEW i \in 1..Len(q)
  PROVE  /\ RemoveAt(q, i) \in Seq(S)
         /\ Len(RemoveAt(q, i)) = Len(q) - 1
         /\ \A j \in 1..(Len(q) - 1) : RemoveAt(q, i)[j] = q[IF j < i THEN j ELSE j + 1]
<1> DEFINE before == SubSeq(q, 1, i - 1)
           after == SubSeq(q, i + 1, Len(q))
<1>1. (\A j \in 1..Len(q) : q[j] \in S) /\ Len(q) \in Nat
  BY ElementOfSeq, LenProperties
<1>2. /\ before \in Seq(S) /\ Len(before) = i - 1
      /\ \A j \in 1..(i - 1) : before[j] = q[j]
  BY <1>1, SubSeqProperties
<1>3. /\ after \in Seq(S) /\ Len(after) = Len(q) - i
      /\ \A j \in 1..(Len(q) - i) : after[j] = q[j + i]
  BY <1>1, SubSeqProperties
<1>4. RemoveAt(q, i) = before \o after
  BY DEF RemoveAt
<1> HIDE DEF before, after
<1>5. /\ before \o after \in Seq(S)
      /\ Len(before \o after) = Len(before) + Len(after)
      /\ \A j \in 1..(Len(before) + Len(after)) :
            (before \o after)[j] = IF j <= Len(before) THEN before[j] ELSE after[j - Len(before)]
  BY <1>2, <1>3, ConcatProperties
<1>6. ASSUME NEW j \in 1..(Len(q) - 1)
      PROVE  (before \o after)[j] = q[IF j < i THEN j ELSE j + 1]
  BY <1>1, <1>2, <1>3, <1>5
<1> QED BY <1>1, <1>2, <1>3, <1>4, <1>5, <1>6

\* Dropping the oldest is removing the first.
LEMMA TailRemovesFirst ==
  ASSUME NEW S, NEW q \in Seq(S), Len(q) > 0
  PROVE  /\ Tail(q) = RemoveAt(q, 1) /\ Head(q) = q[1] /\ 1 \in 1..Len(q)
<1>1. Len(q) \in Nat /\ q # <<>>
  BY LenProperties, EmptySeq
<1>2. /\ Tail(q) \in Seq(S) /\ Len(Tail(q)) = Len(q) - 1
      /\ \A j \in 1..Len(Tail(q)) : Tail(q)[j] = q[j + 1]
  BY <1>1, HeadTailProperties
<1>3. /\ RemoveAt(q, 1) \in Seq(S) /\ Len(RemoveAt(q, 1)) = Len(q) - 1
      /\ \A j \in 1..(Len(q) - 1) : RemoveAt(q, 1)[j] = q[IF j < 1 THEN j ELSE j + 1]
  BY <1>1, RemoveAtProperties
<1>4. Tail(q) = RemoveAt(q, 1)
  BY <1>1, <1>2, <1>3, SeqEqual
<1>5. Head(q) = q[1]
  BY <1>1
<1> QED BY <1>1, <1>4, <1>5

\* No two slots are for the same source and id.
DistinctKeys(q) == \A i, j \in DOMAIN q : q[i].key = q[j].key => i = j

\* The fragments of m in slots q.
StoredIn(q, m) ==
    {k \in Nat : \E i \in DOMAIN q : q[i].key = Key(m) /\ k \in DOMAIN q[i].parts}
Stored(m) == StoredIn(slots, m)

\* Freeing a slot takes the fragments of its message, and of no other.
LEMMA FreeASlot ==
  ASSUME NEW S, NEW q \in Seq(S), DistinctKeys(q), NEW i \in 1..Len(q)
  PROVE  /\ DistinctKeys(RemoveAt(q, i))
         /\ \A j \in DOMAIN RemoveAt(q, i) : RemoveAt(q, i)[j].key # q[i].key
         /\ \A m : StoredIn(RemoveAt(q, i), m) =
                      IF Key(m) = q[i].key THEN {} ELSE StoredIn(q, m)
<1> DEFINE r == RemoveAt(q, i)
           at(j) == IF j < i THEN j ELSE j + 1
<1>1. /\ Len(q) \in Nat /\ DOMAIN q = 1..Len(q)
      /\ DOMAIN r = 1..(Len(q) - 1) /\ \A j \in DOMAIN r : r[j] = q[at(j)]
  BY RemoveAtProperties, LenProperties
<1> HIDE DEF r
<1>2. /\ \A j \in DOMAIN r : at(j) \in DOMAIN q \ {i}
      /\ \A j, k \in DOMAIN r : at(j) = at(k) => j = k
      /\ \A k \in DOMAIN q \ {i} : \E j \in DOMAIN r : at(j) = k
  <2>1. ASSUME NEW k \in DOMAIN q \ {i} PROVE \E j \in DOMAIN r : at(j) = k
    <3>1. CASE k < i
      BY <3>1, <1>1
    <3>2. CASE k > i
      <4>1. k - 1 \in DOMAIN r /\ at(k - 1) = k
        BY <3>2, <1>1
      <4> QED BY <4>1
    <3> QED BY <3>1, <3>2, <1>1
  <2> QED BY <2>1, <1>1
<1> HIDE DEF at
<1>3. DistinctKeys(r)
  BY <1>1, <1>2 DEF DistinctKeys
<1>4. \A j \in DOMAIN r : r[j].key # q[i].key
  BY <1>1, <1>2 DEF DistinctKeys
<1>5. ASSUME NEW m, Key(m) = q[i].key PROVE StoredIn(r, m) = {}
  BY <1>4, <1>5 DEF StoredIn
<1>6. ASSUME NEW m, Key(m) # q[i].key PROVE StoredIn(r, m) = StoredIn(q, m)
  BY <1>1, <1>2, <1>6 DEF StoredIn
<1> QED BY <1>3, <1>4, <1>5, <1>6 DEF r

\* A slot for a key that had none holds the fragments put there.
LEMMA UseASlot ==
  ASSUME NEW S, NEW q \in Seq(S), DistinctKeys(q), NEW e \in S,
         \A j \in DOMAIN q : q[j].key # e.key, DOMAIN e.parts \subseteq Nat
  PROVE  /\ DistinctKeys(Append(q, e))
         /\ \A m : StoredIn(Append(q, e), m) =
                      IF Key(m) = e.key THEN DOMAIN e.parts ELSE StoredIn(q, m)
<1> DEFINE r == Append(q, e)
<1>1. /\ Len(q) \in Nat /\ DOMAIN q = 1..Len(q) /\ DOMAIN r = 1..(Len(q) + 1)
      /\ \A j \in 1..Len(q) : r[j] = q[j]
      /\ r[Len(q) + 1] = e
  BY AppendProperties, LenProperties
<1> HIDE DEF r
<1>2. DistinctKeys(r)
  BY <1>1 DEF DistinctKeys
<1>3. ASSUME NEW m, Key(m) = e.key PROVE StoredIn(r, m) = DOMAIN e.parts
  BY <1>1, <1>3 DEF StoredIn
<1>4. ASSUME NEW m, Key(m) # e.key PROVE StoredIn(r, m) = StoredIn(q, m)
  BY <1>1, <1>4 DEF StoredIn
<1> QED BY <1>2, <1>3, <1>4 DEF r

-----------------------------------------------------------------------------
(* The inductive invariant.  tot tells how many fragments each message has: *)
(* sessions, frames and slots agree on it.                                 *)

\* Messages that have been offered, and so may be anywhere.
Begun == {m \in Messages : outcome[m] # "new"}

\* A slot with the fragments D of message m, one of n fragments; the record
\* that such a slot was lost.
SlotFor(m, n, D) == [key |-> Key(m), total |-> n, parts |-> [k \in D |-> m]]
RecordFor(m, D, live) == [key |-> Key(m), msgs |-> [k \in D |-> m], live |-> live]

\* A used slot holds some fragments of one message, not all.
Some(n) == (SUBSET (0..(n - 1))) \ {{}, 0..(n - 1)}
GoodSlots(tot) == UNION {{SlotFor(m, tot[m], D) : D \in Some(tot[m])} : m \in Begun}
GoodRecords ==
    UNION {UNION {{RecordFor(m, D, live) : live \in BOOLEAN} : D \in (SUBSET Nat) \ {{}}} :
              m \in Begun}

\* The senders: one message at a time, in order, retries within their budget.
SendersOK(tot) ==
    /\ session \in [Sources -> Sessions]
    /\ number \in [Sources -> Nat] /\ \A s \in Sources : number[s] <= Sends[s]
    /\ outcome \in [Messages -> {"new", "open", "ok", "sent", "failed"}]
    /\ \A m \in Messages : outcome[m] = "new" <=> m[2] > number[m[1]]
    /\ \A s \in Sources :
          LET e == session[s]
          IN  IF e.at = "idle" THEN e = Idle
              ELSE /\ number[s] > 0 /\ e.msg = <<s, number[s]>> /\ outcome[e.msg] = "open"
                   /\ e.total \in Totals /\ e.total = tot[e.msg] /\ e.next < e.total
                   /\ e.try <= e.retries + (IF e.at = "waiting" THEN 1 ELSE 0)
                   /\ e.at = "waiting" => e.ack
                   /\ ~e.ack => e.try = 0
                   /\ e.coming => e.at = "waiting"

\* The medium: fragments of messages that were offered.
AirOK(tot) ==
    /\ IsFiniteSet(air)
    /\ \A f \in air :
          /\ f.msg \in Begun /\ f.ack \in BOOLEAN
          /\ f.total = tot[f.msg] /\ f.total \in Totals /\ f.idx \in 0..(f.total - 1)

\* The receiver: a slot or a record is about one message.
SlotsOK(tot) ==
    slots \in Seq(GoodSlots(tot)) /\ Len(slots) <= Slots /\ DistinctKeys(slots)
RecordsOK == aborted \in Seq(GoodRecords) /\ Len(aborted) <= RingDepth
PayloadsOK ==
    \A p \in payloads : \E m \in Messages : \E D \in (SUBSET Nat) \ {{}} : p = [k \in D |-> m]
HandedOK == forgot \subseteq Messages /\ handed \in [Messages -> Nat] /\ PayloadsOK

\* What the receiver has acknowledged in a session is kept, wherever it is.
Passed(e) == IF e.coming THEN e.next + 1 ELSE e.next
Kept(e) ==
    \/ handed[e.msg] > 0
    \/ e.msg \in forgot
    \/ (IsAborted(Key(e.msg)) /\ Passed(e) < e.total)
    \/ 0..(Passed(e) - 1) \subseteq Stored(e.msg)
KeptOK == \A s \in Sources : session[s].ack /\ Passed(session[s]) > 0 => Kept(session[s])

\* Every hand-over uses up a transmission of the first fragment.
FirstInAir(m) == {f \in air : f.msg = m /\ f.idx = 0}
FirstHeld(m) == IF 0 \in Stored(m) THEN 1 ELSE 0
FirstSent(m) ==
    LET e == session[m[1]]
    IN  IF outcome[m] = "new" THEN 0
        ELSE IF e.at # "idle" /\ e.msg = m /\ e.next = 0 THEN e.try
        ELSE RetryMax + 1
BudgetOK ==
    \A m \in Messages :
        handed[m] + FirstHeld(m) + Cardinality(FirstInAir(m)) <= FirstSent(m)

IInv(tot) ==
    /\ SendersOK(tot) /\ AirOK(tot) /\ SlotsOK(tot) /\ RecordsOK
    /\ HandedOK /\ KeptOK /\ BudgetOK
Inv == \E tot \in [Messages -> Nat] : IInv(tot)

-----------------------------------------------------------------------------
(* What the receiver's operations do to it.                                *)

\* A good slot is the slot of one message.
LEMMA GoodSlotShape ==
  ASSUME NEW tot, NEW e \in GoodSlots(tot)
  PROVE  \E m \in Begun : \E D \in Some(tot[m]) : e = SlotFor(m, tot[m], D)
  BY DEF GoodSlots

\* And the slot of a message that was offered is good.
LEMMA GoodSlotIs ==
  ASSUME NEW tot, NEW m \in Begun, NEW D \in Some(tot[m])
  PROVE  SlotFor(m, tot[m], D) \in GoodSlots(tot)
  BY DEF GoodSlots

\* A good record is the record of one message.
LEMMA GoodRecordShape ==
  ASSUME NEW r \in GoodRecords
  PROVE  \E m \in Begun : \E D \in (SUBSET Nat) \ {{}} : \E live \in BOOLEAN :
            r = RecordFor(m, D, live)
<1>1. PICK R \in {UNION {{RecordFor(m, D, live) : live \in BOOLEAN} : D \in (SUBSET Nat) \ {{}}} :
                     m \in Begun} : r \in R
  BY DEF GoodRecords
<1>2. PICK m \in Begun :
         R = UNION {{RecordFor(m, D, live) : live \in BOOLEAN} : D \in (SUBSET Nat) \ {{}}}
  BY <1>1
<1>3. PICK D \in (SUBSET Nat) \ {{}} : r \in {RecordFor(m, D, live) : live \in BOOLEAN}
  BY <1>1, <1>2
<1> QED BY <1>3

\* And the record of a message that was offered is good.
LEMMA GoodRecordIs ==
  ASSUME NEW m \in Begun, NEW D \in (SUBSET Nat) \ {{}}, NEW live \in BOOLEAN
  PROVE  RecordFor(m, D, live) \in GoodRecords
<1>1. RecordFor(m, D, live) \in
         UNION {{RecordFor(m, C, l) : l \in BOOLEAN} : C \in (SUBSET Nat) \ {{}}}
  OBVIOUS
<1> QED BY <1>1 DEF GoodRecords

\* The slot of a message is the one that holds what is stored of it.
LEMMA SlotOfMessage ==
  ASSUME IdsDoNotRepeat, NEW tot \in [Messages -> Nat], SlotsOK(tot), NEW m \in Messages
  PROVE  /\ \A i \in SlotOf(Key(m)) :
               /\ i \in 1..Len(slots) /\ m \in Begun
               /\ Stored(m) \in Some(tot[m])
               /\ slots[i] = SlotFor(m, tot[m], Stored(m))
         /\ SlotOf(Key(m)) = {} => Stored(m) = {}
<1>1. ASSUME NEW i \in SlotOf(Key(m))
      PROVE  /\ i \in 1..Len(slots) /\ m \in Begun
             /\ Stored(m) \in Some(tot[m])
             /\ slots[i] = SlotFor(m, tot[m], Stored(m))
  <2>1. i \in 1..Len(slots) /\ DOMAIN slots = 1..Len(slots) /\ slots[i] \in GoodSlots(tot)
        /\ slots[i].key = Key(m)
    BY LenProperties, ElementOfSeq DEF SlotsOK, SlotOf
  <2>a. PICK n \in Begun : \E D \in Some(tot[n]) : slots[i] = SlotFor(n, tot[n], D)
    BY <2>1, GoodSlotShape
  <2>2. PICK D \in Some(tot[n]) : slots[i] = SlotFor(n, tot[n], D)
    BY <2>a
  <2>3. n = m
    BY <2>1, <2>2, KeysDiffer DEF SlotFor, Begun
  <2>4. D \subseteq Nat /\ tot[m] \in Nat
    BY <2>3, <2>2 DEF Some
  <2>5. DOMAIN slots[i].parts = D
    BY <2>2 DEF SlotFor
  <2>6. Stored(m) = D
    BY <2>1, <2>4, <2>5 DEF Stored, StoredIn, SlotsOK, DistinctKeys
  <2> QED BY <2>1, <2>2, <2>3, <2>6
<1>2. ASSUME SlotOf(Key(m)) = {} PROVE Stored(m) = {}
  BY <1>2 DEF Stored, StoredIn, SlotOf
<1> QED BY <1>1, <1>2

\* markAborted: the new record is there, and an old one is kept or forgotten.
LEMMA RecordIsKept ==
  ASSUME NEW m \in Begun, NEW n, NEW D \in (SUBSET Nat) \ {{}}, RecordsOK, HandedOK,
         MarkAborted(SlotFor(m, n, D)), IdsDoNotRepeat
  PROVE  /\ aborted' \in Seq(GoodRecords) /\ Len(aborted') <= RingDepth
         /\ forgot' \subseteq Messages /\ forgot \subseteq forgot'
         /\ IsAborted(Key(m))'
         /\ \A k \in Messages : IsAborted(Key(k)) => IsAborted(Key(k))' \/ k \in forgot'
<1> DEFINE entry == RecordFor(m, D, TRUE)
           full == Len(aborted) = RingDepth
           rest == IF full THEN Tail(aborted) ELSE aborted
<1>1. /\ aborted' = Append(rest, entry)
      /\ forgot' = IF full /\ Head(aborted).live
                   THEN forgot \cup Range(Head(aborted).msgs) ELSE forgot
  BY DEF MarkAborted, SlotFor, RecordFor
<1>2. entry \in GoodRecords
  BY GoodRecordIs
<1>3. RingDepth \in Nat \ {0} /\ Len(aborted) \in 0..RingDepth /\ aborted \in Seq(GoodRecords)
  BY CountAssumption, LenProperties DEF RingDepth, RecordsOK
<1>4. /\ rest \in Seq(GoodRecords) /\ Len(rest) < RingDepth /\ Len(rest) \in Nat
      /\ full => /\ Len(rest) = Len(aborted) - 1
                 /\ \A i \in 1..Len(rest) : rest[i] = aborted[i + 1]
                 /\ Head(aborted) = aborted[1]
      /\ ~full => rest = aborted
  <2>1. CASE full
    <3>1. aborted # <<>>
      BY <2>1, <1>3
    <3> QED BY <2>1, <3>1, <1>3, HeadTailProperties
  <2>2. CASE ~full
    BY <2>2, <1>3
  <2> QED BY <2>1, <2>2
<1> HIDE DEF rest, entry
<1>5. /\ aborted' \in Seq(GoodRecords) /\ Len(aborted') = Len(rest) + 1
      /\ \A i \in 1..Len(rest) : aborted'[i] = rest[i]
      /\ aborted'[Len(rest) + 1] = entry
      /\ DOMAIN aborted' = 1..Len(aborted')
  BY <1>1, <1>2, <1>4, AppendProperties, LenProperties
<1>6. IsAborted(Key(m))'
  <2>1. entry.key = Key(m) /\ entry.live
    BY DEF entry, RecordFor
  <2> QED BY <2>1, <1>4, <1>5 DEF IsAborted, Key, MsgId
<1>7. forgot' \subseteq Messages /\ forgot \subseteq forgot'
  <2>1. CASE full /\ Head(aborted).live
    <3>1. aborted[1] \in GoodRecords
      BY <1>3, <2>1, ElementOfSeq
    <3>2. Range(aborted[1].msgs) \subseteq Messages
      BY <3>1, GoodRecordShape DEF RecordFor, Range, Begun
    <3> QED BY <3>2, <2>1, <1>1, <1>4 DEF HandedOK
  <2>2. CASE ~(full /\ Head(aborted).live)
    BY <2>2, <1>1 DEF HandedOK
  <2> QED BY <2>1, <2>2
<1>8. ASSUME NEW k \in Messages, IsAborted(Key(k))
      PROVE  IsAborted(Key(k))' \/ k \in forgot'
  <2>1. PICK i \in 1..Len(aborted) : aborted[i].key = Key(k) /\ aborted[i].live
    BY <1>8, <1>3, LenProperties DEF IsAborted
  <2>2. CASE full /\ i = 1
    <3>0. aborted[1] \in GoodRecords
      BY <1>3, <2>1, <2>2, ElementOfSeq
    <3>1. PICK n1 \in Begun : \E D1 \in (SUBSET Nat) \ {{}} : \E live \in BOOLEAN :
             aborted[1] = RecordFor(n1, D1, live)
      BY <3>0, GoodRecordShape
    <3>2. n1 = k
      BY <3>1, <2>1, <2>2, KeysDiffer DEF RecordFor, Begun
    <3>3. k \in Range(aborted[1].msgs)
      BY <3>1, <3>2 DEF RecordFor, Range
    <3> QED BY <3>3, <2>1, <2>2, <1>1, <1>4
  <2>3. CASE ~(full /\ i = 1)
    <3>1. \E j \in 1..Len(rest) : aborted'[j] = aborted[i]
      <4>1. CASE full
        <5>1. i - 1 \in 1..Len(rest) /\ aborted'[i - 1] = aborted[i]
          BY <4>1, <2>3, <1>3, <1>4, <1>5
        <5> QED BY <5>1
      <4>2. CASE ~full
        BY <4>2, <1>4, <1>5
      <4> QED BY <4>1, <4>2
    <3>2. PICK j \in 1..Len(rest) : aborted'[j] = aborted[i]
      BY <3>1
    <3>3. j \in DOMAIN aborted'
      BY <1>4, <1>5
    <3> QED BY <3>2, <3>3, <2>1 DEF IsAborted, Key, MsgId
  <2> QED BY <2>2, <2>3
<1> QED BY <1>3, <1>4, <1>5, <1>6, <1>7, <1>8

\* Writing one more fragment into the slot with the fragments D of m, next to
\* the other slots: they stay, and m gains it or is handed over.
StoreDone(m, f, D, others, tot) ==
    /\ slots' \in Seq(GoodSlots(tot)) /\ Len(slots') <= Slots /\ DistinctKeys(slots')
    /\ handed' \in [Messages -> Nat] /\ PayloadsOK'
    /\ \A k \in Messages \ {m} : handed'[k] = handed[k] /\ Stored(k)' = StoredIn(others, k)
    /\ IF D \cup {f.idx} = 0..(f.total - 1)
       THEN Stored(m)' = {} /\ handed'[m] = handed[m] + 1
       ELSE Stored(m)' = D \cup {f.idx} /\ handed'[m] = handed[m]

\* Storing a fragment: the message is handed over when it is complete, and has
\* one fragment more otherwise.
LEMMA StoreEffect ==
  ASSUME IdsDoNotRepeat, NEW tot \in [Messages -> Nat], NEW m \in Begun, NEW f,
         f.msg = m, f.total = tot[m], f.total > 1, f.idx \in 0..(f.total - 1), HandedOK,
         NEW D, D \subseteq 0..(f.total - 1), f.idx \notin D,
         NEW others \in Seq(GoodSlots(tot)), DistinctKeys(others), Len(others) < Slots,
         \A i \in DOMAIN others : others[i].key # Key(m),
         Store(SlotFor(m, f.total, D), others, f)
  PROVE  StoreDone(m, f, D, others, tot)
<1> DEFINE base == SlotFor(m, f.total, D)
           E == D \cup {f.idx}
           parts == [i \in E |-> m]
           new == SlotFor(m, f.total, E)
<1>1. DOMAIN base.parts = D /\ \A i \in D : base.parts[i] = m
  BY DEF SlotFor
<1>2. [i \in DOMAIN base.parts \cup {f.idx} |-> IF i = f.idx THEN f.msg ELSE base.parts[i]] = parts
  BY <1>1
<1>3. [base EXCEPT !.parts = parts] = new
  BY DEF SlotFor
<1>4. DOMAIN parts = E
  OBVIOUS
<1>5. IF E = 0..(f.total - 1)
      THEN slots' = others /\ handed' = [handed EXCEPT ![m] = @ + 1]
           /\ payloads' = payloads \cup {parts}
      ELSE slots' = Append(others, new) /\ UNCHANGED <<handed, payloads>>
  BY <1>2, <1>3, <1>4, Zenon DEF Store
<1>6. m \in Messages /\ f.total \in Nat
  BY DEF Begun
<1>7. E \subseteq 0..(f.total - 1) /\ E \subseteq Nat /\ E # {}
  <2>1. E \subseteq 0..(f.total - 1) /\ f.idx \in E
    OBVIOUS
  <2> QED BY <2>1, <1>6
<1> HIDE DEF E, parts, new, base
<1>8. CASE E = 0..(f.total - 1)
  <2>1. slots' = others /\ handed' = [handed EXCEPT ![m] = @ + 1]
        /\ payloads' = payloads \cup {parts}
    BY <1>5, <1>8
  <2>2. handed' \in [Messages -> Nat] /\ handed'[m] = handed[m] + 1
        /\ \A k \in Messages \ {m} : handed'[k] = handed[k]
    BY <2>1, <1>6 DEF HandedOK
  <2>3. Stored(m)' = {}
    BY <2>1 DEF Stored, StoredIn, Key, MsgId
  <2>4. \A k \in Messages : Stored(k)' = StoredIn(others, k)
    BY <2>1 DEF Stored, StoredIn, Key, MsgId
  <2>5. \E k \in Messages : \E C \in (SUBSET Nat) \ {{}} : parts = [i \in C |-> k]
    BY <1>6, <1>7 DEF parts
  <2>6. PayloadsOK'
    BY <2>1, <2>5 DEF HandedOK, PayloadsOK
  <2>7. Len(slots') <= Slots
    BY <2>1, LenProperties, CountAssumption
  <2>8. D \cup {f.idx} = 0..(f.total - 1)
    BY <1>8 DEF E
  <2> QED BY <2>1, <2>2, <2>3, <2>4, <2>6, <2>7, <2>8 DEF StoreDone
<1>9. CASE E # 0..(f.total - 1)
  <2>1. slots' = Append(others, new) /\ UNCHANGED <<handed, payloads>>
    BY <1>5, <1>9
  <2>2. E \in Some(tot[m])
    BY <1>6, <1>7, <1>9 DEF Some
  <2>3. new \in GoodSlots(tot)
    BY <2>2, GoodSlotIs DEF new
  <2>4. new.key = Key(m) /\ DOMAIN new.parts = E
    BY DEF new, SlotFor
  <2>5. /\ DistinctKeys(Append(others, new))
        /\ \A k : StoredIn(Append(others, new), k) =
                     IF Key(k) = new.key THEN DOMAIN new.parts ELSE StoredIn(others, k)
    <3>1. DOMAIN new.parts \subseteq Nat /\ \A i \in DOMAIN others : others[i].key # new.key
      BY <2>4, <1>7
    <3> QED BY <2>3, <3>1, UseASlot
  <2>6. slots' \in Seq(GoodSlots(tot)) /\ Len(slots') <= Slots
    BY <2>1, <2>3, AppendProperties, LenProperties, CountAssumption
  <2>7. \A k : Stored(k)' = StoredIn(slots', k)
    BY DEF Stored, StoredIn, Key, MsgId
  <2>8. \A k \in Messages \ {m} : Stored(k)' = StoredIn(others, k)
    BY <2>1, <2>4, <2>5, <2>7, <1>6, KeysDiffer
  <2>9. Stored(m)' = D \cup {f.idx} /\ D \cup {f.idx} # 0..(f.total - 1)
    BY <2>1, <2>4, <2>5, <2>7, <1>9 DEF E
  <2> QED BY <2>1, <2>5, <2>6, <2>8, <2>9, <1>6 DEF HandedOK, PayloadsOK, StoreDone
<1> QED BY <1>8, <1>9

\* What the ring of aborted messages does when slots are lost.
RecordsGoOn ==
    /\ aborted' \in Seq(GoodRecords) /\ Len(aborted') <= RingDepth
    /\ forgot' \subseteq Messages /\ forgot \subseteq forgot'
    /\ \A k \in Messages : IsAborted(Key(k)) => IsAborted(Key(k))' \/ k \in forgot'

\* A slot given up: its message is recorded, every other keeps its fragments.
LEMMA LoseASlot ==
  ASSUME IdsDoNotRepeat, NEW tot \in [Messages -> Nat], SlotsOK(tot), RecordsOK, HandedOK,
         NEW i \in 1..Len(slots), MarkAborted(slots[i])
  PROVE  /\ RemoveAt(slots, i) \in Seq(GoodSlots(tot))
         /\ Len(RemoveAt(slots, i)) = Len(slots) - 1
         /\ DistinctKeys(RemoveAt(slots, i))
         /\ \A j \in DOMAIN RemoveAt(slots, i) :
               \E h \in DOMAIN slots : RemoveAt(slots, i)[j] = slots[h]
         /\ RecordsGoOn
         /\ \A k \in Messages :
               \/ StoredIn(RemoveAt(slots, i), k) = Stored(k)
               \/ /\ StoredIn(RemoveAt(slots, i), k) = {}
                  /\ IsAborted(Key(k))' /\ Stored(k) \in Some(tot[k])
<1>1. slots \in Seq(GoodSlots(tot)) /\ DistinctKeys(slots)
  BY DEF SlotsOK
<1>2. slots[i] \in GoodSlots(tot)
  BY <1>1, ElementOfSeq
<1>3. PICK m \in Begun : \E D \in Some(tot[m]) : slots[i] = SlotFor(m, tot[m], D)
  BY <1>2, GoodSlotShape
<1>4. PICK D \in Some(tot[m]) : slots[i] = SlotFor(m, tot[m], D)
  BY <1>3
<1>5. m \in Messages /\ slots[i].key = Key(m) /\ i \in SlotOf(Key(m))
  BY <1>1, <1>4, LenProperties DEF Begun, SlotFor, SlotOf
<1>6. Stored(m) \in Some(tot[m])
  BY <1>5, SlotOfMessage
<1>7. D \in (SUBSET Nat) \ {{}}
  BY <1>5 DEF Some
<1>8. RecordsGoOn /\ IsAborted(Key(m))'
  BY <1>4, <1>7, RecordIsKept DEF RecordsGoOn
<1>9. /\ DistinctKeys(RemoveAt(slots, i))
      /\ \A k : StoredIn(RemoveAt(slots, i), k) =
                   IF Key(k) = slots[i].key THEN {} ELSE StoredIn(slots, k)
  BY <1>1, FreeASlot
<1>10. ASSUME NEW k \in Messages
       PROVE  \/ StoredIn(RemoveAt(slots, i), k) = Stored(k)
              \/ /\ StoredIn(RemoveAt(slots, i), k) = {}
                 /\ IsAborted(Key(k))' /\ Stored(k) \in Some(tot[k])
  <2>1. CASE k = m
    BY <2>1, <1>5, <1>6, <1>8, <1>9
  <2>2. CASE k # m
    BY <2>2, <1>5, <1>9, KeysDiffer DEF Stored
  <2> QED BY <2>1, <2>2
<1>11. /\ RemoveAt(slots, i) \in Seq(GoodSlots(tot))
       /\ Len(RemoveAt(slots, i)) = Len(slots) - 1
       /\ \A j \in 1..(Len(slots) - 1) : RemoveAt(slots, i)[j] = slots[IF j < i THEN j ELSE j + 1]
  BY <1>1, RemoveAtProperties
<1>12. \A j \in DOMAIN RemoveAt(slots, i) :
          \E h \in DOMAIN slots : RemoveAt(slots, i)[j] = slots[h]
  <2> SUFFICES ASSUME NEW j \in DOMAIN RemoveAt(slots, i)
               PROVE  \E h \in DOMAIN slots : RemoveAt(slots, i)[j] = slots[h]
    OBVIOUS
  <2>1. DOMAIN slots = 1..Len(slots) /\ Len(slots) \in Nat /\ j \in 1..(Len(slots) - 1)
    BY <1>1, <1>11, LenProperties
  <2>2. (IF j < i THEN j ELSE j + 1) \in DOMAIN slots
    BY <2>1
  <2> QED BY <2>1, <2>2, <1>11
<1> QED BY <1>8, <1>9, <1>10, <1>11, <1>12

\* Reassembler::ingest: the fragment's message gains it, is complete, or had it
\* already; every other message keeps what it has or is recorded as aborted.
LEMMA IngestEffect ==
  ASSUME IdsDoNotRepeat, NEW tot \in [Messages -> Nat], SlotsOK(tot), RecordsOK, HandedOK,
         NEW m \in Begun, NEW f, f.msg = m, f.total = tot[m], f.total > 1,
         f.idx \in 0..(f.total - 1), Ingest(f)
  PROVE  /\ slots' \in Seq(GoodSlots(tot)) /\ Len(slots') <= Slots /\ DistinctKeys(slots')
         /\ RecordsGoOn
         /\ handed' \in [Messages -> Nat] /\ PayloadsOK'
         /\ \A k \in Messages \ {m} :
               /\ handed'[k] = handed[k]
               /\ \/ Stored(k)' = Stored(k)
                  \/ /\ Stored(k)' = {}
                     /\ IsAborted(Key(k))' /\ Stored(k) \in Some(tot[k])
         /\ \/ /\ f.idx \in Stored(m)
               /\ Stored(m)' = Stored(m) /\ handed'[m] = handed[m]
            \/ /\ f.idx \notin Stored(m) /\ Stored(m) \cup {f.idx} = 0..(f.total - 1)
               /\ Stored(m)' = {} /\ handed'[m] = handed[m] + 1 /\ forgot' = forgot
            \/ /\ f.idx \notin Stored(m)
               /\ Stored(m)' = Stored(m) \cup {f.idx} /\ handed'[m] = handed[m]
<1>1. /\ slots \in Seq(GoodSlots(tot)) /\ Len(slots) <= Slots /\ DistinctKeys(slots)
      /\ Len(slots) \in Nat /\ DOMAIN slots = 1..Len(slots)
      /\ m \in Messages
  BY LenProperties DEF SlotsOK, Begun
<1>2. ASSUME UNCHANGED <<aborted, forgot>> PROVE RecordsGoOn
  BY <1>2 DEF RecordsGoOn, RecordsOK, HandedOK, IsAborted, Key, MsgId
<1>3. Fresh(f) = SlotFor(m, f.total, {})
  BY DEF Fresh, SlotFor
<1>4. CASE SlotOf(Key(m)) # {}
  <2> DEFINE i == CHOOSE j \in SlotOf(Key(f.msg)) : TRUE
  <2>1. i \in SlotOf(Key(m))
    BY <1>4
  <2> HIDE DEF i
  <2>2. /\ i \in 1..Len(slots) /\ Stored(m) \in Some(f.total)
        /\ slots[i] = SlotFor(m, f.total, Stored(m))
    BY <2>1, <1>1, SlotOfMessage
  <2>3. Base(slots[i], f) = SlotFor(m, f.total, Stored(m))
    BY <2>2 DEF Base, SlotFor
  <2>4. DOMAIN SlotFor(m, f.total, Stored(m)).parts = Stored(m)
    BY DEF SlotFor
  <2>5. IF f.idx \in Stored(m)
        THEN UNCHANGED <<slots, handed, payloads, aborted, forgot>>
        ELSE /\ Store(SlotFor(m, f.total, Stored(m)), RemoveAt(slots, i), f)
             /\ UNCHANGED <<aborted, forgot>>
    BY <1>4, <2>3, <2>4 DEF Ingest, i
  <2>6. CASE f.idx \in Stored(m)
    <3>1. UNCHANGED <<slots, handed, payloads, aborted, forgot>>
      BY <2>5, <2>6
    <3>2. \A k \in Messages : Stored(k)' = Stored(k)
      BY <3>1 DEF Stored, StoredIn, Key, MsgId
    <3> QED BY <1>1, <1>2, <2>6, <3>1, <3>2 DEF HandedOK, PayloadsOK
  <2>7. CASE f.idx \notin Stored(m)
    <3>1. /\ Store(SlotFor(m, f.total, Stored(m)), RemoveAt(slots, i), f)
          /\ UNCHANGED <<aborted, forgot>>
      BY <2>5, <2>7
    <3>2. slots[i].key = Key(m)
      BY <2>2 DEF SlotFor
    <3>3. /\ RemoveAt(slots, i) \in Seq(GoodSlots(tot))
          /\ Len(RemoveAt(slots, i)) < Slots
          /\ DistinctKeys(RemoveAt(slots, i))
          /\ \A j \in DOMAIN RemoveAt(slots, i) : RemoveAt(slots, i)[j].key # Key(m)
          /\ \A k \in Messages \ {m} : StoredIn(RemoveAt(slots, i), k) = Stored(k)
      <4>1. \A k \in Messages \ {m} : Key(k) # Key(m)
        BY <1>1, KeysDiffer
      <4>2. /\ RemoveAt(slots, i) \in Seq(GoodSlots(tot))
            /\ Len(RemoveAt(slots, i)) = Len(slots) - 1
        BY <1>1, <2>2, RemoveAtProperties
      <4>3. Len(slots) - 1 < Slots
        BY <1>1, CountAssumption
      <4> QED BY <1>1, <2>2, <3>2, <4>1, <4>2, <4>3, FreeASlot DEF Stored
    <3>4. Stored(m) \subseteq 0..(f.total - 1)
      BY <2>2 DEF Some
    <3> HIDE DEF Stored
    <3>5. StoreDone(m, f, Stored(m), RemoveAt(slots, i), tot)
      BY <2>7, <3>1, <3>3, <3>4, StoreEffect
    <3> QED BY <1>2, <2>7, <3>1, <3>3, <3>5 DEF StoreDone
  <2> QED BY <2>6, <2>7
<1>5. ASSUME SlotOf(Key(m)) = {},
             NEW others \in Seq(GoodSlots(tot)), DistinctKeys(others), Len(others) < Slots,
             \A j \in DOMAIN others : \E h \in DOMAIN slots : others[j] = slots[h],
             RecordsGoOn,
             \A k \in Messages :
               \/ StoredIn(others, k) = Stored(k)
               \/ /\ StoredIn(others, k) = {}
                  /\ IsAborted(Key(k))' /\ Stored(k) \in Some(tot[k]),
             Store(Fresh(f), others, f)
      PROVE  /\ slots' \in Seq(GoodSlots(tot)) /\ Len(slots') <= Slots /\ DistinctKeys(slots')
             /\ handed' \in [Messages -> Nat] /\ PayloadsOK'
             /\ \A k \in Messages \ {m} :
                   /\ handed'[k] = handed[k]
                   /\ \/ Stored(k)' = Stored(k)
                      \/ /\ Stored(k)' = {}
                         /\ IsAborted(Key(k))' /\ Stored(k) \in Some(tot[k])
             /\ f.idx \notin Stored(m)
             /\ Stored(m)' = Stored(m) \cup {f.idx} /\ handed'[m] = handed[m]
  <2>1. Stored(m) = {}
    BY <1>1, <1>5, SlotOfMessage
  <2>2. \A j \in DOMAIN others : others[j].key # Key(m)
    BY <1>5 DEF SlotOf
  <2>3. {} \cup {f.idx} # 0..(f.total - 1)
    <3>1. 0 \in 0..(f.total - 1) /\ 1 \in 0..(f.total - 1)
      BY <1>1
    <3> QED BY <3>1
  <2>4. StoreDone(m, f, {}, others, tot)
    BY <1>3, <1>5, <2>2, StoreEffect
  <2> QED BY <2>1, <2>3, <2>4, <1>5 DEF StoreDone
<1>6. CASE SlotOf(Key(m)) = {} /\ Len(slots) < Slots
  <2>1. Store(Fresh(f), slots, f) /\ UNCHANGED <<aborted, forgot>>
    BY <1>6 DEF Ingest
  <2> QED BY <1>1, <1>2, <1>5, <1>6, <2>1 DEF Stored
<1>7. CASE SlotOf(Key(m)) = {} /\ ~(Len(slots) < Slots)
  <2>1. Store(Fresh(f), Tail(slots), f) /\ MarkAborted(Head(slots))
    BY <1>7 DEF Ingest
  <2>2. Len(slots) > 0
    BY <1>1, <1>7, CountAssumption
  <2>3. Tail(slots) = RemoveAt(slots, 1) /\ Head(slots) = slots[1] /\ 1 \in 1..Len(slots)
    BY <1>1, <2>2, TailRemovesFirst
  <2>4. Len(slots) - 1 < Slots
    BY <1>1, CountAssumption
  <2> QED BY <1>5, <1>7, <2>1, <2>3, <2>4, LoseASlot
<1> QED BY <1>4, <1>6, <1>7

-----------------------------------------------------------------------------
(* The steps of the senders.                                               *)

\* The receiver's part of the invariant, when only senders move.
LEMMA ReceiverStays ==
  ASSUME NEW tot \in [Messages -> Nat], NEW tot2 \in [Messages -> Nat],
         SlotsOK(tot), RecordsOK, HandedOK, UNCHANGED receiverVars,
         Begun \subseteq Begun', \A m \in Begun : tot2[m] = tot[m]
  PROVE  /\ SlotsOK(tot2)' /\ RecordsOK' /\ HandedOK'
         /\ \A m : Stored(m)' = Stored(m) /\ IsAborted(Key(m))' = IsAborted(Key(m))
<1>1. UNCHANGED <<slots, aborted, handed, payloads, forgot>>
  BY DEF receiverVars
<1>2. GoodSlots(tot) \subseteq GoodSlots(tot2)'
  <2> SUFFICES ASSUME NEW e \in GoodSlots(tot) PROVE e \in GoodSlots(tot2)'
    OBVIOUS
  <2>1. PICK m \in Begun : \E D \in Some(tot[m]) : e = SlotFor(m, tot[m], D)
    BY GoodSlotShape
  <2>2. e \in {SlotFor(m, tot2[m], D) : D \in Some(tot2[m])}
    BY <2>1
  <2> QED BY <2>1, <2>2 DEF GoodSlots
<1>3. GoodRecords \subseteq GoodRecords'
  BY DEF GoodRecords
<1>4. SlotsOK(tot2)'
  BY <1>1, <1>2, SeqMonotonic DEF SlotsOK, DistinctKeys
<1>5. RecordsOK'
  BY <1>1, <1>3, SeqMonotonic DEF RecordsOK
<1>6. HandedOK'
  BY <1>1 DEF HandedOK, PayloadsOK
<1>7. \A m : Stored(m)' = Stored(m)
  BY <1>1 DEF Stored, StoredIn, Key, MsgId
<1>8. \A m : IsAborted(Key(m))' = IsAborted(Key(m))
  BY <1>1 DEF IsAborted, Key, MsgId
<1> QED BY <1>4, <1>5, <1>6, <1>7, <1>8

\* A session that goes on with its message, and one that is over.
GoesOn(s) ==
    LET old == session[s]
        new == session'[s]
    IN  /\ session' = [session EXCEPT ![s] = new] /\ UNCHANGED <<number, outcome>>
        /\ new \in Sessions /\ new.at # "idle"
        /\ new.msg = old.msg /\ new.total = old.total /\ new.ack = old.ack
        /\ new.next < new.total
        /\ new.try <= new.retries + (IF new.at = "waiting" THEN 1 ELSE 0)
        /\ new.at = "waiting" => new.ack
        /\ ~new.ack => new.try = 0
        /\ new.coming => new.at = "waiting"
        /\ new.ack => Passed(new) <= Passed(old)
        /\ new.next > old.next \/ (new.next = old.next /\ new.try >= old.try)
IsOver(s) ==
    /\ session' = [session EXCEPT ![s] = Idle] /\ number' = number
    /\ \E how \in {"ok", "sent", "failed"} : outcome' = [outcome EXCEPT ![session[s].msg] = how]

\* A session that is not idle is about the newest message of its sender.
LEMMA ActiveSession ==
  ASSUME NEW tot, SendersOK(tot), NEW s \in Sources, session[s].at # "idle"
  PROVE  /\ session[s] \in Sessions /\ session[s].msg \in Messages
         /\ session[s].msg = <<s, number[s]>> /\ session[s].msg[1] = s
         /\ session[s].msg \in Begun /\ outcome[session[s].msg] = "open"
         /\ session[s].total = tot[session[s].msg] /\ session[s].total \in Totals
         /\ session[s].next \in 0..(session[s].total - 1)
         /\ session[s].try <= session[s].retries + (IF session[s].at = "waiting" THEN 1 ELSE 0)
         /\ session[s].at = "waiting" => session[s].ack
         /\ ~session[s].ack => session[s].try = 0
         /\ session[s].coming => session[s].at = "waiting"
<1>1. session[s].msg = <<s, number[s]>> /\ number[s] \in 1..Sends[s]
  BY CountAssumption DEF SendersOK
<1>2. session[s].msg \in Messages
  BY <1>1, MessageShape
<1>3. session[s].total \in Nat /\ session[s].next \in Nat
  BY CountAssumption DEF SendersOK, Sessions
<1> QED BY <1>1, <1>2, <1>3 DEF SendersOK, Begun, Sessions

\* A step of one session keeps the senders and the receiver in order, and takes
\* back no transmission.
LEMMA SessionMoves ==
  ASSUME NEW tot \in [Messages -> Nat], IInv(tot), NEW s \in Sources,
         session[s].at # "idle", GoesOn(s) \/ IsOver(s), UNCHANGED receiverVars
  PROVE  /\ SendersOK(tot)' /\ SlotsOK(tot)' /\ RecordsOK' /\ HandedOK' /\ KeptOK'
         /\ Begun' = Begun
         /\ \A m \in Messages : FirstSent(m) <= FirstSent(m)'
<1> DEFINE m == session[s].msg
<1>1. SendersOK(tot) /\ KeptOK /\ SlotsOK(tot) /\ RecordsOK /\ HandedOK
  BY DEF IInv
<1>2. m \in Messages /\ m = <<s, number[s]>> /\ m[1] = s /\ outcome[m] = "open"
  BY <1>1, ActiveSession
<1> HIDE DEF m
<1>3. /\ outcome' \in [Messages -> {"new", "open", "ok", "sent", "failed"}]
      /\ Begun' = Begun
      /\ \A k \in Messages : (outcome'[k] = "new") <=> (outcome[k] = "new")
      /\ \A k \in Messages \ {m} : outcome'[k] = outcome[k]
  <2>1. CASE GoesOn(s)
    BY <2>1, <1>1 DEF GoesOn, Begun, SendersOK
  <2>2. CASE IsOver(s)
    BY <2>2, <1>1, <1>2 DEF IsOver, Begun, SendersOK, m
  <2> QED BY <2>1, <2>2
<1>4. session' \in [Sources -> Sessions] /\ \A t \in Sources \ {s} : session'[t] = session[t]
  <2>1. Idle \in Sessions
    BY CountAssumption DEF Idle, Sessions
  <2> QED BY <1>1, <2>1 DEF GoesOn, IsOver, SendersOK
<1>5. number' = number
  BY DEF GoesOn, IsOver
<1>6. SendersOK(tot)'
  <2>1. ASSUME NEW t \in Sources
        PROVE  LET e == session'[t]
               IN  IF e.at = "idle" THEN e = Idle
                   ELSE /\ number[t] > 0 /\ e.msg = <<t, number[t]>> /\ outcome'[e.msg] = "open"
                        /\ e.total \in Totals /\ e.total = tot[e.msg] /\ e.next < e.total
                        /\ e.try <= e.retries + (IF e.at = "waiting" THEN 1 ELSE 0)
                        /\ e.at = "waiting" => e.ack
                        /\ ~e.ack => e.try = 0
                        /\ e.coming => e.at = "waiting"
    <3>1. CASE t # s
      <4>1. session[t].at # "idle" => session[t].msg \in Messages \ {m}
        BY <1>1, <1>2, <3>1, ActiveSession
      <4>2. session'[t] = session[t]
        BY <1>4, <3>1
      <4> QED BY <4>1, <4>2, <1>1, <1>3 DEF SendersOK
    <3>2. CASE t = s /\ GoesOn(s)
      BY <3>2, <1>1 DEF GoesOn, SendersOK
    <3>3. CASE t = s /\ IsOver(s)
      BY <3>3, <1>1 DEF IsOver, SendersOK, Idle
    <3> QED BY <3>1, <3>2, <3>3
  <2>2. \A k \in Messages : (outcome'[k] = "new") <=> (k[2] > number[k[1]])
    BY <1>1, <1>3 DEF SendersOK
  <2> QED BY <1>1, <1>3, <1>4, <1>5, <2>1, <2>2 DEF SendersOK
<1>7. /\ SlotsOK(tot)' /\ RecordsOK' /\ HandedOK'
      /\ \A k : Stored(k)' = Stored(k) /\ IsAborted(Key(k))' = IsAborted(Key(k))
  BY <1>1, <1>3, ReceiverStays
<1>8. KeptOK'
  <2> SUFFICES ASSUME NEW t \in Sources, session'[t].ack, Passed(session'[t]) > 0
               PROVE  Kept(session[t])'
    BY DEF KeptOK, Passed
  <2>1. /\ session[t].ack /\ session'[t].msg = session[t].msg
        /\ session'[t].total = session[t].total
        /\ Passed(session'[t]) <= Passed(session[t])
    BY <1>4, <1>1 DEF GoesOn, IsOver, Idle, SendersOK, Passed, Sessions
  <2>a. session[t] \in Sessions /\ session'[t] \in Sessions
    BY <1>1, <1>4 DEF SendersOK
  <2>b. Passed(session'[t]) \in Nat /\ Passed(session[t]) \in Nat /\ session[t].total \in Nat
    BY <2>a, CountAssumption DEF Passed, Sessions
  <2>2. Kept(session[t])
    BY <2>1, <2>b, <1>1 DEF KeptOK
  <2>3. UNCHANGED <<handed, forgot>>
    BY DEF receiverVars
  <2>4. Passed(session[t])' = Passed(session'[t])
    BY DEF Passed
  <2> QED BY <1>7, <2>1, <2>2, <2>3, <2>4, <2>b DEF Kept
<1>9. ASSUME NEW k \in Messages PROVE FirstSent(k) <= FirstSent(k)'
  <2>0. k[1] \in Sources /\ RetryMax \in Nat
    BY MessageShape, CountAssumption
  <2>1. CASE k[1] # s
    <3>1. k # m
      BY <2>1, <1>2
    <3>2. session'[k[1]] = session[k[1]] /\ outcome'[k] = outcome[k]
      BY <1>3, <1>4, <2>0, <2>1, <3>1
    <3>3. FirstSent(k) \in Nat
      BY <2>0, <1>1 DEF FirstSent, SendersOK, Sessions
    <3> QED BY <3>2, <3>3 DEF FirstSent
  <2>2. CASE k[1] = s /\ GoesOn(s)
    <3>1. session'[s].try \in 0..(RetryMax + 1) /\ session[s].try \in 0..(RetryMax + 1)
          /\ session'[s].next \in Nat /\ session[s].next \in Nat
      BY <1>4, <1>1 DEF SendersOK, Sessions
    <3> QED BY <2>0, <2>2, <3>1, <1>3 DEF FirstSent, GoesOn
  <2>3. CASE k[1] = s /\ IsOver(s)
    <3>1. session'[s].at = "idle" /\ session[s].try \in 0..(RetryMax + 1)
      BY <2>3, <1>1 DEF IsOver, Idle, SendersOK, Sessions
    <3> QED BY <2>0, <2>3, <3>1, <1>3 DEF FirstSent
  <2> QED BY <2>1, <2>2, <2>3
<1> QED BY <1>3, <1>6, <1>7, <1>8, <1>9

\* Nothing new on the air: the budgets hold.
LEMMA BudgetStays ==
  ASSUME NEW tot \in [Messages -> Nat], IInv(tot), UNCHANGED <<air, handed>>,
         \A m \in Messages : Stored(m)' = Stored(m) /\ FirstSent(m) <= FirstSent(m)'
                             /\ FirstSent(m)' \in Nat
  PROVE  BudgetOK'
<1> SUFFICES ASSUME NEW m \in Messages
             PROVE  (handed[m] + FirstHeld(m) + Cardinality(FirstInAir(m)) <= FirstSent(m))'
  BY DEF BudgetOK, FirstHeld, FirstInAir, FirstSent, Stored, StoredIn, Key, MsgId
<1>1. IsFiniteSet(FirstInAir(m))
  BY FS_Subset DEF FirstInAir, IInv, AirOK
<1>2. Cardinality(FirstInAir(m)) \in Nat /\ handed[m] \in Nat /\ FirstHeld(m) \in Nat
  BY <1>1, FS_CardinalityType DEF IInv, HandedOK, FirstHeld
<1>3. FirstInAir(m)' = FirstInAir(m) /\ FirstHeld(m)' = FirstHeld(m)
  BY DEF FirstInAir, FirstHeld
<1>4. handed[m] + FirstHeld(m) + Cardinality(FirstInAir(m)) <= FirstSent(m)
  BY DEF IInv, BudgetOK
<1>5. FirstSent(m) \in Nat
  <2>1. m[1] \in Sources /\ session \in [Sources -> Sessions]
    BY MessageShape DEF IInv, SendersOK
  <2> QED BY <2>1, CountAssumption DEF FirstSent, Sessions
<1> QED BY <1>2, <1>3, <1>4, <1>5

\* A first fragment is transmitted at most RetryMax + 1 times.
LEMMA FirstSentIsNat ==
  ASSUME session \in [Sources -> Sessions], NEW m \in Messages
  PROVE  FirstSent(m) \in 0..(RetryMax + 1)
  BY MessageShape, CountAssumption DEF FirstSent, Sessions

\* A step of one session that puts nothing on the air.
LEMMA QuietStep ==
  ASSUME NEW tot \in [Messages -> Nat], IInv(tot), NEW s \in Sources,
         session[s].at # "idle", GoesOn(s) \/ IsOver(s), UNCHANGED <<receiverVars, air>>
  PROVE  IInv(tot)'
<1>1. /\ SendersOK(tot)' /\ SlotsOK(tot)' /\ RecordsOK' /\ HandedOK' /\ KeptOK'
      /\ Begun' = Begun /\ \A m \in Messages : FirstSent(m) <= FirstSent(m)'
  BY SessionMoves
<1>2. AirOK(tot)'
  BY <1>1 DEF AirOK, IInv
<1>3. \A m \in Messages : Stored(m)' = Stored(m)
  BY DEF receiverVars, Stored, StoredIn, Key, MsgId
<1>4. \A m \in Messages : FirstSent(m)' \in Nat
  <2>1. (session \in [Sources -> Sessions])'
    BY <1>1 DEF SendersOK
  <2> QED BY <2>1, MessageShape, CountAssumption DEF FirstSent, Sessions
<1>5. BudgetOK'
  BY <1>1, <1>3, <1>4, BudgetStays DEF receiverVars
<1> QED BY <1>1, <1>2, <1>5 DEF IInv

\* A retry goes on with the fragment, or is the end.
LEMMA RetryMoves ==
  ASSUME NEW tot \in [Messages -> Nat], IInv(tot), NEW s \in Sources,
         session[s].at \in {"ready", "waiting"}, Retry(s)
  PROVE  GoesOn(s) \/ IsOver(s)
<1> DEFINE old == session[s]
<1>1. /\ old \in Sessions /\ old.next < old.total /\ old.next \in Nat
      /\ old.try <= old.retries + (IF old.at = "waiting" THEN 1 ELSE 0)
      /\ old.at = "waiting" => old.ack
      /\ ~old.ack => old.try = 0
      /\ old.coming => old.at = "waiting"
      /\ session \in [Sources -> Sessions]
  BY ActiveSession, CountAssumption DEF IInv, SendersOK, Sessions
<1>2. CASE old.retries < RetryMax
  <2> DEFINE new == [old EXCEPT !.at = "ready", !.retries = @ + 1, !.coming = FALSE]
  <2>1. session' = [session EXCEPT ![s] = new] /\ session'[s] = new
        /\ UNCHANGED <<number, outcome>>
    BY <1>1, <1>2 DEF Retry
  <2>2. new \in Sessions
    <3>1. old.retries + 1 \in 0..RetryMax
      BY <1>1, <1>2, CountAssumption DEF Sessions
    <3>2. [old EXCEPT !.retries = @ + 1] \in Sessions
      BY <3>1, <1>1 DEF Sessions
    <3> QED BY <3>2 DEF Sessions
  <2>3. /\ new.at = "ready" /\ new.msg = old.msg /\ new.total = old.total /\ new.ack = old.ack
        /\ new.next = old.next /\ new.try = old.try /\ new.retries = old.retries + 1
        /\ new.coming = FALSE
    BY <1>1 DEF Sessions
  <2> HIDE DEF new
  <2>4. old.retries \in Nat /\ old.try \in Nat
    BY <1>1, CountAssumption DEF Sessions
  <2>5. new.try <= new.retries + (IF new.at = "waiting" THEN 1 ELSE 0)
    BY <1>1, <2>3, <2>4
  <2>6. Passed(new) <= Passed(old)
    BY <1>1, <2>3 DEF Passed
  <2>7. new.next = old.next /\ new.try >= old.try
    BY <2>3, <2>4
  <2> QED BY <1>1, <2>1, <2>2, <2>3, <2>5, <2>6, <2>7 DEF GoesOn
<1>3. CASE ~(old.retries < RetryMax)
  BY <1>3 DEF Retry, Complete, IsOver
<1> QED BY <1>2, <1>3

\* So does a fragment that has succeeded.
LEMMA AdvanceMoves ==
  ASSUME NEW tot \in [Messages -> Nat], IInv(tot), NEW s \in Sources,
         session[s].at \in {"ready", "waiting"}, session[s].ack => session[s].coming,
         Advance(s)
  PROVE  GoesOn(s) \/ IsOver(s)
<1> DEFINE old == session[s]
<1>1. /\ old \in Sessions /\ old.next \in Nat /\ old.total \in Nat
      /\ session \in [Sources -> Sessions]
  BY ActiveSession, CountAssumption DEF IInv, SendersOK, Sessions
<1>2. CASE ~(old.next + 1 >= old.total)
  <2> DEFINE new == [old EXCEPT !.at = "ready", !.next = @ + 1, !.retries = 0, !.try = 0,
                                !.coming = FALSE]
  <2>1. session' = [session EXCEPT ![s] = new] /\ session'[s] = new
        /\ UNCHANGED <<number, outcome>>
    BY <1>1, <1>2 DEF Advance
  <2>2. new \in Sessions
    <3>1. [old EXCEPT !.next = @ + 1] \in Sessions
      BY <1>1 DEF Sessions
    <3>2. 0 \in 0..RetryMax /\ 0 \in 0..(RetryMax + 1)
      BY CountAssumption
    <3>3. [old EXCEPT !.next = @ + 1, !.retries = 0, !.try = 0] \in Sessions
      BY <3>1, <3>2 DEF Sessions
    <3> QED BY <3>3 DEF Sessions
  <2>3. /\ new.at = "ready" /\ new.msg = old.msg /\ new.total = old.total /\ new.ack = old.ack
        /\ new.next = old.next + 1 /\ new.try = 0 /\ new.retries = 0
        /\ new.coming = FALSE
    BY <1>1 DEF Sessions
  <2> HIDE DEF new
  <2>4. new.try <= new.retries + (IF new.at = "waiting" THEN 1 ELSE 0)
    BY <2>3
  <2>5. new.ack => Passed(new) <= Passed(old)
    BY <1>1, <2>3 DEF Passed
  <2>6. new.next > old.next /\ new.next < new.total
    BY <1>1, <1>2, <2>3
  <2> QED BY <1>1, <2>1, <2>2, <2>3, <2>4, <2>5, <2>6 DEF GoesOn
<1>3. CASE old.next + 1 >= old.total
  BY <1>3 DEF Advance, Complete, IsOver
<1> QED BY <1>2, <1>3

\* Waiting for the duty cycle keeps the session.
LEMMA PauseMoves ==
  ASSUME NEW tot \in [Messages -> Nat], IInv(tot), NEW s \in Sources,
         PutOff(s) \/ Resume(s)
  PROVE  GoesOn(s)
<1> DEFINE old == session[s]
<1>0. old.at # "idle"
  BY DEF PutOff, Resume
<1>1. /\ old \in Sessions /\ old.next < old.total /\ old.next \in Nat /\ old.at # "idle"
      /\ old.try <= old.retries + (IF old.at = "waiting" THEN 1 ELSE 0)
      /\ old.at # "waiting"
      /\ ~old.ack => old.try = 0
      /\ old.coming => old.at = "waiting"
      /\ session \in [Sources -> Sessions]
  BY <1>0, ActiveSession, CountAssumption DEF IInv, SendersOK, Sessions, PutOff, Resume
<1>2. PICK at \in {"ready", "duty"} : session' = [session EXCEPT ![s].at = at]
  BY DEF PutOff, Resume
<1> DEFINE new == [old EXCEPT !.at = at]
<1>3. session' = [session EXCEPT ![s] = new] /\ session'[s] = new
      /\ UNCHANGED <<number, outcome>>
  BY <1>1, <1>2 DEF PutOff, Resume
<1>4. new \in Sessions
  BY <1>1 DEF Sessions
<1>5. /\ new.at = at /\ new.msg = old.msg /\ new.total = old.total /\ new.ack = old.ack
      /\ new.next = old.next /\ new.try = old.try /\ new.retries = old.retries
      /\ new.coming = old.coming
  BY <1>1 DEF Sessions
<1> HIDE DEF new
<1>6. old.retries \in Nat /\ old.try \in Nat
  BY <1>1, CountAssumption DEF Sessions
<1> QED BY <1>1, <1>3, <1>4, <1>5, <1>6 DEF GoesOn, Passed

\* A fragment goes on the air.
LEMMA SendStep ==
  ASSUME NEW tot \in [Messages -> Nat], IInv(tot), NEW s \in Sources, Send(s)
  PROVE  IInv(tot)'
<1>0. PICK m \in Messages : m = session[s].msg
  BY ActiveSession DEF Send, IInv
<1> DEFINE old == session[s]
           frame == [msg |-> m, idx |-> old.next, total |-> old.total, try |-> old.try + 1,
                     ack |-> old.ack]
<1>1. old.at = "ready" /\ air' = air \cup {frame} /\ UNCHANGED receiverVars
  BY <1>0 DEF Send
<1>2. /\ old \in Sessions /\ m \in Messages /\ m \in Begun /\ m[1] = s
      /\ old.total = tot[m] /\ old.total \in Totals /\ old.next \in 0..(old.total - 1)
      /\ old.try <= old.retries
      /\ ~old.ack => old.try = 0
      /\ old.coming = FALSE
      /\ session \in [Sources -> Sessions]
      /\ old.retries \in 0..RetryMax /\ old.try \in Nat /\ old.total \in Nat
  <2>1. old \in Sessions /\ session \in [Sources -> Sessions] /\ SendersOK(tot) /\ old.at # "idle"
    BY <1>1 DEF IInv, SendersOK
  <2>2. /\ m \in Messages /\ m \in Begun /\ m[1] = s
        /\ old.total = tot[m] /\ old.total \in Totals /\ old.next \in 0..(old.total - 1)
        /\ old.try <= old.retries + (IF old.at = "waiting" THEN 1 ELSE 0)
        /\ ~old.ack => old.try = 0
        /\ old.coming => old.at = "waiting"
    BY <1>0, <2>1, ActiveSession
  <2>3. old.retries \in 0..RetryMax /\ old.try \in Nat /\ old.total \in Nat /\ old.coming \in BOOLEAN
    BY <2>1, <2>2, CountAssumption DEF Sessions
  <2> QED BY <1>1, <2>1, <2>2, <2>3, CountAssumption
<1>3. ASSUME old.ack
      PROVE  GoesOn(s) /\ (old.next = 0 => FirstSent(m)' = FirstSent(m) + 1)
  <2> DEFINE new == [old EXCEPT !.at = "waiting", !.try = @ + 1]
  <2>1. session' = [session EXCEPT ![s] = new] /\ session'[s] = new
        /\ UNCHANGED <<number, outcome>>
    BY <1>2, <1>3 DEF Send
  <2>2. new \in Sessions
    <3>1. old.try + 1 \in 0..(RetryMax + 1)
      BY <1>2, CountAssumption
    <3>2. [old EXCEPT !.at = "waiting"] \in Sessions
      BY <1>2 DEF Sessions
    <3> QED BY <3>1, <3>2 DEF Sessions
  <2>3. /\ new.at = "waiting" /\ new.msg = old.msg /\ new.total = old.total /\ new.ack = old.ack
        /\ new.next = old.next /\ new.try = old.try + 1 /\ new.retries = old.retries
        /\ new.coming = FALSE
    BY <1>2 DEF Sessions
  <2> HIDE DEF new
  <2>4. new.try <= new.retries + (IF new.at = "waiting" THEN 1 ELSE 0)
    BY <1>2, <2>3
  <2>5. Passed(new) <= Passed(old)
    BY <1>2, <2>3 DEF Passed
  <2>6. new.next = old.next /\ new.try >= old.try /\ new.next < new.total
    BY <1>2, <2>3
  <2>7. GoesOn(s)
    BY <1>3, <2>1, <2>2, <2>3, <2>4, <2>5, <2>6 DEF GoesOn
  <2>8. old.next = 0 => FirstSent(m)' = FirstSent(m) + 1
    BY <1>0, <1>1, <1>2, <2>1, <2>3 DEF FirstSent, Begun
  <2> QED BY <2>7, <2>8
<1>4. ASSUME ~old.ack
      PROVE  (GoesOn(s) \/ IsOver(s)) /\ (old.next = 0 => FirstSent(m) = 0 /\ FirstSent(m)' >= 1)
  <2>1. GoesOn(s) \/ IsOver(s)
    BY <1>1, <1>4, AdvanceMoves DEF Send
  <2>2. old.next = 0 => FirstSent(m) = 0
    BY <1>0, <1>1, <1>2, <1>4 DEF FirstSent, Begun
  <2>3. old.next = 0 => FirstSent(m)' >= 1
    <3>1. CASE old.next + 1 >= old.total
      <4>1. Complete(s, "sent") /\ session' = [session EXCEPT ![s] = Idle]
            /\ outcome' = [outcome EXCEPT ![m] = "sent"]
        BY <3>1, <1>0, <1>1, <1>4 DEF Send, Advance, Complete
      <4>2. outcome \in [Messages -> {"new", "open", "ok", "sent", "failed"}]
        BY DEF IInv, SendersOK
      <4>3. session'[s].at = "idle" /\ outcome'[m] # "new"
        BY <4>1, <4>2, <1>2 DEF Idle
      <4> QED BY <4>3, <1>2, CountAssumption DEF FirstSent
    <3>2. CASE ~(old.next + 1 >= old.total)
      <4>1. session' = [session EXCEPT ![s].at = "ready", ![s].next = @ + 1,
                                       ![s].retries = 0, ![s].try = 0, ![s].coming = FALSE]
            /\ outcome' = outcome
        BY <3>2, <1>1, <1>4 DEF Send, Advance
      <4>2. session'[s].next = old.next + 1
        BY <4>1, <1>2 DEF Sessions
      <4> QED BY <4>1, <4>2, <1>2, CountAssumption DEF FirstSent, Begun
    <3> QED BY <3>1, <3>2
  <2> QED BY <2>1, <2>2, <2>3
<1>a. FirstSent(m) \in Nat
  BY <1>2, CountAssumption DEF FirstSent, Sessions
<1>5. (GoesOn(s) \/ IsOver(s)) /\ (old.next = 0 => FirstSent(m)' >= FirstSent(m) + 1)
  BY <1>3, <1>4, <1>a
<1> HIDE DEF frame
<1>6. /\ SendersOK(tot)' /\ SlotsOK(tot)' /\ RecordsOK' /\ HandedOK' /\ KeptOK'
      /\ Begun' = Begun /\ \A k \in Messages : FirstSent(k) <= FirstSent(k)'
  BY <1>1, <1>5, SessionMoves
<1>7. AirOK(tot)'
  <2>1. IsFiniteSet(air')
    BY <1>1, FS_AddElement DEF IInv, AirOK
  <2>2. /\ frame.msg \in Begun /\ frame.ack \in BOOLEAN
        /\ frame.total = tot[frame.msg] /\ frame.total \in Totals
        /\ frame.idx \in 0..(frame.total - 1)
    BY <1>2 DEF frame, Sessions
  <2> QED BY <1>1, <1>6, <2>1, <2>2 DEF IInv, AirOK
<1>8. BudgetOK'
  <2> SUFFICES ASSUME NEW k \in Messages
               PROVE  (handed[k] + FirstHeld(k) + Cardinality(FirstInAir(k)) <= FirstSent(k))'
    BY DEF BudgetOK, FirstHeld, FirstInAir, FirstSent, Stored, StoredIn, Key, MsgId
  <2>1. IsFiniteSet(FirstInAir(k))
    BY FS_Subset DEF FirstInAir, IInv, AirOK
  <2>2. Cardinality(FirstInAir(k)) \in Nat /\ handed[k] \in Nat /\ FirstHeld(k) \in Nat
    BY <2>1, FS_CardinalityType DEF IInv, HandedOK, FirstHeld
  <2>3. handed' = handed /\ FirstHeld(k)' = FirstHeld(k)
    BY <1>1 DEF receiverVars, FirstHeld, Stored, StoredIn, Key, MsgId
  <2>4. handed[k] + FirstHeld(k) + Cardinality(FirstInAir(k)) <= FirstSent(k)
    BY DEF IInv, BudgetOK
  <2>5. FirstSent(k) \in Nat /\ FirstSent(k)' \in Nat
    <3>1. (session \in [Sources -> Sessions])'
      BY <1>6 DEF SendersOK
    <3> QED BY <1>2, <3>1, MessageShape, CountAssumption DEF FirstSent, Sessions
  <2>6. CASE k = m /\ old.next = 0
    <3>1. FirstInAir(k)' \subseteq FirstInAir(k) \cup {frame}
      BY <1>1 DEF FirstInAir
    <3>2. /\ IsFiniteSet(FirstInAir(k) \cup {frame})
          /\ Cardinality(FirstInAir(k) \cup {frame}) =
                IF frame \in FirstInAir(k) THEN Cardinality(FirstInAir(k))
                ELSE Cardinality(FirstInAir(k)) + 1
      BY <2>1, FS_AddElement
    <3>3. IsFiniteSet(FirstInAir(k)') /\ Cardinality(FirstInAir(k)') <= Cardinality(FirstInAir(k)) + 1
      <4>1. /\ IsFiniteSet(FirstInAir(k)')
            /\ Cardinality(FirstInAir(k)') <= Cardinality(FirstInAir(k) \cup {frame})
        BY <3>1, <3>2, FS_Subset
      <4>2. Cardinality(FirstInAir(k)') \in Nat
        BY <4>1, FS_CardinalityType
      <4> QED BY <4>1, <4>2, <3>2, <2>2
    <3>4. Cardinality(FirstInAir(k)') \in Nat
      BY <3>3, FS_CardinalityType
    <3> QED BY <1>5, <2>2, <2>3, <2>4, <2>5, <2>6, <3>3, <3>4
  <2>7. CASE ~(k = m /\ old.next = 0)
    <3>1. FirstInAir(k)' = FirstInAir(k)
      BY <1>1, <2>7 DEF FirstInAir, frame
    <3> QED BY <1>6, <2>2, <2>3, <2>4, <2>5, <3>1
  <2> QED BY <2>6, <2>7
<1> QED BY <1>6, <1>7, <1>8 DEF IInv

\* A message is offered: its number of fragments is fixed from now on.
LEMMA OfferStep ==
  ASSUME NEW tot \in [Messages -> Nat], IInv(tot), NEW s \in Sources, NEW total \in Totals,
         Offer(s, total)
  PROVE  \E tot2 \in [Messages -> Nat] : IInv(tot2)'
<1>0. PICK m : m = <<s, number[s] + 1>>
  OBVIOUS
<1>1. SendersOK(tot) /\ AirOK(tot) /\ SlotsOK(tot) /\ RecordsOK /\ HandedOK /\ KeptOK
  BY DEF IInv
<1>2. /\ session[s].at = "idle" /\ number[s] < Sends[s] /\ number[s] \in Nat
      /\ Sends[s] \in Nat /\ total \in Nat
  BY <1>1, CountAssumption DEF Offer, SendersOK
<1>3. m \in Messages /\ m[1] = s /\ m[2] = number[s] + 1
  BY <1>0, <1>2, MessageShape
<1>4. outcome[m] = "new"
  BY <1>1, <1>2, <1>3 DEF SendersOK
<1> DEFINE tot2 == [tot EXCEPT ![m] = total]
           new == [Idle EXCEPT !.at = "ready", !.msg = m, !.total = total, !.ack = s \in AckSources]
<1>5. /\ number' = [number EXCEPT ![s] = @ + 1] /\ session' = [session EXCEPT ![s] = new]
      /\ outcome' = [outcome EXCEPT ![m] = "open"]
      /\ UNCHANGED <<receiverVars, air>>
  BY <1>0 DEF Offer
<1>6. /\ new.at = "ready" /\ new.msg = m /\ new.total = total /\ new.next = 0 /\ new.try = 0
      /\ new.retries = 0 /\ new.ack \in BOOLEAN /\ new.coming = FALSE /\ new \in Sessions
  <2>1. /\ new.at = "ready" /\ new.msg = m /\ new.total = total /\ new.next = 0
        /\ new.retries = 0 /\ new.try = 0 /\ new.ack = (s \in AckSources)
        /\ new.coming = FALSE
    BY DEF Idle
  <2>2. Idle \in Sessions
    BY CountAssumption DEF Idle, Sessions
  <2>3. [Idle EXCEPT !.at = "ready", !.msg = m, !.total = total] \in Sessions
    <3>1. [Idle EXCEPT !.at = "ready", !.msg = m] \in Sessions
      BY <2>2, <1>3 DEF Sessions
    <3> QED BY <3>1 DEF Sessions
  <2>4. new \in Sessions
    <3>1. \A e \in Sessions, b \in BOOLEAN : [e EXCEPT !.ack = b] \in Sessions
      BY DEF Sessions
    <3>2. (s \in AckSources) \in BOOLEAN
      OBVIOUS
    <3>3. [[Idle EXCEPT !.at = "ready", !.msg = m, !.total = total]
             EXCEPT !.ack = s \in AckSources] \in Sessions
      BY <2>3, <3>1, <3>2, Zenon
    <3> QED BY <3>3
  <2> QED BY <2>1, <2>4
<1> HIDE DEF new
<1>7. /\ outcome' \in [Messages -> {"new", "open", "ok", "sent", "failed"}]
      /\ \A k \in Messages \ {m} : outcome'[k] = outcome[k]
      /\ outcome'[m] = "open"
      /\ Begun \subseteq Begun' /\ m \in Begun' /\ m \notin Begun
  BY <1>1, <1>3, <1>4, <1>5 DEF Begun, SendersOK
<1>8. tot2 \in [Messages -> Nat] /\ tot2[m] = total /\ \A k \in Messages \ {m} : tot2[k] = tot[k]
  BY <1>2, <1>3
<1> HIDE DEF tot2
<1>9. /\ session' \in [Sources -> Sessions] /\ session'[s] = new
      /\ number' \in [Sources -> Nat] /\ number'[s] = number[s] + 1
      /\ \A t \in Sources \ {s} : session'[t] = session[t] /\ number'[t] = number[t]
  BY <1>1, <1>2, <1>5, <1>6 DEF SendersOK
<1>10. SendersOK(tot2)'
  <2>1. \A t \in Sources : number'[t] <= Sends[t]
    BY <1>1, <1>2, <1>9 DEF SendersOK
  <2>2. ASSUME NEW k \in Messages PROVE (outcome'[k] = "new") <=> (k[2] > number'[k[1]])
    <3>1. k[1] \in Sources /\ k[2] \in Nat /\ k = <<k[1], k[2]>>
      BY MessageShape, CountAssumption
    <3>2. (outcome[k] = "new") <=> (k[2] > number[k[1]])
      BY <1>1 DEF SendersOK
    <3>3. CASE k = m
      BY <3>3, <1>2, <1>3, <1>7, <1>9
    <3>4. CASE k # m /\ k[1] = s
      BY <3>1, <3>2, <3>4, <1>0, <1>2, <1>7, <1>9
    <3>5. CASE k[1] # s
      BY <3>1, <3>2, <3>5, <1>3, <1>7, <1>9
    <3> QED BY <3>3, <3>4, <3>5
  <2>3. ASSUME NEW t \in Sources
        PROVE  LET e == session'[t]
               IN  IF e.at = "idle" THEN e = Idle
                   ELSE /\ number'[t] > 0 /\ e.msg = <<t, number'[t]>> /\ outcome'[e.msg] = "open"
                        /\ e.total \in Totals /\ e.total = tot2[e.msg] /\ e.next < e.total
                        /\ e.try <= e.retries + (IF e.at = "waiting" THEN 1 ELSE 0)
                        /\ e.at = "waiting" => e.ack
                        /\ ~e.ack => e.try = 0
                        /\ e.coming => e.at = "waiting"
    <3>1. CASE t # s
      <4>1. session[t].at # "idle" => session[t].msg \in Messages \ {m}
        BY <1>1, <1>3, <3>1, ActiveSession
      <4>2. session'[t] = session[t] /\ number'[t] = number[t]
        BY <1>9, <3>1
      <4> QED BY <4>1, <4>2, <1>1, <1>7, <1>8 DEF SendersOK
    <3>2. CASE t = s
      <4>1. 0 < total
        BY CountAssumption
      <4> QED BY <3>2, <4>1, <1>0, <1>2, <1>6, <1>7, <1>8, <1>9
    <3> QED BY <3>1, <3>2
  <2> QED BY <1>7, <1>9, <2>1, <2>2, <2>3 DEF SendersOK
<1>11. /\ SlotsOK(tot2)' /\ RecordsOK' /\ HandedOK'
       /\ \A k : Stored(k)' = Stored(k) /\ IsAborted(Key(k))' = IsAborted(Key(k))
  <2>1. \A k \in Begun : tot2[k] = tot[k]
    BY <1>7, <1>8 DEF Begun
  <2> QED BY <1>1, <1>5, <1>7, <1>8, <2>1, ReceiverStays
<1>12. AirOK(tot2)'
  <2>1. \A f \in air : f.msg \in Messages \ {m}
    BY <1>1, <1>7 DEF AirOK, Begun
  <2> QED BY <1>1, <1>5, <1>7, <1>8, <2>1 DEF AirOK
<1>13. KeptOK'
  <2> SUFFICES ASSUME NEW t \in Sources, session'[t].ack, Passed(session'[t]) > 0
               PROVE  Kept(session[t])'
    BY DEF KeptOK, Passed
  <2>1. t # s
    BY <1>6, <1>9 DEF Passed
  <2>2. session'[t] = session[t]
    BY <1>9, <2>1
  <2>3. Kept(session[t])
    BY <1>1, <2>2 DEF KeptOK
  <2>4. UNCHANGED <<handed, forgot>> /\ Passed(session[t])' = Passed(session[t])
    BY <1>5, <2>2 DEF receiverVars, Passed
  <2> QED BY <1>11, <2>2, <2>3, <2>4 DEF Kept
<1>14. ASSUME NEW k \in Messages
       PROVE  FirstSent(k) <= FirstSent(k)' /\ FirstSent(k)' \in Nat
  <2>1. k[1] \in Sources /\ RetryMax \in Nat
    BY MessageShape, CountAssumption
  <2>2. FirstSent(k) \in 0..(RetryMax + 1)
    BY <1>1, FirstSentIsNat DEF SendersOK
  <2>3. CASE k = m
    BY <2>1, <2>3, <1>3, <1>4, <1>6, <1>7, <1>9 DEF FirstSent
  <2>4. CASE k # m /\ k[1] = s
    <3>1. session'[k[1]].msg # k
      BY <2>4, <1>6, <1>9
    <3> QED BY <2>1, <2>4, <3>1, <1>2, <1>7 DEF FirstSent
  <2>5. CASE k # m /\ k[1] # s
    <3>1. session'[k[1]] = session[k[1]] /\ outcome'[k] = outcome[k]
      BY <2>1, <2>5, <1>7, <1>9
    <3> QED BY <2>1, <2>2, <3>1 DEF FirstSent
  <2> QED BY <2>3, <2>4, <2>5
<1>15. BudgetOK'
  BY <1>5, <1>11, <1>14, BudgetStays DEF receiverVars
<1> QED BY <1>8, <1>10, <1>11, <1>12, <1>13, <1>15 DEF IInv

-----------------------------------------------------------------------------
(* The steps of the receiver.                                              *)

\* A slot that is not full holds fewer fragments than the message has.
LEMMA PrefixIsShort ==
  ASSUME NEW n \in Nat, NEW D \in Some(n), NEW p \in Nat, 0..(p - 1) \subseteq D
  PROVE  p < n
<1> SUFFICES ASSUME p >= n PROVE FALSE
  OBVIOUS
<1>1. 0..(n - 1) \subseteq 0..(p - 1)
  OBVIOUS
<1> QED BY <1>1 DEF Some

\* What is kept of a message stays kept, or is handed over, recorded as
\* aborted, or forgotten.
LEMMA KeptThrough ==
  ASSUME NEW tot \in [Messages -> Nat], SlotsOK(tot), HandedOK, IdsDoNotRepeat,
         NEW m \in Messages, NEW p \in Nat,
         \/ handed[m] > 0 \/ m \in forgot \/ (IsAborted(Key(m)) /\ p < tot[m])
         \/ 0..(p - 1) \subseteq Stored(m),
         handed'[m] \in Nat, handed[m] <= handed'[m], forgot \subseteq forgot',
         IsAborted(Key(m)) => IsAborted(Key(m))' \/ m \in forgot',
         \/ Stored(m) \subseteq Stored(m)' \/ handed'[m] > 0 \/ m \in forgot'
         \/ (IsAborted(Key(m))' /\ Stored(m) \in Some(tot[m]))
  PROVE  \/ handed'[m] > 0 \/ m \in forgot' \/ (IsAborted(Key(m))' /\ p < tot[m])
         \/ 0..(p - 1) \subseteq Stored(m)'
<1>1. handed[m] \in Nat /\ tot[m] \in Nat
  BY DEF HandedOK
<1>2. CASE handed[m] > 0 \/ m \in forgot \/ (IsAborted(Key(m)) /\ p < tot[m])
  BY <1>1, <1>2
<1>3. CASE 0..(p - 1) \subseteq Stored(m)
  <2>1. CASE Stored(m) \in Some(tot[m]) /\ IsAborted(Key(m))'
    <3>1. p < tot[m]
      BY <1>1, <1>3, <2>1, PrefixIsShort
    <3> QED BY <3>1, <2>1
  <2>2. CASE Stored(m) \subseteq Stored(m)'
    BY <1>3, <2>2, Zenon
  <2>3. CASE handed'[m] > 0 \/ m \in forgot'
    BY <2>3
  <2> QED BY <2>1, <2>2, <2>3
<1> QED BY <1>2, <1>3

\* The receiver loses slots or records: nothing else changes.
LEMMA LosingStep ==
  ASSUME NEW tot \in [Messages -> Nat], IInv(tot), IdsDoNotRepeat,
         UNCHANGED <<senderVars, air, handed, payloads>>,
         SlotsOK(tot)', RecordsOK', forgot' \subseteq Messages, forgot \subseteq forgot',
         \A k \in Messages : IsAborted(Key(k)) => IsAborted(Key(k))' \/ k \in forgot',
         \A k \in Messages :
            \/ Stored(k)' = Stored(k)
            \/ /\ Stored(k)' = {}
               /\ \/ Stored(k) = {} \/ k \in forgot'
                  \/ (IsAborted(Key(k))' /\ Stored(k) \in Some(tot[k]))
  PROVE  IInv(tot)'
<1>1. SendersOK(tot) /\ AirOK(tot) /\ SlotsOK(tot) /\ HandedOK /\ KeptOK /\ BudgetOK
  BY DEF IInv
<1>2. UNCHANGED <<session, number, outcome>>
  BY DEF senderVars
<1>3. SendersOK(tot)' /\ AirOK(tot)' /\ HandedOK'
  BY <1>1, <1>2 DEF SendersOK, AirOK, HandedOK, PayloadsOK, Begun
<1>4. KeptOK'
  <2> SUFFICES ASSUME NEW s \in Sources, session[s].ack, Passed(session[s]) > 0
               PROVE  Kept(session[s])'
    BY <1>2 DEF KeptOK, Passed
  <2>1. session[s].at # "idle"
    BY <1>1 DEF SendersOK, Idle
  <2>2. /\ session[s].msg \in Messages /\ session[s].total = tot[session[s].msg]
        /\ session[s] \in Sessions /\ Kept(session[s])
    BY <1>1, <2>1, ActiveSession DEF KeptOK
  <2>3. PICK m \in Messages, p \in Nat : m = session[s].msg /\ p = Passed(session[s])
    BY <2>2 DEF Passed, Sessions
  <2>4. handed'[m] = handed[m] /\ handed[m] \in Nat
    BY <1>1 DEF HandedOK
  <2>5. \/ handed[m] > 0 \/ m \in forgot \/ (IsAborted(Key(m)) /\ p < tot[m])
        \/ 0..(p - 1) \subseteq Stored(m)
    BY <2>2, <2>3, Zenon DEF Kept
  <2>6. \/ handed'[m] > 0 \/ m \in forgot' \/ (IsAborted(Key(m))' /\ p < tot[m])
        \/ 0..(p - 1) \subseteq Stored(m)'
    BY <1>1, <2>4, <2>5, KeptThrough
  <2>7. m = (session[s].msg)' /\ p = Passed(session[s])' /\ (session[s].total)' = tot[m]
        /\ Key(m) = Key(session[s].msg)'
    BY <1>2, <2>2, <2>3 DEF Passed, Key, MsgId
  <2> QED BY <2>6, <2>7 DEF Kept, Stored, StoredIn, IsAborted
<1>5. BudgetOK'
  <2> SUFFICES ASSUME NEW k \in Messages
               PROVE  (handed[k] + FirstHeld(k) + Cardinality(FirstInAir(k)) <= FirstSent(k))'
    BY DEF BudgetOK, FirstHeld, FirstInAir, FirstSent, Stored, StoredIn, Key, MsgId
  <2>1. Cardinality(FirstInAir(k)) \in Nat
    BY <1>1, FS_Subset, FS_CardinalityType DEF FirstInAir, AirOK
  <2>2. handed[k] \in Nat /\ FirstHeld(k) \in Nat /\ FirstHeld(k)' \in Nat
        /\ FirstHeld(k)' <= FirstHeld(k)
    BY <1>1 DEF HandedOK, FirstHeld
  <2>3. FirstSent(k) \in Nat
    BY <1>1, FirstSentIsNat DEF SendersOK
  <2>4. FirstSent(k)' = FirstSent(k) /\ FirstInAir(k)' = FirstInAir(k) /\ handed'[k] = handed[k]
    BY <1>2 DEF FirstSent, FirstInAir
  <2>5. handed[k] + FirstHeld(k) + Cardinality(FirstInAir(k)) <= FirstSent(k)
    BY <1>1 DEF BudgetOK
  <2> QED BY <2>1, <2>2, <2>3, <2>4, <2>5
<1> QED BY <1>3, <1>4, <1>5 DEF IInv

\* A slot times out.
LEMMA SlotTimeoutStep ==
  ASSUME NEW tot \in [Messages -> Nat], IInv(tot), IdsDoNotRepeat, NEW i, SlotTimeout(i)
  PROVE  IInv(tot)'
<1>1. SlotsOK(tot) /\ RecordsOK /\ HandedOK
  BY DEF IInv
<1>2. i \in 1..Len(slots) /\ Len(slots) \in Nat
  BY <1>1, LenProperties DEF SlotTimeout, SlotsOK
<1>3. slots' = RemoveAt(slots, i) /\ MarkAborted(slots[i])
      /\ UNCHANGED <<senderVars, air, handed, payloads>>
  BY DEF SlotTimeout
<1>4. /\ RemoveAt(slots, i) \in Seq(GoodSlots(tot))
      /\ Len(RemoveAt(slots, i)) = Len(slots) - 1
      /\ DistinctKeys(RemoveAt(slots, i))
      /\ RecordsGoOn
      /\ \A k \in Messages :
            \/ StoredIn(RemoveAt(slots, i), k) = Stored(k)
            \/ /\ StoredIn(RemoveAt(slots, i), k) = {}
               /\ IsAborted(Key(k))' /\ Stored(k) \in Some(tot[k])
  BY <1>1, <1>2, <1>3, LoseASlot
<1>5. GoodSlots(tot)' = GoodSlots(tot) /\ GoodRecords' = GoodRecords
  BY <1>3 DEF GoodSlots, GoodRecords, Begun, senderVars, SlotFor, RecordFor, Key, MsgId, Some
<1>6. SlotsOK(tot)'
  BY <1>1, <1>2, <1>3, <1>4, <1>5, CountAssumption DEF SlotsOK, DistinctKeys
<1>7. RecordsOK'
  BY <1>4, <1>5 DEF RecordsOK, RecordsGoOn
<1>8. \A k \in Messages : Stored(k)' = StoredIn(RemoveAt(slots, i), k)
  BY <1>3 DEF Stored, StoredIn, Key, MsgId
<1> QED BY <1>3, <1>4, <1>6, <1>7, <1>8, LosingStep DEF RecordsGoOn

\* A record gets too old.
LEMMA RecordExpiresStep ==
  ASSUME NEW tot \in [Messages -> Nat], IInv(tot), IdsDoNotRepeat, NEW i, RecordExpires(i)
  PROVE  IInv(tot)'
<1>1. SlotsOK(tot) /\ RecordsOK /\ HandedOK
  BY DEF IInv
<1>2. /\ i \in 1..Len(aborted) /\ DOMAIN aborted = 1..Len(aborted)
      /\ aborted \in Seq(GoodRecords) /\ aborted[i] \in GoodRecords
  BY <1>1, LenProperties, ElementOfSeq DEF RecordExpires, RecordsOK
<1>3. /\ aborted' = [aborted EXCEPT ![i].live = FALSE]
      /\ forgot' = forgot \cup Range(aborted[i].msgs)
      /\ UNCHANGED <<senderVars, slots, air, handed, payloads>>
  BY DEF RecordExpires
<1>4. PICK m \in Begun : \E D \in (SUBSET Nat) \ {{}} : \E live \in BOOLEAN :
         aborted[i] = RecordFor(m, D, live)
  BY <1>2, GoodRecordShape
<1>5. PICK D \in (SUBSET Nat) \ {{}} : \E live \in BOOLEAN : aborted[i] = RecordFor(m, D, live)
  BY <1>4
<1>6. PICK live \in BOOLEAN : aborted[i] = RecordFor(m, D, live)
  BY <1>5
<1>7. Range(aborted[i].msgs) = {m} /\ aborted[i].key = Key(m) /\ m \in Messages
  BY <1>6 DEF RecordFor, Range, Begun
<1>8. [aborted[i] EXCEPT !.live = FALSE] = RecordFor(m, D, FALSE)
  <2>1. ASSUME NEW d \in BOOLEAN
        PROVE  [aborted[i] EXCEPT !.live = d] = RecordFor(m, D, d)
    <3>1. aborted[i] = [key |-> Key(m), msgs |-> [k \in D |-> m], live |-> live]
      BY <1>6 DEF RecordFor
    <3> QED BY <3>1 DEF RecordFor
  <2> QED BY <2>1, Zenon
<1>9. RecordFor(m, D, FALSE) \in GoodRecords
  BY GoodRecordIs
<1>10. aborted' = [aborted EXCEPT ![i] = RecordFor(m, D, FALSE)]
  BY <1>3, <1>8
<1>11. /\ aborted' \in Seq(GoodRecords) /\ Len(aborted') = Len(aborted)
       /\ \A j \in 1..Len(aborted) :
             aborted'[j] = IF j = i THEN RecordFor(m, D, FALSE) ELSE aborted[j]
  BY <1>2, <1>9, <1>10, ExceptSeq
<1>12. DOMAIN aborted' = 1..Len(aborted)
  BY <1>11, LenProperties
<1>13. ASSUME NEW k \in Messages, IsAborted(Key(k))
       PROVE  IsAborted(Key(k))' \/ k \in forgot'
  <2>1. PICK j \in 1..Len(aborted) : aborted[j].key = Key(k) /\ aborted[j].live
    BY <1>2, <1>13 DEF IsAborted
  <2>2. CASE j = i
    <3>1. k = m
      BY <2>1, <2>2, <1>7, KeysDiffer
    <3> QED BY <3>1, <1>3, <1>7
  <2>3. CASE j # i
    <3>1. aborted'[j] = aborted[j] /\ j \in DOMAIN aborted'
      BY <1>11, <1>12, <2>3
    <3> QED BY <2>1, <3>1 DEF IsAborted, Key, MsgId
  <2> QED BY <2>2, <2>3
<1>14. GoodSlots(tot)' = GoodSlots(tot) /\ GoodRecords' = GoodRecords
  BY <1>3 DEF GoodSlots, GoodRecords, Begun, senderVars, SlotFor, RecordFor, Key, MsgId, Some
<1>15. SlotsOK(tot)' /\ RecordsOK'
  BY <1>1, <1>3, <1>11, <1>14 DEF SlotsOK, DistinctKeys, RecordsOK
<1>16. \A k \in Messages : Stored(k)' = Stored(k)
  BY <1>3 DEF Stored, StoredIn, Key, MsgId
<1>17. forgot' \subseteq Messages /\ forgot \subseteq forgot'
  BY <1>1, <1>3, <1>7 DEF HandedOK
<1> QED BY <1>3, <1>13, <1>15, <1>16, <1>17, LosingStep

\* The receiver restarts: all it had is forgotten.
LEMMA RestartStep ==
  ASSUME NEW tot \in [Messages -> Nat], IInv(tot), IdsDoNotRepeat, Restart
  PROVE  IInv(tot)'
<1>1. SlotsOK(tot) /\ RecordsOK /\ HandedOK
  BY DEF IInv
<1>2. /\ slots' = <<>> /\ aborted' = <<>> /\ UNCHANGED <<senderVars, air, handed, payloads>>
      /\ forgot' = forgot \cup (UNION {Range(slots[i].parts) : i \in DOMAIN slots})
                          \cup (UNION {Range(aborted[i].msgs) : i \in DOMAIN aborted})
  BY DEF Restart
<1>3. \A i \in DOMAIN slots : slots[i] \in GoodSlots(tot)
  BY <1>1, LenProperties, ElementOfSeq DEF SlotsOK
<1>4. \A i \in DOMAIN aborted : aborted[i] \in GoodRecords
  BY <1>1, LenProperties, ElementOfSeq DEF RecordsOK
<1>5. forgot' \subseteq Messages /\ forgot \subseteq forgot'
  <2>1. ASSUME NEW i \in DOMAIN slots PROVE Range(slots[i].parts) \subseteq Messages
    <3>1. PICK m \in Begun : \E D \in Some(tot[m]) : slots[i] = SlotFor(m, tot[m], D)
      BY <1>3, GoodSlotShape
    <3> QED BY <3>1 DEF SlotFor, Range, Begun
  <2>2. ASSUME NEW i \in DOMAIN aborted PROVE Range(aborted[i].msgs) \subseteq Messages
    <3>1. PICK m \in Begun : \E D \in (SUBSET Nat) \ {{}} : \E live \in BOOLEAN :
             aborted[i] = RecordFor(m, D, live)
      BY <1>4, GoodRecordShape
    <3> QED BY <3>1 DEF RecordFor, Range, Begun
  <2>3. UNION {Range(slots[i].parts) : i \in DOMAIN slots} \subseteq Messages
    BY <2>1
  <2>4. UNION {Range(aborted[i].msgs) : i \in DOMAIN aborted} \subseteq Messages
    BY <2>2
  <2> QED BY <2>3, <2>4, <1>1, <1>2 DEF HandedOK
<1>6. ASSUME NEW k \in Messages, IsAborted(Key(k)) PROVE k \in forgot'
  <2>1. PICK i \in DOMAIN aborted : aborted[i].key = Key(k)
    BY <1>6 DEF IsAborted
  <2>2. PICK m \in Begun : \E D \in (SUBSET Nat) \ {{}} : \E live \in BOOLEAN :
           aborted[i] = RecordFor(m, D, live)
    BY <1>4, GoodRecordShape
  <2>3. PICK D \in (SUBSET Nat) \ {{}} : \E live \in BOOLEAN : aborted[i] = RecordFor(m, D, live)
    BY <2>2
  <2>4. m = k
    BY <2>1, <2>3, KeysDiffer DEF RecordFor, Begun
  <2>5. k \in Range(aborted[i].msgs)
    BY <2>3, <2>4 DEF RecordFor, Range
  <2>6. Range(aborted[i].msgs) \in {Range(aborted[h].msgs) : h \in DOMAIN aborted}
    BY <2>1
  <2> QED BY <1>2, <2>5, <2>6
<1>7. ASSUME NEW k \in Messages PROVE Stored(k)' = {} /\ (Stored(k) = {} \/ k \in forgot')
  <2>1. Stored(k)' = {}
    BY <1>2 DEF Stored, StoredIn, Key, MsgId
  <2>2. ASSUME Stored(k) # {} PROVE k \in forgot'
    <3>1. PICK i \in SlotOf(Key(k)) : TRUE
      BY <1>1, <2>2, SlotOfMessage
    <3>2. i \in DOMAIN slots /\ slots[i] = SlotFor(k, tot[k], Stored(k))
      BY <1>1, <3>1, SlotOfMessage DEF SlotOf
    <3>3. k \in Range(slots[i].parts)
      BY <2>2, <3>2 DEF SlotFor, Range
    <3> QED BY <1>2, <3>2, <3>3
  <2> QED BY <2>1, <2>2
<1>8. SlotsOK(tot)' /\ RecordsOK'
  <2>1. Len(<<>>) = 0 /\ 0 <= Slots /\ 0 <= RingDepth
    BY CountAssumption DEF RingDepth
  <2>2. DOMAIN slots' = {}
    BY <1>2
  <2>3. DistinctKeys(slots')
    BY <2>2 DEF DistinctKeys
  <2> QED BY <1>2, <2>1, <2>3, EmptySeq DEF SlotsOK, RecordsOK, DistinctKeys, RingDepth
<1> QED BY <1>2, <1>5, <1>6, <1>7, <1>8, LosingStep

\* An accepted or refused fragment, as every message sees it.
LEMMA ReceiveEffect ==
  ASSUME NEW tot \in [Messages -> Nat], IInv(tot), IdsDoNotRepeat, NEW f \in air, Receive(f),
         NEW m \in Messages, f.msg = m
  PROVE  /\ slots' \in Seq(GoodSlots(tot)) /\ Len(slots') <= Slots /\ DistinctKeys(slots')
         /\ RecordsGoOn
         /\ handed' \in [Messages -> Nat] /\ PayloadsOK'
         /\ \A k \in Messages \ {m} :
               /\ handed'[k] = handed[k]
               /\ \/ Stored(k)' = Stored(k)
                  \/ /\ Stored(k)' = {}
                     /\ IsAborted(Key(k))' /\ Stored(k) \in Some(tot[k])
         /\ \/ /\ IsAborted(Key(m)) \/ f.idx \in Stored(m)
               /\ Stored(m)' = Stored(m) /\ handed'[m] = handed[m]
            \/ /\ f.idx \notin Stored(m) /\ Stored(m) \cup {f.idx} = 0..(f.total - 1)
               /\ Stored(m)' = {} /\ handed'[m] = handed[m] + 1 /\ forgot' = forgot
            \/ /\ f.idx \notin Stored(m)
               /\ Stored(m)' = Stored(m) \cup {f.idx} /\ handed'[m] = handed[m]
<1>1. SlotsOK(tot) /\ RecordsOK /\ HandedOK
  BY DEF IInv
<1>2. CASE IsAborted(Key(m))
  <2>1. UNCHANGED <<slots, handed, payloads, aborted, forgot>>
    BY <1>2 DEF Receive
  <2>2. /\ \A k \in Messages : Stored(k)' = Stored(k)
        /\ \A k \in Messages : IsAborted(Key(k))' = IsAborted(Key(k))
    BY <2>1 DEF Stored, StoredIn, IsAborted, Key, MsgId
  <2>3. RecordsGoOn /\ PayloadsOK'
    BY <1>1, <2>1, <2>2 DEF RecordsGoOn, RecordsOK, HandedOK, PayloadsOK
  <2> QED BY <1>1, <1>2, <2>1, <2>2, <2>3 DEF SlotsOK, HandedOK
<1>3. CASE ~IsAborted(Key(m))
  <2>1. Ingest(f)
    BY <1>3 DEF Receive
  <2>2. m \in Begun /\ f.total = tot[m] /\ f.total > 1 /\ f.idx \in 0..(f.total - 1)
    BY CountAssumption DEF IInv, AirOK
  <2> QED BY <1>1, <2>1, <2>2, IngestEffect
<1> QED BY <1>2, <1>3

\* A session only learns that an acknowledgement is under way.
LEMMA AckEffect ==
  ASSUME NEW tot \in [Messages -> Nat], IInv(tot), NEW f \in air, Receive(f)
  PROVE  \A s \in Sources :
            \/ session'[s] = session[s]
            \/ /\ session[s].at = "waiting" /\ session[s].msg = f.msg
               /\ session[s].next = f.idx /\ ~IsAborted(Key(f.msg))
               /\ session'[s] = [session[s] EXCEPT !.coming = TRUE]
<1>1. session \in [Sources -> Sessions]
  BY DEF IInv, SendersOK
<1>2. f.msg[1] \in Sources
  BY MessageShape DEF IInv, AirOK, Begun
<1>3. \/ session' = session
      \/ /\ session[f.msg[1]].at = "waiting" /\ session[f.msg[1]].msg = f.msg
         /\ session[f.msg[1]].next = f.idx /\ ~IsAborted(Key(f.msg))
         /\ session' = [session EXCEPT ![f.msg[1]] = [@ EXCEPT !.coming = TRUE]]
  BY Zenon DEF Receive, Acked, AckUnderWay
<1> QED BY <1>1, <1>2, <1>3

\* A fragment arrives: of its copies one is stored, of its messages one completed.
LEMMA ReceiveStep ==
  ASSUME NEW tot \in [Messages -> Nat], IInv(tot), IdsDoNotRepeat, NEW f \in air, Receive(f)
  PROVE  IInv(tot)'
<1>1. SendersOK(tot) /\ AirOK(tot) /\ SlotsOK(tot) /\ HandedOK /\ KeptOK /\ BudgetOK
  BY DEF IInv
<1>2. PICK m \in Messages : m = f.msg
  BY <1>1 DEF AirOK, Begun
<1>3. /\ m \in Begun /\ f.total = tot[m] /\ f.idx \in 0..(f.total - 1) /\ f.total \in Nat
      /\ f.total > 1
  BY <1>1, <1>2, CountAssumption DEF AirOK
<1>4. /\ slots' \in Seq(GoodSlots(tot)) /\ Len(slots') <= Slots /\ DistinctKeys(slots')
      /\ RecordsGoOn
      /\ handed' \in [Messages -> Nat] /\ PayloadsOK'
      /\ \A k \in Messages \ {m} :
            /\ handed'[k] = handed[k]
            /\ \/ Stored(k)' = Stored(k)
               \/ /\ Stored(k)' = {}
                  /\ IsAborted(Key(k))' /\ Stored(k) \in Some(tot[k])
      /\ \/ /\ IsAborted(Key(m)) \/ f.idx \in Stored(m)
            /\ Stored(m)' = Stored(m) /\ handed'[m] = handed[m]
         \/ /\ f.idx \notin Stored(m) /\ Stored(m) \cup {f.idx} = 0..(f.total - 1)
            /\ Stored(m)' = {} /\ handed'[m] = handed[m] + 1 /\ forgot' = forgot
         \/ /\ f.idx \notin Stored(m)
            /\ Stored(m)' = Stored(m) \cup {f.idx} /\ handed'[m] = handed[m]
  BY <1>2, ReceiveEffect
<1>5. air' = air \ {f} /\ UNCHANGED <<number, outcome>>
  BY DEF Receive
<1>6. Begun' = Begun /\ GoodSlots(tot)' = GoodSlots(tot) /\ GoodRecords' = GoodRecords
  BY <1>5 DEF GoodSlots, GoodRecords, Begun, SlotFor, RecordFor, Key, MsgId, Some
<1>7. SlotsOK(tot)' /\ RecordsOK' /\ HandedOK'
  BY <1>4, <1>6 DEF SlotsOK, RecordsOK, HandedOK, RecordsGoOn, DistinctKeys
<1>8. AirOK(tot)'
  BY <1>1, <1>5, <1>6, FS_RemoveElement DEF AirOK
<1>9. \A s \in Sources :
         \/ session'[s] = session[s]
         \/ /\ session[s].at = "waiting" /\ session[s].msg = m
            /\ session[s].next = f.idx /\ ~IsAborted(Key(m))
            /\ session'[s] = [session[s] EXCEPT !.coming = TRUE]
  BY <1>2, AckEffect
<1>10. \A s \in Sources :
          LET e == session[s]
              n == session'[s]
          IN  /\ n \in Sessions /\ n.at = e.at /\ n.msg = e.msg /\ n.total = e.total
              /\ n.next = e.next /\ n.retries = e.retries /\ n.try = e.try /\ n.ack = e.ack
              /\ n = e \/ (n.at = "waiting" /\ n.coming = TRUE)
  <2> SUFFICES ASSUME NEW s \in Sources
               PROVE  LET e == session[s]
                          n == session'[s]
                      IN  /\ n \in Sessions /\ n.at = e.at /\ n.msg = e.msg /\ n.total = e.total
                          /\ n.next = e.next /\ n.retries = e.retries /\ n.try = e.try
                          /\ n.ack = e.ack
                          /\ n = e \/ (n.at = "waiting" /\ n.coming = TRUE)
    BY Zenon
  <2>1. session[s] \in Sessions
    BY <1>1 DEF SendersOK
  <2>2. CASE session'[s] = session[s]
    BY <2>1, <2>2
  <2>3. CASE session[s].at = "waiting" /\ session'[s] = [session[s] EXCEPT !.coming = TRUE]
    <3>1. \A e \in Sessions, b \in BOOLEAN :
             LET n == [e EXCEPT !.coming = b]
             IN  /\ n \in Sessions /\ n.at = e.at /\ n.msg = e.msg /\ n.total = e.total
                 /\ n.next = e.next /\ n.retries = e.retries /\ n.try = e.try /\ n.ack = e.ack
                 /\ n.coming = b
      BY DEF Sessions
    <3>2. PICK b \in BOOLEAN : b = TRUE
      OBVIOUS
    <3>3. session'[s] = [session[s] EXCEPT !.coming = b]
      BY <2>3, <3>2
    <3> DEFINE e == session[s]
               n == [e EXCEPT !.coming = b]
    <3>4. /\ n \in Sessions /\ n.at = e.at /\ n.msg = e.msg /\ n.total = e.total
          /\ n.next = e.next /\ n.retries = e.retries /\ n.try = e.try /\ n.ack = e.ack
          /\ n.coming = b
      BY <2>1, <3>1
    <3>5. session'[s] = n
      BY <3>3
    <3> HIDE DEF n
    <3> QED BY <2>3, <3>2, <3>4, <3>5
  <2> QED BY <1>9, <2>2, <2>3
<1>11. session' \in [Sources -> Sessions]
  <2>1. DOMAIN session' = Sources /\ session' = [s \in Sources |-> session'[s]]
    BY <1>1 DEF Receive, AckUnderWay, SendersOK
  <2> QED BY <1>10, <2>1
<1>12. SendersOK(tot)'
  <2> SUFFICES ASSUME NEW s \in Sources
               PROVE  LET e == session'[s]
                      IN  IF e.at = "idle" THEN e = Idle
                          ELSE /\ number[s] > 0 /\ e.msg = <<s, number[s]>>
                               /\ outcome[e.msg] = "open"
                               /\ e.total \in Totals /\ e.total = tot[e.msg] /\ e.next < e.total
                               /\ e.try <= e.retries + (IF e.at = "waiting" THEN 1 ELSE 0)
                               /\ e.at = "waiting" => e.ack
                               /\ ~e.ack => e.try = 0
                               /\ e.coming => e.at = "waiting"
    BY <1>1, <1>5, <1>11 DEF SendersOK
  <2> QED BY <1>1, <1>10 DEF SendersOK
<1>13. KeptOK'
  <2> SUFFICES ASSUME NEW s \in Sources, session'[s].ack, Passed(session'[s]) > 0
               PROVE  Kept(session[s])'
    BY DEF KeptOK, Passed
  <2>1. session[s].at # "idle" /\ session[s].ack
    BY <1>1, <1>10 DEF SendersOK, Idle
  <2>2. /\ session[s].msg \in Messages /\ session[s].total = tot[session[s].msg]
        /\ session[s] \in Sessions /\ session'[s] \in Sessions
        /\ session'[s].msg = session[s].msg /\ session'[s].total = session[s].total
        /\ session'[s].next = session[s].next
    BY <1>1, <1>10, <2>1, ActiveSession
  <2>3. PICK k \in Messages : k = session[s].msg
    BY <2>2
  <2>4. PICK p \in Nat : p = Passed(session[s])
    BY <2>2 DEF Passed, Sessions
  <2>5. PICK q \in Nat : q = Passed(session'[s])
    BY <2>2 DEF Passed, Sessions
  <2>6. \/ handed[k] > 0 \/ k \in forgot \/ (IsAborted(Key(k)) /\ p < tot[k])
        \/ 0..(p - 1) \subseteq Stored(k)
    <3>1. CASE p > 0
      BY <1>1, <2>1, <2>2, <2>3, <2>4, <3>1 DEF KeptOK, Kept
    <3>2. CASE p = 0
      BY <3>2
    <3> QED BY <3>1, <3>2
  <2>7. handed[k] \in Nat /\ handed'[k] \in Nat /\ handed[k] <= handed'[k]
    <3>1. handed[k] \in Nat /\ handed'[k] \in Nat /\ handed[m] \in Nat
      BY <1>1, <1>4 DEF HandedOK
    <3>2. CASE k = m
      BY <3>1, <3>2, <1>4
    <3>3. CASE k # m
      BY <3>1, <3>3, <1>4
    <3> QED BY <3>2, <3>3
  <2>8. \/ Stored(k) \subseteq Stored(k)' \/ handed'[k] > 0 \/ k \in forgot'
        \/ (IsAborted(Key(k))' /\ Stored(k) \in Some(tot[k]))
    <3>1. CASE k = m
      BY <3>1, <2>7, <1>4
    <3>2. CASE k # m
      BY <3>2, <1>4
    <3> QED BY <3>1, <3>2
  <2>9. \/ handed'[k] > 0 \/ k \in forgot' \/ (IsAborted(Key(k))' /\ p < tot[k])
        \/ 0..(p - 1) \subseteq Stored(k)'
    BY <1>1, <1>4, <2>6, <2>7, <2>8, KeptThrough DEF RecordsGoOn
  <2>10. \/ handed'[k] > 0 \/ k \in forgot' \/ (IsAborted(Key(k))' /\ q < tot[k])
         \/ 0..(q - 1) \subseteq Stored(k)'
    <3>1. CASE session'[s] = session[s]
      BY <3>1, <2>4, <2>5, <2>9
    <3>2. CASE session'[s] # session[s]
      <4>1. /\ k = m /\ session[s].next = f.idx /\ ~IsAborted(Key(m))
            /\ session'[s].coming = TRUE
        BY <3>2, <1>9, <1>10, <2>3
      <4>2. q = f.idx + 1 /\ p >= f.idx
        BY <4>1, <2>2, <2>4, <2>5 DEF Passed, Sessions
      <4>3. handed[m] > 0 \/ m \in forgot \/ 0..(f.idx - 1) \subseteq Stored(m)
        <5>1. 0..(f.idx - 1) \subseteq 0..(p - 1)
          BY <4>2, <1>3
        <5> QED BY <4>1, <5>1, <2>6
      <4>4. 0..f.idx = 0..(f.idx - 1) \cup {f.idx} /\ q - 1 = f.idx
        BY <4>2, <1>3
      <4>5. CASE handed[m] > 0 \/ m \in forgot
        BY <4>1, <4>5, <2>7, <1>4 DEF RecordsGoOn
      <4>6. CASE 0..(f.idx - 1) \subseteq Stored(m)
        <5>1. handed[m] \in Nat
          BY <1>1 DEF HandedOK
        <5>2. handed'[m] > 0 \/ (Stored(m) \subseteq Stored(m)' /\ f.idx \in Stored(m)')
          BY <1>4, <4>1, <5>1
        <5> QED BY <4>1, <4>4, <4>6, <5>2
      <4> QED BY <4>3, <4>5, <4>6
    <3> QED BY <3>1, <3>2
  <2>11. k = (session[s].msg)' /\ q = Passed(session[s])' /\ (session[s].total)' = tot[k]
         /\ Key(k) = Key(session[s].msg)'
    BY <2>2, <2>3, <2>5 DEF Passed, Key, MsgId
  <2> QED BY <2>10, <2>11 DEF Kept, Stored, StoredIn, IsAborted
<1>14. BudgetOK'
  <2> SUFFICES ASSUME NEW k \in Messages
               PROVE  (handed[k] + FirstHeld(k) + Cardinality(FirstInAir(k)) <= FirstSent(k))'
    BY DEF BudgetOK, FirstHeld, FirstInAir, FirstSent, Stored, StoredIn, Key, MsgId
  <2>1. IsFiniteSet(FirstInAir(k)) /\ Cardinality(FirstInAir(k)) \in Nat
    BY <1>1, FS_Subset, FS_CardinalityType DEF FirstInAir, AirOK
  <2>2. handed[k] \in Nat /\ handed'[k] \in Nat
    BY <1>1, <1>4 DEF HandedOK
  <2>3. FirstSent(k) \in Nat
    BY <1>1, FirstSentIsNat DEF SendersOK
  <2>4. FirstSent(k)' = FirstSent(k)
    <3>1. k[1] \in Sources
      BY MessageShape
    <3> QED BY <1>5, <1>10, <3>1 DEF FirstSent
  <2>5. handed[k] + FirstHeld(k) + Cardinality(FirstInAir(k)) <= FirstSent(k)
    BY <1>1 DEF BudgetOK
  <2>6. CASE k # m
    <3>1. FirstInAir(k)' = FirstInAir(k)
      BY <1>2, <1>5, <2>6 DEF FirstInAir
    <3>2. FirstHeld(k)' \in Nat /\ FirstHeld(k) \in Nat /\ FirstHeld(k)' <= FirstHeld(k)
      <4>1. Stored(k)' = Stored(k) \/ Stored(k)' = {}
        BY <1>4, <2>6
      <4>2. FirstHeld(k)' = IF 0 \in Stored(k)' THEN 1 ELSE 0
        BY DEF FirstHeld
      <4> QED BY <4>1, <4>2 DEF FirstHeld
    <3>3. handed'[k] = handed[k]
      BY <1>4, <2>6
    <3> QED BY <2>1, <2>2, <2>3, <2>4, <2>5, <3>1, <3>2, <3>3
  <2>7. CASE k = m /\ f.idx = 0
    <3>1. FirstInAir(k)' = FirstInAir(k) \ {f} /\ f \in FirstInAir(k)
      BY <1>2, <1>5, <2>7 DEF FirstInAir
    <3>2. Cardinality(FirstInAir(k)') = Cardinality(FirstInAir(k)) - 1
      BY <2>1, <3>1, FS_RemoveElement
    <3>3. handed'[k] + FirstHeld(k)' <= handed[k] + FirstHeld(k) + 1
          /\ FirstHeld(k)' \in Nat /\ FirstHeld(k) \in Nat
      BY <1>4, <2>2, <2>7 DEF FirstHeld
    <3> QED BY <2>1, <2>2, <2>3, <2>4, <2>5, <3>2, <3>3
  <2>8. CASE k = m /\ f.idx # 0
    <3>1. FirstInAir(k)' = FirstInAir(k)
      BY <1>5, <2>8 DEF FirstInAir
    <3>2. handed'[k] + FirstHeld(k)' <= handed[k] + FirstHeld(k)
          /\ FirstHeld(k)' \in Nat /\ FirstHeld(k) \in Nat
      <4>1. Stored(m) \cup {f.idx} = 0..(f.total - 1) => 0 \in Stored(m)
        <5>1. 0 \in 0..(f.total - 1)
          BY <1>3
        <5> QED BY <5>1, <2>8
      <4> QED BY <1>4, <2>2, <2>8, <4>1 DEF FirstHeld
    <3> QED BY <2>1, <2>2, <2>3, <2>4, <2>5, <3>1, <3>2
  <2> QED BY <2>6, <2>7, <2>8
<1> QED BY <1>7, <1>8, <1>12, <1>13, <1>14 DEF IInv

-----------------------------------------------------------------------------
(* The invariant is inductive, and what it says.                           *)

\* The invariant holds before anything is sent.
LEMMA InvInit == Init => Inv
<1> SUFFICES ASSUME Init PROVE Inv
  OBVIOUS
<1> DEFINE tot == [m \in Messages |-> 0]
<1>1. tot \in [Messages -> Nat]
  OBVIOUS
<1>2. SendersOK(tot)
  <2>1. Idle \in Sessions
    BY CountAssumption DEF Idle, Sessions, None
  <2>2. session \in [Sources -> Sessions] /\ \A s \in Sources : session[s] = Idle
    BY <2>1 DEF Init
  <2>3. number \in [Sources -> Nat] /\ \A s \in Sources : number[s] = 0
    BY DEF Init
  <2>4. \A s \in Sources : number[s] <= Sends[s]
    BY <2>3, CountAssumption
  <2>5. outcome \in [Messages -> {"new", "open", "ok", "sent", "failed"}]
    BY DEF Init
  <2>6. \A m \in Messages : outcome[m] = "new" /\ m[2] > number[m[1]]
    <3>1. \A m \in Messages : m[1] \in Sources /\ m[2] \in 1..Sends[m[1]] /\ Sends[m[1]] \in Nat
      BY MessageShape, CountAssumption
    <3> QED BY <2>3, <3>1 DEF Init
  <2>7. Idle.at = "idle"
    BY DEF Idle
  <2> QED BY <2>2, <2>3, <2>4, <2>5, <2>6, <2>7 DEF SendersOK
<1>3. AirOK(tot)
  BY FS_EmptySet DEF Init, AirOK
<1>4. SlotsOK(tot) /\ RecordsOK
  <2>1. Len(<<>>) = 0 /\ 0 <= Slots /\ 0 <= RingDepth
    BY CountAssumption DEF RingDepth
  <2>2. slots = <<>> /\ aborted = <<>>
    BY DEF Init
  <2>3. DistinctKeys(slots)
    BY <2>2 DEF DistinctKeys
  <2> QED BY <2>1, <2>2, <2>3, EmptySeq DEF SlotsOK, RecordsOK
<1>5. HandedOK
  BY DEF Init, HandedOK, PayloadsOK
<1>6. KeptOK
  BY DEF Init, KeptOK, Idle
<1>7. BudgetOK
  <2> SUFFICES ASSUME NEW m \in Messages
               PROVE  handed[m] + FirstHeld(m) + Cardinality(FirstInAir(m)) <= FirstSent(m)
    BY DEF BudgetOK
  <2>1. FirstInAir(m) = {} /\ handed[m] = 0 /\ outcome[m] = "new"
    BY DEF Init, FirstInAir
  <2>2. FirstHeld(m) = 0
    BY DEF Init, FirstHeld, Stored, StoredIn
  <2> QED BY <2>1, <2>2, FS_EmptySet DEF FirstSent
<1> HIDE DEF tot
<1> QED BY <1>1, <1>2, <1>3, <1>4, <1>5, <1>6, <1>7 DEF Inv, IInv

\* A step without effect.
LEMMA StutterStep ==
  ASSUME NEW tot \in [Messages -> Nat], IInv(tot), UNCHANGED vars
  PROVE  IInv(tot)'
<1>1. UNCHANGED <<session, number, outcome, slots, aborted, handed, payloads, forgot, air>>
  BY DEF vars, senderVars, receiverVars
<1>2. SendersOK(tot)' /\ AirOK(tot)'
  BY <1>1 DEF IInv, SendersOK, AirOK, Begun
<1>3. SlotsOK(tot)' /\ RecordsOK' /\ HandedOK'
  BY <1>1 DEF IInv, SlotsOK, RecordsOK, HandedOK, PayloadsOK, DistinctKeys, GoodSlots,
       GoodRecords, Begun, SlotFor, RecordFor, Key, MsgId, Some
<1>4. KeptOK' /\ BudgetOK'
  BY <1>1 DEF IInv, KeptOK, Kept, Passed, IsAborted, Stored, StoredIn, Key, MsgId,
       BudgetOK, FirstHeld, FirstInAir, FirstSent
<1> QED BY <1>2, <1>3, <1>4 DEF IInv

\* What the disjuncts of Next are, by whom they are taken.
LEMMA StepOf ==
  ASSUME [Next]_vars
  PROVE  \/ \E s \in Sources : \E total \in Totals : Offer(s, total)
         \/ \E s \in Sources : Send(s)
         \/ \E s \in Sources : SendFails(s) \/ AckTimeout(s) \/ GetAck(s)
         \/ \E s \in Sources : PutOff(s) \/ Resume(s)
         \/ \E f \in air : Receive(f)
         \/ \E i \in 1..Slots : SlotTimeout(i)
         \/ \E i \in 1..RingDepth : RecordExpires(i)
         \/ Restart
         \/ UNCHANGED vars
  BY Zenon DEF Next

\* Every step keeps the invariant.
LEMMA InvNext ==
  ASSUME IdsDoNotRepeat, Inv, [Next]_vars
  PROVE  Inv'
<1>1. PICK tot \in [Messages -> Nat] : IInv(tot)
  BY DEF Inv
<1>2. Messages' = Messages
  OBVIOUS
<1>3. ASSUME NEW s \in Sources, NEW total \in Totals, Offer(s, total) PROVE Inv'
  BY <1>1, <1>3, OfferStep DEF Inv
<1>4. SUFFICES ASSUME ~(\E s \in Sources : \E total \in Totals : Offer(s, total))
               PROVE  IInv(tot)'
  BY <1>1, <1>3 DEF Inv
<1>5. ASSUME NEW s \in Sources, Send(s) PROVE IInv(tot)'
  BY <1>1, <1>5, SendStep
<1>6. ASSUME NEW s \in Sources, SendFails(s) \/ AckTimeout(s) \/ GetAck(s) PROVE IInv(tot)'
  <2>1. session[s].at \in {"ready", "waiting"} /\ UNCHANGED <<receiverVars, air>>
    BY <1>6 DEF SendFails, AckTimeout, GetAck
  <2>2. GoesOn(s) \/ IsOver(s)
    <3>1. CASE SendFails(s) \/ AckTimeout(s)
      BY <1>1, <2>1, <3>1, RetryMoves DEF SendFails, AckTimeout
    <3>2. CASE GetAck(s)
      BY <1>1, <2>1, <3>2, AdvanceMoves DEF GetAck
    <3> QED BY <1>6, <3>1, <3>2
  <2>3. session[s].at # "idle"
    BY <2>1
  <2> QED BY <1>1, <2>1, <2>2, <2>3, QuietStep
<1>7. ASSUME NEW s \in Sources, PutOff(s) \/ Resume(s) PROVE IInv(tot)'
  <2>1. session[s].at # "idle" /\ UNCHANGED <<receiverVars, air>>
    BY <1>7 DEF PutOff, Resume
  <2>2. GoesOn(s)
    BY <1>1, <1>7, PauseMoves
  <2> QED BY <1>1, <2>1, <2>2, QuietStep
<1>8. ASSUME NEW f \in air, Receive(f) PROVE IInv(tot)'
  BY <1>1, <1>8, ReceiveStep
<1>9. ASSUME NEW i, SlotTimeout(i) PROVE IInv(tot)'
  BY <1>1, <1>9, SlotTimeoutStep
<1>10. ASSUME NEW i, RecordExpires(i) PROVE IInv(tot)'
  BY <1>1, <1>10, RecordExpiresStep
<1>11. CASE Restart
  BY <1>1, <1>11, RestartStep
<1>12. CASE UNCHANGED vars
  BY <1>1, <1>12, StutterStep
<1> QED BY <1>4, <1>5, <1>6, <1>7, <1>8, <1>9, <1>10, <1>11, <1>12, StepOf

\* The two bounds of the model hold.
BoundsOK == waits \in 0..MaxWaits /\ restarts \in 0..MaxRestarts

\* No step exceeds them.
LEMMA BoundsAlways == Spec => []BoundsOK
<1>1. Init => BoundsOK
  BY CountAssumption DEF Init, BoundsOK
<1>2. ASSUME BoundsOK, [Next]_vars PROVE BoundsOK'
  <2>1. CASE Restart
    BY <1>2, <2>1, CountAssumption DEF Restart, BoundsOK
  <2>2. ASSUME NEW s \in Sources, PutOff(s) \/ Resume(s) PROVE BoundsOK'
    BY <1>2, <2>2, CountAssumption DEF PutOff, Resume, BoundsOK, bounds
  <2>3. CASE UNCHANGED bounds
    BY <1>2, <2>3 DEF BoundsOK, bounds
  <2> QED BY <1>2, <2>1, <2>2, <2>3, StepOf, Zenon
       DEF Offer, Send, SendFails, AckTimeout, GetAck, Receive, SlotTimeout, RecordExpires,
           vars
<1> QED BY <1>1, <1>2, PTL DEF Spec

\* So it always holds.
LEMMA InvAlways ==
  ASSUME IdsDoNotRepeat
  PROVE  Spec => []Inv
<1>1. Init => Inv
  BY InvInit
<1>2. Inv /\ [Next]_vars => Inv'
  BY InvNext
<1> QED BY <1>1, <1>2, PTL DEF Spec

\* The invariant gives every variable a value of its kind.
LEMMA TypeFromInv ==
  ASSUME Inv, BoundsOK
  PROVE  TypeOK
<1>1. PICK tot \in [Messages -> Nat] : IInv(tot)
  BY DEF Inv
<1>2. /\ session \in [Sources -> Sessions]
      /\ forgot \subseteq Messages
      /\ waits \in 0..MaxWaits /\ restarts \in 0..MaxRestarts
      /\ Len(slots) <= Slots /\ Len(aborted) <= RingDepth
  BY <1>1 DEF IInv, SendersOK, HandedOK, SlotsOK, RecordsOK, BoundsOK
<1>3. ASSUME NEW s \in Sources PROVE number[s] \in 0..Sends[s]
  BY <1>1, CountAssumption DEF IInv, SendersOK
<1>4. ASSUME NEW i \in DOMAIN slots
      PROVE  DOMAIN slots[i].parts \in (SUBSET (0..(slots[i].total - 1)))
                                          \ {{}, 0..(slots[i].total - 1)}
  <2>1. slots[i] \in GoodSlots(tot)
    BY <1>1, LenProperties, ElementOfSeq DEF IInv, SlotsOK
  <2>2. PICK m \in Begun : \E D \in Some(tot[m]) : slots[i] = SlotFor(m, tot[m], D)
    BY <2>1, GoodSlotShape
  <2>3. PICK D \in Some(tot[m]) : slots[i] = SlotFor(m, tot[m], D)
    BY <2>2
  <2>4. DOMAIN slots[i].parts = D /\ slots[i].total = tot[m]
    BY <2>3 DEF SlotFor
  <2> QED BY <2>3, <2>4 DEF Some
<1> QED BY <1>2, <1>3, <1>4 DEF TypeOK

\* Sessions, slots and records always have the values their code gives them: the
\* retries in their budget, no used slot empty or full, no more than RF_REASM_SLOTS
\* slots and 2 * RF_REASM_SLOTS records.
THEOREM TypesAlways ==
  ASSUME IdsDoNotRepeat
  PROVE  Spec => []TypeOK
<1>1. Inv /\ BoundsOK => TypeOK
  BY TypeFromInv
<1> QED BY <1>1, InvAlways, BoundsAlways, PTL

\* What was handed over has one message as its content.
LEMMA WholeFromInv ==
  ASSUME Inv
  PROVE  NoSplice
<1>1. PICK tot \in [Messages -> Nat] : IInv(tot)
  BY DEF Inv
<1> SUFFICES ASSUME NEW p \in payloads PROVE Cardinality(Range(p)) = 1
  BY DEF NoSplice
<1>2. PICK m \in Messages : \E D \in (SUBSET Nat) \ {{}} : p = [k \in D |-> m]
  BY <1>1 DEF IInv, HandedOK, PayloadsOK
<1>3. Range(p) = {m}
  BY <1>2 DEF Range
<1> QED BY <1>3, FS_Singleton

\* However many senders, messages, slots and restarts there are: the receive
\* callback never gets a message put together from fragments of two, as long as no
\* sender uses an id a second time (Reassembler.h:9-18).
THEOREM WholeMessagesOnly ==
  ASSUME IdsDoNotRepeat
  PROVE  Spec => []NoSplice
<1>1. Inv => NoSplice
  BY WholeFromInv
<1> QED BY <1>1, InvAlways, PTL

\* What was passed is what is kept, and what is kept is found in the slot.
LEMMA AckedFromInv ==
  ASSUME IdsDoNotRepeat, Inv
  PROVE  AckedIsKept
<1>1. PICK tot \in [Messages -> Nat] : IInv(tot)
  BY DEF Inv
<1> SUFFICES ASSUME NEW s \in Sources, session[s].ack, session[s].next > 0
             PROVE  \/ handed[session[s].msg] > 0
                    \/ session[s].msg \in forgot
                    \/ IsAborted(Key(session[s].msg))
                    \/ \E i \in SlotOf(Key(session[s].msg)) :
                          \A k \in 0..(session[s].next - 1) :
                             /\ k \in DOMAIN slots[i].parts
                             /\ slots[i].parts[k] = session[s].msg
  BY DEF AckedIsKept
<1>2. session[s].at # "idle"
  BY <1>1 DEF IInv, SendersOK, Idle
<1>3. session[s].msg \in Messages /\ session[s].next \in Nat
  BY <1>1, <1>2, ActiveSession DEF IInv, Sessions
<1>4. PICK m \in Messages : m = session[s].msg
  BY <1>3
<1>5. PICK n \in Nat : n = session[s].next
  BY <1>3
<1>6. Passed(session[s]) \in {n, n + 1}
  BY <1>5 DEF Passed
<1>7. Kept(session[s])
  BY <1>1, <1>5, <1>6 DEF IInv, KeptOK
<1>8. CASE 0..(Passed(session[s]) - 1) \subseteq Stored(m)
  <2>1. 0..(n - 1) \subseteq Stored(m) /\ 0 \in 0..(n - 1)
    BY <1>5, <1>6, <1>8
  <2>2. SlotsOK(tot)
    BY <1>1 DEF IInv
  <2>3. PICK i \in SlotOf(Key(m)) : TRUE
    BY <2>1, <2>2, SlotOfMessage
  <2>4. slots[i] = SlotFor(m, tot[m], Stored(m))
    BY <2>2, <2>3, SlotOfMessage
  <2>5. slots[i].parts = [k \in Stored(m) |-> m]
    BY <2>4 DEF SlotFor
  <2>6. \A k \in 0..(n - 1) : k \in DOMAIN slots[i].parts /\ slots[i].parts[k] = m
    BY <2>1, <2>5
  <2> QED BY <1>4, <1>5, <2>3, <2>6
<1> QED BY <1>4, <1>7, <1>8 DEF Kept

\* Every fragment an acknowledged session has passed is in its slot, unless the
\* message is handed over, recorded as aborted or forgotten about: no acknowledgement
\* is sent for a fragment that is dropped (Engine.cpp:1113).
THEOREM AcknowledgedIsKept ==
  ASSUME IdsDoNotRepeat
  PROVE  Spec => []AckedIsKept
<1>1. Inv => AckedIsKept
  BY AckedFromInv
<1> QED BY <1>1, InvAlways, PTL

-----------------------------------------------------------------------------
(* The transfer implements LargeDelivery.                                  *)

\* The initial states correspond.
LEMMA PromiseInit == Init => Promise!Init
  BY DEF Init, Promise!Init

\* A verdict given to the sender of m.
LEMMA PromiseVerdict ==
  ASSUME NEW m \in Messages,
         outcome[m] = "open", NEW how \in {"sent", "failed", "ok"},
         outcome' = [outcome EXCEPT ![m] = how], UNCHANGED <<handed, forgot>>,
         how = "ok" => handed[m] > 0 \/ m \in forgot
  PROVE  Promise!Next
<1>1. CASE how = "ok"
  BY <1>1 DEF Promise!Next, Promise!Succeed
<1>2. CASE how = "sent"
  BY <1>2 DEF Promise!Next, Promise!SentOut
<1>3. CASE how = "failed"
  BY <1>3 DEF Promise!Next, Promise!Fail
<1> QED BY <1>1, <1>2, <1>3

\* The receiver may only lose track of some messages.
LEMMA PromiseForget ==
  ASSUME UNCHANGED <<outcome, handed>>, forgot \subseteq forgot', forgot' \subseteq Messages
  PROVE  Promise!Next
<1>1. forgot' = forgot \cup forgot'
  OBVIOUS
<1>2. PICK S \in SUBSET Messages : S = forgot'
  OBVIOUS
<1>3. Promise!Forget(S)
  BY <1>1, <1>2 DEF Promise!Forget
<1> QED BY <1>3 DEF Promise!Next

\* A success is only reported when the receiver has kept all of the message.
LEMMA SuccessIsKept ==
  ASSUME IdsDoNotRepeat, NEW tot \in [Messages -> Nat], IInv(tot), NEW s \in Sources,
         session[s].at = "waiting", session[s].coming,
         session[s].next + 1 >= session[s].total
  PROVE  handed[session[s].msg] > 0 \/ session[s].msg \in forgot
<1>1. SendersOK(tot) /\ SlotsOK(tot) /\ KeptOK
  BY DEF IInv
<1>2. PICK m \in Messages : m = session[s].msg
  BY <1>1, ActiveSession
<1>3. /\ session[s].total = tot[m] /\ session[s].next \in 0..(tot[m] - 1)
      /\ session[s].ack /\ tot[m] \in Nat
  BY <1>1, <1>2, ActiveSession
<1>4. Passed(session[s]) = tot[m] /\ tot[m] > 0
  BY <1>3 DEF Passed
<1>5. Kept(session[s])
  BY <1>1, <1>3, <1>4 DEF KeptOK
<1>6. ~(0..(tot[m] - 1) \subseteq Stored(m))
  <2>1. CASE SlotOf(Key(m)) = {}
    <3>1. Stored(m) = {} /\ 0 \in 0..(tot[m] - 1)
      BY <1>1, <1>4, <2>1, SlotOfMessage
    <3> QED BY <3>1
  <2>2. CASE SlotOf(Key(m)) # {}
    <3>1. Stored(m) \in Some(tot[m])
      BY <1>1, <2>2, SlotOfMessage
    <3> QED BY <1>3, <3>1, PrefixIsShort
  <2> QED BY <2>1, <2>2
<1> QED BY <1>2, <1>3, <1>4, <1>5, <1>6 DEF Kept

\* A fragment that arrives hands one message over, or loses the record of another.
LEMMA PromiseReceive ==
  ASSUME IdsDoNotRepeat, NEW tot \in [Messages -> Nat], IInv(tot), NEW f \in air, Receive(f)
  PROVE  Promise!Next
<1>1. PICK m \in Messages : m = f.msg /\ m \in Begun
  BY DEF IInv, AirOK, Begun
<1>2. /\ RecordsGoOn
      /\ handed' \in [Messages -> Nat] /\ handed \in [Messages -> Nat]
      /\ \A k \in Messages \ {m} : handed'[k] = handed[k]
      /\ \/ handed'[m] = handed[m]
         \/ handed'[m] = handed[m] + 1 /\ forgot' = forgot
  BY <1>1, ReceiveEffect DEF IInv, HandedOK
<1>3. outcome' = outcome
  BY DEF Receive
<1>4. CASE handed'[m] = handed[m]
  <2>1. handed' = handed
    BY <1>2, <1>4
  <2> QED BY <1>2, <1>3, <2>1, PromiseForget DEF RecordsGoOn
<1>5. CASE handed'[m] = handed[m] + 1 /\ forgot' = forgot
  <2>1. handed' = [handed EXCEPT ![m] = @ + 1]
    BY <1>2, <1>5
  <2>2. IInv(tot)'
    BY ReceiveStep
  <2>3. (handed[m] + FirstHeld(m) + Cardinality(FirstInAir(m)) <= FirstSent(m))'
    BY <2>2 DEF IInv, BudgetOK
  <2>4. IsFiniteSet(FirstInAir(m)')
    BY <2>2, FS_Subset DEF IInv, AirOK, FirstInAir
  <2>5. Cardinality(FirstInAir(m)') \in Nat /\ FirstHeld(m)' \in Nat
    BY <2>4, FS_CardinalityType DEF FirstHeld
  <2>6. FirstSent(m)' \in 0..(RetryMax + 1)
    <3>1. (session \in [Sources -> Sessions])'
      BY <2>2 DEF IInv, SendersOK
    <3>2. m[1] \in Sources /\ RetryMax \in Nat
      BY MessageShape, CountAssumption
    <3> QED BY <3>1, <3>2 DEF FirstSent, Sessions
  <2>7. handed[m] \in Nat /\ handed[m] < RetryMax + 1
    BY <1>2, <1>5, <2>3, <2>5, <2>6, CountAssumption
  <2>8. Promise!HandOver(m)
    BY <1>1, <1>3, <1>5, <2>1, <2>7 DEF Promise!HandOver, Begun
  <2> QED BY <2>8 DEF Promise!Next
<1> QED BY <1>2, <1>4, <1>5

\* Every step of the transfer is one of the promise, or none.
LEMMA PromiseNext ==
  ASSUME IdsDoNotRepeat, Inv, Inv', [Next]_vars
  PROVE  Promise!Next \/ UNCHANGED Promise!vars
<1>1. PICK tot \in [Messages -> Nat] : IInv(tot)
  BY DEF Inv
<1>2. SendersOK(tot) /\ SlotsOK(tot)
  BY <1>1 DEF IInv
<1>3. ASSUME NEW s \in Sources, NEW total \in Totals, Offer(s, total) PROVE Promise!Next
  <2>1. PICK m : m = <<s, number[s] + 1>>
    OBVIOUS
  <2>2. number[s] \in Nat /\ number[s] < Sends[s] /\ Sends[s] \in Nat
    BY <1>2, <1>3, CountAssumption DEF Offer, SendersOK
  <2>3. m \in Messages /\ m[1] = s /\ m[2] = number[s] + 1
    BY <2>1, <2>2, MessageShape
  <2>4. outcome[m] = "new"
    BY <1>2, <2>2, <2>3 DEF SendersOK
  <2>5. Promise!Offer(m)
    BY <1>3, <2>1, <2>4 DEF Offer, Promise!Offer, receiverVars
  <2> QED BY <2>3, <2>5 DEF Promise!Next
<1>4. ASSUME NEW s \in Sources, session[s].at # "idle",
             UNCHANGED <<handed, forgot>>,
             NEW how \in {"sent", "failed", "ok"}, Complete(s, how),
             how = "ok" => handed[session[s].msg] > 0 \/ session[s].msg \in forgot
      PROVE  Promise!Next
  <2>1. session[s].msg \in Messages /\ outcome[session[s].msg] = "open"
    BY <1>2, <1>4, ActiveSession
  <2> QED BY <1>4, <2>1, PromiseVerdict DEF Complete
<1>5. ASSUME NEW s \in Sources, Send(s) PROVE Promise!Next \/ UNCHANGED Promise!vars
  <2>1. session[s].at # "idle" /\ UNCHANGED <<handed, forgot>>
    BY <1>5 DEF Send, receiverVars
  <2>2. UNCHANGED outcome \/ Complete(s, "sent")
    BY <1>5 DEF Send, Advance
  <2> QED BY <1>4, <2>1, <2>2 DEF Promise!vars
<1>6. ASSUME NEW s \in Sources, SendFails(s) \/ AckTimeout(s)
      PROVE  Promise!Next \/ UNCHANGED Promise!vars
  <2>1. session[s].at # "idle" /\ UNCHANGED <<handed, forgot>>
    BY <1>6 DEF SendFails, AckTimeout, receiverVars
  <2>2. UNCHANGED outcome \/ Complete(s, "failed")
    BY <1>6 DEF SendFails, AckTimeout, Retry
  <2> QED BY <1>4, <2>1, <2>2 DEF Promise!vars
<1>7. ASSUME NEW s \in Sources, GetAck(s) PROVE Promise!Next \/ UNCHANGED Promise!vars
  <2>1. session[s].at = "waiting" /\ session[s].coming /\ UNCHANGED <<handed, forgot>>
    BY <1>7 DEF GetAck, receiverVars
  <2>2. session[s].ack
    BY <1>2, <2>1, ActiveSession
  <2>3. \/ UNCHANGED outcome
        \/ (session[s].next + 1 >= session[s].total) /\ Complete(s, "ok")
    BY <1>7, <2>2 DEF GetAck, Advance
  <2> QED BY <1>1, <1>4, <2>1, <2>3, SuccessIsKept DEF Promise!vars
<1>8. ASSUME NEW s \in Sources, PutOff(s) \/ Resume(s) PROVE UNCHANGED Promise!vars
  BY <1>8 DEF PutOff, Resume, receiverVars, Promise!vars
<1>9. ASSUME NEW f \in air, Receive(f) PROVE Promise!Next
  BY <1>1, <1>9, PromiseReceive
<1>10. ASSUME UNCHANGED <<outcome, handed>>, forgot \subseteq forgot' PROVE Promise!Next
  <2>1. forgot' \subseteq Messages
    BY DEF Inv, IInv, HandedOK
  <2> QED BY <1>10, <2>1, PromiseForget
<1>11. ASSUME NEW i, SlotTimeout(i) PROVE Promise!Next
  <2>1. UNCHANGED <<outcome, handed>> /\ forgot \subseteq forgot'
    BY <1>11 DEF SlotTimeout, MarkAborted, senderVars
  <2> QED BY <1>10, <2>1
<1>12. ASSUME NEW i, RecordExpires(i) PROVE Promise!Next
  <2>1. UNCHANGED <<outcome, handed>> /\ forgot \subseteq forgot'
    BY <1>12 DEF RecordExpires, senderVars
  <2> QED BY <1>10, <2>1
<1>13. CASE Restart
  <2>1. UNCHANGED <<outcome, handed>> /\ forgot \subseteq forgot'
    BY <1>13 DEF Restart, senderVars
  <2> QED BY <1>10, <2>1
<1>14. CASE UNCHANGED vars
  BY <1>14 DEF vars, senderVars, receiverVars, Promise!vars
<1> QED BY <1>3, <1>5, <1>6, <1>7, <1>8, <1>9, <1>11, <1>12, <1>13, <1>14, StepOf

\* The transfer implements LargeDelivery: one verdict per message, a success only
\* for what was handed over or forgotten about, and no more hand-overs than the
\* first fragment has transmissions.
THEOREM TransferImplements ==
  ASSUME IdsDoNotRepeat
  PROVE  Spec => Implements
<1>1. Init => Promise!Init
  BY PromiseInit
<1>2. Inv /\ Inv' /\ [Next]_vars => [Promise!Next]_(Promise!vars)
  BY PromiseNext
<1> QED BY <1>1, <1>2, InvAlways, PTL DEF Spec, Implements, Promise!Spec

=============================================================================
