-------------------------- MODULE MeshFloodProofs ---------------------------
(***************************************************************************)
(* For any mesh, routes, messages, queues and faults: an acknowledged      *)
(* message was handed over, none leaves its hop budget, none is handed     *)
(* over or relayed twice unless its sender was forgotten, no new one is    *)
(* taken for a replay, and a broadcast reaches whom it can reach.          *)
(*                                                                         *)
(* IInv, at the end of the module, adds to these what makes them stay:     *)
(* ACKs tell the truth (AcksAreTrue); a copy is no further from its source *)
(* than the hops it has used (BudgetKept); a window holds what its node    *)
(* accepted of each sender it has not forgotten (WindowsFollow); an        *)
(* accepted message waits to be relayed or was relayed, not both           *)
(* (OnceEach); only what was sent is anywhere (SentOnly); and while        *)
(* nothing was lost, each neighbour of a node reached is reached, has a    *)
(* copy coming, or the node has one to relay (Flood).                      *)
(***************************************************************************)
EXTENDS MeshFlood, FiniteSetTheorems, SequenceTheorems, NaturalsInduction, TLAPS

\* The numbers of a node's messages tell them apart and lie within half of
\* the number space, which is what 24-bit numbers can order.
NumbersClose ==
    \A m, k \in Messages : m.src = k.src =>
        /\ m.number = k.number => m = k
        /\ 2 * (m.number - k.number) < SeqSpace

-----------------------------------------------------------------------------
(* Numbers and windows.                                                    *)

\* A remainder is what is left of a multiple.
LEMMA Remainder ==
  ASSUME NEW s \in Nat \ {0}, NEW q \in Int, NEW r \in 0..(s - 1), NEW a \in Int, a = s * q + r
  PROVE  a % s = r
OBVIOUS

\* Every number is a multiple and a remainder.
LEMMA Quotient ==
  ASSUME NEW s \in Nat \ {0}, NEW a \in Int
  PROVE  \E q \in Int, r \in 0..(s - 1) : a = s * q + r /\ a % s = r
<1>1. a \div s \in Int /\ a % s \in 0..(s - 1) /\ a = s * (a \div s) + (a % s)
  OBVIOUS
<1> QED BY <1>1

\* The difference of two numbers on the wire is that of the messages, across
\* the wrap.
LEMMA AheadIs ==
  ASSUME FreshnessAssumption, FirstSeq \in Nat, NEW a \in Nat, NEW b \in Nat,
         2 * (a - b) < SeqSpace, 2 * (b - a) < SeqSpace
  PROVE  Ahead((FirstSeq + a) % SeqSpace, (FirstSeq + b) % SeqSpace) = a - b
<1>1. SeqSpace \in Nat \ {0} /\ 2 * WindowBits <= SeqSpace /\ WindowBits \in Nat \ {0}
      /\ SeqSpace % 2 = 0
  BY DEF FreshnessAssumption
<1>0. SeqSpace \in Nat \ {0}
  BY <1>1
<1>2. PICK h \in Nat : SeqSpace = 2 * h
  BY <1>1
<1>3. SeqSpace \div 2 = h
  BY <1>1, <1>2
<1> DEFINE x == FirstSeq + a
           y == FirstSeq + b
<1>4. x \in Int /\ y \in Int /\ x - y = a - b
  OBVIOUS
<1>5. PICK p \in Int, u \in 0..(SeqSpace - 1) : x = SeqSpace * p + u /\ x % SeqSpace = u
  <2> HIDE DEF x, y
  <2> QED BY <1>0, <1>4, Quotient
<1>6. PICK q \in Int, v \in 0..(SeqSpace - 1) : y = SeqSpace * q + v /\ y % SeqSpace = v
  <2> HIDE DEF x, y
  <2> QED BY <1>0, <1>4, Quotient
<1> HIDE DEF x, y
<1>7. SeqSpace * (q - p) = SeqSpace * q - SeqSpace * p
  BY <1>1, <1>5, <1>6
<1>8. PICK c \in Int, d \in Int : c = SeqSpace * q /\ d = SeqSpace * p
  BY <1>1, <1>5, <1>6
<1>9. u - v = (a - b) + SeqSpace * (q - p)
  BY <1>4, <1>5, <1>6, <1>7, <1>8
<1>10. CASE a - b >= 0
  <2>1. u - v = SeqSpace * (q - p) + (a - b) /\ a - b \in 0..(SeqSpace - 1)
    BY <1>1, <1>9, <1>10
  <2>2. (u - v) % SeqSpace = a - b
    BY <1>1, <2>1, Remainder
  <2> QED BY <1>2, <1>3, <1>5, <1>6, <2>2 DEF Ahead, x, y
<1>11. CASE a - b < 0
  <2>1. SeqSpace * (q - p) = SeqSpace * (q - p - 1) + SeqSpace
    BY <1>1
  <2>2. u - v = SeqSpace * (q - p - 1) + (SeqSpace + (a - b))
        /\ SeqSpace + (a - b) \in 0..(SeqSpace - 1)
    BY <1>1, <1>9, <1>11, <2>1
  <2>3. (u - v) % SeqSpace = SeqSpace + (a - b)
    BY <1>1, <2>2, Remainder
  <2> QED BY <1>2, <1>3, <1>5, <1>6, <1>11, <2>3 DEF Ahead, x, y
<1> QED BY <1>10, <1>11

-----------------------------------------------------------------------------
(* The window tables, as sets of peers.                                    *)

Entries(t) == {t[i] : i \in 1..Len(t)}
OnePerSender(t) == \A i, j \in 1..Len(t) : t[i].src = t[j].src => i = j

Table(t) == t \in Seq(Windows) /\ Len(t) <= MaxPeers /\ OnePerSender(t)

\* Who an unknown sender pushes out of a full table.
Pushed(t, src) == IF Evicts(t, src) THEN {Victim(t)} ELSE {}

\* A sequence without one of its places.
LEMMA RemoveAtIs ==
  ASSUME NEW S, NEW s \in Seq(S), NEW p \in 1..Len(s)
  PROVE  /\ RemoveAt(s, p) \in Seq(S) /\ Len(RemoveAt(s, p)) = Len(s) - 1
         /\ \A i \in 1..(Len(s) - 1) :
              RemoveAt(s, p)[i] = s[IF i < p THEN i ELSE i + 1]
<1>1. PICK n \in Nat : n = Len(s)
  BY LenProperties
<1>2. \A i \in 1..n : s[i] \in S
  BY <1>1, ElementOfSeq
<1> DEFINE a == SubSeq(s, 1, p - 1)
           b == SubSeq(s, p + 1, n)
<1>3. a \in Seq(S) /\ Len(a) = p - 1 /\ \A i \in 1..(p - 1) : a[i] = s[i]
  <2>1. \A i \in 1..(p - 1) : s[i] \in S
    BY <1>1, <1>2
  <2>2. PICK q \in Nat : q = p - 1
    BY <1>1
  <2>3. SubSeq(s, 1, q) \in Seq(S) /\ Len(SubSeq(s, 1, q)) = IF 1 <= q THEN q - 1 + 1 ELSE 0
    BY <2>1, <2>2, SubSeqProperties
  <2>4. \A i \in 1..(q - 1 + 1) : SubSeq(s, 1, q)[i] = s[1 + i - 1]
    BY <2>1, <2>2, SubSeqProperties
  <2>5. \A i \in 1..q : i \in 1..(q - 1 + 1) /\ 1 + i - 1 = i
    BY <2>2
  <2> QED BY <2>2, <2>3, <2>4, <2>5
<1>4. b \in Seq(S) /\ Len(b) = n - p /\ \A i \in 1..(n - p) : b[i] = s[p + i]
  <2>1. \A i \in (p + 1)..n : s[i] \in S
    BY <1>1, <1>2
  <2>2. PICK q \in Nat : q = p + 1
    BY <1>1
  <2>3. SubSeq(s, q, n) \in Seq(S) /\ Len(SubSeq(s, q, n)) = IF q <= n THEN n - q + 1 ELSE 0
    BY <1>1, <2>1, <2>2, SubSeqProperties
  <2>4. \A i \in 1..(n - q + 1) : SubSeq(s, q, n)[i] = s[q + i - 1]
    BY <1>1, <2>1, <2>2, SubSeqProperties
  <2>5. n - q + 1 = n - p /\ p <= n
        /\ \A i \in 1..(n - p) : i \in 1..(n - q + 1) /\ q + i - 1 = p + i
    BY <1>1, <2>2
  <2> QED BY <1>1, <2>2, <2>3, <2>4, <2>5
<1> HIDE DEF a, b
<1>5. PICK t \in Seq(S) : t = a \o b
  BY <1>3, <1>4, ConcatProperties
<1>6. RemoveAt(s, p) = t
  BY <1>1, <1>5 DEF RemoveAt, a, b
<1>7. /\ Len(t) = Len(a) + Len(b)
      /\ \A i \in 1..(Len(a) + Len(b)) : t[i] = IF i <= Len(a) THEN a[i] ELSE b[i - Len(a)]
  BY <1>3, <1>4, <1>5, ConcatProperties
<1>8. /\ Len(a) + Len(b) = n - 1 /\ Len(t) = n - 1
      /\ \A i \in 1..(n - 1) : t[i] = IF i <= p - 1 THEN a[i] ELSE b[i - (p - 1)]
  <2>1. Len(a) + Len(b) = n - 1
    BY <1>1, <1>3, <1>4
  <2> QED BY <1>3, <1>7, <2>1
<1>9. ASSUME NEW i \in 1..(n - 1) PROVE t[i] = s[IF i < p THEN i ELSE i + 1]
  <2>1. CASE i < p
    <3>1. i <= p - 1 /\ i \in 1..(p - 1)
      BY <1>1, <2>1
    <3> QED BY <1>3, <1>8, <2>1, <3>1
  <2>2. CASE ~(i < p)
    <3>1. i - (p - 1) \in 1..(n - p) /\ p + (i - (p - 1)) = i + 1 /\ ~(i <= p - 1)
      BY <1>1, <2>2
    <3>2. b[i - (p - 1)] = s[p + (i - (p - 1))]
      BY <1>4, <3>1
    <3> QED BY <1>8, <2>2, <3>1, <3>2
  <2> QED BY <2>1, <2>2
<1> QED BY <1>1, <1>5, <1>6, <1>8, <1>9

\* A table without the peer at one of its places.
LEMMA WithoutOne ==
  ASSUME NEW S, NEW t \in Seq(S), OnePerSender(t), NEW p \in 1..Len(t), NEW k,
         Len(k) = Len(t) - 1,
         \A i \in 1..(Len(t) - 1) : k[i] = t[IF i < p THEN i ELSE i + 1]
  PROVE  OnePerSender(k) /\ Entries(k) = {e \in Entries(t) : e.src # t[p].src}
<1>1. PICK n \in Nat : n = Len(t)
  BY LenProperties
<1>2. /\ p \in 1..n /\ Len(k) = n - 1 /\ \A i \in 1..(n - 1) : k[i] = t[IF i < p THEN i ELSE i + 1]
      /\ \A i, j \in 1..n : t[i].src = t[j].src => i = j
  BY <1>1 DEF OnePerSender
<1>3. OnePerSender(k)
  <2> SUFFICES ASSUME NEW i \in 1..(n - 1), NEW j \in 1..(n - 1), k[i].src = k[j].src
               PROVE  i = j
    BY <1>2 DEF OnePerSender
  <2>1. PICK x \in 1..n : x = IF i < p THEN i ELSE i + 1
    BY <1>2
  <2>2. PICK y \in 1..n : y = IF j < p THEN j ELSE j + 1
    BY <1>2
  <2>3. x = y
    BY <1>2, <2>1, <2>2
  <2> QED BY <1>2, <2>1, <2>2, <2>3
<1>4. ASSUME NEW i \in 1..(n - 1) PROVE k[i] \in Entries(t) /\ k[i].src # t[p].src
  <2>1. PICK x \in 1..n : x = IF i < p THEN i ELSE i + 1
    BY <1>2
  <2>2. x # p /\ k[i] = t[x]
    BY <1>2, <2>1
  <2> QED BY <1>1, <1>2, <2>2 DEF Entries
<1>5. ASSUME NEW x \in 1..n, t[x].src # t[p].src PROVE \E i \in 1..(n - 1) : t[x] = k[i]
  <2>1. x # p
    BY <1>5
  <2>2. CASE x < p
    <3>1. x \in 1..(n - 1) /\ k[x] = t[x]
      BY <1>2, <2>2
    <3> QED BY <3>1
  <2>3. CASE x > p
    <3>1. x - 1 \in 1..(n - 1) /\ ~(x - 1 < p) /\ (x - 1) + 1 = x
      BY <1>2, <2>3
    <3>2. k[x - 1] = t[x]
      BY <1>2, <3>1
    <3> QED BY <3>1, <3>2
  <2> QED BY <1>2, <2>1, <2>2, <2>3
<1>6. Entries(k) = {e \in Entries(t) : e.src # t[p].src}
  <2>1. Entries(k) = {k[i] : i \in 1..(n - 1)} /\ Entries(t) = {t[i] : i \in 1..n}
    BY <1>1, <1>2 DEF Entries
  <2>2. \A e \in Entries(k) : e \in Entries(t) /\ e.src # t[p].src
    BY <1>4, <2>1
  <2>3. \A e \in Entries(t) : e.src # t[p].src => e \in Entries(k)
    BY <1>5, <2>1
  <2> QED BY <2>2, <2>3
<1> QED BY <1>3, <1>6

\* What a table keeps of its peers when a frame of src comes.
LEMMA KeptIs ==
  ASSUME MaxPeers \in Nat \ {0}, NEW t, Table(t), NEW src
  PROVE  /\ Kept(t, src) \in Seq(Windows) /\ Len(Kept(t, src)) + 1 <= MaxPeers
         /\ OnePerSender(Kept(t, src))
         /\ Entries(Kept(t, src)) =
              {e \in Entries(t) : e.src # src /\ e.src \notin Pushed(t, src)}
<1>1. t \in Seq(Windows) /\ Len(t) \in Nat /\ Len(t) <= MaxPeers /\ OnePerSender(t)
  BY LenProperties DEF Table
<1>2. CASE Knows(t, src)
  <2>1. PICK p \in 1..Len(t) : p = PeerAt(t, src) /\ t[p].src = src
    BY <1>2 DEF Knows, PeerAt
  <2>2. Kept(t, src) = RemoveAt(t, p) /\ Pushed(t, src) = {}
    BY <1>2, <2>1 DEF Kept, Pushed, Evicts
  <2>3. OnePerSender(RemoveAt(t, p)) /\ Entries(RemoveAt(t, p)) = {e \in Entries(t) : e.src # src}
    BY <1>1, <2>1, RemoveAtIs, WithoutOne
  <2>4. RemoveAt(t, p) \in Seq(Windows) /\ Len(RemoveAt(t, p)) = Len(t) - 1
    BY <1>1, RemoveAtIs
  <2> QED BY <1>1, <2>2, <2>3, <2>4
<1>3. CASE ~Knows(t, src) /\ Evicts(t, src)
  <2>1. t # <<>> /\ 1 \in 1..Len(t) /\ Kept(t, src) = Tail(t) /\ Head(t) = t[1]
    BY <1>1, <1>3, EmptySeq DEF Evicts, Kept
  <2>2. Tail(t) \in Seq(Windows) /\ Len(Tail(t)) = Len(t) - 1
        /\ \A i \in 1..(Len(t) - 1) : Tail(t)[i] = t[i + 1]
    BY <1>1, <2>1, HeadTailProperties
  <2>3. PICK p \in 1..Len(t), k \in Seq(Windows) : p = 1 /\ k = Tail(t)
    BY <2>1, <2>2
  <2>4. OnePerSender(Tail(t)) /\ Entries(Tail(t)) = {e \in Entries(t) : e.src # t[1].src}
    <3>1. \A i \in 1..(Len(t) - 1) : k[i] = t[IF i < p THEN i ELSE i + 1]
      <4> SUFFICES ASSUME NEW i \in 1..(Len(t) - 1) PROVE k[i] = t[IF i < p THEN i ELSE i + 1]
        OBVIOUS
      <4>1. ~(i < p)
        BY <1>1, <2>3
      <4> QED BY <2>2, <2>3, <4>1
    <3>2. OnePerSender(k) /\ Entries(k) = {e \in Entries(t) : e.src # t[p].src}
      <4>1. Len(k) = Len(t) - 1 /\ t \in Seq(Windows) /\ OnePerSender(t)
        BY <1>1, <2>2, <2>3
      <4> QED BY <3>1, <4>1, WithoutOne
    <3> QED BY <2>3, <3>2
  <2>5. Pushed(t, src) = {t[1].src} /\ \A e \in Entries(t) : e.src # src
    BY <1>3, <2>1 DEF Pushed, Victim, Knows, Entries
  <2> QED BY <1>1, <2>1, <2>2, <2>4, <2>5
<1>4. CASE ~Knows(t, src) /\ ~Evicts(t, src)
  <2>1. Kept(t, src) = t /\ Pushed(t, src) = {} /\ \A e \in Entries(t) : e.src # src
    BY <1>4 DEF Kept, Pushed, Knows, Entries
  <2>2. PICK l \in Nat : l = Len(t)
    BY <1>1
  <2>3. l <= MaxPeers /\ l # MaxPeers
    BY <1>1, <1>4, <2>2 DEF Evicts
  <2>4. Len(t) + 1 <= MaxPeers
    BY <2>2, <2>3
  <2> QED BY <1>1, <2>1, <2>4
<1> QED BY <1>2, <1>3, <1>4

\* A difference on the wire is an integer.
LEMMA AheadType ==
  ASSUME FreshnessAssumption, NEW a \in Int, NEW b \in Int
  PROVE  Ahead(a, b) \in Int
<1>1. SeqSpace \in Nat \ {0}
  BY DEF FreshnessAssumption
<1>2. (a - b) % SeqSpace \in Int
  BY <1>1
<1> QED BY <1>1, <1>2 DEF Ahead

\* A frame leaves its sender's window a window of that sender.
LEMMA UpdatedTyped ==
  ASSUME FreshnessAssumption, NEW p \in Windows, NEW seq \in Sequences24
  PROVE  Updated(p, seq) \in Windows /\ Updated(p, seq).src = p.src
<1>1. /\ SeqSpace \in Nat /\ WindowBits \in Nat \ {0}
      /\ p = [src |-> p.src, last |-> p.last, bits |-> p.bits]
      /\ p.src \in Nodes /\ p.last \in Sequences24 /\ p.bits \in SUBSET (0..(WindowBits - 1))
  BY DEF FreshnessAssumption, Windows
<1>2. PICK d \in Int : d = Ahead(seq, p.last)
  BY <1>1, AheadType DEF Sequences24
<1>3. CASE d > 0
  <2>1. Shifted(p.bits, d) \in SUBSET (0..(WindowBits - 1))
    BY <1>1 DEF Shifted
  <2>2. Updated(p, seq) = Peer(p.src, seq, Shifted(p.bits, d))
    BY <1>2, <1>3 DEF Updated
  <2> QED BY <1>1, <2>1, <2>2 DEF Peer, Windows
<1>4. CASE ~(d > 0) /\ -d < WindowBits
  <2>1. p.bits \cup {-d} \in SUBSET (0..(WindowBits - 1))
    BY <1>1, <1>4
  <2>2. Updated(p, seq) = [p EXCEPT !.bits = p.bits \cup {-d}]
    BY <1>2, <1>4 DEF Updated
  <2>3. Updated(p, seq) = [src |-> p.src, last |-> p.last, bits |-> p.bits \cup {-d}]
    BY <1>1, <2>2
  <2> QED BY <1>1, <2>1, <2>3 DEF Windows
<1>5. CASE ~(d > 0) /\ ~(-d < WindowBits)
  BY <1>2, <1>5 DEF Updated
<1> QED BY <1>3, <1>4, <1>5

\* The window of a frame's sender after it.
Newest(t, src, seq) ==
  IF Knows(t, src) THEN Updated(t[PeerAt(t, src)], seq) ELSE Peer(src, seq, {0})

\* A known sender has one window, the one that is looked at.
LEMMA KnownIs ==
  ASSUME NEW t, Table(t), NEW src, Knows(t, src)
  PROVE  /\ t[PeerAt(t, src)] \in Entries(t) /\ t[PeerAt(t, src)].src = src
         /\ t[PeerAt(t, src)] \in Windows
         /\ \A e \in Entries(t) : e.src = src => e = t[PeerAt(t, src)]
<1>1. PICK p \in 1..Len(t) : p = PeerAt(t, src) /\ t[p].src = src
  BY DEF Knows, PeerAt
<1> QED BY <1>1, ElementOfSeq DEF Table, OnePerSender, Entries

\* A frame leaves a table, the peers it keeps and the window of its sender.
LEMMA AfterFrameIs ==
  ASSUME FreshnessAssumption, NEW t, Table(t), NEW src \in Nodes, NEW seq \in Sequences24
  PROVE  /\ Table(AfterFrame(t, src, seq))
         /\ Entries(AfterFrame(t, src, seq)) =
              {e \in Entries(t) : e.src # src /\ e.src \notin Pushed(t, src)}
                \cup {Newest(t, src, seq)}
         /\ Newest(t, src, seq).src = src
<1>1. MaxPeers \in Nat \ {0} /\ WindowBits \in Nat \ {0}
  BY DEF FreshnessAssumption
<1>2. PICK k : k = Kept(t, src)
  OBVIOUS
<1>3. /\ k \in Seq(Windows) /\ Len(k) + 1 <= MaxPeers /\ OnePerSender(k)
      /\ Entries(k) = {e \in Entries(t) : e.src # src /\ e.src \notin Pushed(t, src)}
  BY <1>1, <1>2, KeptIs
<1>4. Newest(t, src, seq) \in Windows /\ Newest(t, src, seq).src = src
  <2>1. CASE Knows(t, src)
    BY <2>1, KnownIs, UpdatedTyped DEF Newest
  <2>2. CASE ~Knows(t, src)
    <3>1. {0} \in SUBSET (0..(WindowBits - 1))
      BY <1>1
    <3> QED BY <2>2, <3>1 DEF Newest, Peer, Windows
  <2> QED BY <2>1, <2>2
<1>5. PICK e \in Windows : e = Newest(t, src, seq)
  BY <1>4
<1>6. AfterFrame(t, src, seq) = Append(k, e)
  BY <1>2, <1>5 DEF AfterFrame, Newest
<1>7. PICK n \in Nat : n = Len(k)
  BY <1>3, LenProperties
<1>8. PICK a : a = Append(k, e)
  OBVIOUS
<1>9. /\ a \in Seq(Windows) /\ Len(a) = n + 1
      /\ \A i \in 1..n : a[i] = k[i]
      /\ a[n + 1] = e
  BY <1>3, <1>7, <1>8, AppendProperties
<1>10. \A i \in 1..n : k[i].src # src
  BY <1>3, <1>7 DEF Entries
<1>11. OnePerSender(a)
  <2> SUFFICES ASSUME NEW i \in 1..(n + 1), NEW j \in 1..(n + 1), a[i].src = a[j].src PROVE i = j
    BY <1>9 DEF OnePerSender
  <2>1. i \in 1..n \/ i = n + 1
    BY <1>7
  <2>2. j \in 1..n \/ j = n + 1
    BY <1>7
  <2> QED BY <1>3, <1>4, <1>5, <1>7, <1>9, <1>10, <2>1, <2>2 DEF OnePerSender
<1>12. Entries(a) = Entries(k) \cup {e}
  <2>1. Entries(a) = {a[i] : i \in 1..(n + 1)} /\ Entries(k) = {k[i] : i \in 1..n}
    BY <1>7, <1>9 DEF Entries
  <2>2. \A i \in 1..(n + 1) : i \in 1..n \/ i = n + 1
    BY <1>7
  <2>3. n + 1 \in 1..(n + 1) /\ 1..n \subseteq 1..(n + 1)
    BY <1>7
  <2> QED BY <1>9, <2>1, <2>2, <2>3
<1>13. Len(a) <= MaxPeers
  BY <1>3, <1>7, <1>9
<1> QED BY <1>3, <1>4, <1>5, <1>6, <1>8, <1>9, <1>11, <1>12, <1>13 DEF Table

Assumptions == FreshnessAssumption /\ MeshAssumption /\ NumbersClose

\* What the assumptions say of messages and of their numbers on the wire.
LEMMA MessageIs ==
  ASSUME Assumptions, NEW m \in Messages
  PROVE  /\ m.src \in Nodes /\ m.dst \in Nodes \cup {Broadcast} /\ m.areq \in BOOLEAN
         /\ m.hops \in 0..7 /\ m.number \in Nat /\ WireSeq(m) \in Sequences24
         /\ \A k \in Messages : k.src = m.src =>
              /\ k.number \in Nat
              /\ Ahead(WireSeq(m), WireSeq(k)) = m.number - k.number
              /\ m.number = k.number => m = k
<1>1. /\ m.src \in Nodes /\ m.dst \in Nodes \cup {Broadcast} /\ m.areq \in BOOLEAN
      /\ m.hops \in 0..7 /\ \A k \in Messages : k.number \in Nat
  BY DEF Assumptions, MeshAssumption
<1>2. SeqSpace \in Nat \ {0} /\ FirstSeq \in Nat
  BY DEF Assumptions, FreshnessAssumption, MeshAssumption, Sequences24
<1>3. WireSeq(m) \in Sequences24
  BY <1>1, <1>2 DEF WireSeq, Sequences24
<1>4. ASSUME NEW k \in Messages, k.src = m.src
      PROVE  /\ Ahead(WireSeq(m), WireSeq(k)) = m.number - k.number
             /\ m.number = k.number => m = k
  <2>1. /\ 2 * (m.number - k.number) < SeqSpace /\ 2 * (k.number - m.number) < SeqSpace
        /\ m.number = k.number => m = k
    BY <1>4 DEF Assumptions, NumbersClose
  <2>2. PICK a \in Nat, b \in Nat : a = m.number /\ b = k.number
    BY <1>1
  <2>3. Ahead((FirstSeq + a) % SeqSpace, (FirstSeq + b) % SeqSpace) = a - b
    BY <1>2, <2>1, <2>2, AheadIs DEF Assumptions
  <2> QED BY <2>1, <2>2, <2>3 DEF WireSeq
<1> QED BY <1>1, <1>3, <1>4

\* A window tells what was accepted of its sender: nothing else, and, unless
\* the sender was forgotten, all of it that its history can hold.
Sound(e, S, n) == \A b \in e.bits : \E k \in S : k.src = e.src /\ k.number = n - b
Complete(e, S, n) ==
  \A k \in S : k.src = e.src =>
    /\ k.number <= n
    /\ n - k.number < WindowBits => n - k.number \in e.bits

Tracks(e, S, all) ==
  \E top \in S : /\ top.src = e.src /\ e.last = WireSeq(top)
                 /\ Sound(e, S, top.number)
                 /\ all => Complete(e, S, top.number)

Follows(t, S, gone) ==
  /\ \A e \in Entries(t) : Tracks(e, S, e.src \notin gone)
  /\ \A k \in S : k.src \notin gone => \E e \in Entries(t) : e.src = k.src

\* A frame the window takes for a replay was accepted before, or one numbered
\* a whole history later was; it leaves the window as it is.
LEMMA ReplayTracked ==
  ASSUME Assumptions, NEW e \in Windows, NEW S \in SUBSET Messages, NEW all \in BOOLEAN,
         Tracks(e, S, all), NEW m \in Messages, m.src = e.src,
         LET back == -Ahead(WireSeq(m), e.last)
         IN  back >= 0 /\ (back >= WindowBits \/ back \in e.bits)
  PROVE  /\ Updated(e, WireSeq(m)) = e
         /\ \/ m \in S
            \/ \E k \in S : k.src = m.src /\ k.number >= m.number + WindowBits
<1>1. PICK top \in S : top.src = e.src /\ e.last = WireSeq(top) /\ Sound(e, S, top.number)
  BY DEF Tracks
<1>2. PICK a \in Nat, t \in Nat : a = m.number /\ t = top.number
  BY <1>1, MessageIs
<1>3. Ahead(WireSeq(m), e.last) = a - t
  BY <1>1, <1>2, MessageIs
<1>4. WindowBits \in Nat \ {0} /\ -(a - t) = t - a /\ t - a \in Int
  BY <1>2 DEF Assumptions, FreshnessAssumption
<1>5. t - a >= 0 /\ (t - a >= WindowBits \/ t - a \in e.bits)
  BY <1>3, <1>4
<1>6. ~(a - t > 0)
  BY <1>2, <1>5
<1>7. CASE t - a >= WindowBits
  <2>1. ~(-(a - t) < WindowBits)
    BY <1>2, <1>4, <1>7
  <2>2. Updated(e, WireSeq(m)) = e
    BY <1>3, <1>6, <2>1 DEF Updated
  <2>3. t >= a + WindowBits
    BY <1>2, <1>4, <1>7
  <2> QED BY <1>1, <1>2, <2>2, <2>3
<1>8. CASE t - a < WindowBits /\ t - a \in e.bits
  <2>1. Updated(e, WireSeq(m)) = [e EXCEPT !.bits = e.bits \cup {t - a}]
    BY <1>3, <1>4, <1>6, <1>8 DEF Updated
  <2>2. e.bits \cup {t - a} = e.bits /\ e = [src |-> e.src, last |-> e.last, bits |-> e.bits]
    BY <1>8 DEF Windows
  <2>3. Updated(e, WireSeq(m)) = e
    BY <2>1, <2>2
  <2>4. PICK k \in S : k.src = e.src /\ k.number = t - (t - a)
    BY <1>1, <1>2, <1>8 DEF Sound
  <2>5. k.number = m.number
    BY <1>2, <2>4
  <2>6. k = m
    BY <2>4, <2>5, MessageIs
  <2> QED BY <2>3, <2>4, <2>6
<1> QED BY <1>2, <1>4, <1>5, <1>7, <1>8

\* A frame the window lets pass was not accepted before, unless its sender
\* was forgotten; the window tells of it afterwards.
LEMMA AcceptTracked ==
  ASSUME Assumptions, NEW e \in Windows, NEW S \in SUBSET Messages, NEW all \in BOOLEAN,
         Tracks(e, S, all), NEW m \in Messages, m.src = e.src,
         LET back == -Ahead(WireSeq(m), e.last)
         IN  ~(back >= 0 /\ (back >= WindowBits \/ back \in e.bits))
  PROVE  /\ all => m \notin S
         /\ Tracks(Updated(e, WireSeq(m)), S \cup {m}, all)
<1>1. PICK top \in S : /\ top.src = e.src /\ e.last = WireSeq(top)
                       /\ Sound(e, S, top.number)
                       /\ all => Complete(e, S, top.number)
  BY DEF Tracks
<1>0. PICK a, t : a = m.number /\ t = top.number
  OBVIOUS
<1>2. a \in Nat /\ t \in Nat /\ a = m.number /\ t = top.number
  BY <1>0, <1>1, MessageIs
<1>10. Sound(e, S, t) /\ (all => Complete(e, S, t))
  BY <1>0, <1>1
<1>3. PICK d \in Int : d = a - t /\ Ahead(WireSeq(m), e.last) = d
  BY <1>1, <1>2, MessageIs
<1>4. WindowBits \in Nat \ {0} /\ -d = t - a /\ t - a \in Int
  BY <1>2, <1>3 DEF Assumptions, FreshnessAssumption
<1>5. ~(-d >= 0 /\ (-d >= WindowBits \/ -d \in e.bits))
  BY <1>3
<1>6. all => m \notin S
  <2> SUFFICES ASSUME all, m \in S PROVE FALSE
    OBVIOUS
  <2>1. a <= t /\ (t - a < WindowBits => t - a \in e.bits)
    BY <1>2, <1>10 DEF Complete
  <2> QED BY <1>2, <1>4, <1>5, <2>1
<1>7. e.bits \in SUBSET (0..(WindowBits - 1))
  BY DEF Windows
<1>8. CASE d > 0
  <2> DEFINE f == Peer(e.src, WireSeq(m), Shifted(e.bits, d))
  <2>1. Updated(e, WireSeq(m)) = f
    BY <1>3, <1>8 DEF Updated
  <2>2. f.src = e.src /\ f.last = WireSeq(m) /\ f.bits = Shifted(e.bits, d)
    BY DEF Peer
  <2> HIDE DEF f
  <2>3. Sound(f, S \cup {m}, m.number)
    <3> SUFFICES ASSUME NEW b \in Shifted(e.bits, d)
                 PROVE  \E k \in S \cup {m} : k.src = e.src /\ k.number = a - b
      BY <1>2, <2>2 DEF Sound
    <3>1. CASE b = 0
      BY <1>2, <3>1
    <3>2. CASE b # 0
      <4>1. PICK i \in e.bits : b = i + d
        BY <3>2 DEF Shifted
      <4>2. PICK k \in S : k.src = e.src /\ k.number = t - i
        BY <1>10 DEF Sound
      <4>3. i \in Int /\ t - i = a - b
        BY <1>2, <1>3, <1>7, <4>1
      <4> QED BY <4>2, <4>3
    <3> QED BY <3>1, <3>2
  <2>4. ASSUME all PROVE Complete(f, S \cup {m}, m.number)
    <3> SUFFICES ASSUME NEW k \in S \cup {m}, k.src = e.src
                 PROVE  /\ k.number <= a
                        /\ a - k.number < WindowBits => a - k.number \in Shifted(e.bits, d)
      BY <1>2, <2>2 DEF Complete
    <3>1. CASE k = m
      BY <1>2, <3>1 DEF Shifted
    <3>2. CASE k \in S
      <4>1. PICK c \in Nat : c = k.number
        BY <3>2, MessageIs
      <4>2. c <= t /\ (t - c < WindowBits => t - c \in e.bits)
        BY <1>10, <2>4, <3>2, <4>1 DEF Complete
      <4>3. c <= a /\ a - c = (t - c) + d
        BY <1>2, <1>3, <1>8, <4>1, <4>2
      <4>4. ASSUME a - c < WindowBits PROVE a - c \in Shifted(e.bits, d)
        <5>1. t - c < WindowBits
          BY <1>2, <1>3, <1>4, <1>8, <4>1, <4>3, <4>4
        <5>2. a - c \in {i + d : i \in e.bits}
          BY <4>2, <4>3, <5>1
        <5>3. a - c \in 0..(WindowBits - 1)
          BY <1>2, <1>4, <4>1, <4>3, <4>4
        <5> QED BY <5>2, <5>3 DEF Shifted
      <4> QED BY <4>1, <4>3, <4>4
    <3> QED BY <3>1, <3>2
  <2> QED BY <1>6, <2>1, <2>2, <2>3, <2>4 DEF Tracks
<1>9. CASE ~(d > 0)
  <2>1. -d >= 0 /\ -d < WindowBits
    BY <1>4, <1>5, <1>9
  <2> DEFINE f == [e EXCEPT !.bits = e.bits \cup {-d}]
  <2>2. Updated(e, WireSeq(m)) = f
    BY <1>3, <1>9, <2>1 DEF Updated
  <2>3. f.src = e.src /\ f.last = e.last /\ f.bits = e.bits \cup {-d}
    BY DEF Windows
  <2> HIDE DEF f
  <2>4. Sound(f, S \cup {m}, top.number)
    <3> SUFFICES ASSUME NEW b \in e.bits \cup {-d}
                 PROVE  \E k \in S \cup {m} : k.src = e.src /\ k.number = t - b
      BY <1>2, <2>3 DEF Sound
    <3>1. CASE b = -d
      <4>1. t - b = a
        BY <1>2, <1>3, <3>1
      <4> QED BY <1>2, <4>1
    <3>2. CASE b \in e.bits
      BY <1>10, <3>2 DEF Sound
    <3> QED BY <3>1, <3>2
  <2>5. ASSUME all PROVE Complete(f, S \cup {m}, top.number)
    <3> SUFFICES ASSUME NEW k \in S \cup {m}, k.src = e.src
                 PROVE  /\ k.number <= t
                        /\ t - k.number < WindowBits => t - k.number \in e.bits \cup {-d}
      BY <1>2, <2>3 DEF Complete
    <3>1. CASE k = m
      <4>1. a <= t /\ t - a = -d
        BY <1>2, <1>3, <1>9
      <4> QED BY <1>2, <3>1, <4>1
    <3>2. CASE k \in S
      BY <1>10, <2>5, <3>2 DEF Complete
    <3> QED BY <3>1, <3>2
  <2>6. top \in S \cup {m} /\ top.src = f.src /\ f.last = WireSeq(top)
    BY <1>1, <2>3
  <2>7. Tracks(f, S \cup {m}, all)
    BY <2>4, <2>5, <2>6 DEF Tracks
  <2> QED BY <1>6, <2>2, <2>7
<1> QED BY <1>6, <1>8, <1>9

\* A window of another sender, and one that is told less of.
LEMMA OthersTracked ==
  ASSUME NEW e, NEW S, NEW all \in BOOLEAN, Tracks(e, S, all), NEW m, m.src # e.src,
         NEW less \in BOOLEAN, less => all
  PROVE  Tracks(e, S \cup {m}, less) /\ Tracks(e, S, less)
BY DEF Tracks, Sound, Complete

\* The window of a sender that was not known.
LEMMA FirstTracked ==
  ASSUME Assumptions, NEW S, NEW m \in Messages, NEW all \in BOOLEAN,
         all => \A k \in S : k.src # m.src
  PROVE  Tracks(Peer(m.src, WireSeq(m), {0}), S \cup {m}, all)
<1> DEFINE f == Peer(m.src, WireSeq(m), {0})
<1>1. f.src = m.src /\ f.last = WireSeq(m) /\ f.bits = {0}
  BY DEF Peer
<1>2. PICK a \in Nat : a = m.number
  BY MessageIs
<1> HIDE DEF f
<1>3. Sound(f, S \cup {m}, m.number)
  <2>1. m.number = m.number - 0
    BY <1>2
  <2> QED BY <1>1, <2>1 DEF Sound
<1>4. ASSUME all PROVE Complete(f, S \cup {m}, m.number)
  <2>1. m.number <= m.number /\ m.number - m.number = 0
    BY <1>2
  <2> QED BY <1>1, <1>4, <2>1 DEF Complete
<1> QED BY <1>1, <1>3, <1>4 DEF Tracks, f

\* ReplayWindow::isReplay on a frame it refuses.
LEMMA ReplayFollows ==
  ASSUME Assumptions, NEW t, Table(t), NEW S \in SUBSET Messages, NEW gone, Follows(t, S, gone),
         NEW m \in Messages, IsReplay(t, m.src, WireSeq(m))
  PROVE  /\ Follows(AfterFrame(t, m.src, WireSeq(m)), S, gone)
         /\ \/ m \in S
            \/ \E k \in S : k.src = m.src /\ k.number >= m.number + WindowBits
<1>1. Knows(t, m.src)
  BY DEF IsReplay
<1>2. PICK e : e = t[PeerAt(t, m.src)]
  OBVIOUS
<1>3. /\ e \in Entries(t) /\ e.src = m.src /\ e \in Windows
      /\ \A o \in Entries(t) : o.src = m.src => o = e
  BY <1>1, <1>2, KnownIs
<1>4. Tracks(e, S, e.src \notin gone)
  BY <1>3 DEF Follows
<1>5. LET back == -Ahead(WireSeq(m), e.last)
      IN  back >= 0 /\ (back >= WindowBits \/ back \in e.bits)
  BY <1>2 DEF IsReplay
<1>6. /\ Updated(e, WireSeq(m)) = e
      /\ \/ m \in S
         \/ \E k \in S : k.src = m.src /\ k.number >= m.number + WindowBits
  BY <1>3, <1>4, <1>5, ReplayTracked
<1>7. m.src \in Nodes /\ WireSeq(m) \in Sequences24 /\ FreshnessAssumption
  BY MessageIs DEF Assumptions
<1>8. Entries(AfterFrame(t, m.src, WireSeq(m))) =
        {o \in Entries(t) : o.src # m.src /\ o.src \notin Pushed(t, m.src)}
          \cup {Newest(t, m.src, WireSeq(m))}
  BY <1>7, AfterFrameIs
<1>9. Newest(t, m.src, WireSeq(m)) = e /\ Pushed(t, m.src) = {}
  BY <1>1, <1>2, <1>6 DEF Newest, Pushed, Evicts
<1>10. Entries(AfterFrame(t, m.src, WireSeq(m))) = Entries(t)
  BY <1>3, <1>8, <1>9
<1> QED BY <1>6, <1>10 DEF Follows

\* ReplayWindow::isReplay on a frame it lets pass.
LEMMA AcceptFollows ==
  ASSUME Assumptions, NEW t, Table(t), NEW S \in SUBSET Messages, NEW gone, Follows(t, S, gone),
         NEW m \in Messages, ~IsReplay(t, m.src, WireSeq(m))
  PROVE  /\ m.src \notin gone => m \notin S
         /\ Follows(AfterFrame(t, m.src, WireSeq(m)), S \cup {m}, gone \cup Pushed(t, m.src))
<1> DEFINE after == AfterFrame(t, m.src, WireSeq(m))
           all == m.src \notin gone \cup Pushed(t, m.src)
           new == Newest(t, m.src, WireSeq(m))
<1>1. m.src \in Nodes /\ WireSeq(m) \in Sequences24 /\ FreshnessAssumption
  BY MessageIs DEF Assumptions
<1>2. /\ Entries(after) = {o \in Entries(t) : o.src # m.src /\ o.src \notin Pushed(t, m.src)}
                            \cup {new}
      /\ new.src = m.src
  BY <1>1, AfterFrameIs
<1>3. (m.src \notin gone => m \notin S) /\ Tracks(new, S \cup {m}, all)
  <2>1. CASE Knows(t, m.src)
    <3>1. PICK e : e = t[PeerAt(t, m.src)]
      OBVIOUS
    <3>2. /\ e \in Entries(t) /\ e.src = m.src /\ e \in Windows
      BY <2>1, <3>1, KnownIs
    <3>3. Tracks(e, S, e.src \notin gone)
      BY <3>2 DEF Follows
    <3>4. LET back == -Ahead(WireSeq(m), e.last)
          IN  ~(back >= 0 /\ (back >= WindowBits \/ back \in e.bits))
      BY <2>1, <3>1 DEF IsReplay
    <3>5. /\ m.src \notin gone => m \notin S
          /\ Tracks(Updated(e, WireSeq(m)), S \cup {m}, m.src \notin gone)
      BY <3>2, <3>3, <3>4, AcceptTracked
    <3>6. new = Updated(e, WireSeq(m)) /\ Pushed(t, m.src) = {}
      BY <2>1, <3>1 DEF Newest, Pushed, Evicts
    <3>7. all = (m.src \notin gone)
      BY <3>6
    <3> QED BY <3>5, <3>6, <3>7
  <2>2. CASE ~Knows(t, m.src)
    <3>1. m.src \notin gone => \A k \in S : k.src # m.src
      BY <2>2 DEF Follows, Knows, Entries
    <3>2. all => \A k \in S : k.src # m.src
      BY <3>1
    <3>3. new = Peer(m.src, WireSeq(m), {0})
      BY <2>2 DEF Newest
    <3>4. all \in BOOLEAN
      OBVIOUS
    <3> HIDE DEF all, new
    <3>5. Tracks(Peer(m.src, WireSeq(m), {0}), S \cup {m}, all)
      BY <3>2, <3>4, FirstTracked
    <3> QED BY <3>1, <3>3, <3>5
  <2> QED BY <2>1, <2>2
<1>4. ASSUME NEW e \in Entries(after)
      PROVE  Tracks(e, S \cup {m}, e.src \notin gone \cup Pushed(t, m.src))
  <2>1. CASE e = new
    BY <1>2, <1>3, <2>1
  <2>2. CASE e \in Entries(t) /\ e.src # m.src
    <3>1. Tracks(e, S, e.src \notin gone)
      BY <2>2 DEF Follows
    <3>2. e.src \notin gone \cup Pushed(t, m.src) => e.src \notin gone
      OBVIOUS
    <3> QED BY <2>2, <3>1, <3>2, OthersTracked
  <2> QED BY <1>2, <2>1, <2>2
<1>5. ASSUME NEW k \in S \cup {m}, k.src \notin gone \cup Pushed(t, m.src)
      PROVE  \E e \in Entries(after) : e.src = k.src
  <2>1. CASE k.src = m.src
    BY <1>2, <2>1
  <2>2. CASE k.src # m.src
    <3>1. PICK e \in Entries(t) : e.src = k.src
      BY <1>5, <2>2 DEF Follows
    <3> QED BY <1>2, <1>5, <2>2, <3>1
  <2> QED BY <2>1, <2>2
<1> HIDE DEF after
<1> QED BY <1>3, <1>4, <1>5 DEF Follows, after

-----------------------------------------------------------------------------
(* Types.                                                                  *)

\* A frame is a message on its way, or the ACK of one on its way back.
Honest(f) ==
  IF f.ack THEN f.src = f.of.dst /\ f.dst = f.of.src
           ELSE f.src = f.of.src /\ f.dst = f.of.dst /\ f.hops <= f.of.hops

Frames == {f \in [ack : BOOLEAN, src : Nodes, dst : Nodes \cup {Broadcast},
                  hops : 0..7, of : Messages] : Honest(f)}
Copies == [frame : Frames, from : Nodes, to : Nodes]
Entered(max) == [frame : Frames, retries : 0..max]
Identities == Nodes \X (Nodes \cup {Broadcast}) \X Sequences24

Holds(q, S, depth) == q \in SUBSET S /\ IsFiniteSet(q) /\ Cardinality(q) <= depth

WindowsTyped == /\ windows \in [Nodes -> Seq(Windows)]
                /\ \A n \in Nodes : Table(windows[n])
SeenTyped == /\ seen \in [Nodes -> Seq(Identities)]
             /\ \A n \in Nodes : Len(seen[n]) <= SeenSize
ForwardsTyped == /\ fwdQueue \in [Nodes -> SUBSET Entered(FwdRetryMax)]
                 /\ \A n \in Nodes : Holds(fwdQueue[n], Entered(FwdRetryMax), FwdDepth)
AcksTyped == /\ ackQueue \in [Nodes -> SUBSET Entered(AckRetryMax)]
             /\ \A n \in Nodes : Holds(ackQueue[n], Entered(AckRetryMax), AckDepth)
             /\ \A n \in Nodes : \A e \in ackQueue[n] : e.frame.ack
PendingTyped == /\ pending \in [Nodes -> SUBSET Messages]
                /\ \A n \in Nodes : \A m \in pending[n] : m.src = n
HistoryTyped == /\ told \in [Messages -> {"nothing", "timeout", "ok"}]
                /\ accepted \in [Nodes -> SUBSET Messages]
                /\ handed \in [Nodes -> [Messages -> 0..2]]
                /\ relayed \in [Nodes -> [Messages -> 0..2]]
                /\ forgotten \in SUBSET (Nodes \X Nodes) /\ lost \in BOOLEAN

Typed ==
  /\ strategy \in Strategies /\ unsent \in SUBSET Messages
  /\ air \in SUBSET Copies /\ faults \in Nat
  /\ WindowsTyped /\ SeenTyped /\ ForwardsTyped /\ AcksTyped /\ PendingTyped /\ HistoryTyped

\* What a queue holds when an entry comes, goes or is tried again.
LEMMA HoldsAdd ==
  ASSUME NEW S, NEW q, NEW depth \in Nat, Holds(q, S, depth), NEW e \in S
  PROVE  /\ Cardinality(q) < depth => Holds(q \cup {e}, S, depth)
         /\ Holds(q \ {e}, S, depth)
<1>1. IsFiniteSet(q) /\ q \in SUBSET S /\ Cardinality(q) \in Nat /\ Cardinality(q) <= depth
  BY FS_CardinalityType DEF Holds
<1>2. /\ IsFiniteSet(q \cup {e})
      /\ Cardinality(q \cup {e}) = IF e \in q THEN Cardinality(q) ELSE Cardinality(q) + 1
  BY <1>1, FS_AddElement
<1>3. /\ IsFiniteSet(q \ {e})
      /\ Cardinality(q \ {e}) = IF e \in q THEN Cardinality(q) - 1 ELSE Cardinality(q)
  BY <1>1, FS_RemoveElement
<1> QED BY <1>1, <1>2, <1>3 DEF Holds

\* So it is when an entry is put back for another try.
LEMMA HoldsSwap ==
  ASSUME NEW S, NEW q, NEW depth \in Nat, Holds(q, S, depth), NEW e \in q, NEW d \in S
  PROVE  Holds((q \ {e}) \cup {d}, S, depth)
<1>1. IsFiniteSet(q) /\ q \in SUBSET S /\ Cardinality(q) \in Nat /\ Cardinality(q) <= depth
  BY FS_CardinalityType DEF Holds
<1>2. IsFiniteSet(q \ {e}) /\ Cardinality(q \ {e}) = Cardinality(q) - 1
  BY <1>1, FS_RemoveElement
<1>3. /\ IsFiniteSet((q \ {e}) \cup {d})
      /\ Cardinality((q \ {e}) \cup {d}) =
           IF d \in q \ {e} THEN Cardinality(q \ {e}) ELSE Cardinality(q \ {e}) + 1
  BY <1>2, FS_AddElement
<1>4. PICK a \in Nat : a = Cardinality(q)
  BY <1>1
<1>5. Cardinality((q \ {e}) \cup {d}) <= depth
  BY <1>1, <1>2, <1>3, <1>4
<1>6. (q \ {e}) \cup {d} \in SUBSET S
  BY <1>1
<1> QED BY <1>3, <1>5, <1>6 DEF Holds

\* What the assumptions say of the bounds.
LEMMA Bounds ==
  ASSUME Assumptions
  PROVE  /\ FwdDepth \in Nat \ {0} /\ AckDepth \in Nat \ {0} /\ FwdRetryMax \in Nat
         /\ AckRetryMax \in Nat /\ MaxFaults \in Nat /\ AckHops \in 0..7
         /\ MaxPeers \in Nat \ {0} /\ SeenSize \in Nat \ {0} /\ WindowBits \in Nat \ {0}
         /\ Broadcast \notin Nodes /\ IsFiniteSet(Nodes)
         /\ \A n \in Nodes : Neighbours[n] \in SUBSET Nodes
BY DEF Assumptions, MeshAssumption, FreshnessAssumption

\* What a frame is.
LEMMA FrameIs ==
  ASSUME NEW f \in Frames
  PROVE  /\ f.ack \in BOOLEAN /\ f.src \in Nodes /\ f.dst \in Nodes \cup {Broadcast}
         /\ f.hops \in 0..7 /\ f.of \in Messages
         /\ f.ack => f.src = f.of.dst /\ f.dst = f.of.src
         /\ ~f.ack => f.src = f.of.src /\ f.dst = f.of.dst /\ f.hops <= f.of.hops
BY DEF Frames, Honest

\* The frames the code makes: a message, the ACK of one, a copy with one hop less.
LEMMA FramesMade ==
  ASSUME Assumptions
  PROVE  /\ \A m \in Messages : Data(m) \in Frames
         /\ \A m \in Messages, n \in Nodes : m.dst = n => AckOf(m, n) \in Frames
         /\ \A f \in Frames : f.hops > 0 =>
              /\ DecrementHop(f) \in Frames /\ DecrementHop(f).ack = f.ack
              /\ DecrementHop(f).of = f.of /\ DecrementHop(f).hops = f.hops - 1
              /\ DecrementHop(f).src = f.src /\ DecrementHop(f).dst = f.dst
<1>1. ASSUME NEW m \in Messages PROVE Data(m) \in Frames
  <2>1. m.hops <= m.hops
    BY MessageIs
  <2> QED BY <2>1, MessageIs DEF Data, Frames, Honest
<1>2. ASSUME NEW m \in Messages, NEW n \in Nodes, m.dst = n PROVE AckOf(m, n) \in Frames
  BY <1>2, MessageIs, Bounds DEF AckOf, Frames, Honest
<1>3. ASSUME NEW f \in Frames, f.hops > 0
      PROVE  /\ DecrementHop(f) \in Frames /\ DecrementHop(f).ack = f.ack
             /\ DecrementHop(f).of = f.of /\ DecrementHop(f).hops = f.hops - 1
             /\ DecrementHop(f).src = f.src /\ DecrementHop(f).dst = f.dst
  <2>1. PICK h \in 0..7 : h = f.hops
    BY FrameIs
  <2>2. f = [ack |-> f.ack, src |-> f.src, dst |-> f.dst, hops |-> h, of |-> f.of]
    BY <2>1 DEF Frames
  <2>3. DecrementHop(f) =
          [ack |-> f.ack, src |-> f.src, dst |-> f.dst, hops |-> h - 1, of |-> f.of]
    BY <2>1, <2>2 DEF DecrementHop
  <2>4. h - 1 \in 0..7
    BY <1>3, <2>1
  <2>5. ~f.ack => h - 1 <= f.of.hops
    BY <2>1, FrameIs, MessageIs
  <2> QED BY <2>1, <2>3, <2>4, <2>5, FrameIs DEF Frames, Honest
<1> QED BY <1>1, <1>2, <1>3

\* Who a transmission goes to.
LEMMA ReceptionsAre ==
  ASSUME Assumptions, NEW f \in Frames, NEW n \in Nodes
  PROVE  /\ Receptions(f, n) \in SUBSET Copies
         /\ \A r \in Receptions(f, n) : r.frame = f /\ r.from = n /\ r.to \in Neighbours[n]
BY Bounds DEF Receptions, Copies

\* _scheduleForward: the queue takes at most the frame, with one hop less.
LEMMA ForwardingIs ==
  ASSUME Assumptions, Typed, NEW n \in Nodes, NEW f \in Frames, NEW from, Forwarding(n, f, from)
  PROVE  /\ ForwardsTyped' /\ lost' \in BOOLEAN /\ (lost => lost')
         /\ \A k \in Nodes : \A e \in fwdQueue'[k] :
              \/ e \in fwdQueue[k]
              \/ k = n /\ f.hops > 0 /\ e = Parked(DecrementHop(f))
         /\ \A k \in Nodes : fwdQueue[k] \subseteq fwdQueue'[k]
         /\ ShouldForward(n, f, from) /\ ~lost' => Parked(DecrementHop(f)) \in fwdQueue'[n]
<1>1. ForwardsTyped /\ lost \in BOOLEAN
  BY DEF Typed, HistoryTyped
<1>2. CASE ShouldForward(n, f, from) /\ Cardinality(fwdQueue[n]) < FwdDepth
  <2> DEFINE e == Parked(DecrementHop(f))
  <2>1. f.hops > 0
    BY <1>2 DEF ShouldForward
  <2>2. e \in Entered(FwdRetryMax)
    BY <2>1, FramesMade, Bounds DEF Parked, Entered
  <2>3. fwdQueue' = [fwdQueue EXCEPT ![n] = fwdQueue[n] \cup {e}] /\ lost' = lost
    BY <1>2 DEF Forwarding, ScheduleForward
  <2> HIDE DEF e
  <2>4. \A k \in Nodes : fwdQueue'[k] = IF k = n THEN fwdQueue[n] \cup {e} ELSE fwdQueue[k]
    BY <1>1, <2>3 DEF ForwardsTyped
  <2>5. Holds(fwdQueue[n] \cup {e}, Entered(FwdRetryMax), FwdDepth)
    BY <1>1, <1>2, <2>2, HoldsAdd, Bounds DEF ForwardsTyped
  <2>6. fwdQueue' \in [Nodes -> SUBSET Entered(FwdRetryMax)]
    BY <1>1, <2>2, <2>3 DEF ForwardsTyped
  <2>7. ForwardsTyped'
    BY <1>1, <2>4, <2>5, <2>6 DEF ForwardsTyped
  <2> QED BY <1>1, <2>1, <2>3, <2>4, <2>7 DEF e
<1>3. CASE ShouldForward(n, f, from) /\ ~(Cardinality(fwdQueue[n]) < FwdDepth)
  <2>1. fwdQueue' = fwdQueue /\ lost' = TRUE
    BY <1>3 DEF Forwarding, ScheduleForward
  <2> QED BY <1>1, <2>1 DEF ForwardsTyped
<1>4. CASE ~ShouldForward(n, f, from)
  <2>1. fwdQueue' = fwdQueue /\ lost' = lost
    BY <1>4 DEF Forwarding
  <2> QED BY <1>1, <1>4, <2>1 DEF ForwardsTyped
<1> QED BY <1>2, <1>3, <1>4

\* SeenCache::checkAndMark keeps the cache within its size.
LEMMA SeenAfterTyped ==
  ASSUME SeenSize \in Nat \ {0}, NEW c \in Seq(Identities), Len(c) <= SeenSize, NEW id \in Identities
  PROVE  SeenAfter(c, id) \in Seq(Identities) /\ Len(SeenAfter(c, id)) <= SeenSize
<1>1. PICK n \in Nat : n = Len(c)
  BY LenProperties
<1>2. CASE Contains(c, id)
  BY <1>2 DEF SeenAfter
<1>3. CASE ~Contains(c, id) /\ n < SeenSize
  <2>1. SeenAfter(c, id) = Append(c, id)
    BY <1>1, <1>3 DEF SeenAfter
  <2>2. Append(c, id) \in Seq(Identities) /\ Len(Append(c, id)) = n + 1
    BY <1>1, AppendProperties
  <2> QED BY <1>1, <1>3, <2>1, <2>2
<1>4. CASE ~Contains(c, id) /\ ~(n < SeenSize)
  <2>1. SeenAfter(c, id) = Append(Tail(c), id) /\ n = SeenSize
    BY <1>1, <1>4 DEF SeenAfter
  <2>2. c # <<>>
    BY <1>1, <2>1, EmptySeq
  <2>3. PICK t \in Seq(Identities) : t = Tail(c) /\ Len(t) = n - 1
    BY <1>1, <2>2, HeadTailProperties
  <2>4. Append(t, id) \in Seq(Identities) /\ Len(Append(t, id)) = Len(t) + 1
    BY <2>3, AppendProperties
  <2> QED BY <1>1, <2>1, <2>3, <2>4
<1> QED BY <1>2, <1>3, <1>4

\* Initially every variable has its type.
LEMMA InitTyped == ASSUME Assumptions, Init PROVE Typed
<1>1. <<>> \in Seq(Windows) /\ <<>> \in Seq(Identities) /\ Len(<<>>) = 0
  BY EmptySeq
<1>2. Table(<<>>)
  BY <1>1, Bounds DEF Table, OnePerSender
<1>3. Holds({}, Entered(FwdRetryMax), FwdDepth) /\ Holds({}, Entered(AckRetryMax), AckDepth)
  BY FS_EmptySet, Bounds DEF Holds
<1>4. WindowsTyped /\ SeenTyped
  BY <1>1, <1>2, Bounds DEF Init, WindowsTyped, SeenTyped
<1>5. ForwardsTyped /\ AcksTyped /\ PendingTyped
  BY <1>3 DEF Init, ForwardsTyped, AcksTyped, PendingTyped
<1>6. HistoryTyped
  <2>1. [m \in Messages |-> 0] \in [Messages -> 0..2]
    OBVIOUS
  <2>2. PICK z \in [Messages -> 0..2] : z = [m \in Messages |-> 0]
    BY <2>1
  <2>3. handed = [n \in Nodes |-> z] /\ relayed = [n \in Nodes |-> z]
    BY <2>2 DEF Init
  <2> QED BY <2>3 DEF Init, HistoryTyped
<1> QED BY <1>4, <1>5, <1>6 DEF Init, Typed

\* Tables that do not change keep their types.
LEMMA SameTyped ==
  ASSUME Typed
  PROVE  /\ UNCHANGED windows => WindowsTyped'
         /\ UNCHANGED seen => SeenTyped'
         /\ UNCHANGED fwdQueue => ForwardsTyped'
         /\ UNCHANGED ackQueue => AcksTyped'
         /\ UNCHANGED pending => PendingTyped'
         /\ UNCHANGED histories => HistoryTyped'
BY DEF Typed, WindowsTyped, SeenTyped, ForwardsTyped, AcksTyped, PendingTyped, HistoryTyped,
       histories

\* Engine::send: a sender's frames and pending entry.
LEMMA OriginateTyped ==
  ASSUME Assumptions, Typed, NEW m \in Messages, Originate(m) PROVE Typed'
<1>1. Data(m) \in Frames /\ m.src \in Nodes
  BY FramesMade, MessageIs
<1>2. air' \in SUBSET Copies
  BY <1>1, ReceptionsAre DEF Originate, Typed
<1>3. pending' = [pending EXCEPT ![m.src] = IF m.areq THEN pending[m.src] \cup {m} ELSE pending[m.src]]
  BY DEF Originate
<1>4. PendingTyped'
  BY <1>1, <1>3 DEF Typed, PendingTyped
<1> QED BY <1>2, <1>4, SameTyped DEF Originate, Typed

\* The ACK timer.
LEMMA TimeoutTyped ==
  ASSUME Typed, NEW n \in Nodes, AckTimeout(n) PROVE Typed'
<1>1. PICK m \in pending[n] :
        /\ pending' = [pending EXCEPT ![n] = @ \ {m}]
        /\ told' = [told EXCEPT ![m] = "timeout"]
  BY DEF AckTimeout
<1>2. PendingTyped' /\ HistoryTyped'
  BY <1>1 DEF AckTimeout, Typed, PendingTyped, HistoryTyped
<1> QED BY <1>2, SameTyped DEF AckTimeout, Typed

\* What a reception is.
LEMMA CopyIs ==
  ASSUME Typed, NEW r \in air
  PROVE  /\ r.frame \in Frames /\ r.from \in Nodes /\ r.to \in Nodes
         /\ r.frame.of \in Messages /\ r.frame.src \in Nodes
         /\ r \in Copies /\ air \in SUBSET Copies
BY FrameIs DEF Typed, Copies

\* A frame that is dropped, or was not heard.
LEMMA DropTyped ==
  ASSUME Assumptions, Typed, NEW r \in air, OwnFrame(r) \/ SeenAck(r) \/ Lose(r) PROVE Typed'
<1>1. CASE OwnFrame(r) \/ SeenAck(r)
  BY <1>1, SameTyped DEF OwnFrame, SeenAck, Consume, Typed, tables
<1>2. CASE Lose(r)
  <2>1. HistoryTyped'
    BY <1>2 DEF Lose, Typed, HistoryTyped
  <2> QED BY <1>2, <2>1, SameTyped DEF Lose, Consume, Typed, tables
<1> QED BY <1>1, <1>2

\* An ACK not heard before.
LEMMA NewAckTyped ==
  ASSUME Assumptions, Typed, NEW r \in air, NewAck(r) PROVE Typed'
<1>1. PICK n \in Nodes, f \in Frames : n = r.to /\ f = r.frame
  BY CopyIs
<1>2. PICK answered \in SUBSET pending[n] :
        /\ pending' = [pending EXCEPT ![n] = pending[n] \ answered]
        /\ told' = [m \in Messages |-> IF m \in answered THEN "ok" ELSE told[m]]
  BY <1>1 DEF NewAck
<1>3. /\ seen' = [seen EXCEPT ![n] = SeenAfter(seen[n], Identity(f))]
      /\ Forwarding(n, f, r.from)
      /\ air' = air \ {r}
      /\ UNCHANGED <<strategy, unsent, windows, ackQueue, accepted, handed,
                       relayed, forgotten, faults>>
  BY <1>1 DEF NewAck, Consume
<1>4. ForwardsTyped' /\ lost' \in BOOLEAN
  BY <1>1, <1>3, ForwardingIs
<1>5. SeenTyped'
  <2>1. Identity(f) \in Identities
    BY FrameIs, MessageIs DEF Identity, Identities
  <2>2. SeenAfter(seen[n], Identity(f)) \in Seq(Identities)
        /\ Len(SeenAfter(seen[n], Identity(f))) <= SeenSize
    BY <2>1, SeenAfterTyped, Bounds DEF Typed, SeenTyped
  <2> QED BY <1>3, <2>2 DEF Typed, SeenTyped
<1>6. PendingTyped'
  BY <1>2 DEF Typed, PendingTyped
<1>7. HistoryTyped'
  BY <1>2, <1>3, <1>4 DEF Typed, HistoryTyped
<1>8. air' \in SUBSET Copies
  BY <1>3 DEF Typed
<1> QED BY <1>3, <1>4, <1>5, <1>6, <1>7, <1>8, SameTyped DEF Typed

\* The window of a node after a data frame.
LEMMA RememberTyped ==
  ASSUME Assumptions, Typed, NEW r \in air, ~r.frame.ack, Remember(r)
  PROVE  /\ WindowsTyped'
         /\ windows' = [windows EXCEPT ![r.to] =
              AfterFrame(windows[r.to], r.frame.of.src, WireSeq(r.frame.of))]
         /\ Pushed(windows[r.to], r.frame.src) \in SUBSET Nodes
<1>1. PICK n \in Nodes, m \in Messages : n = r.to /\ m = r.frame.of
  BY CopyIs
<1>2. r.frame.src = m.src /\ m.src \in Nodes /\ WireSeq(m) \in Sequences24
  BY <1>1, CopyIs, FrameIs, MessageIs
<1>3. windows' = [windows EXCEPT ![n] = AfterFrame(windows[n], m.src, WireSeq(m))]
  BY <1>1, <1>2 DEF Remember
<1>4. windows \in [Nodes -> Seq(Windows)] /\ \A k \in Nodes : Table(windows[k])
  BY DEF Typed, WindowsTyped
<1>5. Table(AfterFrame(windows[n], m.src, WireSeq(m)))
  BY <1>2, <1>4, AfterFrameIs DEF Assumptions
<1>6. AfterFrame(windows[n], m.src, WireSeq(m)) \in Seq(Windows)
  BY <1>5 DEF Table
<1>7. WindowsTyped'
  BY <1>3, <1>4, <1>5, <1>6 DEF WindowsTyped
<1>8. Pushed(windows[n], m.src) \in SUBSET Nodes
  <2>1. CASE Evicts(windows[n], m.src)
    <3>1. windows[n] \in Seq(Windows) /\ windows[n] # <<>>
      BY <1>4, <2>1, EmptySeq, Bounds DEF Evicts
    <3>2. Head(windows[n]) \in Windows
      BY <3>1, HeadTailProperties
    <3>3. Head(windows[n]).src \in Nodes
      BY <3>2 DEF Windows
    <3> QED BY <2>1, <3>3 DEF Pushed, Victim
  <2>2. CASE ~Evicts(windows[n], m.src)
    BY <2>2 DEF Pushed
  <2> QED BY <2>1, <2>2
<1> QED BY <1>1, <1>2, <1>3, <1>7, <1>8

\* A frame its window refuses.
LEMMA ReplayedTyped ==
  ASSUME Assumptions, Typed, NEW r \in air, ReplayedData(r) PROVE Typed'
<1>1. WindowsTyped'
  BY RememberTyped DEF ReplayedData
<1> QED BY <1>1, SameTyped DEF ReplayedData, Consume, Typed

\* _sendAck: the ACK goes out, or is parked, or is dropped; it is that of the
\* message and of this node.
LEMMA AcknowledgeIs ==
  ASSUME Assumptions, Typed, NEW r \in air, ~r.frame.ack, Acknowledge(r),
         NEW n \in Nodes, NEW m \in Messages, n = r.to, m = r.frame.of
  PROVE  /\ air' \in SUBSET Copies /\ AcksTyped' /\ faults' \in Nat
         /\ air \ {r} \subseteq air'
         /\ \A c \in air' : c \in air \ {r} \/ (c.frame = AckOf(m, n) /\ m.dst = n)
         /\ \A k \in Nodes : \A e \in ackQueue'[k] :
              e \in ackQueue[k] \/ (e.frame = AckOf(m, n) /\ m.dst = n)
<1>2. r.frame.dst = m.dst
  BY CopyIs, FrameIs
<1>3. air \in SUBSET Copies /\ AcksTyped /\ faults \in Nat
  BY DEF Typed
<1>4. CASE ~(m.areq /\ m.dst = n)
  <2>1. air' = air \ {r} /\ ackQueue' = ackQueue /\ faults' = faults
    BY <1>2, <1>4 DEF Acknowledge
  <2> QED BY <1>3, <2>1, SameTyped
<1>5. CASE m.areq /\ m.dst = n
  <2> DEFINE a == AckOf(m, n)
  <2>1. a \in Frames /\ a.ack
    BY <1>5, FramesMade DEF AckOf
  <2>2. \/ air' = (air \ {r}) \cup Receptions(a, n) /\ ackQueue' = ackQueue /\ faults' = faults
        \/ /\ faults' = faults + 1 /\ air' = air \ {r}
           /\ ackQueue' = IF Cardinality(ackQueue[n]) < AckDepth
                            THEN [ackQueue EXCEPT ![n] = ackQueue[n] \cup {Parked(a)}]
                            ELSE ackQueue
    BY <1>2, <1>5 DEF Acknowledge, Consume
  <2> HIDE DEF a
  <2>3. CASE air' = (air \ {r}) \cup Receptions(a, n) /\ ackQueue' = ackQueue /\ faults' = faults
    <3>1. Receptions(a, n) \in SUBSET Copies /\ \A c \in Receptions(a, n) : c.frame = a
      BY <2>1, ReceptionsAre
    <3> QED BY <1>3, <1>5, <2>3, <3>1, SameTyped DEF a
  <2>4. CASE /\ faults' = faults + 1 /\ air' = air \ {r} /\ Cardinality(ackQueue[n]) < AckDepth
             /\ ackQueue' = [ackQueue EXCEPT ![n] = ackQueue[n] \cup {Parked(a)}]
    <3>1. PICK e \in Entered(AckRetryMax) : e = Parked(a) /\ e.frame = a
      <4>1. 0 \in 0..AckRetryMax
        BY Bounds
      <4>2. Parked(a) \in Entered(AckRetryMax)
        BY <2>1, <4>1 DEF Parked, Entered
      <4>3. Parked(a).frame = a
        BY DEF Parked
      <4> QED BY <4>2, <4>3
    <3>2. Holds(ackQueue[n] \cup {e}, Entered(AckRetryMax), AckDepth)
      BY <1>3, <2>4, Bounds, HoldsAdd DEF AcksTyped
    <3>3. ackQueue' = [ackQueue EXCEPT ![n] = ackQueue[n] \cup {e}]
      BY <2>4, <3>1
    <3>4. \A k \in Nodes : ackQueue'[k] = IF k = n THEN ackQueue[n] \cup {e} ELSE ackQueue[k]
      BY <1>3, <3>3 DEF AcksTyped
    <3>5. ackQueue' \in [Nodes -> SUBSET Entered(AckRetryMax)]
      BY <1>3, <3>3 DEF AcksTyped
    <3>6. AcksTyped'
      BY <1>3, <2>1, <3>1, <3>2, <3>4, <3>5 DEF AcksTyped
    <3> QED BY <1>3, <1>5, <2>4, <3>1, <3>4, <3>6 DEF a
  <2>5. CASE faults' = faults + 1 /\ air' = air \ {r} /\ ackQueue' = ackQueue
    BY <1>3, <2>5, SameTyped
  <2> QED BY <2>2, <2>3, <2>4, <2>5
<1> QED BY <1>4, <1>5

\* What the tables are after node n accepted message m.
Noted(n, m) ==
  /\ \A k \in Nodes : windows'[k] =
       IF k = n THEN AfterFrame(windows[n], m.src, WireSeq(m)) ELSE windows[k]
  /\ \A k \in Nodes : accepted'[k] = IF k = n THEN accepted[n] \cup {m} ELSE accepted[k]
  /\ forgotten' = forgotten \cup ({n} \X Pushed(windows[n], m.src))

HandedOver(n, m) ==
  \A k \in Nodes, o \in Messages : handed'[k][o] =
    IF k = n /\ o = m /\ m.dst \in {n, Broadcast} THEN OneMore(handed[n][m]) ELSE handed[k][o]

Acknowledged(n, m, r) ==
  /\ air \ {r} \subseteq air'
  /\ \A c \in air' : c \in air \ {r} \/ (c.frame = AckOf(m, n) /\ m.dst = n)
  /\ \A k \in Nodes : \A e \in ackQueue'[k] :
       e \in ackQueue[k] \/ (e.frame = AckOf(m, n) /\ m.dst = n)

\* What a data frame that passes the window of a node does there.
LEMMA NewDataIs ==
  ASSUME Assumptions, Typed, NEW r \in air, NewData(r),
         NEW n \in Nodes, NEW m \in Messages, n = r.to, m = r.frame.of
  PROVE  /\ Typed'
         /\ ~r.frame.ack /\ m.src # n /\ r.frame.src = m.src /\ r.frame.dst = m.dst
         /\ ~IsReplay(windows[n], m.src, WireSeq(m))
         /\ Forwarding(n, r.frame, r.from)
         /\ Noted(n, m) /\ HandedOver(n, m) /\ Acknowledged(n, m, r)
         /\ UNCHANGED <<strategy, unsent, seen, pending, told, relayed>>
<1>1. /\ ~r.frame.ack /\ r.frame.src = m.src /\ r.frame.dst = m.dst /\ m.src # n
      /\ ~IsReplay(windows[n], m.src, WireSeq(m))
      /\ Remember(r) /\ Forwarding(n, r.frame, r.from)
      /\ accepted' = [accepted EXCEPT ![n] = accepted[n] \cup {m}]
      /\ forgotten' = forgotten \cup Evicted(r)
      /\ UNCHANGED <<strategy, unsent, seen, pending, told, relayed>>
  BY CopyIs, FrameIs DEF NewData, Replayed
<1>2. /\ WindowsTyped /\ AcksTyped /\ HistoryTyped /\ air \in SUBSET Copies /\ faults \in Nat
  BY DEF Typed
<1>3. /\ WindowsTyped'
      /\ windows' = [windows EXCEPT ![n] = AfterFrame(windows[n], m.src, WireSeq(m))]
      /\ Pushed(windows[n], m.src) \in SUBSET Nodes
  BY <1>1, RememberTyped
<1>4. ForwardsTyped' /\ lost' \in BOOLEAN
  BY <1>1, CopyIs, ForwardingIs
<1>5. forgotten' = forgotten \cup ({n} \X Pushed(windows[n], m.src))
  BY <1>1 DEF Evicted, Pushed
<1>6. OneMore(handed[n][m]) \in 0..2
  BY DEF OneMore
<1>7. /\ air' \in SUBSET Copies /\ AcksTyped' /\ faults' \in Nat
      /\ air \ {r} \subseteq air'
      /\ \A c \in air' : c \in air \ {r} \/ (c.frame = AckOf(m, n) /\ m.dst = n)
      /\ \A k \in Nodes : \A e \in ackQueue'[k] :
           e \in ackQueue[k] \/ (e.frame = AckOf(m, n) /\ m.dst = n)
      /\ handed' = IF m.dst \in {n, Broadcast}
                     THEN [handed EXCEPT ![n] = [handed[n] EXCEPT ![m] = OneMore(handed[n][m])]]
                     ELSE handed
  <2>1. CASE m.dst \in {n, Broadcast}
    <3>1. Acknowledge(r) /\ handed' = [handed EXCEPT ![n][m] = OneMore(@)]
      BY <1>1, <2>1 DEF NewData, IsForMe
    <3>2. handed' = [handed EXCEPT ![n] = [handed[n] EXCEPT ![m] = OneMore(handed[n][m])]]
      BY <3>1
    <3>3. ~r.frame.ack
      BY <1>1
    <3>4. /\ air' \in SUBSET Copies /\ AcksTyped' /\ faults' \in Nat
          /\ air \ {r} \subseteq air'
          /\ \A c \in air' : c \in air \ {r} \/ (c.frame = AckOf(m, n) /\ m.dst = n)
          /\ \A k \in Nodes : \A e \in ackQueue'[k] :
               e \in ackQueue[k] \/ (e.frame = AckOf(m, n) /\ m.dst = n)
      BY <3>1, <3>3, AcknowledgeIs
    <3> QED BY <2>1, <3>2, <3>4
  <2>2. CASE m.dst \notin {n, Broadcast}
    <3>1. air' = air \ {r} /\ handed' = handed /\ ackQueue' = ackQueue /\ faults' = faults
      BY <1>1, <2>2 DEF NewData, IsForMe, Consume
    <3>2. AcksTyped'
      BY <3>1, SameTyped
    <3>3. /\ \A k \in Nodes : \A e \in ackQueue'[k] : e \in ackQueue[k]
          /\ \A c \in air' : c \in air \ {r}
          /\ air' \in SUBSET Copies /\ faults' \in Nat /\ air \ {r} \subseteq air'
      BY <1>2, <3>1
    <3> QED BY <2>2, <3>1, <3>2, <3>3
  <2> QED BY <2>1, <2>2
<1>8. \A k \in Nodes, o \in Messages : handed'[k][o] =
        IF k = n /\ o = m /\ m.dst \in {n, Broadcast} THEN OneMore(handed[n][m])
                                                      ELSE handed[k][o]
  BY <1>2, <1>7 DEF HistoryTyped
<1>9. HistoryTyped'
  <2>1. handed' \in [Nodes -> [Messages -> 0..2]]
    <3>1. [handed[n] EXCEPT ![m] = OneMore(handed[n][m])] \in [Messages -> 0..2]
      BY <1>2, <1>6 DEF HistoryTyped
    <3> QED BY <1>2, <1>7, <3>1 DEF HistoryTyped
  <2>2. accepted' \in [Nodes -> SUBSET Messages]
    BY <1>1, <1>2 DEF HistoryTyped
  <2>3. forgotten' \in SUBSET (Nodes \X Nodes)
    BY <1>2, <1>3, <1>5 DEF HistoryTyped
  <2> QED BY <1>1, <1>2, <1>4, <2>1, <2>2, <2>3 DEF HistoryTyped
<1>10. Typed'
  BY <1>1, <1>3, <1>4, <1>7, <1>9, SameTyped DEF Typed
<1>11. \A k \in Nodes : /\ windows'[k] = IF k = n THEN AfterFrame(windows[n], m.src, WireSeq(m))
                                                  ELSE windows[k]
                        /\ accepted'[k] = IF k = n THEN accepted[n] \cup {m} ELSE accepted[k]
  BY <1>1, <1>2, <1>3 DEF WindowsTyped, HistoryTyped
<1>12. Noted(n, m) /\ HandedOver(n, m) /\ Acknowledged(n, m, r)
  BY <1>5, <1>7, <1>8, <1>11 DEF Noted, HandedOver, Acknowledged
<1> QED BY <1>1, <1>10, <1>12

\* What an entry of a queue is, and is when it is tried again.
LEMMA EntryIs ==
  ASSUME NEW max \in Nat, NEW e \in Entered(max)
  PROVE  /\ e.frame \in Frames /\ Again(e).frame = e.frame
         /\ e.retries < max => Again(e) \in Entered(max)
<1>1. PICK f \in Frames, i \in 0..max : e = [frame |-> f, retries |-> i]
  BY DEF Entered
<1>2. Again(e) = [frame |-> f, retries |-> i + 1]
  BY <1>1 DEF Again
<1> QED BY <1>1, <1>2 DEF Entered

\* How often frames were relayed after node n relayed f.
RelayedBy(n, f) ==
  \A k \in Nodes, o \in Messages : relayed'[k][o] =
    IF k = n /\ o = f.of /\ ~f.ack THEN OneMore(relayed[n][o]) ELSE relayed[k][o]

\* _processForwards sends an entry on.
LEMMA RelayIs ==
  ASSUME Assumptions, Typed, NEW n \in Nodes, NEW e \in fwdQueue[n], Relay(n, e)
  PROVE  /\ Typed' /\ e.frame \in Frames
         /\ \A k \in Nodes : fwdQueue'[k] = IF k = n THEN fwdQueue[n] \ {e} ELSE fwdQueue[k]
         /\ RelayedBy(n, e.frame)
<1>1. ForwardsTyped /\ HistoryTyped /\ air \in SUBSET Copies
  BY DEF Typed
<1>2. e \in Entered(FwdRetryMax)
  BY <1>1 DEF ForwardsTyped
<1>3. PICK f \in Frames : f = e.frame
  BY <1>2, EntryIs, Bounds
<1>4. f.of \in Messages /\ f.ack \in BOOLEAN
  BY FrameIs
<1>5. fwdQueue' = [fwdQueue EXCEPT ![n] = fwdQueue[n] \ {e}]
  BY DEF Relay
<1>6. \A k \in Nodes : fwdQueue'[k] = IF k = n THEN fwdQueue[n] \ {e} ELSE fwdQueue[k]
  BY <1>1, <1>5 DEF ForwardsTyped
<1>7. ForwardsTyped'
  <2>1. Holds(fwdQueue[n] \ {e}, Entered(FwdRetryMax), FwdDepth)
    BY <1>1, <1>2, HoldsAdd, Bounds DEF ForwardsTyped
  <2>2. fwdQueue' \in [Nodes -> SUBSET Entered(FwdRetryMax)]
    BY <1>1, <1>5 DEF ForwardsTyped
  <2> QED BY <1>1, <1>6, <2>1, <2>2 DEF ForwardsTyped
<1>8. air' \in SUBSET Copies
  BY <1>1, <1>3, ReceptionsAre DEF Relay
<1>9. /\ relayed' \in [Nodes -> [Messages -> 0..2]]
      /\ \A k \in Nodes, o \in Messages : relayed'[k][o] =
           IF k = n /\ o = f.of /\ ~f.ack THEN OneMore(relayed[n][o]) ELSE relayed[k][o]
  <2>1. CASE f.ack
    BY <1>1, <1>3, <2>1 DEF Relay, HistoryTyped
  <2>2. CASE ~f.ack
    <3>1. relayed' = [relayed EXCEPT ![n] = [relayed[n] EXCEPT ![f.of] = OneMore(relayed[n][f.of])]]
      BY <1>3, <2>2 DEF Relay
    <3>2. OneMore(relayed[n][f.of]) \in 0..2
      BY DEF OneMore
    <3>3. [relayed[n] EXCEPT ![f.of] = OneMore(relayed[n][f.of])] \in [Messages -> 0..2]
      BY <1>1, <3>2 DEF HistoryTyped
    <3> QED BY <1>1, <1>4, <2>2, <3>1, <3>3 DEF HistoryTyped
  <2> QED BY <1>4, <2>1, <2>2
<1>10. HistoryTyped'
  BY <1>1, <1>9 DEF Relay, HistoryTyped
<1>11. Typed'
  BY <1>7, <1>8, <1>10, SameTyped DEF Relay, Typed
<1>12. RelayedBy(n, e.frame)
  BY <1>3, <1>9 DEF RelayedBy
<1> QED BY <1>3, <1>6, <1>11, <1>12

\* _processForwards keeps an entry for later, or gives it up.
LEMMA RelayFailsIs ==
  ASSUME Assumptions, Typed, NEW n \in Nodes, NEW e \in fwdQueue[n], RelayFails(n, e)
  PROVE  /\ Typed' /\ e.frame \in Frames /\ Again(e).frame = e.frame
         /\ \A k \in Nodes : k # n => fwdQueue'[k] = fwdQueue[k]
         /\ \/ fwdQueue'[n] = (fwdQueue[n] \ {e}) \cup {Again(e)} /\ lost' = lost
            \/ fwdQueue'[n] = fwdQueue[n] \ {e} /\ lost'
<1>1. ForwardsTyped /\ HistoryTyped /\ faults \in Nat
  BY DEF Typed
<1>2. e \in Entered(FwdRetryMax)
  BY <1>1 DEF ForwardsTyped
<1>3. e.frame \in Frames /\ Again(e).frame = e.frame
      /\ (e.retries < FwdRetryMax => Again(e) \in Entered(FwdRetryMax))
  BY <1>2, EntryIs, Bounds
<1>4. PICK q : /\ fwdQueue' = [fwdQueue EXCEPT ![n] = q]
               /\ \/ /\ e.retries < FwdRetryMax
                     /\ q = (fwdQueue[n] \ {e}) \cup {Again(e)} /\ lost' = lost
                  \/ q = fwdQueue[n] \ {e} /\ lost' = TRUE
  BY DEF RelayFails
<1>5. Holds(q, Entered(FwdRetryMax), FwdDepth)
  BY <1>1, <1>2, <1>3, <1>4, HoldsAdd, HoldsSwap, Bounds DEF ForwardsTyped
<1>6. \A k \in Nodes : fwdQueue'[k] = IF k = n THEN q ELSE fwdQueue[k]
  BY <1>1, <1>4 DEF ForwardsTyped
<1>7. ForwardsTyped'
  <2>1. fwdQueue' \in [Nodes -> SUBSET Entered(FwdRetryMax)]
    BY <1>1, <1>4, <1>5 DEF ForwardsTyped, Holds
  <2> QED BY <1>1, <1>5, <1>6, <2>1 DEF ForwardsTyped
<1>8. HistoryTyped' /\ faults' \in Nat
  <2>1. lost' \in BOOLEAN
    BY <1>1, <1>4 DEF HistoryTyped
  <2>2. UNCHANGED <<told, accepted, handed, relayed, forgotten>> /\ faults' = faults + 1
    BY DEF RelayFails
  <2> QED BY <1>1, <2>1, <2>2 DEF HistoryTyped
<1>9. Typed'
  BY <1>7, <1>8, SameTyped DEF RelayFails, Typed
<1> QED BY <1>3, <1>4, <1>6, <1>9

\* _processAckQueue sends a parked ACK, keeps it or gives it up.
LEMMA ParkedAckIs ==
  ASSUME Assumptions, Typed, NEW n \in Nodes, NEW e \in ackQueue[n],
         SendParkedAck(n, e) \/ ParkedAckFails(n, e)
  PROVE  /\ Typed' /\ e.frame \in Frames /\ e.frame.ack
         /\ \A k \in Nodes : \A d \in ackQueue'[k] : d \in ackQueue[k] \/ d.frame = e.frame
         /\ air \subseteq air' /\ \A c \in air' : c \in air \/ c.frame = e.frame
         /\ UNCHANGED <<strategy, unsent, windows, seen, fwdQueue, pending, histories>>
<1>1. AcksTyped /\ air \in SUBSET Copies /\ faults \in Nat
  BY DEF Typed
<1>2. e \in Entered(AckRetryMax) /\ e.frame.ack
  BY <1>1 DEF AcksTyped
<1>3. e.frame \in Frames /\ Again(e).frame = e.frame
      /\ (e.retries < AckRetryMax => Again(e) \in Entered(AckRetryMax))
  BY <1>2, EntryIs, Bounds
<1>4. PICK q : /\ ackQueue' = [ackQueue EXCEPT ![n] = q]
               /\ \/ /\ e.retries < AckRetryMax
                     /\ q = (ackQueue[n] \ {e}) \cup {Again(e)}
                  \/ q = ackQueue[n] \ {e}
  BY DEF SendParkedAck, ParkedAckFails
<1>5. Holds(q, Entered(AckRetryMax), AckDepth)
  BY <1>1, <1>2, <1>3, <1>4, HoldsAdd, HoldsSwap, Bounds DEF AcksTyped
<1>6. \A k \in Nodes : ackQueue'[k] = IF k = n THEN q ELSE ackQueue[k]
  BY <1>1, <1>4 DEF AcksTyped
<1>7. \A d \in q : d \in ackQueue[n] \/ d.frame = e.frame
  BY <1>3, <1>4
<1>8. AcksTyped'
  <2>1. ackQueue' \in [Nodes -> SUBSET Entered(AckRetryMax)]
    BY <1>1, <1>4, <1>5 DEF AcksTyped, Holds
  <2>2. \A d \in q : d.frame.ack
    BY <1>1, <1>2, <1>7 DEF AcksTyped
  <2> QED BY <1>1, <1>5, <1>6, <2>1, <2>2 DEF AcksTyped
<1>9. /\ air \subseteq air' /\ \A c \in air' : c \in air \/ c.frame = e.frame
      /\ air' \in SUBSET Copies /\ faults' \in Nat
  <2>1. CASE SendParkedAck(n, e)
    BY <1>1, <1>3, <2>1, ReceptionsAre DEF SendParkedAck
  <2>2. CASE ParkedAckFails(n, e)
    BY <1>1, <2>2 DEF ParkedAckFails
  <2> QED BY <2>1, <2>2
<1>10. UNCHANGED <<strategy, unsent, windows, seen, fwdQueue, pending, histories>>
  BY DEF SendParkedAck, ParkedAckFails
<1>11. Typed'
  BY <1>8, <1>9, <1>10, SameTyped DEF Typed
<1> QED BY <1>2, <1>3, <1>6, <1>7, <1>9, <1>10, <1>11

\* Every step keeps the types.
LEMMA StepTyped == ASSUME Assumptions, Typed, [Next]_vars PROVE Typed'
<1>1. ASSUME NEW m \in Messages, Originate(m) PROVE Typed'
  BY <1>1, OriginateTyped
<1>2. ASSUME NEW n \in Nodes, AckTimeout(n) PROVE Typed'
  BY <1>2, TimeoutTyped
<1>3. ASSUME NEW n \in Nodes, Serve(n) PROVE Typed'
  BY <1>3, RelayIs, RelayFailsIs, ParkedAckIs DEF Serve
<1>4. ASSUME NEW r \in air, Receive(r) \/ Lose(r) PROVE Typed'
  <2>1. CASE OwnFrame(r) \/ SeenAck(r) \/ Lose(r)
    BY <2>1, DropTyped
  <2>2. CASE NewAck(r)
    BY <2>2, NewAckTyped
  <2>3. CASE ReplayedData(r)
    BY <2>3, ReplayedTyped
  <2>4. CASE NewData(r)
    BY <2>4, NewDataIs, CopyIs
  <2> QED BY <1>4, <2>1, <2>2, <2>3, <2>4 DEF Receive
<1>5. ASSUME UNCHANGED vars PROVE Typed'
  BY <1>5, SameTyped DEF vars, tables, histories, Typed
<1> QED BY <1>1, <1>2, <1>3, <1>4, <1>5 DEF Next

\* Typed gives the module's own type invariant.
LEMMA TypedIsTypeOK == ASSUME Assumptions, Typed PROVE TypeOK
<1>1. ASSUME NEW max \in Nat, max <= FwdRetryMax + AckRetryMax PROVE Entered(max) \subseteq Queued
  <2>1. \A i \in 0..max : i \in 0..(FwdRetryMax + AckRetryMax)
    BY <1>1, Bounds
  <2> QED BY <2>1 DEF Entered, Queued, Frames
<1>2. Entered(FwdRetryMax) \subseteq Queued /\ Entered(AckRetryMax) \subseteq Queued
  BY <1>1, Bounds
<1>3. ASSUME NEW n \in Nodes
      PROVE  /\ fwdQueue[n] \subseteq Queued /\ Cardinality(fwdQueue[n]) <= FwdDepth
             /\ ackQueue[n] \subseteq Queued /\ Cardinality(ackQueue[n]) <= AckDepth
  BY <1>2 DEF Typed, ForwardsTyped, AcksTyped, Holds
<1> QED BY <1>3 DEF Typed, WindowsTyped, SeenTyped, PendingTyped, Table, OnePerSender, TypeOK

\* Every table of every node keeps its type and its bound, and no hop count
\* runs below zero, whatever is lost, late or doubled.
THEOREM TypesAlways == ASSUME NumbersClose PROVE Spec => []TypeOK
<1>1. Init => Typed
  BY InitTyped, FreshnessAssumption, MeshAssumption DEF Assumptions
<1>2. Typed /\ [Next]_vars => Typed'
  BY StepTyped, FreshnessAssumption, MeshAssumption DEF Assumptions
<1>3. Typed => TypeOK
  BY TypedIsTypeOK, FreshnessAssumption, MeshAssumption DEF Assumptions
<1> QED BY <1>1, <1>2, <1>3, PTL DEF Spec

-----------------------------------------------------------------------------
(* An ACK means that the message was handed over.                          *)

\* What an ACK says is so.
True(f) == f.ack => handed[f.src][f.of] > 0

AcksAreTrue ==
  /\ \A r \in air : True(r.frame)
  /\ \A n \in Nodes : \A e \in fwdQueue[n] : True(e.frame)
  /\ \A n \in Nodes : \A e \in ackQueue[n] : True(e.frame)
  /\ \A m \in Messages : told[m] = "ok" => m.dst \in Nodes

\* What was handed over stays handed over.
LEMMA HandedStays ==
  ASSUME Assumptions, Typed, NEW r \in air, NewData(r), NEW f \in Frames, True(f)
  PROVE  True(f)'
<1>1. PICK n \in Nodes, m \in Messages : n = r.to /\ m = r.frame.of
  BY CopyIs
<1>2. HandedOver(n, m)
  BY <1>1, NewDataIs
<1>3. \A k \in Nodes, o \in Messages : handed[k][o] > 0 => handed'[k][o] > 0
  BY <1>2 DEF HandedOver, OneMore
<1> QED BY <1>3, FrameIs DEF True

\* An ACK that answers a pending message is the ACK of that message.
LEMMA AnswersTheOne ==
  ASSUME Assumptions, Typed, NEW n \in Nodes, NEW f \in Frames, f.ack, f.dst = n,
         NEW m \in pending[n], Answers(m, f)
  PROVE  m = f.of
<1>1. m \in Messages /\ m.src = n /\ f.of \in Messages /\ f.of.src = n
  BY FrameIs DEF Typed, PendingTyped
<1>2. /\ Ahead(WireSeq(m), WireSeq(f.of)) = m.number - f.of.number
      /\ m.number = f.of.number => m = f.of
  BY <1>1, MessageIs
<1>3. Ahead(WireSeq(m), WireSeq(m)) = m.number - m.number
  BY <1>1, MessageIs
<1>4. WireSeq(m) = WireSeq(f.of)
  BY DEF Answers
<1>5. m.number - f.of.number = m.number - m.number
  BY <1>2, <1>3, <1>4
<1>6. m.number \in Nat /\ f.of.number \in Nat
  BY <1>1, MessageIs
<1> QED BY <1>2, <1>5, <1>6

\* No step lets an ACK exist whose message was not handed over.
LEMMA AcksStep ==
  ASSUME Assumptions, Typed, AcksAreTrue, OkMeansHanded, [Next]_vars
  PROVE  AcksAreTrue' /\ OkMeansHanded'
<1> USE DEF AcksAreTrue, OkMeansHanded
<1>1. ASSUME NEW m \in Messages, Originate(m) PROVE AcksAreTrue' /\ OkMeansHanded'
  <2>1. \A r \in air' : r \in air \/ r.frame = Data(m)
    BY <1>1, ReceptionsAre, FramesMade, MessageIs DEF Originate
  <2>2. ~Data(m).ack
    BY DEF Data
  <2> QED BY <1>1, <2>1, <2>2 DEF Originate, True, histories
<1>2. ASSUME NEW n \in Nodes, AckTimeout(n) PROVE AcksAreTrue' /\ OkMeansHanded'
  <2>1. \A m \in Messages : told'[m] = "ok" => told[m] = "ok"
    BY <1>2 DEF AckTimeout, Typed, HistoryTyped
  <2> QED BY <1>2, <2>1 DEF AckTimeout, True
<1>3. ASSUME NEW n \in Nodes, Serve(n) PROVE AcksAreTrue' /\ OkMeansHanded'
  <2>1. ASSUME NEW e \in fwdQueue[n], Relay(n, e) PROVE AcksAreTrue' /\ OkMeansHanded'
    <3>1. /\ e.frame \in Frames /\ \A k \in Nodes : fwdQueue'[k] \subseteq fwdQueue[k]
      BY <2>1, RelayIs
    <3>2. \A r \in air' : r \in air \/ r.frame = e.frame
      BY <2>1, <3>1, ReceptionsAre DEF Relay
    <3> QED BY <2>1, <3>1, <3>2 DEF Relay, True
  <2>2. ASSUME NEW e \in fwdQueue[n], RelayFails(n, e) PROVE AcksAreTrue' /\ OkMeansHanded'
    <3>1. \A k \in Nodes : \A d \in fwdQueue'[k] : d \in fwdQueue[k] \/ d.frame = e.frame
      BY <2>2, RelayFailsIs
    <3> QED BY <2>2, <3>1 DEF RelayFails, True
  <2>3. ASSUME NEW e \in ackQueue[n], SendParkedAck(n, e) \/ ParkedAckFails(n, e)
        PROVE  AcksAreTrue' /\ OkMeansHanded'
    <3>1. /\ \A k \in Nodes : \A d \in ackQueue'[k] : d \in ackQueue[k] \/ d.frame = e.frame
          /\ \A c \in air' : c \in air \/ c.frame = e.frame
          /\ UNCHANGED <<fwdQueue, histories>>
      BY <2>3, ParkedAckIs
    <3> QED BY <3>1 DEF True, histories
  <2> QED BY <1>3, <2>1, <2>2, <2>3 DEF Serve
<1>4. ASSUME NEW r \in air, Receive(r) \/ Lose(r) PROVE AcksAreTrue' /\ OkMeansHanded'
  <2>1. PICK n \in Nodes, m \in Messages, f \in Frames : n = r.to /\ m = f.of /\ f = r.frame
    BY CopyIs
  <2>2. CASE OwnFrame(r) \/ SeenAck(r) \/ Lose(r) \/ ReplayedData(r)
    <3>1. air' \subseteq air /\ UNCHANGED <<fwdQueue, ackQueue, told, handed>>
      BY <2>2 DEF OwnFrame, SeenAck, Lose, ReplayedData, Consume, tables, histories
    <3> QED BY <3>1 DEF True
  <2>3. CASE NewAck(r)
    <3>1. f.ack /\ Forwarding(n, f, r.from) /\ air' = air \ {r} /\ UNCHANGED <<ackQueue, handed>>
          /\ \A o \in Messages : told'[o] = "ok" =>
               told[o] = "ok" \/ (f.dst = n /\ o \in pending[n] /\ Answers(o, f))
      BY <2>1, <2>3 DEF NewAck, Consume
    <3>2. \A k \in Nodes : \A e \in fwdQueue'[k] :
            e \in fwdQueue[k] \/ (f.hops > 0 /\ e = Parked(DecrementHop(f)))
      BY <3>1, ForwardingIs
    <3>3. handed[f.src][m] > 0 /\ f.src = m.dst /\ m.dst \in Nodes
      BY <2>1, <3>1, FrameIs DEF True
    <3>4. \A k \in Nodes : \A e \in fwdQueue'[k] : True(e.frame)
      <4> SUFFICES ASSUME NEW k \in Nodes, NEW e \in fwdQueue'[k], e \notin fwdQueue[k]
                   PROVE  True(e.frame)
        OBVIOUS
      <4>1. f.hops > 0 /\ e = Parked(DecrementHop(f))
        BY <3>2
      <4>2. e.frame.src = f.src /\ e.frame.of = m
        BY <2>1, <4>1, FramesMade DEF Parked
      <4> QED BY <3>3, <4>2 DEF True
    <3>5. ASSUME NEW o \in Messages, told'[o] = "ok" PROVE handed[o.dst][o] > 0 /\ o.dst \in Nodes
      <4>1. CASE told[o] = "ok"
        BY <4>1
      <4>2. CASE f.dst = n /\ o \in pending[n] /\ Answers(o, f)
        BY <2>1, <3>1, <3>3, <4>2, AnswersTheOne
      <4> QED BY <3>1, <3>5, <4>1, <4>2
    <3> QED BY <3>1, <3>4, <3>5 DEF True
  <2>4. CASE NewData(r)
    <3>1. /\ ~f.ack /\ Forwarding(n, f, r.from) /\ UNCHANGED told
          /\ HandedOver(n, m) /\ Acknowledged(n, m, r)
      BY <2>1, <2>4, NewDataIs
    <3>2. \A k \in Nodes : \A e \in fwdQueue'[k] :
            e \in fwdQueue[k] \/ (f.hops > 0 /\ e = Parked(DecrementHop(f)))
      BY <3>1, ForwardingIs
    <3>3. ASSUME m.dst = n PROVE True(AckOf(m, n))'
      <4>1. handed'[n][m] = OneMore(handed[n][m])
        BY <3>1, <3>3 DEF HandedOver
      <4>2. handed'[n][m] > 0
        BY <4>1 DEF OneMore
      <4> QED BY <4>2 DEF True, AckOf
    <3>4. \A g \in Frames : True(g) => True(g)'
      BY <2>4, HandedStays
    <3>5. ASSUME NEW k \in Nodes, NEW e \in fwdQueue'[k] PROVE True(e.frame)'
      <4>1. CASE e \in fwdQueue[k]
        <5>1. e.frame \in Frames
          BY <4>1, EntryIs, Bounds DEF Typed, ForwardsTyped
        <5> QED BY <3>4, <4>1, <5>1
      <4>2. CASE f.hops > 0 /\ e = Parked(DecrementHop(f))
        <5>1. ~e.frame.ack
          BY <3>1, <4>2, FramesMade DEF Parked
        <5> QED BY <5>1 DEF True
      <4> QED BY <3>2, <4>1, <4>2
    <3>6. ASSUME NEW k \in Nodes, NEW e \in ackQueue'[k] PROVE True(e.frame)'
      <4>1. CASE e \in ackQueue[k]
        <5>1. e.frame \in Frames
          BY <4>1, EntryIs, Bounds DEF Typed, AcksTyped
        <5> QED BY <3>4, <4>1, <5>1
      <4>2. CASE e.frame = AckOf(m, n) /\ m.dst = n
        BY <3>3, <4>2 DEF True
      <4> QED BY <3>1, <4>1, <4>2 DEF Acknowledged
    <3>7. ASSUME NEW c \in air' PROVE True(c.frame)'
      <4>1. CASE c \in air
        BY <3>4, <4>1, CopyIs
      <4>2. CASE c.frame = AckOf(m, n) /\ m.dst = n
        BY <3>3, <4>2 DEF True
      <4> QED BY <3>1, <4>1, <4>2 DEF Acknowledged
    <3>8. ASSUME NEW o \in Messages, told'[o] = "ok" PROVE handed'[o.dst][o] > 0
      <4>1. told[o] = "ok" /\ handed[o.dst][o] > 0 /\ o.dst \in Nodes
        BY <3>1, <3>8
      <4> QED BY <3>1, <4>1 DEF HandedOver, OneMore
    <3> QED BY <3>1, <3>5, <3>6, <3>7, <3>8
  <2> QED BY <1>4, <2>2, <2>3, <2>4 DEF Receive
<1>5. ASSUME UNCHANGED vars PROVE AcksAreTrue' /\ OkMeansHanded'
  BY <1>5 DEF vars, tables, histories, True
<1> QED BY <1>1, <1>2, <1>3, <1>4, <1>5 DEF Next

-----------------------------------------------------------------------------
(* A message stays within its budget.                                      *)

\* A path can be prolonged by one hop, or by waiting.
LEMMA WithinIs ==
  ASSUME Assumptions, NEW s \in Nodes, NEW k \in Nat
  PROVE  /\ s \in Within(0, s)
         /\ \A n \in Within(k, s) : \A o \in Neighbours[n] : o \in Within(k + 1, s)
         /\ \A j \in Nat : k <= j => Within(k, s) \subseteq Within(j, s)
<1>1. s \in Within(0, s)
  <2>1. PICK p \in [0..0 -> Nodes] : p = [i \in 0..0 |-> s]
    OBVIOUS
  <2>2. p[0] = s /\ \A i \in 0..(0 - 1) : FALSE
    BY <2>1
  <2> QED BY <2>2 DEF Within
<1>2. ASSUME NEW n \in Within(k, s), NEW o \in Neighbours[n] PROVE o \in Within(k + 1, s)
  <2>1. PICK p \in [0..k -> Nodes] :
          /\ p[0] = s /\ p[k] = n
          /\ \A i \in 0..(k - 1) : p[i + 1] \in Neighbours[p[i]] \cup {p[i]}
    BY <1>2 DEF Within
  <2>2. n \in Nodes /\ o \in Nodes
    BY <1>2, Bounds DEF Within
  <2>3. PICK q \in [0..(k + 1) -> Nodes] : \A i \in 0..(k + 1) : q[i] = IF i <= k THEN p[i] ELSE o
    <3> DEFINE q == [i \in 0..(k + 1) |-> IF i <= k THEN p[i] ELSE o]
    <3>1. q \in [0..(k + 1) -> Nodes]
      BY <2>2
    <3> QED BY <3>1
  <2>4. q[0] = s /\ q[k + 1] = o
    BY <2>1, <2>3
  <2>5. ASSUME NEW i \in 0..k PROVE q[i + 1] \in Neighbours[q[i]] \cup {q[i]}
    <3>1. CASE i < k
      <4>1. i \in 0..(k - 1) /\ i + 1 <= k /\ i + 1 \in 0..(k + 1) /\ i \in 0..(k + 1)
        BY <3>1
      <4> QED BY <2>1, <2>3, <4>1
    <3>2. CASE i = k
      <4>1. q[i] = n /\ q[i + 1] = o
        BY <2>1, <2>3, <3>2
      <4> QED BY <4>1
    <3> QED BY <3>1, <3>2
  <2>6. (k + 1) - 1 = k
    OBVIOUS
  <2> QED BY <2>2, <2>4, <2>5, <2>6 DEF Within
<1>3. ASSUME NEW j \in Nat, k <= j, NEW n \in Within(k, s) PROVE n \in Within(j, s)
  <2>1. PICK p \in [0..k -> Nodes] :
          /\ p[0] = s /\ p[k] = n
          /\ \A i \in 0..(k - 1) : p[i + 1] \in Neighbours[p[i]] \cup {p[i]}
    BY <1>3 DEF Within
  <2>2. n \in Nodes
    BY <1>3 DEF Within
  <2>3. PICK q \in [0..j -> Nodes] : \A i \in 0..j : q[i] = IF i <= k THEN p[i] ELSE n
    <3> DEFINE q == [i \in 0..j |-> IF i <= k THEN p[i] ELSE n]
    <3>1. q \in [0..j -> Nodes]
      BY <2>2
    <3> QED BY <3>1
  <2>4. q[0] = s /\ q[j] = n
    BY <1>3, <2>1, <2>3
  <2>5. ASSUME NEW i \in 0..(j - 1) PROVE q[i + 1] \in Neighbours[q[i]] \cup {q[i]}
    <3>1. CASE i < k
      <4>1. i \in 0..(k - 1) /\ i + 1 <= k /\ i + 1 \in 0..j /\ i \in 0..j
        BY <3>1
      <4> QED BY <2>1, <2>3, <4>1
    <3>2. CASE ~(i < k)
      <4>1. i + 1 \in 0..j /\ i \in 0..j /\ ~(i + 1 <= k) /\ (i <= k => i = k)
        BY <3>2
      <4>2. q[i + 1] = n /\ q[i] = n
        BY <2>1, <2>3, <4>1
      <4> QED BY <4>2
    <3> QED BY <3>1, <3>2
  <2> QED BY <2>2, <2>4, <2>5 DEF Within
<1> QED BY <1>1, <1>2, <1>3

\* The hops a copy of a message has used.
Spent(f) == f.of.hops - f.hops

BudgetKept ==
  /\ \A r \in air : ~r.frame.ack => r.to \in Within(Spent(r.frame) + 1, r.frame.src)
  /\ \A n \in Nodes : \A e \in fwdQueue[n] :
       ~e.frame.ack => n \in Within(Spent(e.frame), e.frame.src)

\* What a data frame has spent, and what it has spent when it is forwarded.
LEMMA SpentIs ==
  ASSUME Assumptions, NEW f \in Frames, ~f.ack
  PROVE  /\ Spent(f) \in Nat /\ Spent(f) <= f.of.hops /\ f.of.hops \in Nat /\ f.src \in Nodes
         /\ f.hops > 0 => Spent(DecrementHop(f)) = Spent(f) + 1
<1>1. f.hops \in 0..7 /\ f.of.hops \in 0..7 /\ f.hops <= f.of.hops /\ f.src \in Nodes
  BY FrameIs, MessageIs
<1>2. f.hops > 0 => DecrementHop(f).of = f.of /\ DecrementHop(f).hops = f.hops - 1
  BY FramesMade
<1>3. PICK a \in 0..7, b \in 0..7 : a = f.hops /\ b = f.of.hops
  BY <1>1
<1>4. Spent(f) = b - a /\ (f.hops > 0 => Spent(DecrementHop(f)) = b - (a - 1))
  BY <1>2, <1>3 DEF Spent
<1> QED BY <1>1, <1>3, <1>4

\* No step takes a frame further than the hops it has used.
LEMMA BudgetStep ==
  ASSUME Assumptions, Typed, BudgetKept, WithinBudget, [Next]_vars
  PROVE  BudgetKept' /\ WithinBudget'
<1>1. ASSUME NEW m \in Messages, Originate(m) PROVE BudgetKept' /\ WithinBudget'
  <2>1. PICK f \in Frames : f = Data(m)
    BY FramesMade
  <2>2. m.src \in Nodes /\ m.hops \in Nat /\ ~f.ack /\ f.src = m.src /\ Spent(f) = 0
    BY <2>1, MessageIs DEF Data, Spent
  <2>3. \A k \in Neighbours[m.src] : k \in Within(0 + 1, m.src)
    BY <2>2, WithinIs
  <2>4. \A r \in air' : r \in air \/ (r.frame = f /\ r.to \in Neighbours[m.src])
    BY <1>1, <2>1, <2>2, ReceptionsAre DEF Originate
  <2> QED BY <1>1, <2>2, <2>3, <2>4 DEF Originate, histories, BudgetKept, WithinBudget
<1>2. ASSUME NEW n \in Nodes, AckTimeout(n) PROVE BudgetKept' /\ WithinBudget'
  BY <1>2 DEF AckTimeout, BudgetKept, WithinBudget
<1>3. ASSUME NEW n \in Nodes, Serve(n) PROVE BudgetKept' /\ WithinBudget'
  <2>1. ASSUME NEW e \in fwdQueue[n], Relay(n, e) PROVE BudgetKept' /\ WithinBudget'
    <3>1. \A k \in Nodes : fwdQueue'[k] \subseteq fwdQueue[k]
      BY <2>1, RelayIs
    <3>2. PICK f \in Frames : f = e.frame
      BY <2>1, RelayIs
    <3>3. \A r \in air' : r \in air \/ (r.frame = f /\ r.to \in Neighbours[n])
      BY <2>1, <3>2, ReceptionsAre DEF Relay
    <3>4. ~f.ack => \A k \in Neighbours[n] : k \in Within(Spent(f) + 1, f.src)
      BY <3>2, SpentIs, WithinIs DEF BudgetKept
    <3> QED BY <2>1, <3>1, <3>3, <3>4 DEF Relay, BudgetKept, WithinBudget
  <2>2. ASSUME NEW e \in fwdQueue[n], RelayFails(n, e) PROVE BudgetKept' /\ WithinBudget'
    <3>1. \A k \in Nodes : \A d \in fwdQueue'[k] :
            d \in fwdQueue[k] \/ (k = n /\ d.frame = e.frame)
      BY <2>2, RelayFailsIs
    <3> QED BY <2>2, <3>1 DEF RelayFails, BudgetKept, WithinBudget
  <2>3. ASSUME NEW e \in ackQueue[n], SendParkedAck(n, e) \/ ParkedAckFails(n, e)
        PROVE  BudgetKept' /\ WithinBudget'
    <3>1. /\ e.frame.ack /\ \A c \in air' : c \in air \/ c.frame = e.frame
          /\ UNCHANGED <<fwdQueue, histories>>
      BY <2>3, ParkedAckIs
    <3> QED BY <3>1 DEF histories, BudgetKept, WithinBudget
  <2> QED BY <1>3, <2>1, <2>2, <2>3 DEF Serve
<1>4. ASSUME NEW r \in air, Receive(r) \/ Lose(r) PROVE BudgetKept' /\ WithinBudget'
  <2>1. PICK n \in Nodes, m \in Messages, f \in Frames : n = r.to /\ m = f.of /\ f = r.frame
    BY CopyIs
  <2>2. CASE OwnFrame(r) \/ SeenAck(r) \/ Lose(r) \/ ReplayedData(r)
    <3>1. air' \subseteq air /\ UNCHANGED <<fwdQueue, handed>>
      BY <2>2 DEF OwnFrame, SeenAck, Lose, ReplayedData, Consume, tables, histories
    <3> QED BY <3>1 DEF BudgetKept, WithinBudget
  <2>3. CASE NewAck(r)
    <3>1. f.ack /\ Forwarding(n, f, r.from) /\ air' = air \ {r} /\ UNCHANGED handed
      BY <2>1, <2>3 DEF NewAck, Consume
    <3>2. \A k \in Nodes : \A e \in fwdQueue'[k] : e \in fwdQueue[k] \/ e.frame.ack
      <4>1. \A k \in Nodes : \A e \in fwdQueue'[k] :
              e \in fwdQueue[k] \/ (f.hops > 0 /\ e = Parked(DecrementHop(f)))
        BY <3>1, ForwardingIs
      <4>2. f.hops > 0 => Parked(DecrementHop(f)).frame.ack
        BY <3>1, FramesMade DEF Parked
      <4> QED BY <4>1, <4>2
    <3> QED BY <3>1, <3>2 DEF BudgetKept, WithinBudget
  <2>4. CASE NewData(r)
    <3>1. /\ ~f.ack /\ Forwarding(n, f, r.from) /\ f.src = m.src
          /\ HandedOver(n, m) /\ Acknowledged(n, m, r)
      BY <2>1, <2>4, NewDataIs
    <3>2. n \in Within(Spent(f) + 1, f.src)
      BY <2>1, <3>1 DEF BudgetKept
    <3>3. ASSUME NEW k \in Nodes, NEW e \in fwdQueue'[k], ~e.frame.ack
          PROVE  k \in Within(Spent(e.frame), e.frame.src)
      <4>1. CASE e \in fwdQueue[k]
        BY <3>3, <4>1 DEF BudgetKept
      <4>2. CASE k = n /\ f.hops > 0 /\ e = Parked(DecrementHop(f))
        <5>1. e.frame.src = f.src /\ Spent(e.frame) = Spent(f) + 1
          BY <3>1, <4>2, FramesMade, SpentIs DEF Parked
        <5> QED BY <3>2, <4>2, <5>1
      <4> QED BY <3>1, <3>3, <4>1, <4>2, ForwardingIs
    <3>4. AckOf(m, n).ack
      BY DEF AckOf
    <3>5. BudgetKept'
      BY <3>1, <3>3, <3>4 DEF Acknowledged, BudgetKept
    <3>6. n \in Within(m.hops + 1, m.src)
      <4>1. PICK a \in Nat, b \in Nat : a = Spent(f) + 1 /\ b = m.hops + 1 /\ a <= b
        BY <2>1, <3>1, SpentIs
      <4> QED BY <3>1, <3>2, <4>1, SpentIs, WithinIs
    <3>7. n \in BudgetReach[m]
      BY <3>6 DEF BudgetReach
    <3> QED BY <3>1, <3>5, <3>7 DEF HandedOver, WithinBudget
  <2> QED BY <1>4, <2>2, <2>3, <2>4 DEF Receive
<1>5. ASSUME UNCHANGED vars PROVE BudgetKept' /\ WithinBudget'
  BY <1>5 DEF vars, tables, histories, BudgetKept, WithinBudget
<1> QED BY <1>1, <1>2, <1>3, <1>4, <1>5 DEF Next

-----------------------------------------------------------------------------
(* The windows tell what was accepted.                                     *)

Gone(n) == {s \in Nodes : <<n, s>> \in forgotten}
WindowsFollow == \A n \in Nodes : Follows(windows[n], accepted[n], Gone(n))

\* Steps that no window notices.
LEMMA WindowsApart ==
  ASSUME [Next]_vars
  PROVE  \/ UNCHANGED <<windows, accepted, forgotten>>
         \/ \E r \in air : ReplayedData(r) \/ NewData(r)
<1>1. ASSUME NEW n \in Nodes, AckTimeout(n) \/ Serve(n)
      PROVE  UNCHANGED <<windows, accepted, forgotten>>
  BY <1>1 DEF AckTimeout, Serve, Relay, RelayFails, SendParkedAck, ParkedAckFails, histories
<1>2. ASSUME NEW m \in Messages, Originate(m) PROVE UNCHANGED <<windows, accepted, forgotten>>
  BY <1>2 DEF Originate, histories
<1>3. ASSUME NEW r \in air, OwnFrame(r) \/ SeenAck(r) \/ NewAck(r) \/ Lose(r)
      PROVE  UNCHANGED <<windows, accepted, forgotten>>
  BY <1>3 DEF OwnFrame, SeenAck, NewAck, Lose, tables, histories
<1>4. UNCHANGED vars => UNCHANGED <<windows, accepted, forgotten>>
  BY DEF vars, tables, histories
<1> QED BY <1>1, <1>2, <1>3, <1>4 DEF Next, Receive

\* A refused frame leaves the windows true, and so does an accepted one.
LEMMA FollowStep ==
  ASSUME Assumptions, Typed, WindowsFollow, [Next]_vars PROVE WindowsFollow'
<1>1. CASE UNCHANGED <<windows, accepted, forgotten>>
  BY <1>1 DEF WindowsFollow, Gone
<1>2. ASSUME NEW r \in air, ReplayedData(r) PROVE WindowsFollow'
  <2>1. PICK n \in Nodes, m \in Messages : n = r.to /\ m = r.frame.of /\ r.frame.src = m.src
    BY <1>2, CopyIs, FrameIs DEF ReplayedData
  <2>2. Table(windows[n]) /\ accepted[n] \in SUBSET Messages /\ Follows(windows[n], accepted[n], Gone(n))
    BY DEF Typed, WindowsTyped, HistoryTyped, WindowsFollow
  <2>3. IsReplay(windows[n], m.src, WireSeq(m))
    BY <1>2, <2>1 DEF ReplayedData, Replayed
  <2>4. Follows(AfterFrame(windows[n], m.src, WireSeq(m)), accepted[n], Gone(n))
    BY <2>2, <2>3, ReplayFollows
  <2>5. windows' = [windows EXCEPT ![n] = AfterFrame(windows[n], m.src, WireSeq(m))]
    BY <1>2, <2>1 DEF ReplayedData, Remember
  <2>6. UNCHANGED <<accepted, forgotten>>
    BY <1>2 DEF ReplayedData, histories
  <2>7. \A k \in Nodes : windows'[k] = IF k = n THEN AfterFrame(windows[n], m.src, WireSeq(m))
                                                ELSE windows[k]
    BY <2>5 DEF Typed, WindowsTyped
  <2> QED BY <2>4, <2>6, <2>7 DEF WindowsFollow, Gone
<1>3. ASSUME NEW r \in air, NewData(r) PROVE WindowsFollow'
  <2>1. PICK n \in Nodes, m \in Messages : n = r.to /\ m = r.frame.of
    BY CopyIs
  <2>2. ~IsReplay(windows[n], m.src, WireSeq(m)) /\ Noted(n, m) /\ Typed'
    BY <1>3, <2>1, NewDataIs
  <2>3. Table(windows[n]) /\ accepted[n] \in SUBSET Messages /\ Follows(windows[n], accepted[n], Gone(n))
    BY DEF Typed, WindowsTyped, HistoryTyped, WindowsFollow
  <2>4. Follows(AfterFrame(windows[n], m.src, WireSeq(m)), accepted[n] \cup {m},
                Gone(n) \cup Pushed(windows[n], m.src))
    BY <2>2, <2>3, AcceptFollows
  <2>5. forgotten' \in SUBSET (Nodes \X Nodes)
    BY <2>2 DEF Typed, HistoryTyped
  <2>6. Gone(n)' = Gone(n) \cup Pushed(windows[n], m.src)
    BY <2>2, <2>5 DEF Noted, Gone
  <2>7. \A k \in Nodes : k # n => Gone(k)' = Gone(k)
    BY <2>2 DEF Noted, Gone
  <2>8. ASSUME NEW k \in Nodes PROVE Follows(windows[k], accepted[k], Gone(k))'
    <3>1. CASE k = n
      <4>1. windows'[k] = AfterFrame(windows[n], m.src, WireSeq(m)) /\ accepted'[k] = accepted[n] \cup {m}
        BY <2>2, <3>1 DEF Noted
      <4> QED BY <2>4, <2>6, <3>1, <4>1
    <3>2. CASE k # n
      <4>1. windows'[k] = windows[k] /\ accepted'[k] = accepted[k] /\ Gone(k)' = Gone(k)
        BY <2>2, <2>7, <3>2 DEF Noted
      <4> QED BY <4>1 DEF WindowsFollow
    <3> QED BY <3>1, <3>2
  <2> QED BY <2>8 DEF WindowsFollow
<1> QED BY <1>1, <1>2, <1>3, WindowsApart

\* A frame that passes the window of a node was not accepted there before,
\* unless its sender was forgotten.
LEMMA NewIsNew ==
  ASSUME Assumptions, Typed, WindowsFollow, NEW r \in air, NewData(r),
         <<r.to, r.frame.of.src>> \notin forgotten
  PROVE  r.frame.of \notin accepted[r.to]
<1>1. PICK n \in Nodes, m \in Messages : n = r.to /\ m = r.frame.of
  BY CopyIs
<1>2. ~IsReplay(windows[n], m.src, WireSeq(m))
  BY <1>1, NewDataIs
<1>3. Table(windows[n]) /\ accepted[n] \in SUBSET Messages /\ Follows(windows[n], accepted[n], Gone(n))
  BY DEF Typed, WindowsTyped, HistoryTyped, WindowsFollow
<1>4. m.src \notin Gone(n)
  BY <1>1 DEF Gone
<1>5. m \notin accepted[n]
  BY <1>2, <1>3, <1>4, AcceptFollows
<1> QED BY <1>1, <1>5

\* A frame that a window refuses was accepted, or is a whole history behind.
LEMMA RefusedIsKnown ==
  ASSUME Assumptions, Typed, WindowsFollow, NEW r \in air, ReplayedData(r)
  PROVE  \/ r.frame.of \in accepted[r.to]
         \/ \E k \in accepted[r.to] :
              /\ k.src = r.frame.src
              /\ k.number >= r.frame.of.number + WindowBits
<1>1. PICK n \in Nodes, m \in Messages : n = r.to /\ m = r.frame.of
  BY CopyIs
<1>2. r.frame.src = m.src
  BY <1>1, CopyIs, FrameIs DEF ReplayedData
<1>3. Table(windows[n]) /\ accepted[n] \in SUBSET Messages /\ Follows(windows[n], accepted[n], Gone(n))
  BY DEF Typed, WindowsTyped, HistoryTyped, WindowsFollow
<1>4. IsReplay(windows[n], m.src, WireSeq(m))
  BY <1>1, <1>2 DEF ReplayedData, Replayed
<1>5. m \in accepted[n] \/ \E k \in accepted[n] : k.src = m.src /\ k.number >= m.number + WindowBits
  BY <1>3, <1>4, ReplayFollows
<1> QED BY <1>1, <1>2, <1>5

-----------------------------------------------------------------------------
(* Copies do not multiply.                                                 *)

\* The entries of a forward queue that carry a message.
Carrying(q, m) == {e \in q : ~e.frame.ack /\ e.frame.of = m}

\* A message that was not accepted was not handed over and is not relayed.
Untouched(n, m) ==
  m \notin accepted[n] =>
    handed[n][m] = 0 /\ relayed[n][m] = 0 /\ Carrying(fwdQueue[n], m) = {}

\* Unless its sender was forgotten, an accepted message was handed over at
\* most once, and was relayed or waits to be, not both.
Single(n, m) ==
  <<n, m.src>> \notin forgotten =>
    /\ handed[n][m] <= 1 /\ relayed[n][m] <= 1
    /\ \A e, d \in Carrying(fwdQueue[n], m) : e = d
    /\ Carrying(fwdQueue[n], m) # {} => relayed[n][m] = 0

OnceEach == \A n \in Nodes, m \in Messages : Untouched(n, m) /\ Single(n, m)

\* Steps that leave alone what OnceEach speaks of.
LEMMA OnceApart ==
  ASSUME OnceEach, UNCHANGED <<accepted, handed, relayed, forgotten>>,
         \A n \in Nodes, m \in Messages :
           Carrying(fwdQueue'[n], m) = Carrying(fwdQueue[n], m)
  PROVE  OnceEach'
BY DEF OnceEach, Untouched, Single

\* What _scheduleForward adds carries the message of the frame.
LEMMA CarriedAfter ==
  ASSUME Assumptions, Typed, NEW n \in Nodes, NEW f \in Frames, NEW from, Forwarding(n, f, from),
         NEW k \in Nodes, NEW m \in Messages
  PROVE  /\ k # n \/ f.ack \/ m # f.of => Carrying(fwdQueue'[k], m) = Carrying(fwdQueue[k], m)
         /\ \A e \in Carrying(fwdQueue'[k], m) :
              e \in Carrying(fwdQueue[k], m) \/ e = Parked(DecrementHop(f))
<1>1. /\ \A e \in fwdQueue'[k] :
           e \in fwdQueue[k] \/ (k = n /\ f.hops > 0 /\ e = Parked(DecrementHop(f)))
      /\ fwdQueue[k] \subseteq fwdQueue'[k]
  BY ForwardingIs
<1>2. f.hops > 0 => Parked(DecrementHop(f)).frame.ack = f.ack /\ Parked(DecrementHop(f)).frame.of = f.of
  BY FramesMade DEF Parked
<1> QED BY <1>1, <1>2 DEF Carrying

\* A second copy can neither be handed over nor queued, and an entry leaves
\* the queue when it is relayed.
LEMMA OnceStep ==
  ASSUME Assumptions, Typed, WindowsFollow, OnceEach, [Next]_vars PROVE OnceEach'
<1>1. ASSUME NEW m \in Messages, Originate(m) PROVE OnceEach'
  BY <1>1, OnceApart DEF Originate, histories
<1>2. ASSUME NEW n \in Nodes, AckTimeout(n) PROVE OnceEach'
  BY <1>2, OnceApart DEF AckTimeout
<1>3. ASSUME NEW n \in Nodes, Serve(n) PROVE OnceEach'
  <2>1. ASSUME NEW e \in fwdQueue[n], Relay(n, e) PROVE OnceEach'
    <3>1. PICK f \in Frames : f = e.frame
      BY <2>1, RelayIs
    <3>2. /\ \A k \in Nodes : fwdQueue'[k] = IF k = n THEN fwdQueue[n] \ {e} ELSE fwdQueue[k]
          /\ RelayedBy(n, f)
      BY <2>1, <3>1, RelayIs
    <3>3. UNCHANGED <<accepted, handed, forgotten>>
      BY <2>1 DEF Relay
    <3>4. ASSUME NEW k \in Nodes, NEW o \in Messages PROVE Untouched(k, o)' /\ Single(k, o)'
      <4>1. Untouched(k, o) /\ Single(k, o)
        BY DEF OnceEach
      <4>2. CASE k = n /\ o = f.of /\ ~f.ack
        <5>1. e \in Carrying(fwdQueue[n], o)
          BY <3>1, <4>2 DEF Carrying
        <5>2. o \in accepted[n]
          BY <4>1, <4>2, <5>1 DEF Untouched
        <5>3. ASSUME <<n, o.src>> \notin forgotten
              PROVE  /\ handed[n][o] <= 1 /\ relayed'[n][o] = 1
                     /\ Carrying(fwdQueue'[n], o) = {}
          <6>1. /\ handed[n][o] <= 1 /\ relayed[n][o] = 0
                /\ \A d \in Carrying(fwdQueue[n], o) : d = e
            BY <4>1, <4>2, <5>1, <5>3 DEF Single
          <6>2. relayed'[n][o] = 1
            BY <3>2, <4>2, <6>1 DEF RelayedBy, OneMore
          <6>3. Carrying(fwdQueue'[n], o) = {}
            BY <3>2, <6>1 DEF Carrying
          <6> QED BY <6>1, <6>2, <6>3
        <5>4. o \in accepted'[k]
          BY <3>3, <4>2, <5>2
        <5> QED BY <3>3, <4>2, <5>3, <5>4 DEF Untouched, Single
      <4>3. CASE ~(k = n /\ o = f.of /\ ~f.ack)
        <5>1. Carrying(fwdQueue'[k], o) = Carrying(fwdQueue[k], o)
          BY <3>1, <3>2, <4>3 DEF Carrying
        <5>2. relayed'[k][o] = relayed[k][o]
          BY <3>2, <4>3 DEF RelayedBy
        <5> QED BY <3>3, <4>1, <5>1, <5>2 DEF Untouched, Single
      <4> QED BY <4>2, <4>3
    <3> QED BY <3>4 DEF OnceEach
  <2>2. ASSUME NEW e \in fwdQueue[n], RelayFails(n, e) PROVE OnceEach'
    <3>1. /\ Again(e).frame = e.frame /\ \A k \in Nodes : k # n => fwdQueue'[k] = fwdQueue[k]
          /\ \/ fwdQueue'[n] = (fwdQueue[n] \ {e}) \cup {Again(e)}
             \/ fwdQueue'[n] = fwdQueue[n] \ {e}
      BY <2>2, RelayFailsIs
    <3>2. UNCHANGED <<accepted, handed, relayed, forgotten>>
      BY <2>2 DEF RelayFails
    <3>3. ASSUME NEW k \in Nodes, NEW o \in Messages PROVE Untouched(k, o)' /\ Single(k, o)'
      <4>1. Untouched(k, o) /\ Single(k, o)
        BY DEF OnceEach
      <4>2. Carrying(fwdQueue[k], o) = {} => Carrying(fwdQueue'[k], o) = {}
        BY <3>1 DEF Carrying
      <4>3. ASSUME \A d, g \in Carrying(fwdQueue[k], o) : d = g
            PROVE  \A d, g \in Carrying(fwdQueue'[k], o) : d = g
        BY <3>1, <4>3 DEF Carrying
      <4> QED BY <3>2, <4>1, <4>2, <4>3 DEF Untouched, Single
    <3> QED BY <3>3 DEF OnceEach
  <2>3. ASSUME NEW e \in ackQueue[n], SendParkedAck(n, e) \/ ParkedAckFails(n, e) PROVE OnceEach'
    BY <2>3, OnceApart DEF SendParkedAck, ParkedAckFails, histories
  <2> QED BY <1>3, <2>1, <2>2, <2>3 DEF Serve
<1>4. ASSUME NEW r \in air, Receive(r) \/ Lose(r) PROVE OnceEach'
  <2>1. PICK n \in Nodes, m \in Messages, f \in Frames : n = r.to /\ m = f.of /\ f = r.frame
    BY CopyIs
  <2>2. CASE OwnFrame(r) \/ SeenAck(r) \/ Lose(r) \/ ReplayedData(r)
    BY <2>2, OnceApart DEF OwnFrame, SeenAck, Lose, ReplayedData, tables, histories
  <2>3. CASE NewAck(r)
    <3>1. f.ack /\ Forwarding(n, f, r.from) /\ UNCHANGED <<accepted, handed, relayed, forgotten>>
      BY <2>1, <2>3 DEF NewAck
    <3>2. \A k \in Nodes, o \in Messages : Carrying(fwdQueue'[k], o) = Carrying(fwdQueue[k], o)
      BY <3>1, CarriedAfter
    <3> QED BY <3>1, <3>2, OnceApart
  <2>4. CASE NewData(r)
    <3>1. /\ ~f.ack /\ Forwarding(n, f, r.from) /\ UNCHANGED relayed
          /\ Noted(n, m) /\ HandedOver(n, m)
      BY <2>1, <2>4, NewDataIs
    <3>2. \A k \in Nodes, o \in Messages : <<k, o.src>> \notin forgotten' => <<k, o.src>> \notin forgotten
      BY <3>1 DEF Noted
    <3>3. <<n, m.src>> \notin forgotten => m \notin accepted[n]
      BY <2>1, <2>4, NewIsNew
    <3>4. ASSUME NEW k \in Nodes, NEW o \in Messages PROVE Untouched(k, o)' /\ Single(k, o)'
      <4>1. Untouched(k, o) /\ Single(k, o)
        BY DEF OnceEach
      <4>2. CASE k = n /\ o = m
        <5>1. o \in accepted'[k]
          BY <3>1, <4>2 DEF Noted
        <5>2. ASSUME <<k, o.src>> \notin forgotten'
              PROVE  /\ handed'[k][o] <= 1 /\ relayed'[k][o] = 0
                     /\ \A e, d \in Carrying(fwdQueue'[k], o) : e = d
          <6>1. handed[k][o] = 0 /\ relayed[k][o] = 0 /\ Carrying(fwdQueue[k], o) = {}
            BY <3>2, <3>3, <4>1, <4>2, <5>2 DEF Untouched
          <6>2. handed'[k][o] = 0 \/ handed'[k][o] = 1
            BY <3>1, <4>2, <6>1 DEF HandedOver, OneMore
          <6>3. \A e \in Carrying(fwdQueue'[k], o) : e = Parked(DecrementHop(f))
            BY <3>1, <6>1, CarriedAfter
          <6> QED BY <3>1, <6>1, <6>2, <6>3
        <5> QED BY <5>1, <5>2 DEF Untouched, Single
      <4>3. CASE ~(k = n /\ o = m)
        <5>1. Carrying(fwdQueue'[k], o) = Carrying(fwdQueue[k], o)
          BY <2>1, <3>1, <4>3, CarriedAfter
        <5>2. handed'[k][o] = handed[k][o] /\ relayed'[k][o] = relayed[k][o]
          BY <3>1, <4>3 DEF HandedOver
        <5>3. o \in accepted'[k] <=> o \in accepted[k]
          BY <3>1, <4>3 DEF Noted
        <5> QED BY <3>2, <4>1, <5>1, <5>2, <5>3 DEF Untouched, Single
      <4> QED BY <4>2, <4>3
    <3> QED BY <3>4 DEF OnceEach
  <2> QED BY <1>4, <2>2, <2>3, <2>4 DEF Receive
<1>5. ASSUME UNCHANGED vars PROVE OnceEach'
  BY <1>5, OnceApart DEF vars, tables, histories
<1> QED BY <1>1, <1>2, <1>3, <1>4, <1>5 DEF Next

\* OnceEach is what the property says.
LEMMA OnceIsNoDuplicates == ASSUME Typed, OnceEach PROVE NoDuplicates
<1>1. ASSUME NEW n \in Nodes, NEW m \in Messages, <<n, m.src>> \notin forgotten
      PROVE  ~(handed[n][m] > 1) /\ ~(relayed[n][m] > 1)
  <2>1. handed[n][m] \in 0..2 /\ relayed[n][m] \in 0..2
    BY DEF Typed, HistoryTyped
  <2>2. handed[n][m] <= 1 /\ relayed[n][m] <= 1
    BY <1>1 DEF OnceEach, Single
  <2> QED BY <2>1, <2>2
<1> QED BY <1>1 DEF NoDuplicates

-----------------------------------------------------------------------------
(* A flood reaches everybody it can.                                       *)

\* A smallest counterexample exists.
LEMMA MinExists ==
  ASSUME NEW S \in SUBSET Nat, S # {}
  PROVE  \E x \in S : \A y \in S : x <= y
<1>1. PICK x \in S : \A y \in S : <<y, x>> \notin OpToRel(<, Nat)
  BY NatLessThanWellFounded, WFMin
<1>2. \A y \in S : ~(y < x)
  BY <1>1 DEF OpToRel
<1> QED BY <1>2

\* Copies C on the air and entries Q in the queues carry a message on from
\* the nodes R it reached: to every neighbour it has not reached, and none of
\* them has spent more hops than there are nodes reached.
Flows(C, Q, R) ==
  /\ \A n \in R : \A k \in Neighbours[n] : k \in R \/ (\E r \in C : r.to = k) \/ Q[n] # {}
  /\ \A r \in C : Spent(r.frame) + 1 <= Cardinality(R)
  /\ \A n \in Nodes : \A e \in Q[n] : Spent(e.frame) + 1 <= Cardinality(R)

\* A copy that comes to a node that has the message is not missed.
LEMMA FlowsDrop ==
  ASSUME NEW C, NEW Q, NEW R, Flows(C, Q, R), NEW r, r.to \in R
  PROVE  Flows(C \ {r}, Q, R)
BY DEF Flows

\* A node gets its first copy: it forwards it, or the copy had come so far
\* that there is nobody left.
Taken(C, Q, R, r, P) ==
  /\ Flows(C, Q, R) /\ R \subseteq Nodes
  /\ r \in C /\ r.to \in Nodes /\ r.to \notin R
  /\ \A c \in C : Spent(c.frame) \in Nat
  /\ \A k \in Nodes : \A e \in Q[k] : Spent(e.frame) \in Nat
  /\ \A k \in Nodes : Q[k] \subseteq P[k]
  /\ \A k \in Nodes : \A e \in P[k] : e \in Q[k] \/ Spent(e.frame) = Spent(r.frame) + 1
  /\ P[r.to] # {} \/ Cardinality(Nodes) <= Spent(r.frame) + 2

\* The nodes reached are one more, so the bound on the hops grows with them.
LEMMA FlowsAccept ==
  ASSUME Assumptions, NEW C, NEW Q, NEW R, NEW r, NEW P, Taken(C, Q, R, r, P)
  PROVE  Flows(C \ {r}, P, R \cup {r.to})
<1>1. IsFiniteSet(R) /\ Cardinality(R) \in Nat /\ IsFiniteSet(Nodes) /\ Cardinality(Nodes) \in Nat
  BY Bounds, FS_Subset, FS_CardinalityType DEF Taken
<1>2. PICK S : S = R \cup {r.to}
  OBVIOUS
<1>3. IsFiniteSet(S) /\ Cardinality(S) = Cardinality(R) + 1
  BY <1>1, <1>2, FS_AddElement DEF Taken
<1>4. PICK c \in Nat : c = Cardinality(R)
  BY <1>1
<1>5. PICK t \in Nat : t = Spent(r.frame)
  BY DEF Taken
<1>6. t + 1 <= c
  BY <1>4, <1>5 DEF Flows, Taken
<1>7. ASSUME NEW x \in C \ {r} PROVE Spent(x.frame) + 1 <= c + 1
  <2>1. PICK s \in Nat : s = Spent(x.frame)
    BY DEF Taken
  <2>2. s + 1 <= c
    BY <1>4, <2>1 DEF Flows, Taken
  <2> QED BY <1>4, <2>1, <2>2
<1>8. ASSUME NEW k \in Nodes, NEW e \in P[k] PROVE Spent(e.frame) + 1 <= c + 1
  <2>1. CASE e \in Q[k]
    <3>1. PICK s \in Nat : s = Spent(e.frame)
      BY <2>1 DEF Taken
    <3>2. s + 1 <= c
      BY <1>4, <2>1, <3>1 DEF Flows, Taken
    <3> QED BY <1>4, <3>1, <3>2
  <2>2. CASE Spent(e.frame) = t + 1
    BY <1>4, <1>5, <1>6, <2>2
  <2> QED BY <1>5, <2>1, <2>2 DEF Taken
<1>9. ASSUME NEW n \in S, NEW k \in Neighbours[n]
      PROVE  k \in S \/ (\E x \in C \ {r} : x.to = k) \/ P[n] # {}
  <2>1. CASE n \in R
    BY <1>2, <1>9, <2>1 DEF Flows, Taken
  <2>2. CASE n = r.to /\ Cardinality(Nodes) <= t + 2
    <3>1. PICK z \in Nat : z = Cardinality(Nodes)
      BY <1>1
    <3>2. S \in SUBSET Nodes
      BY <1>2 DEF Taken
    <3>3. Cardinality(S) <= Cardinality(Nodes) /\ (Cardinality(Nodes) = Cardinality(S) => Nodes = S)
      BY <1>1, <3>2, FS_Subset
    <3>4. z <= c + 1 /\ Cardinality(S) = c + 1
      BY <1>3, <1>4, <1>5, <1>6, <2>2, <3>1
    <3>5. Nodes = S
      BY <1>4, <3>1, <3>3, <3>4
    <3> QED BY <1>9, <3>5, <3>2, Bounds
  <2>3. CASE n = r.to /\ P[n] # {}
    BY <2>3
  <2> QED BY <1>2, <1>5, <1>9, <2>1, <2>2, <2>3 DEF Taken
<1>10. Flows(C \ {r}, P, S)
  BY <1>3, <1>4, <1>7, <1>8, <1>9 DEF Flows, Taken
<1> QED BY <1>2, <1>10

\* When nothing is on its way any more, everybody connected was reached.
LEMMA FlowsDone ==
  ASSUME NEW Q, NEW R, Flows({}, Q, R), \A n \in Nodes : Q[n] = {}, R \subseteq Nodes,
         NEW s \in R, NEW k \in Nat
  PROVE  Within(k, s) \subseteq R
<1> SUFFICES ASSUME NEW n \in Within(k, s), n \notin R PROVE FALSE
  OBVIOUS
<1>1. PICK p \in [0..k -> Nodes] :
        /\ p[0] = s /\ p[k] = n
        /\ \A i \in 0..(k - 1) : p[i + 1] \in Neighbours[p[i]] \cup {p[i]}
  BY DEF Within
<1>2. PICK F : F = {i \in 0..k : p[i] \notin R}
  OBVIOUS
<1>3. k \in F /\ F \in SUBSET Nat
  BY <1>1, <1>2
<1>4. PICK j \in F : \A i \in F : j <= i
  BY <1>3, MinExists
<1>5. j # 0 /\ j \in 0..k /\ p[j] \notin R
  BY <1>1, <1>2, <1>4
<1>6. j - 1 \in 0..(k - 1) /\ j - 1 \in 0..k /\ (j - 1) + 1 = j /\ ~(j <= j - 1)
  BY <1>5
<1>7. p[j - 1] \in R
  BY <1>2, <1>4, <1>6
<1>8. p[j] \in Neighbours[p[j - 1]] \cup {p[j - 1]}
  BY <1>1, <1>6
<1>9. \A a \in R : \A b \in Neighbours[a] : b \in R
  BY DEF Flows
<1> QED BY <1>5, <1>7, <1>8, <1>9

\* What BroadcastReaches asks of a message, and of a state before it is quiet.
Wide(m) == m.dst = Broadcast /\ m.hops + 2 >= Cardinality(Nodes) /\ Strong = {}
Clear(m) == m \notin unsent /\ ~lost /\ Remembers(m)

\* Only what was sent is on its way or accepted, and what is for everybody is
\* handed over where it is accepted.
SentOnly ==
  /\ \A r \in air : ~r.frame.ack => r.frame.of \notin unsent
  /\ \A n \in Nodes : \A e \in fwdQueue[n] : ~e.frame.ack => e.frame.of \notin unsent
  /\ \A n \in Nodes : \A m \in accepted[n] :
       m \notin unsent /\ (m.dst = Broadcast => handed[n][m] > 0)

\* A message floods: C are its copies on the air, Q the entries of the forward
\* queues that carry it and R the nodes it has reached.
FlowsOn(m) ==
  \E C \in SUBSET Copies, R \in SUBSET Nodes, Q \in [Nodes -> SUBSET Entered(FwdRetryMax)] :
    /\ Flows(C, Q, R)
    /\ \A r : r \in C <=> r \in air /\ ~r.frame.ack /\ r.frame.of = m
    /\ \A n \in Nodes : Q[n] = Carrying(fwdQueue[n], m)
    /\ \A n : n \in R <=> n \in Nodes /\ (n = m.src \/ m \in accepted[n])

Flood == \A m \in Messages : Wide(m) /\ Clear(m) => FlowsOn(m)

IInv == /\ Typed /\ AcksAreTrue /\ OkMeansHanded /\ BudgetKept /\ WithinBudget
        /\ WindowsFollow /\ OnceEach /\ SentOnly /\ Flood

\* A message is sent before it is anywhere.
LEMMA SentStep ==
  ASSUME Assumptions, Typed, SentOnly, [Next]_vars PROVE SentOnly'
<1>1. ASSUME NEW o \in Messages, Originate(o) PROVE SentOnly'
  <2>1. PICK f \in Frames : f = Data(o) /\ f.of = o
    BY FramesMade DEF Data
  <2>2. \A r \in air' : r \in air \/ r.frame = f
    BY <1>1, <2>1, ReceptionsAre, MessageIs DEF Originate
  <2>3. unsent' = unsent \ {o} /\ UNCHANGED <<fwdQueue, accepted, handed>>
    BY <1>1 DEF Originate, histories
  <2> QED BY <2>1, <2>2, <2>3 DEF SentOnly
<1>2. ASSUME NEW n \in Nodes, AckTimeout(n) PROVE SentOnly'
  BY <1>2 DEF AckTimeout, SentOnly
<1>3. ASSUME NEW n \in Nodes, Serve(n) PROVE SentOnly'
  <2>1. ASSUME NEW e \in fwdQueue[n], Relay(n, e) PROVE SentOnly'
    <3>1. e.frame \in Frames /\ \A k \in Nodes : fwdQueue'[k] \subseteq fwdQueue[k]
      BY <2>1, RelayIs
    <3>2. \A r \in air' : r \in air \/ r.frame = e.frame
      BY <2>1, <3>1, ReceptionsAre DEF Relay
    <3> QED BY <2>1, <3>1, <3>2 DEF Relay, SentOnly
  <2>2. ASSUME NEW e \in fwdQueue[n], RelayFails(n, e) PROVE SentOnly'
    <3>1. \A k \in Nodes : \A d \in fwdQueue'[k] :
            d \in fwdQueue[k] \/ (k = n /\ d.frame = e.frame)
      BY <2>2, RelayFailsIs
    <3> QED BY <2>2, <3>1 DEF RelayFails, SentOnly
  <2>3. ASSUME NEW e \in ackQueue[n], SendParkedAck(n, e) \/ ParkedAckFails(n, e) PROVE SentOnly'
    <3>1. /\ e.frame.ack /\ \A c \in air' : c \in air \/ c.frame = e.frame
          /\ UNCHANGED <<unsent, fwdQueue, histories>>
      BY <2>3, ParkedAckIs
    <3> QED BY <3>1 DEF histories, SentOnly
  <2> QED BY <1>3, <2>1, <2>2, <2>3 DEF Serve
<1>4. ASSUME NEW r \in air, Receive(r) \/ Lose(r) PROVE SentOnly'
  <2>1. PICK n \in Nodes, m \in Messages, f \in Frames : n = r.to /\ m = f.of /\ f = r.frame
    BY CopyIs
  <2>2. CASE OwnFrame(r) \/ SeenAck(r) \/ Lose(r) \/ ReplayedData(r)
    <3>1. air' \subseteq air /\ UNCHANGED <<unsent, fwdQueue, accepted, handed>>
      BY <2>2 DEF OwnFrame, SeenAck, Lose, ReplayedData, Consume, tables, histories
    <3> QED BY <3>1 DEF SentOnly
  <2>3. CASE NewAck(r) \/ NewData(r)
    <3>1. Forwarding(n, f, r.from) /\ unsent' = unsent
      BY <2>1, <2>3, NewDataIs DEF NewAck
    <3>2. \A c \in air' : c \in air \/ c.frame.ack
      <4>1. CASE NewAck(r)
        BY <4>1 DEF NewAck, Consume
      <4>2. CASE NewData(r)
        <5>1. Acknowledged(n, m, r)
          BY <2>1, <4>2, NewDataIs
        <5>2. AckOf(m, n).ack
          BY DEF AckOf
        <5> QED BY <5>1, <5>2 DEF Acknowledged
      <4> QED BY <2>3, <4>1, <4>2
    <3>3. ~f.ack => m \notin unsent
      BY <2>1 DEF SentOnly
    <3>4. ASSUME NEW k \in Nodes, NEW e \in fwdQueue'[k], ~e.frame.ack PROVE e.frame.of \notin unsent
      <4>1. CASE e \in fwdQueue[k]
        BY <3>4, <4>1 DEF SentOnly
      <4>2. CASE f.hops > 0 /\ e = Parked(DecrementHop(f))
        <5>1. e.frame.ack = f.ack /\ e.frame.of = m
          BY <2>1, <4>2, FramesMade DEF Parked
        <5> QED BY <3>3, <3>4, <5>1
      <4> QED BY <3>1, <4>1, <4>2, ForwardingIs
    <3>5. ASSUME NEW k \in Nodes, NEW o \in accepted'[k]
          PROVE  o \notin unsent /\ (o.dst = Broadcast => handed'[k][o] > 0)
      <4>1. CASE NewAck(r)
        BY <3>5, <4>1 DEF NewAck, SentOnly
      <4>2. CASE NewData(r)
        <5>1. Noted(n, m) /\ HandedOver(n, m) /\ ~f.ack /\ Typed'
          BY <2>1, <4>2, NewDataIs
        <5>2. o \in Messages
          BY <3>5, <5>1 DEF Typed, HistoryTyped
        <5>3. CASE k = n /\ o = m
          <6>1. m.dst = Broadcast => handed'[n][m] = OneMore(handed[n][m])
            BY <5>1 DEF HandedOver
          <6>2. OneMore(handed[n][m]) > 0
            BY DEF OneMore
          <6> QED BY <3>3, <5>1, <5>3, <6>1, <6>2
        <5>4. CASE ~(k = n /\ o = m)
          <6>1. o \in accepted[k] /\ handed'[k][o] = handed[k][o]
            BY <3>5, <5>1, <5>2, <5>4 DEF Noted, HandedOver
          <6> QED BY <6>1 DEF SentOnly
        <5> QED BY <5>3, <5>4
      <4> QED BY <2>3, <4>1, <4>2
    <3>6. \A c \in air' : ~c.frame.ack => c.frame.of \notin unsent
      BY <3>2 DEF SentOnly
    <3> QED BY <3>1, <3>4, <3>5, <3>6 DEF SentOnly
  <2> QED BY <1>4, <2>2, <2>3 DEF Receive
<1>5. ASSUME UNCHANGED vars PROVE SentOnly'
  BY <1>5 DEF vars, tables, histories, SentOnly
<1> QED BY <1>1, <1>2, <1>3, <1>4, <1>5 DEF Next

\* What is clear of a message after a step was clear before it.
LEMMA ClearBefore ==
  ASSUME Assumptions, Typed, [Next]_vars, NEW m \in Messages, m \notin unsent, Clear(m)'
  PROVE  Clear(m)
<1>1. unsent' \subseteq unsent /\ forgotten \subseteq forgotten' /\ (lost => lost')
  <2>1. ASSUME NEW o \in Messages, Originate(o)
        PROVE  unsent' \subseteq unsent /\ UNCHANGED <<forgotten, lost>>
    BY <2>1 DEF Originate, histories
  <2>2. ASSUME NEW n \in Nodes, AckTimeout(n) \/ Serve(n)
        PROVE  unsent' = unsent /\ UNCHANGED forgotten /\ (lost => lost')
    BY <2>2 DEF AckTimeout, Serve, Relay, RelayFails, SendParkedAck, ParkedAckFails, histories
  <2>3. ASSUME NEW r \in air, Receive(r) \/ Lose(r)
        PROVE  unsent' = unsent /\ forgotten \subseteq forgotten' /\ (lost => lost')
    <3>1. CASE OwnFrame(r) \/ SeenAck(r) \/ ReplayedData(r) \/ Lose(r)
      BY <3>1 DEF OwnFrame, SeenAck, ReplayedData, Lose, histories
    <3>2. CASE NewAck(r)
      <4>1. Forwarding(r.to, r.frame, r.from) /\ UNCHANGED <<unsent, forgotten>>
        BY <3>2 DEF NewAck
      <4> QED BY <4>1 DEF Forwarding, ScheduleForward
    <3>3. CASE NewData(r)
      <4>1. Forwarding(r.to, r.frame, r.from) /\ unsent' = unsent /\ forgotten \subseteq forgotten'
        BY <3>3 DEF NewData
      <4> QED BY <4>1 DEF Forwarding, ScheduleForward
    <3> QED BY <2>3, <3>1, <3>2, <3>3 DEF Receive
  <2>4. UNCHANGED vars => UNCHANGED <<unsent, forgotten, lost>>
    BY DEF vars, histories
  <2> QED BY <2>1, <2>2, <2>3, <2>4 DEF Next
<1> QED BY <1>1 DEF Clear, Remembers

\* A frame for everybody is on its way to every neighbour.
LEMMA EveryNeighbour ==
  ASSUME Assumptions, NEW f \in Frames, f.dst = Broadcast, NEW n \in Nodes
  PROVE  \A k \in Neighbours[n] : \E r \in Receptions(f, n) : r.to = k /\ r.frame = f
<1>1. ResolveL2(n, f.dst) = Broadcast
  BY DEF ResolveL2
<1>2. ASSUME NEW k \in Neighbours[n] PROVE [frame |-> f, from |-> n, to |-> k] \in Receptions(f, n)
  BY <1>1, <1>2 DEF Receptions
<1>3. ASSUME NEW k \in Neighbours[n] PROVE \E r \in Receptions(f, n) : r.to = k /\ r.frame = f
  BY <1>2, <1>3
<1> QED BY <1>3

\* A step that leaves alone the copies of a message and who has it.
LEMMA FloodApart ==
  ASSUME NEW m \in Messages, FlowsOn(m),
         \A k \in Nodes : m \in accepted'[k] <=> m \in accepted[k],
         \A r : ~r.frame.ack /\ r.frame.of = m => (r \in air' <=> r \in air),
         \A k \in Nodes : Carrying(fwdQueue'[k], m) = Carrying(fwdQueue[k], m)
  PROVE  FlowsOn(m)'
<1>1. PICK C \in SUBSET Copies, R \in SUBSET Nodes, Q \in [Nodes -> SUBSET Entered(FwdRetryMax)] :
          /\ Flows(C, Q, R)
          /\ \A r : r \in C <=> r \in air /\ ~r.frame.ack /\ r.frame.of = m
          /\ \A n \in Nodes : Q[n] = Carrying(fwdQueue[n], m)
          /\ \A n : n \in R <=> n \in Nodes /\ (n = m.src \/ m \in accepted[n])
  BY DEF FlowsOn
<1>2. \A r : r \in C <=> r \in air' /\ ~r.frame.ack /\ r.frame.of = m
  BY <1>1
<1>3. \A n \in Nodes : Q[n] = Carrying(fwdQueue'[n], m)
  BY <1>1
<1>4. \A n : n \in R <=> n \in Nodes /\ (n = m.src \/ m \in accepted'[n])
  BY <1>1
<1> QED BY <1>1, <1>2, <1>3, <1>4 DEF FlowsOn

\* A broadcast goes on the air.
LEMMA FloodStarts ==
  ASSUME Assumptions, Typed, SentOnly, NEW m \in Messages, m.dst = Broadcast, Originate(m)
  PROVE  FlowsOn(m)'
<1>1. PICK f \in Frames : f = Data(m)
  BY FramesMade
<1>2. /\ m.src \in Nodes /\ m.hops \in Nat /\ ~f.ack /\ f.of = m /\ f.dst = Broadcast
      /\ Spent(f) = 0
  BY <1>1, MessageIs DEF Data, Spent
<1>3. m \in unsent /\ air' = air \cup Receptions(f, m.src) /\ UNCHANGED <<fwdQueue, accepted>>
  BY <1>1 DEF Originate, histories
<1>4. \A r \in air : ~r.frame.ack => r.frame.of # m
  BY <1>3 DEF SentOnly
<1>5. \A n \in Nodes : Carrying(fwdQueue'[n], m) = {} /\ m \notin accepted'[n]
  BY <1>3 DEF SentOnly, Carrying
<1>6. PICK C \in SUBSET Copies : C = Receptions(f, m.src)
  BY <1>2, ReceptionsAre
<1>7. \A r \in C : r.frame = f
  BY <1>2, <1>6, ReceptionsAre
<1>8. \A r : r \in C <=> r \in air' /\ ~r.frame.ack /\ r.frame.of = m
  BY <1>2, <1>3, <1>4, <1>6, <1>7
<1>9. PICK R \in SUBSET Nodes : R = {m.src}
  BY <1>2
<1>10. \A n : n \in R <=> n \in Nodes /\ (n = m.src \/ m \in accepted'[n])
  BY <1>2, <1>5, <1>9
<1>11. Cardinality(R) = 1
  BY <1>9, FS_Singleton
<1>12. PICK Q \in [Nodes -> SUBSET Entered(FwdRetryMax)] : \A n \in Nodes : Q[n] = {}
  <2> DEFINE q == [n \in Nodes |-> {}]
  <2>1. q \in [Nodes -> SUBSET Entered(FwdRetryMax)]
    OBVIOUS
  <2> QED BY <2>1
<1>13. \A k \in Neighbours[m.src] : \E r \in C : r.to = k
  BY <1>2, <1>6, EveryNeighbour
<1>14. Flows(C, Q, R)
  BY <1>2, <1>7, <1>9, <1>11, <1>12, <1>13 DEF Flows
<1>15. \A n \in Nodes : Q[n] = Carrying(fwdQueue'[n], m)
  BY <1>5, <1>12
<1> QED BY <1>8, <1>10, <1>14, <1>15 DEF FlowsOn

\* A copy comes to a node that has the message.
LEMMA FloodDrops ==
  ASSUME NEW m \in Messages, FlowsOn(m), NEW r \in air, r.to \in Nodes,
         r.to = m.src \/ m \in accepted[r.to],
         air' = air \ {r}, UNCHANGED <<accepted, fwdQueue>>
  PROVE  FlowsOn(m)'
<1>1. PICK C \in SUBSET Copies, R \in SUBSET Nodes, Q \in [Nodes -> SUBSET Entered(FwdRetryMax)] :
          /\ Flows(C, Q, R)
          /\ \A c : c \in C <=> c \in air /\ ~c.frame.ack /\ c.frame.of = m
          /\ \A n \in Nodes : Q[n] = Carrying(fwdQueue[n], m)
          /\ \A n : n \in R <=> n \in Nodes /\ (n = m.src \/ m \in accepted[n])
  BY DEF FlowsOn
<1>2. r.to \in R
  BY <1>1
<1>3. PICK D \in SUBSET Copies : D = C \ {r}
  OBVIOUS
<1>4. Flows(D, Q, R)
  BY <1>1, <1>2, <1>3, FlowsDrop
<1>5. \A c : c \in D <=> c \in air' /\ ~c.frame.ack /\ c.frame.of = m
  BY <1>1, <1>3
<1>6. \A n \in Nodes : Q[n] = Carrying(fwdQueue'[n], m)
  BY <1>1
<1>7. \A n : n \in R <=> n \in Nodes /\ (n = m.src \/ m \in accepted'[n])
  BY <1>1
<1> QED BY <1>4, <1>5, <1>6, <1>7 DEF FlowsOn

\* A waiting copy of a broadcast is sent on.
LEMMA FloodRelays ==
  ASSUME Assumptions, Typed, NEW m \in Messages, m.dst = Broadcast, FlowsOn(m),
         NEW n \in Nodes, NEW e \in fwdQueue[n], Relay(n, e), ~e.frame.ack, e.frame.of = m
  PROVE  FlowsOn(m)'
<1>1. PICK C \in SUBSET Copies, R \in SUBSET Nodes, Q \in [Nodes -> SUBSET Entered(FwdRetryMax)] :
          /\ Flows(C, Q, R)
          /\ \A c : c \in C <=> c \in air /\ ~c.frame.ack /\ c.frame.of = m
          /\ \A k \in Nodes : Q[k] = Carrying(fwdQueue[k], m)
          /\ \A k : k \in R <=> k \in Nodes /\ (k = m.src \/ m \in accepted[k])
  BY DEF FlowsOn
<1>2. PICK f \in Frames : f = e.frame
  BY RelayIs
<1>3. f.dst = Broadcast /\ ~f.ack /\ f.of = m
  BY <1>2, FrameIs
<1>4. air' = air \cup Receptions(f, n) /\ accepted' = accepted
  BY <1>2 DEF Relay
<1>5. \A k \in Nodes : fwdQueue'[k] = IF k = n THEN fwdQueue[n] \ {e} ELSE fwdQueue[k]
  BY RelayIs
<1>6. PICK A \in SUBSET Copies : A = Receptions(f, n) /\ \A c \in A : c.frame = f
  BY ReceptionsAre
<1>7. PICK D \in SUBSET Copies : D = C \cup A
  OBVIOUS
<1>8. \A k \in Neighbours[n] : \E c \in D : c.to = k
  BY <1>3, <1>6, <1>7, EveryNeighbour
<1>9. \A c : c \in D <=> c \in air' /\ ~c.frame.ack /\ c.frame.of = m
  BY <1>1, <1>3, <1>4, <1>6, <1>7
<1>10. PICK P \in [Nodes -> SUBSET Entered(FwdRetryMax)] :
         \A k \in Nodes : P[k] = IF k = n THEN Q[n] \ {e} ELSE Q[k]
  <2> DEFINE p == [k \in Nodes |-> IF k = n THEN Q[n] \ {e} ELSE Q[k]]
  <2>1. p \in [Nodes -> SUBSET Entered(FwdRetryMax)]
    OBVIOUS
  <2> QED BY <2>1
<1>11. e \in Q[n]
  BY <1>1 DEF Carrying
<1>12. Flows(D, P, R)
  <2>1. C \subseteq D /\ \A c \in D : c \in C \/ c.frame = e.frame
    BY <1>2, <1>6, <1>7
  <2>2. Flows(C, Q, R)
    BY <1>1
  <2> QED BY <1>8, <1>10, <1>11, <2>1, <2>2 DEF Flows
<1>13. \A k \in Nodes : P[k] = Carrying(fwdQueue'[k], m)
  BY <1>1, <1>5, <1>10 DEF Carrying
<1>14. \A k : k \in R <=> k \in Nodes /\ (k = m.src \/ m \in accepted'[k])
  BY <1>1, <1>4
<1> QED BY <1>9, <1>12, <1>13, <1>14 DEF FlowsOn

\* A waiting copy waits on behind a busy channel.
LEMMA FloodWaits ==
  ASSUME Assumptions, Typed, Typed', NEW m \in Messages, FlowsOn(m),
         NEW n \in Nodes, NEW e \in fwdQueue[n], RelayFails(n, e), ~e.frame.ack, e.frame.of = m,
         ~lost'
  PROVE  FlowsOn(m)'
<1>1. PICK C \in SUBSET Copies, R \in SUBSET Nodes, Q \in [Nodes -> SUBSET Entered(FwdRetryMax)] :
          /\ Flows(C, Q, R)
          /\ \A c : c \in C <=> c \in air /\ ~c.frame.ack /\ c.frame.of = m
          /\ \A k \in Nodes : Q[k] = Carrying(fwdQueue[k], m)
          /\ \A k : k \in R <=> k \in Nodes /\ (k = m.src \/ m \in accepted[k])
  BY DEF FlowsOn
<1>2. PICK d \in Entered(FwdRetryMax) : d = Again(e) /\ d.frame = e.frame
  <2>1. Again(e) \in fwdQueue'[n] /\ Again(e).frame = e.frame
    BY RelayFailsIs
  <2> QED BY <2>1 DEF Typed, ForwardsTyped
<1>3. \A k \in Nodes : fwdQueue'[k] = IF k = n THEN (fwdQueue[n] \ {e}) \cup {d} ELSE fwdQueue[k]
  <2>1. \A k \in Nodes : k # n => fwdQueue'[k] = fwdQueue[k]
    BY RelayFailsIs
  <2>2. fwdQueue'[n] = (fwdQueue[n] \ {e}) \cup {Again(e)}
    BY RelayFailsIs
  <2> QED BY <1>2, <2>1, <2>2
<1>4. UNCHANGED <<air, accepted>>
  BY DEF RelayFails
<1>5. PICK P \in [Nodes -> SUBSET Entered(FwdRetryMax)] :
         \A k \in Nodes : P[k] = IF k = n THEN (Q[n] \ {e}) \cup {d} ELSE Q[k]
  <2> DEFINE p == [k \in Nodes |-> IF k = n THEN (Q[n] \ {e}) \cup {d} ELSE Q[k]]
  <2>1. p \in [Nodes -> SUBSET Entered(FwdRetryMax)]
    OBVIOUS
  <2> QED BY <2>1
<1>6. e \in Q[n]
  BY <1>1 DEF Carrying
<1>7. Flows(C, P, R)
  <2>1. Flows(C, Q, R) /\ d.frame = e.frame
    BY <1>1, <1>2
  <2> QED BY <1>5, <1>6, <2>1 DEF Flows
<1>8. \A k \in Nodes : P[k] = Carrying(fwdQueue'[k], m)
  BY <1>1, <1>2, <1>3, <1>5 DEF Carrying
<1>9. \A c : c \in C <=> c \in air' /\ ~c.frame.ack /\ c.frame.of = m
  BY <1>1, <1>4
<1>10. \A k : k \in R <=> k \in Nodes /\ (k = m.src \/ m \in accepted'[k])
  BY <1>1, <1>4
<1> QED BY <1>7, <1>8, <1>9, <1>10 DEF FlowsOn

\* A broadcast that has hops left is sent on by every node it is new to.
LEMMA ForwardsWide ==
  ASSUME Assumptions, NEW m \in Messages, Wide(m), NEW n \in Nodes, NEW f \in Frames, NEW from,
         ~f.ack, f.of = m, f.hops > 0
  PROVE  ShouldForward(n, f, from)
<1>1. f.dst = Broadcast /\ f.dst # n
  BY FrameIs DEF Wide, Assumptions, MeshAssumption
<1> QED BY <1>1 DEF ShouldForward, StrategyForwards, Wide

\* A copy comes to a node that has not had the message.
LEMMA FloodComes ==
  ASSUME Assumptions, Typed, WindowsFollow, NEW m \in Messages, Wide(m), FlowsOn(m),
         NEW r \in air, NewData(r), r.frame.of = m, ~lost', <<r.to, m.src>> \notin forgotten
  PROVE  FlowsOn(m)'
<1>1. PICK C \in SUBSET Copies, R \in SUBSET Nodes, Q \in [Nodes -> SUBSET Entered(FwdRetryMax)] :
          /\ Flows(C, Q, R)
          /\ \A c : c \in C <=> c \in air /\ ~c.frame.ack /\ c.frame.of = m
          /\ \A k \in Nodes : Q[k] = Carrying(fwdQueue[k], m)
          /\ \A k : k \in R <=> k \in Nodes /\ (k = m.src \/ m \in accepted[k])
  BY DEF FlowsOn
<1>2. PICK n \in Nodes, f \in Frames : n = r.to /\ f = r.frame
  BY CopyIs
<1>3. /\ Typed' /\ ~f.ack /\ f.of = m /\ m.src # n /\ Forwarding(n, f, r.from)
      /\ Noted(n, m) /\ Acknowledged(n, m, r)
  BY <1>2, NewDataIs
<1>4. r \in C /\ n \notin R
  <2>1. m \notin accepted[n]
    BY <1>2, NewIsNew
  <2> QED BY <1>1, <1>2, <1>3, <2>1
<1>5. PICK P \in [Nodes -> SUBSET Entered(FwdRetryMax)] :
         \A k \in Nodes : P[k] = Carrying(fwdQueue'[k], m)
  <2> DEFINE p == [k \in Nodes |-> Carrying(fwdQueue'[k], m)]
  <2>1. p \in [Nodes -> SUBSET Entered(FwdRetryMax)]
    BY <1>3 DEF Carrying, Typed, ForwardsTyped
  <2> QED BY <2>1
<1>6. Taken(C, Q, R, r, P)
  <2>1. \A c \in C : Spent(c.frame) \in Nat
    <3>1. \A c \in C : c.frame \in Frames /\ ~c.frame.ack
      BY <1>1 DEF Copies
    <3> QED BY <3>1, SpentIs
  <2>2. \A k \in Nodes : \A e \in Q[k] : Spent(e.frame) \in Nat
    <3>1. \A k \in Nodes : \A e \in Q[k] : e.frame \in Frames /\ ~e.frame.ack
      BY <1>1 DEF Carrying, Entered
    <3> QED BY <3>1, SpentIs
  <2>3. \A k \in Nodes : Q[k] \subseteq P[k]
    <3>1. \A k \in Nodes : fwdQueue[k] \subseteq fwdQueue'[k]
      BY <1>3, ForwardingIs
    <3> QED BY <1>1, <1>5, <3>1 DEF Carrying
  <2>4. ASSUME NEW k \in Nodes, NEW e \in P[k]
        PROVE  e \in Q[k] \/ Spent(e.frame) = Spent(r.frame) + 1
    <3>1. e \in fwdQueue'[k] /\ ~e.frame.ack /\ e.frame.of = m
      BY <1>5, <2>4 DEF Carrying
    <3>2. e \in fwdQueue[k] \/ (f.hops > 0 /\ e = Parked(DecrementHop(f)))
      BY <1>3, <3>1, ForwardingIs
    <3>3. CASE e \in fwdQueue[k]
      BY <1>1, <3>1, <3>3 DEF Carrying
    <3>4. CASE f.hops > 0 /\ e = Parked(DecrementHop(f))
      <4>1. e.frame = DecrementHop(f)
        BY <3>4 DEF Parked
      <4> QED BY <1>2, <1>3, <3>4, <4>1, SpentIs
    <3> QED BY <3>2, <3>3, <3>4
  <2>5. P[n] # {} \/ Cardinality(Nodes) <= Spent(f) + 2
    <3>1. f.hops \in 0..7 /\ m.hops \in 0..7
      BY FrameIs, MessageIs
    <3>2. CASE f.hops > 0
      <4>1. ShouldForward(n, f, r.from)
        BY <1>3, <3>2, ForwardsWide
      <4>2. Parked(DecrementHop(f)) \in fwdQueue'[n]
        BY <1>3, <4>1, ForwardingIs
      <4>3. ~DecrementHop(f).ack /\ DecrementHop(f).of = m
        BY <1>3, <3>2, FramesMade
      <4>4. Parked(DecrementHop(f)).frame = DecrementHop(f)
        BY DEF Parked
      <4> QED BY <1>5, <4>2, <4>3, <4>4 DEF Carrying
    <3>3. CASE f.hops = 0
      <4>1. PICK h \in 0..7 : h = m.hops
        BY <3>1
      <4>2. PICK z \in Nat : z = Cardinality(Nodes)
        BY Bounds, FS_CardinalityType
      <4>3. Spent(f) = h
        BY <1>3, <3>3, <4>1 DEF Spent
      <4>4. h + 2 >= z
        BY <4>1, <4>2 DEF Wide
      <4> QED BY <4>2, <4>3, <4>4
    <3> QED BY <3>1, <3>2, <3>3
  <2> QED BY <1>1, <1>2, <1>4, <2>1, <2>2, <2>3, <2>4, <2>5 DEF Taken
<1>7. PICK D \in SUBSET Copies, S \in SUBSET Nodes : D = C \ {r} /\ S = R \cup {n}
  OBVIOUS
<1>8. Flows(D, P, S)
  BY <1>2, <1>6, <1>7, FlowsAccept
<1>9. \A c : c \in D <=> c \in air' /\ ~c.frame.ack /\ c.frame.of = m
  <2>1. AckOf(m, n).ack
    BY DEF AckOf
  <2>2. \A c : ~c.frame.ack => (c \in air' <=> c \in air \ {r})
    BY <1>3, <2>1 DEF Acknowledged
  <2> QED BY <1>1, <1>7, <2>2
<1>10. \A k : k \in S <=> k \in Nodes /\ (k = m.src \/ m \in accepted'[k])
  <2>1. \A k \in Nodes : m \in accepted'[k] <=> k = n \/ m \in accepted[k]
    BY <1>3 DEF Noted
  <2> QED BY <1>1, <1>7, <2>1
<1> QED BY <1>5, <1>8, <1>9, <1>10 DEF FlowsOn

\* No step that loses nothing stops a flood.
LEMMA FloodStep ==
  ASSUME Assumptions, Typed, WindowsFollow, SentOnly, Flood, [Next]_vars
  PROVE  Flood'
<1> SUFFICES ASSUME NEW m \in Messages, Wide(m), Clear(m)' PROVE FlowsOn(m)'
  BY DEF Flood, Wide
<1>0. m \notin unsent => Clear(m) /\ FlowsOn(m)
  BY ClearBefore DEF Flood
<1>1. ASSUME NEW o \in Messages, Originate(o) PROVE FlowsOn(m)'
  <2>1. CASE o = m
    BY <1>1, <2>1, FloodStarts DEF Wide
  <2>2. CASE o # m
    <3>1. PICK f \in Frames : f = Data(o) /\ f.of = o
      BY FramesMade DEF Data
    <3>2. unsent' = unsent \ {o} /\ UNCHANGED <<fwdQueue, accepted>>
      BY <1>1 DEF Originate, histories
    <3>3. m \notin unsent
      BY <2>2, <3>2 DEF Clear
    <3>4. air' = air \cup Receptions(f, o.src) /\ \A r \in Receptions(f, o.src) : r.frame = f
      BY <1>1, <3>1, ReceptionsAre, MessageIs DEF Originate
    <3> QED BY <1>0, <2>2, <3>1, <3>2, <3>3, <3>4, FloodApart
  <2> QED BY <2>1, <2>2
<1>2. ASSUME NEW n \in Nodes, AckTimeout(n) PROVE FlowsOn(m)'
  <2>1. UNCHANGED <<unsent, air, fwdQueue, accepted>>
    BY <1>2 DEF AckTimeout
  <2> QED BY <1>0, <2>1, FloodApart DEF Clear
<1>3. ASSUME NEW n \in Nodes, Serve(n) PROVE FlowsOn(m)'
  <2>1. ASSUME NEW e \in fwdQueue[n], Relay(n, e) PROVE FlowsOn(m)'
    <3>1. UNCHANGED <<unsent, accepted>>
      BY <2>1 DEF Relay
    <3>2. FlowsOn(m)
      BY <1>0, <3>1 DEF Clear
    <3>3. CASE ~e.frame.ack /\ e.frame.of = m
      BY <2>1, <3>2, <3>3, FloodRelays DEF Wide
    <3>4. CASE e.frame.ack \/ e.frame.of # m
      <4>1. e.frame \in Frames /\ air' = air \cup Receptions(e.frame, n)
        BY <2>1, RelayIs DEF Relay
      <4>2. \A r \in Receptions(e.frame, n) : r.frame = e.frame
        BY <4>1, ReceptionsAre
      <4>3. \A r : ~r.frame.ack /\ r.frame.of = m => (r \in air' <=> r \in air)
        BY <3>4, <4>1, <4>2
      <4>4. \A k \in Nodes : fwdQueue'[k] = IF k = n THEN fwdQueue[n] \ {e} ELSE fwdQueue[k]
        BY <2>1, RelayIs
      <4>5. \A k \in Nodes : Carrying(fwdQueue'[k], m) = Carrying(fwdQueue[k], m)
        BY <3>4, <4>4 DEF Carrying
      <4> QED BY <3>1, <3>2, <4>3, <4>5, FloodApart
    <3> QED BY <3>3, <3>4
  <2>2. ASSUME NEW e \in fwdQueue[n], RelayFails(n, e) PROVE FlowsOn(m)'
    <3>1. UNCHANGED <<unsent, air, accepted>>
      BY <2>2 DEF RelayFails
    <3>2. FlowsOn(m) /\ ~lost'
      BY <1>0, <3>1 DEF Clear
    <3>3. CASE ~e.frame.ack /\ e.frame.of = m
      BY <2>2, <3>2, <3>3, StepTyped, FloodWaits
    <3>4. CASE e.frame.ack \/ e.frame.of # m
      <4>1. /\ Again(e).frame = e.frame
            /\ \A k \in Nodes : k # n => fwdQueue'[k] = fwdQueue[k]
            /\ fwdQueue'[n] = (fwdQueue[n] \ {e}) \cup {Again(e)}
        BY <2>2, <3>2, RelayFailsIs
      <4>2. \A k \in Nodes : Carrying(fwdQueue'[k], m) = Carrying(fwdQueue[k], m)
        BY <3>4, <4>1 DEF Carrying
      <4> QED BY <3>1, <3>2, <4>2, FloodApart
    <3> QED BY <3>3, <3>4
  <2>3. ASSUME NEW e \in ackQueue[n], SendParkedAck(n, e) \/ ParkedAckFails(n, e)
        PROVE  FlowsOn(m)'
    <3>1. /\ e.frame.ack /\ air \subseteq air' /\ \A c \in air' : c \in air \/ c.frame = e.frame
          /\ UNCHANGED <<unsent, fwdQueue, histories>>
      BY <2>3, ParkedAckIs
    <3>2. \A r : ~r.frame.ack /\ r.frame.of = m => (r \in air' <=> r \in air)
      BY <3>1
    <3>3. UNCHANGED accepted
      BY <3>1 DEF histories
    <3> QED BY <1>0, <3>1, <3>2, <3>3, FloodApart DEF Clear
  <2> QED BY <1>3, <2>1, <2>2, <2>3 DEF Serve
<1>4. ASSUME NEW r \in air, Receive(r) \/ Lose(r) PROVE FlowsOn(m)'
  <2>1. PICK n \in Nodes, o \in Messages, f \in Frames : n = r.to /\ o = f.of /\ f = r.frame
    BY CopyIs
  <2>2. unsent' = unsent
    BY <1>4 DEF Receive, OwnFrame, SeenAck, NewAck, ReplayedData, NewData, Lose
  <2>3. FlowsOn(m) /\ ~lost' /\ Clear(m) /\ Clear(m)'
    BY <1>0, <2>2 DEF Clear
  <2>4. ~Lose(r)
    BY <2>3 DEF Lose
  <2>5. CASE OwnFrame(r) \/ SeenAck(r) \/ ReplayedData(r)
    <3>1. air' = air \ {r} /\ UNCHANGED <<fwdQueue, accepted>>
      BY <2>5 DEF OwnFrame, SeenAck, ReplayedData, Consume, tables, histories
    <3>2. CASE f.ack \/ o # m
      <4>1. \A c : ~c.frame.ack /\ c.frame.of = m => (c \in air' <=> c \in air)
        BY <2>1, <3>1, <3>2
      <4> QED BY <2>3, <3>1, <4>1, FloodApart
    <3>3. CASE ~f.ack /\ o = m
      <4>1. CASE OwnFrame(r)
        <5>1. r.to = m.src
          BY <2>1, <3>3, <4>1, FrameIs DEF OwnFrame
        <5> QED BY <2>1, <2>3, <3>1, <5>1, FloodDrops
      <4>2. CASE SeenAck(r)
        BY <2>1, <3>3, <4>2 DEF SeenAck
      <4>3. CASE ReplayedData(r)
        <5>1. f.src = m.src
          BY <3>3, <2>1, FrameIs
        <5>2. ASSUME m \notin accepted[n] PROVE FALSE
          <6>1. PICK k \in accepted[n] : k.src = m.src /\ k.number >= m.number + WindowBits
            BY <2>1, <3>3, <4>3, <5>1, <5>2, RefusedIsKnown
          <6>2. k \in Messages \ unsent
            BY <6>1 DEF SentOnly, Typed, HistoryTyped
          <6>3. k.number < m.number + WindowBits
            BY <2>3, <6>1, <6>2 DEF Clear, Remembers
          <6>4. k.number \in Nat /\ m.number \in Nat /\ WindowBits \in Nat
            BY <6>2, MessageIs DEF Assumptions, FreshnessAssumption
          <6>5. PICK a \in Nat, b \in Nat, w \in Nat : a = k.number /\ b = m.number /\ w = WindowBits
            BY <6>4
          <6> QED BY <6>1, <6>3, <6>5
        <5> QED BY <2>1, <2>3, <3>1, <5>2, FloodDrops
      <4> QED BY <2>5, <4>1, <4>2, <4>3
    <3> QED BY <3>2, <3>3
  <2>6. CASE NewAck(r)
    <3>1. f.ack /\ Forwarding(n, f, r.from) /\ UNCHANGED accepted /\ air' = air \ {r}
      BY <2>1, <2>6 DEF NewAck, Consume
    <3>2. \A k \in Nodes : Carrying(fwdQueue'[k], m) = Carrying(fwdQueue[k], m)
      BY <3>1, CarriedAfter
    <3>3. \A c : ~c.frame.ack /\ c.frame.of = m => (c \in air' <=> c \in air)
      BY <2>1, <3>1
    <3> QED BY <2>3, <3>1, <3>2, <3>3, FloodApart
  <2>7. CASE NewData(r)
    <3>1. /\ ~f.ack /\ Forwarding(n, f, r.from) /\ Noted(n, o) /\ Acknowledged(n, o, r)
      BY <2>1, <2>7, NewDataIs
    <3>2. CASE o = m
      <4>1. <<n, m.src>> \notin forgotten
        BY <2>3 DEF Clear, Remembers
      <4> QED BY <2>1, <2>3, <2>7, <3>2, <4>1, FloodComes
    <3>3. CASE o # m
      <4>1. \A k \in Nodes : Carrying(fwdQueue'[k], m) = Carrying(fwdQueue[k], m)
        BY <2>1, <3>1, <3>3, CarriedAfter
      <4>2. AckOf(o, n).ack
        BY DEF AckOf
      <4>3. \A c : ~c.frame.ack /\ c.frame.of = m => (c \in air' <=> c \in air)
        BY <2>1, <3>1, <3>3, <4>2 DEF Acknowledged
      <4>4. \A k \in Nodes : m \in accepted'[k] <=> m \in accepted[k]
        BY <3>1, <3>3 DEF Noted
      <4> QED BY <2>3, <4>1, <4>3, <4>4, FloodApart
    <3> QED BY <3>2, <3>3
  <2> QED BY <1>4, <2>4, <2>5, <2>6, <2>7 DEF Receive
<1>5. ASSUME UNCHANGED vars PROVE FlowsOn(m)'
  <2>1. UNCHANGED <<unsent, air, fwdQueue, accepted>>
    BY <1>5 DEF vars, tables, histories
  <2> QED BY <1>0, <2>1, FloodApart DEF Clear
<1> QED BY <1>1, <1>2, <1>3, <1>4, <1>5 DEF Next

\* When nothing is on its way, the flood is over.
LEMMA FloodReachesAll ==
  ASSUME Assumptions, Typed, SentOnly, Flood
  PROVE  BroadcastReaches
<1> SUFFICES ASSUME NEW m \in Messages, Wide(m), Clear(m), Quiet,
                    NEW n \in Connected[m.src] \ {m.src}
             PROVE  handed[n][m] > 0
  BY DEF BroadcastReaches, Wide, Clear
<1>1. PICK C \in SUBSET Copies, R \in SUBSET Nodes, Q \in [Nodes -> SUBSET Entered(FwdRetryMax)] :
          /\ Flows(C, Q, R)
          /\ \A r : r \in C <=> r \in air /\ ~r.frame.ack /\ r.frame.of = m
          /\ \A k \in Nodes : Q[k] = Carrying(fwdQueue[k], m)
          /\ \A k : k \in R <=> k \in Nodes /\ (k = m.src \/ m \in accepted[k])
  BY DEF Flood, FlowsOn
<1>2. C = {} /\ \A k \in Nodes : Q[k] = {}
  BY <1>1 DEF Quiet, Carrying
<1>3. PICK z \in Nat : z = Cardinality(Nodes)
  BY Bounds, FS_CardinalityType
<1>4. PICK s \in Nodes : s = m.src
  BY MessageIs
<1>5. Within(z, s) \subseteq R
  <2>1. Flows({}, Q, R) /\ s \in R
    BY <1>1, <1>2, <1>4
  <2> QED BY <1>2, <1>3, <2>1, FlowsDone
<1>6. n \in Within(z, s)
  BY <1>3, <1>4 DEF Connected
<1>7. n \in Nodes /\ m \in accepted[n]
  BY <1>1, <1>5, <1>6
<1> QED BY <1>7 DEF SentOnly, Wide

-----------------------------------------------------------------------------
(* The inductive invariant, and the theorems.                              *)

\* The invariant holds at the start,
LEMMA InitInvariant == ASSUME Assumptions, Init PROVE IInv
<1>1. Typed
  BY InitTyped
<1>2. air = {} /\ unsent = Messages /\ forgotten = {}
  BY DEF Init
<1>3. \A n \in Nodes : windows[n] = <<>> /\ fwdQueue[n] = {} /\ accepted[n] = {}
  BY DEF Init
<1>4. \A n \in Nodes, m \in Messages : handed[n][m] = 0 /\ relayed[n][m] = 0
  BY DEF Init
<1>5. \A m \in Messages : told[m] = "nothing"
  BY DEF Init
<1>6. AcksAreTrue /\ OkMeansHanded
  <2>1. \A n \in Nodes : ackQueue[n] = {}
    BY DEF Init
  <2> QED BY <1>2, <1>3, <1>5, <2>1 DEF AcksAreTrue, OkMeansHanded
<1>7. BudgetKept /\ WithinBudget /\ SentOnly
  BY <1>2, <1>3, <1>4 DEF BudgetKept, WithinBudget, SentOnly
<1>8. WindowsFollow
  BY <1>3 DEF WindowsFollow, Follows, Entries
<1>9. OnceEach
  BY <1>3, <1>4 DEF OnceEach, Untouched, Single, Carrying
<1>10. Flood
  BY <1>2 DEF Flood, Clear
<1> QED BY <1>1, <1>6, <1>7, <1>8, <1>9, <1>10 DEF IInv

\* is kept by every step,
LEMMA StepInvariant == ASSUME Assumptions, IInv, [Next]_vars PROVE IInv'
<1>1. Typed'
  BY StepTyped DEF IInv
<1>2. AcksAreTrue' /\ OkMeansHanded'
  BY AcksStep DEF IInv
<1>3. BudgetKept' /\ WithinBudget'
  BY BudgetStep DEF IInv
<1>4. WindowsFollow'
  BY FollowStep DEF IInv
<1>5. OnceEach'
  BY OnceStep DEF IInv
<1>6. SentOnly' /\ Flood'
  BY SentStep, FloodStep DEF IInv
<1> QED BY <1>1, <1>2, <1>3, <1>4, <1>5, <1>6 DEF IInv

\* and so holds always.
LEMMA InvariantAlways == ASSUME NumbersClose PROVE Spec => []IInv
<1>1. Init => IInv
  BY InitInvariant, FreshnessAssumption, MeshAssumption DEF Assumptions
<1>2. IInv /\ [Next]_vars => IInv'
  BY StepInvariant, FreshnessAssumption, MeshAssumption DEF Assumptions
<1> QED BY <1>1, <1>2, PTL DEF Spec

\* An ACK tells the truth over any number of hops: a sender whose message is
\* answered, whatever was lost, repeated or overtaken, has had it handed over.
THEOREM AcknowledgedIsHanded == ASSUME NumbersClose PROVE Spec => []OkMeansHanded
<1>1. IInv => OkMeansHanded
  BY DEF IInv
<1> QED BY <1>1, InvariantAlways, PTL

\* A message is handed over only where its hop budget lets it come.
THEOREM StaysInBudget == ASSUME NumbersClose PROVE Spec => []WithinBudget
<1>1. IInv => WithinBudget
  BY DEF IInv
<1> QED BY <1>1, InvariantAlways, PTL

\* The replay window keeps a flood from multiplying, whatever the strategy.
THEOREM CopiesDoNotMultiply == ASSUME NumbersClose PROVE Spec => []NoDuplicates
<1>1. IInv => NoDuplicates
  BY OnceIsNoDuplicates DEF IInv
<1> QED BY <1>1, InvariantAlways, PTL

\* The replay window refuses nothing new that is within its history.
THEOREM NewIsNotRefused == ASSUME NumbersClose PROVE Spec => NoFreshRefused
<1>1. IInv => \A r \in air : ReplayedData(r) =>
                \/ r.frame.of \in accepted[r.to]
                \/ \E k \in accepted[r.to] :
                     /\ k.src = r.frame.src
                     /\ k.number >= r.frame.of.number + WindowBits
  BY RefusedIsKnown, FreshnessAssumption, MeshAssumption DEF Assumptions, IInv
<1> QED BY <1>1, InvariantAlways, PTL DEF Spec, NoFreshRefused

\* A broadcast with hops enough reaches every connected node by the time
\* nothing is on its way any more.
THEOREM FloodReaches == ASSUME NumbersClose PROVE Spec => []BroadcastReaches
<1>1. IInv => BroadcastReaches
  BY FloodReachesAll, FreshnessAssumption, MeshAssumption DEF Assumptions, IInv
<1> QED BY <1>1, InvariantAlways, PTL
=============================================================================
