--------------------------- MODULE EngineTxProofs ---------------------------
(***************************************************************************)
(* For any messages, pool, queue, number of fragments and retries: every   *)
(* slot in use has one owner, a large send is one fragment at a time and   *)
(* never forgotten, a lost interrupt strands no frame, and a message is    *)
(* reported once at most.                                                  *)
(*                                                                         *)
(* The inductive invariant IInv is that bookkeeping made complete: where   *)
(* the running session is, whose the slots are, what is still to be called.*)
(* OneOwner counts, so the proof counts: Times over queues and tables, and *)
(* what each step adds to or takes from it (OwnersMove).                   *)
(***************************************************************************)
EXTENDS EngineTx, SequenceTheorems, FiniteSetTheorems, TLAPS

-----------------------------------------------------------------------------
(* Smallest members, and counting in tables and queues.                    *)

\* A set of naturals that is not empty has a smallest member.
LEMMA MinExists ==
  ASSUME NEW S \in SUBSET Nat, S # {}
  PROVE  \E x \in S : \A y \in S : x <= y
<1>1. PICK x \in S : \A y \in S : <<y, x>> \notin OpToRel(<, Nat)
  BY NatLessThanWellFounded, WFMin
<1>2. \A y \in S : ~(y < x)
  BY <1>1 DEF OpToRel
<1> QED BY <1>2

\* A finite set and its image under a bijection have the same size.
LEMMA SameSize ==
  ASSUME NEW S, NEW T, IsFiniteSet(S), NEW f \in [S -> T],
         \A x, y \in S : f[x] = f[y] => x = y,
         \A t \in T : \E x \in S : f[x] = t
  PROVE  IsFiniteSet(T) /\ Cardinality(T) = Cardinality(S)
<1>1. f \in Bijection(S, T)
  BY DEF Bijection, Injection, Surjection, IsInjective
<1> QED BY <1>1, FS_Bijection DEF ExistsBijection

Is(b) == IF b THEN 1 ELSE 0
Places(n, s) == {i \in DOMAIN n : n[i] = s}

\* How often a value is in a table is a number, 0 when it is nowhere in it.
LEMMA PlacesFinite ==
  ASSUME NEW n, NEW k \in Nat, DOMAIN n = 1..k, NEW s
  PROVE  /\ IsFiniteSet(Places(n, s)) /\ Times(n, s) = Cardinality(Places(n, s))
         /\ Times(n, s) \in Nat
         /\ Times(n, s) = 0 <=> \A i \in 1..k : n[i] # s
<1>1. Places(n, s) \in SUBSET (1..k)
  BY DEF Places
<1>2. IsFiniteSet(Places(n, s))
  BY <1>1, FS_Interval, FS_Subset
<1>3. Times(n, s) = Cardinality(Places(n, s))
  BY DEF Times, Places
<1>4. Times(n, s) = 0 <=> Places(n, s) = {}
  BY <1>2, <1>3, FS_EmptySet
<1> QED BY <1>2, <1>3, <1>4, FS_CardinalityType DEF Places

\* The same for a sequence.
LEMMA TimesOfSeq ==
  ASSUME NEW X, NEW n \in Seq(X), NEW s
  PROVE  /\ Times(n, s) \in Nat
         /\ Times(n, s) = 0 <=> \A i \in 1..Len(n) : n[i] # s
BY PlacesFinite, LenProperties

\* Nothing is in the empty sequence.
LEMMA TimesOfEmpty ==
  ASSUME NEW s
  PROVE  Times(<<>>, s) = 0
<1>1. {i \in DOMAIN << >> : << >>[i] = s} = {}
  OBVIOUS
<1> QED BY <1>1, FS_EmptySet DEF Times

\* Appending adds one occurrence of what is appended.
LEMMA TimesAppend ==
  ASSUME NEW X, NEW n \in Seq(X), NEW x \in X, NEW s
  PROVE  Times(Append(n, x), s) = Times(n, s) + Is(x = s)
<1> DEFINE k == Len(n)
           a == Append(n, x)
<1>1. /\ k \in Nat /\ DOMAIN n = 1..k /\ DOMAIN a = 1..(k + 1)
      /\ a[k + 1] = x /\ \A i \in 1..k : a[i] = n[i]
  BY AppendProperties, LenProperties
<1> HIDE DEF k, a
<1>2. Places(a, s) = IF x = s THEN Places(n, s) \cup {k + 1} ELSE Places(n, s)
  BY <1>1 DEF Places
<1>3. k + 1 \notin Places(n, s)
  BY <1>1 DEF Places
<1>4. /\ IsFiniteSet(Places(n, s)) /\ Times(n, s) = Cardinality(Places(n, s))
      /\ Times(n, s) \in Nat
  BY <1>1, PlacesFinite
<1>5. Times(a, s) = Cardinality(Places(a, s))
  BY DEF Times, Places
<1>6. CASE x = s
  <2>1. Cardinality(Places(n, s) \cup {k + 1}) = Cardinality(Places(n, s)) + 1
    BY <1>3, <1>4, FS_AddElement
  <2>2. Is(x = s) = 1
    BY <1>6 DEF Is
  <2>3. Times(a, s) = Times(n, s) + 1
    BY <1>2, <1>4, <1>5, <1>6, <2>1
  <2> QED BY <2>2, <2>3 DEF a
<1>7. CASE x # s
  BY <1>2, <1>4, <1>5, <1>7 DEF Is, a
<1> QED BY <1>6, <1>7

\* Taking the head off takes one occurrence of it.
LEMMA TimesTail ==
  ASSUME NEW X, NEW n \in Seq(X), n # <<>>, NEW s
  PROVE  /\ Times(Tail(n), s) = Times(n, s) - Is(n[1] = s)
         /\ Times(Tail(n), s) \in Nat /\ Times(n, s) \in Nat
<1> DEFINE k == Len(n)
           r == Tail(n)
<1>1. /\ k \in Nat /\ k > 0 /\ DOMAIN n = 1..k /\ DOMAIN r = 1..(k - 1)
      /\ \A i \in 1..(k - 1) : r[i] = n[i + 1]
  BY HeadTailProperties, LenProperties, EmptySeq
<1> HIDE DEF k, r
<1>a. k \in Nat /\ k > 0 /\ k - 1 \in Nat
  BY <1>1
<1>2. /\ IsFiniteSet(Places(n, s)) /\ Times(n, s) = Cardinality(Places(n, s))
      /\ Times(n, s) \in Nat
  BY <1>1, PlacesFinite
<1>3. /\ IsFiniteSet(Places(r, s)) /\ Times(r, s) = Cardinality(Places(r, s))
      /\ Times(r, s) \in Nat
  BY <1>1, <1>a, PlacesFinite
<1> DEFINE f == [i \in Places(r, s) |-> i + 1]
<1>4. ASSUME NEW i \in Places(r, s) PROVE i + 1 \in Places(n, s) \ {1}
  BY <1>1, <1>a DEF Places
<1>5. f \in [Places(r, s) -> Places(n, s) \ {1}]
  BY <1>4
<1>6. \A i, j \in Places(r, s) : f[i] = f[j] => i = j
  <2> SUFFICES ASSUME NEW i \in Places(r, s), NEW j \in Places(r, s), f[i] = f[j]
               PROVE  i = j
    OBVIOUS
  <2>1. i \in Int /\ j \in Int
    BY <1>1 DEF Places
  <2>2. i + 1 = j + 1
    OBVIOUS
  <2> HIDE DEF f
  <2> QED BY <2>1, <2>2
<1>7. ASSUME NEW t \in Places(n, s) \ {1} PROVE \E i \in Places(r, s) : f[i] = t
  <2>1. t - 1 \in 1..(k - 1) /\ t \in 1..k /\ (t - 1) + 1 = t /\ n[t] = s
    BY <1>1, <1>a DEF Places
  <2>2. t - 1 \in Places(r, s)
    BY <2>1, <1>1 DEF Places
  <2> QED BY <2>1, <2>2
<1>8. Cardinality(Places(n, s) \ {1}) = Cardinality(Places(r, s))
  <2> HIDE DEF f
  <2> QED BY <1>3, <1>5, <1>6, <1>7, SameSize
<1>9. 1 \in Places(n, s) <=> n[1] = s
  BY <1>1 DEF Places
<1>10. Times(r, s) = Times(n, s) - Is(n[1] = s)
  <2>1. Cardinality(Places(n, s) \ {1}) =
          IF 1 \in Places(n, s) THEN Cardinality(Places(n, s)) - 1
                                ELSE Cardinality(Places(n, s))
    BY <1>2, FS_RemoveElement
  <2> QED BY <1>2, <1>3, <1>8, <1>9, <2>1 DEF Is
<1> QED BY <1>2, <1>3, <1>10 DEF r

\* The occurrences in two sequences add up in their concatenation.
LEMMA TimesConcat ==
  ASSUME NEW X, NEW a \in Seq(X), NEW b \in Seq(X), NEW s
  PROVE  Times(a \o b, s) = Times(a, s) + Times(b, s)
<1> DEFINE k == Len(a)
           l == Len(b)
           c == a \o b
<1>1. /\ k \in Nat /\ l \in Nat /\ DOMAIN a = 1..k /\ DOMAIN b = 1..l
      /\ DOMAIN c = 1..(k + l)
      /\ \A i \in 1..(k + l) : c[i] = IF i <= k THEN a[i] ELSE b[i - k]
  BY ConcatProperties, LenProperties
<1> HIDE DEF k, l, c
<1>a. k \in Nat /\ l \in Nat
  BY <1>1
<1>2. /\ IsFiniteSet(Places(a, s)) /\ Times(a, s) = Cardinality(Places(a, s))
      /\ Times(a, s) \in Nat
  BY <1>1, PlacesFinite
<1>3. /\ IsFiniteSet(Places(b, s)) /\ Times(b, s) = Cardinality(Places(b, s))
      /\ Times(b, s) \in Nat
  BY <1>1, PlacesFinite
<1>4. k + l \in Nat
  BY <1>a
<1>5. /\ IsFiniteSet(Places(c, s)) /\ Times(c, s) = Cardinality(Places(c, s))
  BY <1>1, <1>4, PlacesFinite
<1> DEFINE high == Places(c, s) \ Places(a, s)
           f == [i \in Places(b, s) |-> i + k]
<1>6. Places(a, s) \subseteq Places(c, s)
  BY <1>1 DEF Places
<1>7. \A i \in high : i \in (k + 1)..(k + l) /\ c[i] = s
  BY <1>1 DEF Places
<1>8. f \in [Places(b, s) -> high]
  <2>1. ASSUME NEW i \in Places(b, s) PROVE i + k \in high
    <3>1. i \in 1..l /\ b[i] = s
      BY <1>1 DEF Places
    <3>2. i + k \in 1..(k + l) /\ ~(i + k <= k) /\ (i + k) - k = i
      BY <3>1, <1>a
    <3>3. i + k \in Places(c, s)
      BY <1>1, <3>1, <3>2 DEF Places
    <3>4. i + k \notin Places(a, s)
      BY <1>1, <3>2, <1>a DEF Places
    <3> QED BY <3>3, <3>4
  <2> QED BY <2>1
<1>9. \A i, j \in Places(b, s) : f[i] = f[j] => i = j
  <2> SUFFICES ASSUME NEW i \in Places(b, s), NEW j \in Places(b, s), f[i] = f[j]
               PROVE  i = j
    OBVIOUS
  <2>1. i \in Int /\ j \in Int
    BY <1>1 DEF Places
  <2>2. i + k = j + k
    OBVIOUS
  <2> HIDE DEF f
  <2> QED BY <2>1, <2>2, <1>a
<1>10. ASSUME NEW t \in high PROVE \E i \in Places(b, s) : f[i] = t
  <2>1. t \in (k + 1)..(k + l) /\ c[t] = s
    BY <1>7
  <2>2. t - k \in 1..l /\ (t - k) + k = t /\ ~(t <= k) /\ t \in 1..(k + l)
    BY <2>1, <1>a
  <2>3. t - k \in Places(b, s)
    BY <1>1, <2>1, <2>2 DEF Places
  <2> QED BY <2>2, <2>3
<1>11. IsFiniteSet(high) /\ Cardinality(high) = Cardinality(Places(b, s))
  <2> HIDE DEF f, high
  <2> QED BY <1>3, <1>8, <1>9, <1>10, SameSize
<1>12. Places(c, s) \cap Places(a, s) = Places(a, s)
  BY <1>6
<1>13. Cardinality(high) = Cardinality(Places(c, s)) - Cardinality(Places(a, s))
  <2>1. Cardinality(Places(c, s) \ Places(a, s)) =
          Cardinality(Places(c, s)) - Cardinality(Places(c, s) \cap Places(a, s))
    BY <1>5, FS_Difference
  <2> QED BY <1>12, <2>1
<1>14. Cardinality(Places(c, s)) \in Nat
  BY <1>5, FS_CardinalityType
<1> HIDE DEF high, f
<1>15. Times(c, s) = Times(a, s) + Times(b, s)
  BY <1>2, <1>3, <1>5, <1>11, <1>13, <1>14
<1> QED BY <1>15 DEF c

\* A sequence of one element holds it once.
LEMMA TimesOne ==
  ASSUME NEW x, NEW s
  PROVE  Times(<<x>>, s) = Is(x = s)
<1>1. Places(<<x>>, s) = IF x = s THEN {1} ELSE {}
  BY DEF Places
<1>2. Times(<<x>>, s) = Cardinality(Places(<<x>>, s))
  BY DEF Times, Places
<1> QED BY <1>1, <1>2, FS_EmptySet, FS_Singleton DEF Is

\* Putting an element in front adds one occurrence of it.
LEMMA TimesCons ==
  ASSUME NEW X, NEW x \in X, NEW n \in Seq(X), NEW s
  PROVE  /\ <<x>> \o n \in Seq(X) /\ <<x>> \o n # <<>>
         /\ Times(<<x>> \o n, s) = Times(n, s) + Is(x = s)
<1>1. <<x>> \in Seq(X)
  OBVIOUS
<1>2. Times(<<x>>, s) = Is(x = s) /\ Times(n, s) \in Nat
  BY TimesOne, TimesOfSeq
<1>3. Times(<<x>> \o n, s) = Times(<<x>>, s) + Times(n, s)
  BY <1>1, TimesConcat
<1>4. Is(x = s) \in Int
  BY DEF Is
<1> QED BY <1>1, <1>2, <1>3, <1>4

\* The tables f and g of k entries differ at i only.
DifferAt(f, g, i, k) ==
    /\ DOMAIN f = 1..k /\ DOMAIN g = 1..k /\ i \in 1..k
    /\ \A j \in 1..k : j # i => g[j] = f[j]

\* Overwriting one entry of a table changes the occurrences by that entry.
LEMMA TimesExcept ==
  ASSUME NEW k \in Nat, NEW f, NEW g, NEW i, NEW s, DifferAt(f, g, i, k)
  PROVE  /\ f[i] = s /\ g[i] # s => Times(f, s) = Times(g, s) + 1
         /\ f[i] # s /\ g[i] = s => Times(g, s) = Times(f, s) + 1
         /\ f[i] # s /\ g[i] # s => Times(g, s) = Times(f, s)
         /\ Times(g, s) \in Nat /\ Times(f, s) \in Nat
<1> DEFINE rest == Places(f, s) \ {i}
<1>1. /\ IsFiniteSet(Places(f, s)) /\ Times(f, s) = Cardinality(Places(f, s))
      /\ Times(f, s) \in Nat
  BY PlacesFinite DEF DifferAt
<1>2. /\ IsFiniteSet(Places(g, s)) /\ Times(g, s) = Cardinality(Places(g, s))
      /\ Times(g, s) \in Nat
  BY PlacesFinite DEF DifferAt
<1>3. /\ Places(f, s) = IF f[i] = s THEN rest \cup {i} ELSE rest
      /\ Places(g, s) = IF g[i] = s THEN rest \cup {i} ELSE rest
  BY DEF Places, DifferAt
<1>4. IsFiniteSet(rest) /\ i \notin rest
  BY <1>1, FS_RemoveElement
<1>5. Cardinality(rest \cup {i}) = Cardinality(rest) + 1 /\ Cardinality(rest) \in Nat
  BY <1>4, FS_AddElement, FS_CardinalityType
<1> HIDE DEF rest
<1> QED BY <1>1, <1>2, <1>3, <1>5

-----------------------------------------------------------------------------
(* The calls of the worker.                                                *)

Later == <<"next", 1>>
Again == <<"next", 0>>
Calls == {Drain, Flush, Later, Again}
           \cup {Route(s) : s \in Slots} \cup {Transmit(s) : s \in Slots}

\* How many attempts at the next fragment are among the calls of t.
Nexts(t) == Times(t, Later) + Times(t, Again)

\* A value at two places of a table is in it more than once.
LEMMA TwoPlaces ==
  ASSUME NEW k \in Nat, NEW n, DOMAIN n = 1..k, NEW i \in 1..k, NEW j \in 1..k, i # j,
         n[i] = n[j]
  PROVE  Times(n, n[i]) > 1
<1> DEFINE P == Places(n, n[i])
<1>1. IsFiniteSet(P) /\ Times(n, n[i]) = Cardinality(P)
  BY PlacesFinite
<1> DEFINE A == {i}
           D == A \cup {j}
<1>2. D \in SUBSET P
  BY DEF Places
<1>3. IsFiniteSet(A) /\ Cardinality(A) = 1 /\ j \notin A
  BY FS_Singleton
<1> HIDE DEF A
<1>4. Cardinality(D) = 2
  BY <1>3, FS_AddElement
<1> HIDE DEF D, P
<1>5. Cardinality(P) \in Nat /\ Cardinality(D) <= Cardinality(P)
  BY <1>1, <1>2, FS_Subset, FS_CardinalityType
<1>6. Cardinality(P) > 1
  BY <1>4, <1>5
<1> QED BY <1>1, <1>6 DEF P

\* _pending has one entry per slot: while each slot is in it once at most and one
\* is not in it, FreeEntry is a free entry (_sendMsg finds one).
LEMMA FreeEntryIsFree ==
  ASSUME pending \in [Slots -> Slots \cup {NoSlot}],
         \A s \in Slots : Times(pending, s) <= 1,
         NEW t \in Slots, Times(pending, t) = 0
  PROVE  FreeEntry \in Slots /\ pending[FreeEntry] = NoSlot
<1>1. PoolSize \in Nat /\ PoolSize > 1 /\ Slots = 1..PoolSize
  BY SizeAssumption DEF Slots
<1>2. \E i \in Slots : pending[i] = NoSlot
  <2>1. SUFFICES ASSUME \A i \in Slots : pending[i] # NoSlot PROVE FALSE
    OBVIOUS
  <2>2. \A i \in Slots : pending[i] # t
    BY <1>1, PlacesFinite
  <2>3. pending \in [Slots -> Slots \ {t}]
    BY <2>1, <2>2
  <2>4. IsFiniteSet(Slots) /\ Cardinality(Slots) = PoolSize
    BY <1>1, FS_Interval
  <2>5. IsFiniteSet(Slots \ {t}) /\ Cardinality(Slots \ {t}) = PoolSize - 1
    BY <2>4, FS_RemoveElement
  <2>6. Cardinality(Slots \ {t}) < Cardinality(Slots)
    BY <1>1, <2>4, <2>5
  <2>7. PICK x, y \in Slots : x # y /\ pending[x] = pending[y]
    BY <2>3, <2>4, <2>5, <2>6, FS_PigeonHole
  <2>8. Times(pending, pending[x]) > 1 /\ pending[x] \in Slots
    BY <1>1, <2>3, <2>7, TwoPlaces
  <2>9. Times(pending, pending[x]) \in Nat
    BY <1>1, PlacesFinite
  <2> QED BY <2>8, <2>9
<1> DEFINE F == {i \in Slots : pending[i] = NoSlot}
<1>3. F \in SUBSET Nat /\ F # {}
  BY <1>1, <1>2
<1>4. PICK i \in F : \A j \in F : i <= j
  <2> HIDE DEF F
  <2> QED BY <1>3, MinExists
<1>5. \A j \in 1..(i - 1) : j \in Slots /\ ~(i <= j)
  BY <1>1
<1>6. \E e \in Slots : pending[e] = NoSlot /\ \A j \in 1..(e - 1) : pending[j] # NoSlot
  BY <1>4, <1>5
<1> QED BY <1>6 DEF FreeEntry

\* _poolAlloc returns a free slot, the last one only for a fragment.
LEMMA LowestIsFree ==
  ASSUME NEW forFragment \in BOOLEAN, CanAlloc(forFragment)
  PROVE  /\ LowestFree(forFragment) \in Slots /\ LowestFree(forFragment) \notin used
         /\ ~forFragment => LowestFree(forFragment) # PoolSize
<1> DEFINE F == FreeSlots(AllocLimit(forFragment))
<1>1. PoolSize \in Nat /\ PoolSize > 1
  BY SizeAssumption
<1>2. F \subseteq Slots /\ F \cap used = {} /\ (~forFragment => PoolSize \notin F)
  BY <1>1 DEF FreeSlots, AllocLimit, Slots
<1>3. F \in SUBSET Nat /\ F # {}
  BY <1>1, <1>2 DEF CanAlloc, Slots
<1>4. \E s \in F : \A r \in F : s <= r
  <2> HIDE DEF F
  <2> QED BY <1>3, MinExists
<1>5. LowestFree(forFragment) \in F
  BY <1>4 DEF LowestFree
<1> QED BY <1>2, <1>5

\* The calls _flushDeferred makes are those of the deferred slots, no others.
LEMMA TimesRouted ==
  ASSUME NEW d \in Seq(Slots), NEW t, t = [i \in DOMAIN d |-> Route(d[i])]
  PROVE  /\ t \in Seq(Calls)
         /\ \A s \in Slots : Times(t, Route(s)) = Times(d, s) /\ Times(t, Transmit(s)) = 0
         /\ Nexts(t) = 0 /\ Times(t, Drain) = 0
<1>1. PICK k \in Nat : k = Len(d) /\ DOMAIN d = 1..k
  BY LenProperties
<1>2. \A i \in 1..k : d[i] \in Slots /\ t[i] = Route(d[i])
  BY <1>1, ElementOfSeq
<1>3. t \in [1..k -> Calls] /\ DOMAIN t = 1..k
  BY <1>1, <1>2 DEF Calls
<1>4. t \in Seq(Calls)
  BY <1>1, <1>3, SeqDef
<1>5. ASSUME NEW s \in Slots PROVE Times(t, Route(s)) = Times(d, s)
  <2>1. \A i \in 1..k : t[i] = Route(s) <=> d[i] = s
    BY <1>2 DEF Route
  <2>2. {i \in DOMAIN t : t[i] = Route(s)} = {i \in DOMAIN d : d[i] = s}
    BY <1>1, <1>3, <2>1
  <2> QED BY <2>2 DEF Times
<1>6. ASSUME NEW s \in Slots PROVE Times(t, Transmit(s)) = 0
  <2>1. \A i \in 1..k : t[i] # Transmit(s)
    BY <1>2 DEF Route, Transmit
  <2> QED BY <1>1, <1>3, <2>1, PlacesFinite
<1>7. \A i \in 1..k : t[i] # Drain /\ t[i] # Later /\ t[i] # Again
  BY <1>2 DEF Route, Drain, Later, Again
<1>8. /\ Times(t, Drain) = 0 /\ Times(t, Later) = 0 /\ Times(t, Again) = 0
  BY <1>1, <1>3, <1>7, PlacesFinite
<1> QED BY <1>4, <1>5, <1>6, <1>8 DEF Nexts

\* Calls is the set of calls TypeOK allows.
LEMMA CallsAre ==
  /\ Calls = {Drain, Flush, NextFragment(TRUE), NextFragment(FALSE)}
                \cup {Route(s) : s \in Slots} \cup {Transmit(s) : s \in Slots}
  /\ \A late \in BOOLEAN : NextFragment(late) \in {Later, Again}
<1>1. NextFragment(TRUE) = Later /\ NextFragment(FALSE) = Again
  BY DEF NextFragment, Later, Again
<1>2. \A late \in BOOLEAN : NextFragment(late) \in {Later, Again}
  BY DEF NextFragment, Later, Again
<1> QED BY <1>1, <1>2 DEF Calls

\* The seven ways of being a call, told apart.
LEMMA KindsOfCall ==
  ASSUME NEW c \in Calls
  PROVE  /\ c[1] = "drain" <=> c = Drain
         /\ c[1] = "flush" <=> c = Flush
         /\ c[1] = "next" <=> c \in {Later, Again}
         /\ c[1] = "next" => c[2] \in {0, 1}
         /\ c[1] = "route" => c[2] \in Slots
         /\ c[1] = "send" => c[2] \in Slots
         /\ \A s \in Slots : c = Route(s) <=> c[1] = "route" /\ c[2] = s
         /\ \A s \in Slots : c = Transmit(s) <=> c[1] = "send" /\ c[2] = s
         /\ Later # Again
BY DEF Calls, Drain, Flush, Later, Again, Route, Transmit

\* What taking the call c from the calls t, or putting it in front, changes.
CallCounts(t, c, u) ==
  /\ \A s \in Slots : /\ Times(u, Route(s)) = Times(t, Route(s)) + Is(c = Route(s))
                      /\ Times(u, Transmit(s)) = Times(t, Transmit(s)) + Is(c = Transmit(s))
  /\ Nexts(u) = Nexts(t) + Is(c \in {Later, Again})
  /\ Times(u, Drain) = Times(t, Drain) + Is(c = Drain)

\* How often a call is in a list of calls is a number.
LEMMA CallsCounted ==
  ASSUME NEW t \in Seq(Calls)
  PROVE  /\ \A s \in Slots : Times(t, Route(s)) \in Nat /\ Times(t, Transmit(s)) \in Nat
         /\ Nexts(t) \in Nat /\ Times(t, Drain) \in Nat
BY TimesOfSeq DEF Nexts

\* What making one more call changes.
LEMMA CallMade ==
  ASSUME NEW c \in Calls, NEW t \in Seq(Calls)
  PROVE  <<c>> \o t \in Seq(Calls) /\ <<c>> \o t # <<>> /\ CallCounts(t, c, <<c>> \o t)
<1> DEFINE u == <<c>> \o t
<1>1. u \in Seq(Calls) /\ u # <<>> /\ \A d : Times(u, d) = Times(t, d) + Is(c = d)
  BY TimesCons
<1>2. Times(t, Later) \in Nat /\ Times(t, Again) \in Nat /\ Later # Again
  BY TimesOfSeq DEF Later, Again
<1> HIDE DEF u
<1>3. Nexts(u) = Nexts(t) + Is(c \in {Later, Again})
  BY <1>1, <1>2 DEF Nexts, Is
<1>4. CallCounts(t, c, u)
  BY <1>1, <1>3 DEF CallCounts
<1> QED BY <1>1, <1>4 DEF u

\* What taking the next call changes.
LEMMA CallTaken ==
  ASSUME NEW t \in Seq(Calls), t # <<>>
  PROVE  t[1] \in Calls /\ Tail(t) \in Seq(Calls) /\ CallCounts(Tail(t), t[1], t)
<1> DEFINE u == Tail(t)
           c == t[1]
<1>1. c \in Calls /\ u \in Seq(Calls)
  BY HeadTailProperties
<1>2. \A d : Times(u, d) = Times(t, d) - Is(c = d) /\ Times(u, d) \in Nat /\ Times(t, d) \in Nat
  BY TimesTail
<1> HIDE DEF u, c
<1>3. \A d : Times(t, d) = Times(u, d) + Is(c = d)
  BY <1>2 DEF Is
<1>4. Later # Again
  BY DEF Later, Again
<1>5. Nexts(t) = Nexts(u) + Is(c \in {Later, Again})
  BY <1>2, <1>3, <1>4 DEF Nexts, Is
<1>6. CallCounts(u, c, t)
  BY <1>3, <1>5 DEF CallCounts
<1> QED BY <1>1, <1>6 DEF u, c

-----------------------------------------------------------------------------
(* The inductive invariant.                                                *)

PoolTyped == pool \in [Slots -> {NoMsg} \cup Msgs \cup Frags] /\ used \subseteq Slots
QueueTyped == queue \in Seq(Slots \cup {Irq}) /\ Len(queue) <= QueueDepth
SessionTyped ==
    session \in [used : BOOLEAN, large : Larges \cup {NoMsg}, next : 0..(Total - 1),
                 retries : 0..FragRetryMax, ack : BOOLEAN, waiting : BOOLEAN]
AppTyped == app \in [at : {"idle", "holding", "opened", "filled"},
                     slot : Slots \cup {NoSlot}, item : Items \cup {NoMsg}]
WorkerTyped ==
    /\ phase \in {"wait", "delayed", "dispatched", "timeouts", "drive"}
    /\ todo \in Seq(Calls)
    /\ scan \in 1..(PoolSize + 1)
TableTyped ==
    /\ pending \in [Slots -> Slots \cup {NoSlot}]
    /\ clock \in [Slots -> {"off", "waiting", "elapsed", "future"}]
    /\ deferred \in Seq(Slots)
    /\ parked \subseteq Slots /\ ripe \subseteq Slots /\ jittered \subseteq Slots
RadioTyped == radio \in Slots \cup {NoSlot, Stale}
HistoryTyped ==
    /\ outcome \in [Items -> {"new", "accepted", "rejected", "ok", "failed"}]
    /\ reports \in [Items -> Nat]
    /\ delivered \subseteq Frags /\ early \subseteq Items \cup Frags
BoundsTyped == irqs \in 0..MaxIrq /\ duties \in 0..MaxDuty
Typed == /\ PoolTyped /\ QueueTyped /\ SessionTyped /\ AppTyped /\ WorkerTyped
         /\ TableTyped /\ RadioTyped /\ HistoryTyped /\ BoundsTyped

\* The application's slot and message while it is inside a call.
AppOK ==
    /\ app.at \in {"holding", "filled"} => app.slot \in used
    /\ app.at \notin {"holding", "filled"} => app.slot = NoSlot
    /\ app.at # "idle" => app.item \in Items /\ outcome[app.item] = "new"
    /\ app.at = "holding" => app.item \in Msgs /\ pool[app.slot] = app.item
    /\ app.at \in {"opened", "filled"} =>
          app.item \in Larges /\ session.used /\ session.large = app.item
    /\ app.at = "filled" => pool[app.slot] \in Frags

\* A running session: accepted unless startLargeSend is still at it, and every
\* fragment before the one it stands at delivered.
SessionOK ==
    /\ ~session.used => ~session.waiting
    /\ session.used =>
          /\ session.large \in Larges
          /\ app.at \notin {"opened", "filled"} => outcome[session.large] = "accepted"
          /\ \A k \in 0..(session.next - 1) : <<session.large, k>> \in delivered

\* A running session is in one place: as a fragment in the engine, as a call of
\* the worker for the next one, with startLargeSend, or waiting.
OneFragment ==
    /\ \A s, r \in InFlight : s = r
    /\ \A s \in InFlight : pool[s] = <<session.large, session.next>>
    /\ Nexts(todo) \in {0, 1}
    /\ InFlight # {} =>
          Nexts(todo) = 0 /\ session.used /\ ~session.waiting /\ app.at # "opened"
    /\ Nexts(todo) = 1 => session.used /\ app.at # "opened"
    /\ app.at = "opened" => ~session.waiting
    /\ session.used => \/ InFlight # {} \/ Nexts(todo) = 1
                       \/ app.at = "opened" \/ session.waiting

\* The messages in used slots: each one once, accepted unless the application
\* still holds it, and none in the reserved slot.
PoolOK ==
    /\ \A s \in used : pool[s] \in Msgs \cup Frags
    /\ \A s \in used : s # app.slot /\ pool[s] \in Msgs => outcome[pool[s]] = "accepted"
    /\ \A s, r \in used : pool[s] \in Msgs /\ pool[s] = pool[r] => s = r
    /\ PoolSize \in used => pool[PoolSize] \in Frags

Core == AppOK /\ SessionOK /\ OneFragment /\ PoolOK /\ LargeOkMeansAll

\* A received ACK is that of a pending entry, an unread frame has a wakeup left,
\* and only a taken entry has a clock.
WireOK ==
    /\ radio \in Slots => \E i \in Slots : pending[i] = radio
    /\ radio # NoSlot => queue # <<>> \/ Times(todo, Drain) > 0
    /\ \A i \in Slots : clock[i] # "off" => pending[i] # NoSlot

IInv == Typed /\ Core /\ WireOK /\ OneOwner

\* What ReportOnce says of a step.
ReportStep ==
    \A x \in Items : reports'[x] # reports[x] =>
        outcome[x] = "accepted" /\ outcome'[x] \in {"ok", "failed"}

\* A step that keeps the invariant and reports as it should.
Kept == Typed' /\ Core' /\ WireOK' /\ OneOwner' /\ ReportStep

-----------------------------------------------------------------------------
(* What the invariant says of the call and the slot in hand.               *)

\* The terms of Owners are numbers.
Counted(s) ==
    /\ Times(queue, s) \in Nat /\ Times(pending, s) \in Nat /\ Times(deferred, s) \in Nat
    /\ Times(todo, Route(s)) \in Nat /\ Times(todo, Transmit(s)) \in Nat
    /\ InSet({app.slot}, s) \in Nat /\ InSet(parked, s) \in Nat
    /\ InSet(ripe, s) \in Nat /\ InSet(used, s) \in Nat /\ InSet(used, s) <= 1

\* In a well typed state the terms of Owners are numbers.
LEMMA OwnersCounted ==
  ASSUME Typed, NEW s \in Slots
  PROVE  Counted(s)
<1>1. PoolSize \in Nat /\ pending \in [1..PoolSize -> Slots \cup {NoSlot}]
  BY SizeAssumption DEF Typed, TableTyped, Slots
<1>2. Times(pending, s) \in Nat
  BY <1>1, PlacesFinite
<1>3. Times(queue, s) \in Nat /\ Times(deferred, s) \in Nat
  BY TimesOfSeq DEF Typed, QueueTyped, TableTyped
<1>4. Times(todo, Route(s)) \in Nat /\ Times(todo, Transmit(s)) \in Nat
  BY CallsCounted DEF Typed, WorkerTyped
<1> QED BY <1>2, <1>3, <1>4 DEF InSet, Counted

\* By how much a step changes each kind of owner of the slot s.
MovesBy(s, a, q, p, d, k, r, t, u) ==
    /\ InSet({app'.slot}, s) = InSet({app.slot}, s) + a
    /\ Times(queue', s) = Times(queue, s) + q /\ Times(pending', s) = Times(pending, s) + p
    /\ Times(deferred', s) = Times(deferred, s) + d
    /\ InSet(parked', s) = InSet(parked, s) + k /\ InSet(ripe', s) = InSet(ripe, s) + r
    /\ Times(todo', Route(s)) = Times(todo, Route(s)) + t
    /\ Times(todo', Transmit(s)) = Times(todo, Transmit(s)) + u

\* The owners change by the sum of what each kind of them does.
LEMMA OwnersMove ==
  ASSUME NEW s, Counted(s), NEW a \in Int, NEW q \in Int, NEW p \in Int, NEW d \in Int,
         NEW k \in Int, NEW r \in Int, NEW t \in Int, NEW u \in Int,
         MovesBy(s, a, q, p, d, k, r, t, u)
  PROVE  Owners(s)' = Owners(s) + (a + q + p + d + k + r + t + u) /\ Owners(s) \in Nat
<1>1. PICK A, Q, P, D, K, R, T, U :
        /\ A = InSet({app.slot}, s) /\ Q = Times(queue, s) /\ P = Times(pending, s)
        /\ D = Times(deferred, s) /\ K = InSet(parked, s) /\ R = InSet(ripe, s)
        /\ T = Times(todo, Route(s)) /\ U = Times(todo, Transmit(s))
  OBVIOUS
<1>2. /\ A \in Nat /\ Q \in Nat /\ P \in Nat /\ D \in Nat /\ K \in Nat /\ R \in Nat
      /\ T \in Nat /\ U \in Nat
  BY <1>1 DEF Counted
<1>3. Owners(s) = A + Q + P + D + K + R + T + U
  BY <1>1 DEF Owners
<1>4. Owners(s)' = (A + a) + (Q + q) + (P + p) + (D + d) + (K + k) + (R + r) + (T + t) + (U + u)
  BY <1>1 DEF Owners, MovesBy
<1>5. (A + a) + (Q + q) + (P + p) + (D + d) + (K + k) + (R + r) + (T + t) + (U + u)
        = A + Q + P + D + K + R + T + U + (a + q + p + d + k + r + t + u)
  BY <1>2
<1> QED BY <1>2, <1>3, <1>4, <1>5

\* Where nothing is added, nothing changes.
LEMMA Still ==
  ASSUME NEW s, Counted(s)
  PROVE  /\ InSet({app.slot}, s) + 0 = InSet({app.slot}, s)
         /\ Times(queue, s) + 0 = Times(queue, s) /\ Times(pending, s) + 0 = Times(pending, s)
         /\ Times(deferred, s) + 0 = Times(deferred, s)
         /\ InSet(parked, s) + 0 = InSet(parked, s) /\ InSet(ripe, s) + 0 = InSet(ripe, s)
         /\ Times(todo, Route(s)) + 0 = Times(todo, Route(s))
         /\ Times(todo, Transmit(s)) + 0 = Times(todo, Transmit(s))
BY DEF Counted

\* The call in hand is a call, and what taking it changes.
LEMMA CallInHand ==
  ASSUME Typed, todo # <<>>
  PROVE  /\ todo[1] \in Calls /\ Tail(todo) \in Seq(Calls)
         /\ CallCounts(Tail(todo), todo[1], todo)
BY CallTaken DEF Typed, WorkerTyped

\* The slot of a _routeTxReq or _sendMsg call is in use, and is neither the
\* application's nor in _pending.
LEMMA SlotInHand ==
  ASSUME IInv, todo # <<>>, todo[1][1] \in {"route", "send"}
  PROVE  Arg \in used /\ Arg \in Slots /\ Arg # app.slot /\ Times(pending, Arg) = 0
<1>1. /\ todo[1] \in Calls /\ Tail(todo) \in Seq(Calls)
      /\ CallCounts(Tail(todo), todo[1], todo)
  BY CallInHand DEF IInv
<1>2. PICK s \in Slots : s = Arg /\ (todo[1] = Route(s) \/ todo[1] = Transmit(s))
  BY <1>1, KindsOfCall DEF Arg
<1>3. Times(todo, Route(s)) + Times(todo, Transmit(s)) > 0
  <2>1. Times(Tail(todo), Route(s)) \in Nat /\ Times(Tail(todo), Transmit(s)) \in Nat
    BY <1>1, CallsCounted
  <2> QED BY <1>1, <1>2, <2>1 DEF CallCounts, Is
<1>4. Owners(s) = InSet(used, s) /\ Typed
  BY DEF IInv, OneOwner
<1>5. InSet(used, s) > 0 /\ InSet({app.slot}, s) < 1 /\ Times(pending, s) < 1
  <2>1. Counted(s)
    BY <1>4, OwnersCounted
  <2>5. InSet(used, s) > 0
    BY <1>3, <1>4, <2>1 DEF Counted, Owners
  <2>6. InSet({app.slot}, s) < 1
    BY <1>3, <1>4, <2>1 DEF Counted, Owners
  <2>7. Times(pending, s) < 1
    BY <1>3, <1>4, <2>1 DEF Counted, Owners
  <2> QED BY <2>5, <2>6, <2>7
<1>6. Times(pending, s) \in Nat
  BY <1>4, OwnersCounted DEF Counted
<1>7. Times(pending, s) = 0
  BY <1>5, <1>6
<1> QED BY <1>2, <1>5, <1>7 DEF InSet

\* The slot of a _pending entry is in use and not the application's.
LEMMA SlotInTable ==
  ASSUME IInv, NEW i \in Slots, pending[i] # NoSlot
  PROVE  pending[i] \in used /\ pending[i] \in Slots /\ pending[i] # app.slot
<1>1. /\ PoolSize \in Nat /\ Slots = 1..PoolSize /\ DOMAIN pending = 1..PoolSize
      /\ pending[i] \in Slots
  BY SizeAssumption DEF IInv, Typed, TableTyped, Slots
<1>2. PICK s \in Slots : s = pending[i] /\ Times(pending, s) # 0
  BY <1>1, PlacesFinite
<1>3. Owners(s) = InSet(used, s) /\ Typed
  BY DEF IInv, OneOwner
<1>4. Times(pending, s) > 0
  <2>1. Times(pending, s) \in Nat
    BY <1>3, OwnersCounted DEF Counted
  <2> QED BY <1>2, <2>1
<1>5. InSet(used, s) > 0 /\ InSet({app.slot}, s) < 1
  <2>1. Counted(s)
    BY <1>3, OwnersCounted
  <2> QED BY <1>3, <1>4, <2>1 DEF Counted, Owners
<1> QED BY <1>2, <1>5 DEF InSet

-----------------------------------------------------------------------------
(* Steps that leave the pool, the session and the messages alone.          *)

\* A step that leaves pool, session, application and messages alone, and makes
\* or takes no call for a fragment, keeps the core of the invariant.
LEMMA CoreFrame ==
  ASSUME Core, UNCHANGED <<pool, used, session, app, outcome, delivered>>,
         Nexts(todo') = Nexts(todo)
  PROVE  Core'
<1>1. AppOK'
  BY DEF Core, AppOK
<1>2. SessionOK'
  BY DEF Core, SessionOK
<1>3. InFlight' = InFlight
  BY DEF InFlight, IsFragment
<1>4. OneFragment'
  BY <1>3 DEF Core, OneFragment
<1>5. PoolOK'
  BY DEF Core, PoolOK
<1>6. LargeOkMeansAll'
  BY DEF Core, LargeOkMeansAll
<1> QED BY <1>1, <1>2, <1>4, <1>5, <1>6 DEF Core

\* A step that reports nothing reports as it should.
LEMMA QuietReports ==
  ASSUME reports' = reports
  PROVE  ReportStep
BY DEF ReportStep

-----------------------------------------------------------------------------
(* The surroundings.                                                       *)

\* A frame arrives: it may acknowledge a pending message, and an event announces
\* it unless the queue is full, which then wakes the worker anyway.
LEMMA FrameArrivesKeeps ==
  ASSUME IInv, FrameArrives
  PROVE  Kept
<1> DEFINE room == radio = NoSlot /\ Len(queue) < QueueDepth
<1>1. /\ UNCHANGED <<poolVars, session, app, workerVars, tableVars, history, duties>>
      /\ irqs < MaxIrq /\ irqs' = irqs + 1
      /\ queue' = IF room THEN Append(queue, Irq) ELSE queue
      /\ radio' \in ({pending[i] : i \in Slots} \ {NoSlot}) \cup {Stale}
  BY DEF FrameArrives
<1>2. Typed /\ QueueDepth \in Nat \ {0} /\ MaxIrq \in Nat
  BY SizeAssumption DEF IInv
<1>3. QueueTyped'
  <2>1. CASE room
    <3>1. Append(queue, Irq) \in Seq(Slots \cup {Irq}) /\ Len(Append(queue, Irq)) = Len(queue) + 1
      BY <1>2, AppendProperties DEF Typed, QueueTyped
    <3>2. Len(queue) \in Nat /\ Len(queue) < QueueDepth
      BY <1>2, <2>1, LenProperties DEF Typed, QueueTyped
    <3> QED BY <1>1, <1>2, <2>1, <3>1, <3>2 DEF QueueTyped
  <2>2. CASE ~room
    BY <1>1, <1>2, <2>2 DEF Typed, QueueTyped
  <2> QED BY <2>1, <2>2
<1>4. RadioTyped'
  BY <1>1, <1>2 DEF Typed, RadioTyped, TableTyped
<1>5. BoundsTyped'
  BY <1>1, <1>2 DEF Typed, BoundsTyped, bounds
<1>6. Typed'
  BY <1>1, <1>2, <1>3, <1>4, <1>5 DEF Typed, PoolTyped, SessionTyped, AppTyped, WorkerTyped,
     TableTyped, HistoryTyped, poolVars, workerVars, tableVars, history
<1>7. Core'
  BY <1>1, CoreFrame DEF IInv, poolVars, workerVars, history
<1>8. WireOK'
  <2>1. queue' # <<>> \/ (radio # NoSlot /\ queue' = queue) \/ (Len(queue) = QueueDepth /\ queue' = queue)
    <3>1. Len(queue) <= QueueDepth /\ Len(queue) \in Nat
      BY <1>2, LenProperties DEF Typed, QueueTyped
    <3>2. CASE room
      BY <1>1, <1>2, <3>2, AppendProperties DEF Typed, QueueTyped
    <3>3. CASE ~room
      <4>1. radio # NoSlot \/ Len(queue) = QueueDepth
        BY <1>2, <3>1, <3>3
      <4> QED BY <1>1, <3>3, <4>1
    <3> QED BY <3>2, <3>3
  <2>2. Len(queue) = QueueDepth => queue # <<>>
    BY <1>2, EmptySeq
  <2>3. queue' # <<>> \/ Times(todo', Drain) > 0
    BY <1>1, <2>1, <2>2 DEF IInv, WireOK, workerVars
  <2>4. radio' \in Slots => \E i \in Slots : pending'[i] = radio'
    BY <1>1, SizeAssumption DEF tableVars, Stale, Slots
  <2> QED BY <1>1, <2>3, <2>4 DEF IInv, WireOK, tableVars
<1>9. OneOwner'
  <2> SUFFICES ASSUME NEW s \in Slots PROVE Owners(s)' = InSet(used', s)
    BY DEF OneOwner
  <2>1. Times(queue', s) = Times(queue, s)
    <3>1. Irq # s /\ Times(queue, s) \in Nat
      BY <1>2, SizeAssumption, OwnersCounted DEF Irq, Slots, Counted
    <3>2. Times(Append(queue, Irq), s) = Times(queue, s) + Is(Irq = s)
      BY <1>2, TimesAppend DEF Typed, QueueTyped
    <3> QED BY <1>1, <3>1, <3>2 DEF Is
  <2>2. Owners(s)' = Owners(s)
    BY <1>1, <2>1 DEF Owners, tableVars, workerVars
  <2> QED BY <1>1, <2>2 DEF IInv, OneOwner, poolVars
<1>10. ReportStep
  BY <1>1, QuietReports DEF history
<1> QED BY <1>6, <1>7, <1>8, <1>9, <1>10 DEF Kept

\* An ACK timeout runs out.
LEMMA ElapseKeeps ==
  ASSUME IInv, NEW i \in Slots, Elapse(i)
  PROVE  Kept
<1>1. /\ clock[i] = "waiting" /\ clock' = [clock EXCEPT ![i] = "elapsed"]
      /\ UNCHANGED <<poolVars, queue, session, app, workerVars, pending, deferred, parked,
                     ripe, jittered, radio, history, bounds>>
  BY DEF Elapse
<1>2. Typed'
  BY <1>1 DEF IInv, Typed, PoolTyped, QueueTyped, SessionTyped, AppTyped, WorkerTyped,
     TableTyped, RadioTyped, HistoryTyped, BoundsTyped, poolVars, workerVars, history, bounds
<1>3. Core'
  BY <1>1, CoreFrame DEF IInv, poolVars, workerVars, history
<1>4. WireOK'
  <2>1. \A j \in Slots : clock'[j] # "off" => pending[j] # NoSlot
    BY <1>1 DEF IInv, WireOK, Typed, TableTyped
  <2> QED BY <1>1, <2>1 DEF IInv, WireOK, workerVars
<1>5. OneOwner'
  BY <1>1 DEF IInv, OneOwner, Owners, poolVars, workerVars
<1>6. ReportStep
  BY <1>1, QuietReports DEF history
<1> QED BY <1>2, <1>3, <1>4, <1>5, <1>6 DEF Kept

\* The wake time of a delayed message comes.
LEMMA RipenKeeps ==
  ASSUME IInv, NEW s \in Slots, Ripen(s)
  PROVE  Kept
<1>1. /\ s \in parked /\ parked' = parked \ {s} /\ ripe' = ripe \cup {s}
      /\ UNCHANGED <<poolVars, queue, session, app, workerVars, pending, clock, deferred,
                     jittered, radio, history, bounds>>
  BY DEF Ripen
<1>2. Typed'
  BY <1>1 DEF IInv, Typed, PoolTyped, QueueTyped, SessionTyped, AppTyped, WorkerTyped,
     TableTyped, RadioTyped, HistoryTyped, BoundsTyped, poolVars, workerVars, history, bounds
<1>3. Core'
  BY <1>1, CoreFrame DEF IInv, poolVars, workerVars, history
<1>4. WireOK'
  BY <1>1 DEF IInv, WireOK, workerVars
<1>5. OneOwner'
  <2> SUFFICES ASSUME NEW r \in Slots PROVE Owners(r)' = InSet(used', r)
    BY DEF OneOwner
  <2>1. Owners(r) = InSet(used, r) /\ Typed
    BY DEF IInv, OneOwner
  <2>c. Counted(r)
    BY <2>1, OwnersCounted
  <2>2. UNCHANGED <<app, queue, pending, deferred, todo>>
    BY <1>1 DEF workerVars
  <2>3. Owners(r)' = Owners(r)
    <3>1. CASE r = s
      <4>1. InSet(parked, r) = 1 /\ InSet(parked', r) = 0 /\ InSet(ripe', r) = 1
        BY <1>1, <3>1 DEF InSet
      <4>2. InSet(ripe, r) < 1
        BY <2>1, <2>c, <4>1 DEF Owners, Counted
      <4>3. InSet(ripe, r) = 0
        BY <4>2 DEF InSet
      <4>4. MovesBy(r, 0, 0, 0, 0, -1, 1, 0, 0)
        BY <2>2, <2>c, <4>1, <4>3, Still DEF MovesBy
      <4> QED BY <2>c, <4>4, OwnersMove
    <3>2. CASE r # s
      <4>1. InSet(parked', r) = InSet(parked, r) /\ InSet(ripe', r) = InSet(ripe, r)
        BY <1>1, <3>2 DEF InSet
      <4> QED BY <2>2, <4>1 DEF Owners
    <3> QED BY <3>1, <3>2
  <2> QED BY <1>1, <2>1, <2>3 DEF poolVars
<1>6. ReportStep
  BY <1>1, QuietReports DEF history
<1> QED BY <1>2, <1>3, <1>4, <1>5, <1>6 DEF Kept

-----------------------------------------------------------------------------
(* The application thread.                                                 *)

\* acquire(): a free slot gets its first owner, the application thread.
LEMMA AcquireKeeps ==
  ASSUME IInv, NEW m \in Msgs, Acquire(m)
  PROVE  Kept
<1> DEFINE n == LowestFree(FALSE)
<1>1. /\ app.at = "idle" /\ outcome[m] = "new"
      /\ pool' = [pool EXCEPT ![n] = m] /\ used' = used \cup {n}
      /\ app' = [at |-> "holding", slot |-> n, item |-> m]
      /\ UNCHANGED <<queue, session, workerVars, tableVars, radio, history, bounds>>
  BY DEF Acquire, Filled
<1>2. n \in Slots /\ n \notin used /\ n # PoolSize
  BY LowestIsFree DEF Acquire
<1>3. m \in Items /\ m \notin Frags
  BY MsgAssumption DEF Items
<1> HIDE DEF n
<1>4. /\ Typed /\ AppOK /\ SessionOK /\ OneFragment /\ PoolOK /\ LargeOkMeansAll
      /\ app.slot = NoSlot /\ NoSlot \notin Slots
  BY <1>1, SizeAssumption DEF IInv, Core, AppOK, NoSlot, Slots
<1>5. pool'[n] = m /\ \A s \in used : s \in Slots /\ s # n /\ pool'[s] = pool[s]
  BY <1>1, <1>2, <1>4 DEF Typed, PoolTyped
<1>6. Typed'
  BY <1>1, <1>2, <1>3, <1>4 DEF Typed, PoolTyped, QueueTyped, SessionTyped, AppTyped, WorkerTyped,
     TableTyped, RadioTyped, HistoryTyped, BoundsTyped, workerVars, tableVars, history, bounds
<1>7. Core'
  <2>1. AppOK'
    BY <1>1, <1>3, <1>5 DEF AppOK, history
  <2>2. SessionOK'
    BY <1>1, <1>4 DEF SessionOK, history
  <2>3. InFlight' = InFlight
    BY <1>1, <1>3, <1>5 DEF InFlight, IsFragment
  <2>4. OneFragment'
    <3>1. \A s \in InFlight : pool'[s] = pool[s]
      BY <1>5 DEF InFlight
    <3> QED BY <1>1, <1>4, <2>3, <3>1 DEF OneFragment, workerVars
  <2>5. PoolOK'
    <3>1. \A s \in used : pool[s] # m
      BY <1>1, <1>2, <1>4 DEF PoolOK, Typed, PoolTyped
    <3>2. \A s \in used' : pool'[s] \in Msgs \cup Frags
      BY <1>1, <1>4, <1>5 DEF PoolOK
    <3>3. \A s \in used' : s # app'.slot /\ pool'[s] \in Msgs => outcome'[pool'[s]] = "accepted"
      BY <1>1, <1>4, <1>5 DEF PoolOK, history
    <3>4. \A s, r \in used' : pool'[s] \in Msgs /\ pool'[s] = pool'[r] => s = r
      BY <1>1, <1>4, <1>5, <3>1 DEF PoolOK
    <3>5. PoolSize \in used' => pool'[PoolSize] \in Frags
      BY <1>1, <1>2, <1>4, <1>5 DEF PoolOK
    <3> QED BY <3>2, <3>3, <3>4, <3>5 DEF PoolOK
  <2>6. LargeOkMeansAll'
    BY <1>1, <1>4 DEF LargeOkMeansAll, history
  <2> QED BY <2>1, <2>2, <2>4, <2>5, <2>6 DEF Core
<1>8. WireOK'
  BY <1>1 DEF IInv, WireOK, workerVars, tableVars
<1>9. OneOwner'
  <2> SUFFICES ASSUME NEW s \in Slots PROVE Owners(s)' = InSet(used', s)
    BY DEF OneOwner
  <2>1. Owners(s) = InSet(used, s) /\ Counted(s)
    BY <1>4, OwnersCounted DEF IInv, OneOwner
  <2>2. UNCHANGED <<queue, pending, deferred, parked, ripe, todo>>
    BY <1>1 DEF tableVars, workerVars
  <2>3. CASE s = n
    <3>1. InSet(used, s) = 0 /\ InSet(used', s) = 1 /\ InSet({app.slot}, s) = 0
          /\ InSet({app'.slot}, s) = 1
      BY <1>1, <1>2, <1>4, <2>3 DEF InSet
    <3>2. MovesBy(s, 1, 0, 0, 0, 0, 0, 0, 0)
      BY <2>1, <2>2, <3>1, Still DEF MovesBy
    <3>3. Owners(s)' = Owners(s) + 1
      BY <2>1, <3>2, OwnersMove
    <3> QED BY <2>1, <3>1, <3>3
  <2>4. CASE s # n
    <3>1. InSet(used', s) = InSet(used, s) /\ InSet({app'.slot}, s) = InSet({app.slot}, s)
      BY <1>1, <1>4, <2>4 DEF InSet
    <3> QED BY <2>1, <2>2, <3>1 DEF Owners
  <2> QED BY <2>3, <2>4
<1>10. ReportStep
  BY <1>1, QuietReports DEF history
<1> QED BY <1>6, <1>7, <1>8, <1>9, <1>10 DEF Kept

\* The calls of the application thread in which the slot app.slot changes hands:
\* it goes to the queue or is freed.
LEMMA HandOver ==
  ASSUME IInv, app.at \in {"holding", "filled"}, app' = Resting,
         UNCHANGED <<pending, deferred, parked, ripe, todo>>,
         \/ queue' = Append(queue, app.slot) /\ used' = used
         \/ queue' = queue /\ used' = used \ {app.slot}
  PROVE  OneOwner'
<1>1. Typed /\ app.slot \in used /\ app.slot \in Slots /\ NoSlot \notin Slots /\ app'.slot = NoSlot
  <2>1. app'.slot = NoSlot
    BY DEF Resting
  <2>2. app.slot \in used /\ Typed
    BY DEF IInv, Core, AppOK
  <2>3. NoSlot \notin Slots
    BY SizeAssumption DEF Slots, NoSlot
  <2> QED BY <2>1, <2>2, <2>3 DEF Typed, PoolTyped
<1> SUFFICES ASSUME NEW s \in Slots PROVE Owners(s)' = InSet(used', s)
  BY DEF OneOwner
<1>2. Owners(s) = InSet(used, s) /\ Counted(s)
  BY <1>1, OwnersCounted DEF IInv, OneOwner
<1>3. Times(Append(queue, app.slot), s) = Times(queue, s) + Is(app.slot = s)
  BY <1>1, TimesAppend DEF Typed, QueueTyped
<1>4. CASE s = app.slot
  <2>1. /\ InSet(used, s) = 1 /\ InSet({app.slot}, s) = 1 /\ InSet({app'.slot}, s) = 0
        /\ InSet(used \ {app.slot}, s) = 0
        /\ Times(Append(queue, app.slot), s) = Times(queue, s) + 1
    BY <1>1, <1>3, <1>4 DEF InSet, Is
  <2>2. CASE queue' = Append(queue, app.slot) /\ used' = used
    <3>1. MovesBy(s, -1, 1, 0, 0, 0, 0, 0, 0)
      BY <1>2, <2>1, <2>2, Still DEF MovesBy
    <3>2. Owners(s)' = Owners(s)
      BY <1>2, <3>1, OwnersMove
    <3> QED BY <1>2, <2>2, <3>2
  <2>3. CASE queue' = queue /\ used' = used \ {app.slot}
    <3>1. MovesBy(s, -1, 0, 0, 0, 0, 0, 0, 0)
      BY <1>2, <2>1, <2>3, Still DEF MovesBy
    <3>2. Owners(s)' = Owners(s) - 1
      <4>1. Owners(s)' = Owners(s) + ((-1) + 0 + 0 + 0 + 0 + 0 + 0 + 0) /\ Owners(s) \in Nat
        BY <1>2, <3>1, OwnersMove
      <4> QED BY <4>1
    <3> QED BY <1>2, <2>1, <2>3, <3>2
  <2> QED BY <2>2, <2>3
<1>5. CASE s # app.slot
  <2>0. Times(queue, s) \in Nat
    BY <1>2 DEF Counted
  <2>1. /\ InSet(used \ {app.slot}, s) = InSet(used, s)
        /\ InSet({app'.slot}, s) = InSet({app.slot}, s)
        /\ Times(Append(queue, app.slot), s) = Times(queue, s)
    BY <1>1, <1>3, <1>5, <2>0 DEF InSet, Is
  <2> QED BY <1>2, <2>1 DEF Owners
<1> QED BY <1>4, <1>5

\* An event queued while there is room keeps the queue within its depth.
LEMMA QueueGrows ==
  ASSUME IInv, NEW s \in Slots, Len(queue) < QueueDepth
  PROVE  /\ Append(queue, s) \in Seq(Slots \cup {Irq}) /\ Len(Append(queue, s)) <= QueueDepth
         /\ Append(queue, s) # <<>>
<1>1. queue \in Seq(Slots \cup {Irq}) /\ Len(queue) \in Nat /\ QueueDepth \in Nat
  BY SizeAssumption, LenProperties DEF IInv, Typed, QueueTyped
<1>2. Append(queue, s) \in Seq(Slots \cup {Irq}) /\ Len(Append(queue, s)) = Len(queue) + 1
      /\ Append(queue, s) # <<>>
  BY <1>1, AppendProperties
<1> QED BY <1>1, <1>2

\* send(): the slot passes to the queue, or is freed.
LEMMA SubmitKeeps ==
  ASSUME IInv, Submit
  PROVE  Kept
<1> DEFINE room == Len(queue) < QueueDepth
           verdict == IF room THEN "accepted" ELSE "rejected"
<1>1. /\ app.at = "holding" /\ app' = Resting /\ jittered' = jittered \ {app.slot}
      /\ outcome' = [outcome EXCEPT ![app.item] = verdict]
      /\ pool' = pool
      /\ \/ room /\ queue' = Append(queue, app.slot) /\ used' = used
         \/ ~room /\ queue' = queue /\ used' = used \ {app.slot}
      /\ UNCHANGED <<session, workerVars, pending, clock, deferred, parked, ripe, radio,
                     reports, delivered, early, bounds>>
  BY DEF Submit, Freed, poolVars
<1>2. /\ Typed /\ AppOK /\ SessionOK /\ OneFragment /\ PoolOK /\ LargeOkMeansAll
      /\ app.slot \in used /\ app.item \in Msgs /\ pool[app.slot] = app.item
      /\ app.item \in Items /\ app.item \notin Larges /\ app.item \notin Frags
      /\ NoSlot \notin Slots /\ app.slot \in Slots
  <2>1. Typed /\ AppOK /\ SessionOK /\ OneFragment /\ PoolOK /\ LargeOkMeansAll
    BY DEF IInv, Core
  <2>2. app.slot \in used /\ app.item \in Msgs /\ pool[app.slot] = app.item
    BY <1>1, <2>1 DEF AppOK
  <2>3. app.item \in Items /\ app.item \notin Larges /\ app.item \notin Frags
    BY <2>2, MsgAssumption DEF Items
  <2>4. NoSlot \notin Slots
    BY SizeAssumption DEF Slots, NoSlot
  <2> QED BY <2>1, <2>2, <2>3, <2>4 DEF Typed, PoolTyped
<1>3. /\ app'.at = "idle" /\ app'.slot = NoSlot /\ app'.item = NoMsg
      /\ app' \in [at : {"idle", "holding", "opened", "filled"},
                   slot : Slots \cup {NoSlot}, item : Items \cup {NoMsg}]
  BY <1>1 DEF Resting
<1>4. /\ outcome'[app.item] = verdict
      /\ \A x \in Items : x # app.item => outcome'[x] = outcome[x]
      /\ outcome' \in [Items -> {"new", "accepted", "rejected", "ok", "failed"}]
  BY <1>1, <1>2 DEF Typed, HistoryTyped
<1>5. Typed'
  <2>1. QueueTyped'
    BY <1>1, <1>2, QueueGrows DEF Typed, QueueTyped
  <2>2. AppTyped' /\ PoolTyped' /\ HistoryTyped'
    BY <1>1, <1>2, <1>3, <1>4 DEF Typed, PoolTyped, AppTyped, HistoryTyped
  <2>3. WorkerTyped' /\ TableTyped' /\ SessionTyped' /\ RadioTyped' /\ BoundsTyped'
    BY <1>1, <1>2 DEF Typed, WorkerTyped, TableTyped, SessionTyped, RadioTyped, BoundsTyped,
       workerVars, bounds
  <2> QED BY <2>1, <2>2, <2>3 DEF Typed
<1>6. Core'
  <2>1. AppOK'
    BY <1>3 DEF AppOK
  <2>2. SessionOK'
    <3>1. \A l \in Larges : l \in Items /\ outcome'[l] = outcome[l]
      BY <1>2, <1>4 DEF Items
    <3> QED BY <1>1, <1>2, <1>3, <3>1 DEF SessionOK
  <2>3. InFlight' = InFlight
    BY <1>1, <1>2 DEF InFlight, IsFragment
  <2>4. OneFragment'
    BY <1>1, <1>2, <1>3, <2>3 DEF OneFragment, workerVars
  <2>5. PoolOK'
    <3>1. ASSUME NEW s \in used', pool[s] \in Msgs PROVE outcome'[pool[s]] = "accepted"
      <4>1. CASE s = app.slot
        BY <1>1, <1>2, <1>4, <3>1, <4>1
      <4>2. CASE s # app.slot
        <5>1. pool[s] # app.item /\ outcome[pool[s]] = "accepted" /\ pool[s] \in Items
          BY <1>1, <1>2, <3>1, <4>2 DEF PoolOK, Items
        <5> QED BY <1>4, <5>1
      <4> QED BY <4>1, <4>2
    <3>2. used' \subseteq used
      BY <1>1
    <3> QED BY <1>1, <1>2, <3>1, <3>2 DEF PoolOK
  <2>6. LargeOkMeansAll'
    <3>1. \A l \in Larges : l \in Items /\ outcome'[l] = outcome[l]
      BY <1>2, <1>4 DEF Items
    <3> QED BY <1>1, <1>2, <3>1 DEF LargeOkMeansAll
  <2> QED BY <2>1, <2>2, <2>4, <2>5, <2>6 DEF Core
<1>7. WireOK'
  <2>1. queue' # <<>> \/ queue' = queue
    BY <1>1, <1>2, QueueGrows
  <2> QED BY <1>1, <2>1 DEF IInv, WireOK, workerVars
<1>8. OneOwner'
  BY <1>1, HandOver DEF workerVars
<1>9. ReportStep
  BY <1>1, QuietReports
<1> QED BY <1>5, <1>6, <1>7, <1>8, <1>9 DEF Kept

\* startLargeSend opens the session, at its first fragment.
LEMMA OpenSessionKeeps ==
  ASSUME IInv, NEW l \in Larges, NEW ack \in BOOLEAN, OpenSession(l, ack)
  PROVE  Kept
<1>1. /\ app.at = "idle" /\ outcome[l] = "new" /\ ~session.used
      /\ session' = [used |-> TRUE, large |-> l, next |-> 0, retries |-> 0,
                     ack |-> ack, waiting |-> FALSE]
      /\ app' = [at |-> "opened", slot |-> NoSlot, item |-> l]
      /\ UNCHANGED <<poolVars, queue, workerVars, tableVars, radio, history, bounds>>
  BY DEF OpenSession
<1>2. Typed /\ AppOK /\ SessionOK /\ OneFragment /\ PoolOK /\ LargeOkMeansAll
  BY DEF IInv, Core
<1>3. app.slot = NoSlot
  BY <1>1, <1>2 DEF AppOK
<1>4. Total \in Nat /\ Total > 1 /\ FragRetryMax \in Nat /\ l \in Items
  BY SizeAssumption DEF Items
<1>5. session'.used = TRUE /\ session'.large = l /\ session'.next = 0 /\ session'.waiting = FALSE
  BY <1>1
<1>6. app'.at = "opened" /\ app'.slot = NoSlot /\ app'.item = l
  BY <1>1
<1>7. Typed'
  <2>1. SessionTyped'
    BY <1>1, <1>4 DEF SessionTyped
  <2>2. AppTyped'
    BY <1>1, <1>4 DEF AppTyped
  <2> QED BY <1>1, <1>2, <2>1, <2>2 DEF Typed, PoolTyped, QueueTyped, WorkerTyped,
       TableTyped, RadioTyped, HistoryTyped, BoundsTyped, poolVars, workerVars, tableVars,
       history, bounds
<1>8. Core'
  <2>1. AppOK'
    BY <1>1, <1>4, <1>5, <1>6 DEF AppOK, history
  <2>2. SessionOK'
    <3>1. \A k \in 0..(session'.next - 1) : FALSE
      BY <1>5
    <3> QED BY <1>5, <1>6, <3>1 DEF SessionOK
  <2>3. InFlight' = InFlight /\ InFlight = {} /\ Nexts(todo) = 0 /\ todo' = todo
    BY <1>1, <1>2 DEF InFlight, IsFragment, poolVars, OneFragment, workerVars
  <2>4. OneFragment'
    BY <1>5, <1>6, <2>3 DEF OneFragment
  <2>5. PoolOK'
    BY <1>1, <1>2, <1>3, <1>6 DEF PoolOK, poolVars, history
  <2>6. LargeOkMeansAll'
    BY <1>1, <1>2 DEF LargeOkMeansAll, history
  <2> QED BY <2>1, <2>2, <2>4, <2>5, <2>6 DEF Core
<1>9. WireOK'
  BY <1>1 DEF IInv, WireOK, workerVars, tableVars
<1>10. OneOwner'
  <2>1. app'.slot = app.slot
    BY <1>3, <1>6
  <2> QED BY <1>1, <2>1 DEF IInv, OneOwner, Owners, workerVars, tableVars, poolVars
<1>11. ReportStep
  BY <1>1, QuietReports DEF history
<1> QED BY <1>7, <1>8, <1>9, <1>10, <1>11 DEF Kept

\* A released session is well typed.
LEMMA IdleTyped ==
  ASSUME session' = Idle
  PROVE  SessionTyped' /\ session'.used = FALSE /\ session'.waiting = FALSE
<1>1. Total \in Nat /\ Total > 1 /\ FragRetryMax \in Nat
  BY SizeAssumption
<1>2. 0 \in 0..(Total - 1) /\ 0 \in 0..FragRetryMax
  BY <1>1
<1> QED BY <1>2 DEF Idle, SessionTyped

\* startLargeSend fills the first fragment, or releases the session.
LEMMA FillFirstKeeps ==
  ASSUME IInv, FillFirst
  PROVE  Kept
<1>1. /\ app.at = "opened"
      /\ UNCHANGED <<queue, workerVars, tableVars, radio, reports, delivered, early, bounds>>
  BY DEF FillFirst
<1>2. /\ Typed /\ AppOK /\ SessionOK /\ OneFragment /\ PoolOK /\ LargeOkMeansAll
      /\ app.item \in Larges /\ session.used /\ session.large = app.item /\ app.slot = NoSlot
      /\ outcome[app.item] = "new" /\ app.item \in Items /\ app.item \notin Msgs
      /\ InFlight = {} /\ Nexts(todo) = 0 /\ ~session.waiting
  <2>1. Typed /\ AppOK /\ SessionOK /\ OneFragment /\ PoolOK /\ LargeOkMeansAll
    BY DEF IInv, Core
  <2>2. app.item \in Larges /\ session.used /\ session.large = app.item /\ app.slot = NoSlot
    BY <1>1, <2>1 DEF AppOK
  <2>3. InFlight = {} /\ Nexts(todo) = 0 /\ ~session.waiting
    BY <1>1, <2>1 DEF OneFragment
  <2>4. outcome[app.item] = "new" /\ app.item \in Items /\ app.item \notin Msgs
    BY <1>1, <2>1, <2>2, MsgAssumption DEF AppOK, Items
  <2> QED BY <2>1, <2>2, <2>3, <2>4
<1>3. NoSlot \notin Slots
  BY SizeAssumption DEF Slots, NoSlot
<1>4. CASE CanAlloc(TRUE)
  <2> DEFINE n == LowestFree(TRUE)
             f == <<app.item, session.next>>
  <2>1. /\ pool' = [pool EXCEPT ![n] = f] /\ used' = used \cup {n}
        /\ app' = [app EXCEPT !.at = "filled", !.slot = n]
        /\ UNCHANGED <<session, outcome>>
    BY <1>4 DEF FillFirst, Filled
  <2>2. n \in Slots /\ n \notin used
    BY <1>4, LowestIsFree
  <2>3. f \in Frags
    BY <1>2 DEF Frags, Typed, SessionTyped
  <2>4. f = <<session.large, session.next>>
    BY <1>2
  <2> HIDE DEF n, f
  <2>5. f \notin Msgs
    BY <2>3, MsgAssumption
  <2>6. /\ app'.at = "filled" /\ app'.slot = n /\ app'.item = app.item
        /\ AppTyped'
    BY <1>2, <2>1, <2>2 DEF Typed, AppTyped
  <2>7. pool'[n] = f /\ \A s \in used : s \in Slots /\ s # n /\ pool'[s] = pool[s]
    BY <1>2, <2>1, <2>2 DEF Typed, PoolTyped
  <2>8. Typed'
    <3>1. PoolTyped'
      BY <1>2, <2>1, <2>2, <2>3 DEF Typed, PoolTyped
    <3> QED BY <1>1, <1>2, <2>1, <2>6, <3>1 DEF Typed, QueueTyped, WorkerTyped, SessionTyped,
         TableTyped, RadioTyped, HistoryTyped, BoundsTyped, workerVars, tableVars, bounds
  <2>9. Core'
    <3>1. AppOK'
      BY <1>2, <2>1, <2>3, <2>6, <2>7 DEF AppOK
    <3>2. SessionOK'
      BY <1>1, <1>2, <2>1, <2>6 DEF SessionOK
    <3>3. InFlight' = {n}
      <4>1. \A s \in used' : s = n \/ s \in used
        BY <2>1
      <4>2. n \in used'
        BY <2>1
      <4>3. \A s \in used : pool[s] \notin Frags
        BY <1>2 DEF InFlight, IsFragment
      <4>4. \A s \in used' : pool'[s] \in Frags <=> s = n
        BY <2>2, <2>3, <2>7, <4>1, <4>3
      <4>5. InFlight' = {s \in used' : pool'[s] \in Frags}
        BY DEF InFlight, IsFragment
      <4> QED BY <4>2, <4>4, <4>5
    <3>4. OneFragment'
      BY <1>1, <1>2, <2>1, <2>4, <2>6, <2>7, <3>3 DEF OneFragment, workerVars
    <3>5. PoolOK'
      <4>1. \A s \in used' : pool'[s] \in Msgs \cup Frags
        BY <1>2, <2>1, <2>3, <2>7 DEF PoolOK
      <4>2. \A s \in used' : s # app'.slot /\ pool'[s] \in Msgs => outcome'[pool'[s]] = "accepted"
        BY <1>2, <1>3, <2>1, <2>6, <2>7 DEF PoolOK
      <4>3. \A s, r \in used' : pool'[s] \in Msgs /\ pool'[s] = pool'[r] => s = r
        BY <1>2, <2>1, <2>5, <2>7 DEF PoolOK
      <4>4. PoolSize \in used' => pool'[PoolSize] \in Frags
        BY <1>2, <2>1, <2>3, <2>7 DEF PoolOK
      <4> QED BY <4>1, <4>2, <4>3, <4>4 DEF PoolOK
    <3>6. LargeOkMeansAll'
      BY <1>1, <1>2, <2>1 DEF LargeOkMeansAll
    <3> QED BY <3>1, <3>2, <3>4, <3>5, <3>6 DEF Core
  <2>10. WireOK'
    BY <1>1 DEF IInv, WireOK, workerVars, tableVars
  <2>11. OneOwner'
    <3> SUFFICES ASSUME NEW s \in Slots PROVE Owners(s)' = InSet(used', s)
      BY DEF OneOwner
    <3>1. Owners(s) = InSet(used, s) /\ Counted(s)
      BY <1>2, OwnersCounted DEF IInv, OneOwner
    <3>2. UNCHANGED <<queue, pending, deferred, parked, ripe, todo>>
      BY <1>1 DEF tableVars, workerVars
    <3>3. CASE s = n
      <4>1. InSet(used, s) = 0 /\ InSet(used', s) = 1 /\ InSet({app.slot}, s) = 0
            /\ InSet({app'.slot}, s) = 1
        BY <1>2, <1>3, <2>1, <2>2, <2>6, <3>3 DEF InSet
      <4>2. MovesBy(s, 1, 0, 0, 0, 0, 0, 0, 0)
        BY <3>1, <3>2, <4>1, Still DEF MovesBy
      <4>3. Owners(s)' = Owners(s) + 1
        BY <3>1, <4>2, OwnersMove
      <4> QED BY <3>1, <4>1, <4>3
    <3>4. CASE s # n
      <4>1. InSet(used', s) = InSet(used, s) /\ InSet({app'.slot}, s) = InSet({app.slot}, s)
        BY <1>2, <1>3, <2>1, <2>6, <3>4 DEF InSet
      <4> QED BY <3>1, <3>2, <4>1 DEF Owners
    <3> QED BY <3>3, <3>4
  <2>12. ReportStep
    BY <1>1, QuietReports
  <2> QED BY <2>8, <2>9, <2>10, <2>11, <2>12 DEF Kept
<1>5. CASE ~CanAlloc(TRUE)
  <2>1. /\ session' = Idle /\ app' = Resting
        /\ outcome' = [outcome EXCEPT ![app.item] = "rejected"]
        /\ UNCHANGED poolVars
    BY <1>5 DEF FillFirst
  <2>2. SessionTyped' /\ session'.used = FALSE /\ session'.waiting = FALSE
    BY <2>1, IdleTyped
  <2>3. app'.at = "idle" /\ app'.slot = NoSlot /\ AppTyped'
    BY <2>1 DEF Resting, AppTyped
  <2>4. /\ outcome'[app.item] = "rejected"
        /\ \A x \in Items : x # app.item => outcome'[x] = outcome[x]
        /\ outcome' \in [Items -> {"new", "accepted", "rejected", "ok", "failed"}]
    BY <1>2, <2>1 DEF Typed, HistoryTyped
  <2>5. Typed'
    BY <1>1, <1>2, <2>1, <2>2, <2>3, <2>4 DEF Typed, PoolTyped, QueueTyped, WorkerTyped,
       TableTyped, RadioTyped, HistoryTyped, BoundsTyped, workerVars, tableVars, bounds, poolVars
  <2>6. Core'
    <3>1. AppOK'
      BY <2>3 DEF AppOK
    <3>2. SessionOK'
      BY <2>2 DEF SessionOK
    <3>3. InFlight' = {}
      BY <1>2, <2>1 DEF InFlight, IsFragment, poolVars
    <3>4. OneFragment'
      BY <1>1, <1>2, <2>2, <2>3, <3>3 DEF OneFragment, workerVars
    <3>5. PoolOK'
      <4>1. \A x \in Msgs : x \in Items /\ outcome'[x] = outcome[x]
        BY <1>2, <2>4 DEF Items
      <4> QED BY <1>2, <2>1, <2>3, <4>1 DEF PoolOK, poolVars
    <3>6. LargeOkMeansAll'
      <4>1. \A x \in Larges : x \in Items /\ (outcome'[x] = "ok" => outcome[x] = "ok")
        BY <2>4 DEF Items
      <4> QED BY <1>1, <1>2, <4>1 DEF LargeOkMeansAll
    <3> QED BY <3>1, <3>2, <3>4, <3>5, <3>6 DEF Core
  <2>7. WireOK'
    BY <1>1 DEF IInv, WireOK, workerVars, tableVars
  <2>8. OneOwner'
    <3>1. app'.slot = app.slot
      BY <1>2, <2>3
    <3> QED BY <1>1, <2>1, <3>1 DEF IInv, OneOwner, Owners, workerVars, tableVars, poolVars
  <2>9. ReportStep
    BY <1>1, QuietReports
  <2> QED BY <2>5, <2>6, <2>7, <2>8, <2>9 DEF Kept
<1> QED BY <1>4, <1>5

\* startLargeSend queues the first fragment, or releases slot and session.
LEMMA SubmitFirstKeeps ==
  ASSUME IInv, SubmitFirst
  PROVE  Kept
<1> DEFINE room == Len(queue) < QueueDepth
           verdict == IF room THEN "accepted" ELSE "rejected"
<1>1. /\ app.at = "filled" /\ app' = Resting
      /\ outcome' = [outcome EXCEPT ![app.item] = verdict]
      /\ pool' = pool
      /\ \/ room /\ queue' = Append(queue, app.slot) /\ used' = used /\ session' = session
         \/ ~room /\ queue' = queue /\ used' = used \ {app.slot} /\ session' = Idle
      /\ UNCHANGED <<workerVars, tableVars, radio, reports, delivered, early, bounds>>
  BY DEF SubmitFirst, Freed, poolVars
<1>2. /\ Typed /\ AppOK /\ SessionOK /\ OneFragment /\ PoolOK /\ LargeOkMeansAll
      /\ app.slot \in used /\ app.slot \in InFlight /\ app.slot \in Slots
      /\ app.item \in Larges /\ session.used /\ session.large = app.item
      /\ app.item \in Items /\ app.item \notin Msgs
      /\ InFlight = {app.slot} /\ Nexts(todo) = 0 /\ ~session.waiting
  <2>1. Typed /\ AppOK /\ SessionOK /\ OneFragment /\ PoolOK /\ LargeOkMeansAll
    BY DEF IInv, Core
  <2>2. /\ app.slot \in used /\ pool[app.slot] \in Frags
        /\ app.item \in Larges /\ session.used /\ session.large = app.item
    BY <1>1, <2>1 DEF AppOK
  <2>3. app.item \in Items /\ app.item \notin Msgs
    BY <2>2, MsgAssumption DEF Items
  <2>4. app.slot \in InFlight
    BY <2>2 DEF InFlight, IsFragment
  <2>5. InFlight = {app.slot} /\ Nexts(todo) = 0 /\ ~session.waiting
    BY <2>1, <2>4 DEF OneFragment
  <2> QED BY <2>1, <2>2, <2>3, <2>4, <2>5 DEF Typed, PoolTyped
<1>3. NoSlot \notin Slots
  BY SizeAssumption DEF Slots, NoSlot
<1>4. app'.at = "idle" /\ app'.slot = NoSlot /\ AppTyped'
  BY <1>1 DEF Resting, AppTyped
<1>5. /\ outcome'[app.item] = verdict
      /\ \A x \in Items : x # app.item => outcome'[x] = outcome[x]
      /\ outcome' \in [Items -> {"new", "accepted", "rejected", "ok", "failed"}]
  BY <1>1, <1>2 DEF Typed, HistoryTyped
<1>6. ~room => session'.used = FALSE /\ session'.waiting = FALSE /\ SessionTyped'
  BY <1>1, IdleTyped
<1>7. Typed'
  <2>1. QueueTyped'
    BY <1>1, <1>2, QueueGrows DEF Typed, QueueTyped
  <2>2. PoolTyped' /\ HistoryTyped'
    BY <1>1, <1>2, <1>5 DEF Typed, PoolTyped, HistoryTyped
  <2>3. SessionTyped'
    BY <1>1, <1>2, <1>6 DEF Typed, SessionTyped
  <2>4. WorkerTyped' /\ TableTyped' /\ RadioTyped' /\ BoundsTyped'
    BY <1>1, <1>2 DEF Typed, WorkerTyped, TableTyped, RadioTyped, BoundsTyped,
       workerVars, tableVars, bounds
  <2> QED BY <1>4, <2>1, <2>2, <2>3, <2>4 DEF Typed
<1>8. Core'
  <2>1. AppOK'
    BY <1>4 DEF AppOK
  <2>2. SessionOK'
    BY <1>1, <1>2, <1>5, <1>6 DEF SessionOK
  <2>3. InFlight' = IF room THEN InFlight ELSE {}
    <3>1. CASE room
      BY <1>1, <3>1 DEF InFlight, IsFragment
    <3>2. CASE ~room
      BY <1>1, <1>2, <3>2 DEF InFlight, IsFragment
    <3> QED BY <3>1, <3>2
  <2>4. OneFragment'
    <3>1. CASE room
      BY <1>1, <1>2, <1>4, <2>3, <3>1 DEF OneFragment, workerVars
    <3>2. CASE ~room
      BY <1>1, <1>2, <1>4, <1>6, <2>3, <3>2 DEF OneFragment, workerVars
    <3> QED BY <3>1, <3>2
  <2>5. PoolOK'
    <3>1. \A x \in Msgs : x \in Items /\ outcome'[x] = outcome[x]
      BY <1>2, <1>5 DEF Items
    <3>2. pool[app.slot] \notin Msgs /\ used' \subseteq used
      BY <1>1, <1>2, MsgAssumption DEF InFlight, IsFragment
    <3> QED BY <1>1, <1>2, <1>4, <3>1, <3>2 DEF PoolOK
  <2>6. LargeOkMeansAll'
    <3>1. \A x \in Larges : x \in Items /\ (outcome'[x] = "ok" => outcome[x] = "ok")
      BY <1>5 DEF Items
    <3> QED BY <1>1, <1>2, <3>1 DEF LargeOkMeansAll
  <2> QED BY <2>1, <2>2, <2>4, <2>5, <2>6 DEF Core
<1>9. WireOK'
  <2>1. queue' # <<>> \/ queue' = queue
    BY <1>1, <1>2, QueueGrows
  <2> QED BY <1>1, <2>1 DEF IInv, WireOK, workerVars, tableVars
<1>10. OneOwner'
  BY <1>1, HandOver DEF workerVars, tableVars
<1>11. ReportStep
  BY <1>1, QuietReports
<1> QED BY <1>7, <1>8, <1>9, <1>10, <1>11 DEF Kept

-----------------------------------------------------------------------------
(* Ends of messages and fragments in the worker's hands.                   *)

\* Calls that route and send the same slots, and drain as often.
SameCalls(t, u) ==
  /\ \A s \in Slots : /\ Times(u, Route(s)) = Times(t, Route(s))
                      /\ Times(u, Transmit(s)) = Times(t, Transmit(s))
  /\ Times(u, Drain) = Times(t, Drain)

ReportsTyped == /\ outcome \in [Items -> {"new", "accepted", "rejected", "ok", "failed"}]
                /\ reports \in [Items -> Nat]

\* What one callback changes.
LEMMA ReportEffect ==
  ASSUME Typed, NEW x \in Items, NEW how \in {"ok", "failed"}, Report(x, how)
  PROVE  /\ ReportsTyped'
         /\ outcome'[x] = how /\ \A y \in Items : y # x => outcome'[y] = outcome[y]
         /\ outcome[x] = "accepted" => ReportStep
<1>1. /\ outcome' = [outcome EXCEPT ![x] = how]
      /\ reports' = [reports EXCEPT ![x] = reports[x] + 1]
  BY DEF Report
<1>2. /\ outcome \in [Items -> {"new", "accepted", "rejected", "ok", "failed"}]
      /\ reports \in [Items -> Nat]
  BY DEF Typed, HistoryTyped
<1>3. reports' \in [Items -> Nat] /\ \A y \in Items : y # x => reports'[y] = reports[y]
  BY <1>1, <1>2
<1>4. /\ outcome' \in [Items -> {"new", "accepted", "rejected", "ok", "failed"}]
      /\ outcome'[x] = how /\ \A y \in Items : y # x => outcome'[y] = outcome[y]
  BY <1>1, <1>2
<1>5. outcome[x] = "accepted" => ReportStep
  BY <1>3, <1>4 DEF ReportStep
<1> QED BY <1>3, <1>4, <1>5 DEF ReportsTyped

\* A message of the worker's is over: sent, acknowledged or failed.
LEMMA FinishKeeps ==
  ASSUME IInv, NEW s \in used, s # app.slot, ~IsFragment(s),
         NEW how \in {"ok", "failed"}, Finish(s, how),
         UNCHANGED <<session, app, delivered>>, Nexts(todo') = Nexts(todo)
  PROVE  Core' /\ PoolTyped' /\ ReportsTyped' /\ ReportStep
<1>1. /\ Typed /\ AppOK /\ SessionOK /\ OneFragment /\ PoolOK /\ LargeOkMeansAll
  BY DEF IInv, Core
<1>2. pool' = pool /\ used' = used \ {s} /\ Report(pool[s], how)
  BY DEF Finish, Freed
<1>3. /\ pool[s] \in Msgs /\ pool[s] \in Items /\ pool[s] \notin Larges
      /\ outcome[pool[s]] = "accepted"
  BY <1>1, MsgAssumption DEF PoolOK, IsFragment, Items
<1>4. /\ ReportsTyped' /\ ReportStep
      /\ outcome'[pool[s]] = how /\ \A y \in Items : y # pool[s] => outcome'[y] = outcome[y]
  BY <1>1, <1>2, <1>3, ReportEffect
<1>5. AppOK'
  <2>1. app.at # "idle" => app.item # pool[s]
    BY <1>1, <1>3 DEF AppOK
  <2> QED BY <1>1, <1>2, <1>4, <2>1 DEF AppOK
<1>6. \A l \in Larges : l \in Items /\ outcome'[l] = outcome[l]
  BY <1>3, <1>4 DEF Items
<1>7. SessionOK'
  BY <1>1, <1>6 DEF SessionOK
<1>8. InFlight' = InFlight
  BY <1>2 DEF InFlight, IsFragment
<1>9. OneFragment'
  BY <1>1, <1>2, <1>8 DEF OneFragment
<1>10. PoolOK'
  <2>1. ASSUME NEW r \in used', r # app.slot, pool[r] \in Msgs
        PROVE  outcome'[pool[r]] = "accepted"
    <3>1. pool[r] # pool[s] /\ outcome[pool[r]] = "accepted" /\ pool[r] \in Items
      BY <1>1, <1>2, <1>3, <2>1 DEF PoolOK, Items
    <3> QED BY <1>4, <3>1
  <2> QED BY <1>1, <1>2, <2>1 DEF PoolOK
<1>11. LargeOkMeansAll'
  BY <1>1, <1>6 DEF LargeOkMeansAll
<1>12. PoolTyped'
  BY <1>1, <1>2 DEF Typed, PoolTyped
<1> QED BY <1>4, <1>5, <1>7, <1>9, <1>10, <1>11, <1>12 DEF Core

\* Freeing the fragment of the session leaves no fragment in the engine, and
\* changes nothing for the messages.
LEMMA FragmentFreed ==
  ASSUME IInv, NEW s \in InFlight, s # app.slot, Freed(s), app' = app
  PROVE  /\ InFlight' = {} /\ PoolTyped' /\ s \in used
         /\ session.used /\ ~session.waiting /\ Nexts(todo) = 0
         /\ app.at \notin {"opened", "filled"}
         /\ session.large \in Larges /\ outcome[session.large] = "accepted"
         /\ session.large \in Items /\ session.large \notin Msgs
         /\ pool[s] = <<session.large, session.next>>
         /\ (\A m \in Msgs : outcome'[m] = outcome[m]) => PoolOK'
<1>1. /\ Typed /\ AppOK /\ SessionOK /\ OneFragment /\ PoolOK
  BY DEF IInv, Core
<1>2. pool' = pool /\ used' = used \ {s} /\ s \in used
  BY DEF Freed, InFlight
<1>3. InFlight = {s} /\ pool[s] = <<session.large, session.next>>
  BY <1>1 DEF OneFragment
<1>4. InFlight' = {}
  BY <1>2, <1>3 DEF InFlight, IsFragment
<1>5. session.used /\ ~session.waiting /\ Nexts(todo) = 0 /\ app.at # "opened"
  BY <1>1, <1>3 DEF OneFragment
<1>6. app.at # "filled"
  <2>1. app.at = "filled" => app.slot \in InFlight
    BY <1>1 DEF AppOK, InFlight, IsFragment
  <2> QED BY <1>3, <2>1
<1>7. session.large \in Larges /\ outcome[session.large] = "accepted"
  BY <1>1, <1>5, <1>6 DEF SessionOK
<1>8. session.large \in Items /\ session.large \notin Msgs
  BY <1>7, MsgAssumption DEF Items
<1>9. PoolTyped'
  BY <1>1, <1>2 DEF Typed, PoolTyped
<1>10. ASSUME \A m \in Msgs : outcome'[m] = outcome[m] PROVE PoolOK'
  BY <1>1, <1>2, <1>10 DEF PoolOK
<1> QED BY <1>2, <1>3, <1>4, <1>5, <1>6, <1>7, <1>8, <1>9, <1>10

\* A large message is over.
LEMMA CompleteLargeKeeps ==
  ASSUME IInv, NEW s \in InFlight, s # app.slot, Freed(s), app' = app,
         NEW how \in {"ok", "failed"}, NEW rest \in Seq(Calls), Nexts(rest) = 0,
         CompleteLarge(how, rest),
         delivered \subseteq delivered',
         how = "ok" => \A k \in 0..(Total - 1) : <<session.large, k>> \in delivered'
  PROVE  /\ Core' /\ PoolTyped' /\ SessionTyped' /\ ReportsTyped' /\ ReportStep
         /\ todo' \in Seq(Calls) /\ SameCalls(rest, todo')
<1>1. /\ Typed /\ AppOK /\ SessionOK /\ OneFragment /\ LargeOkMeansAll
  BY DEF IInv, Core
<1>2. session' = Idle /\ Report(session.large, how) /\ todo' = <<Flush>> \o rest
  BY DEF CompleteLarge
<1>3. /\ InFlight' = {} /\ PoolTyped'
      /\ session.large \in Larges /\ outcome[session.large] = "accepted"
      /\ session.large \in Items /\ session.large \notin Msgs
      /\ app.at \notin {"opened", "filled"}
      /\ (\A m \in Msgs : outcome'[m] = outcome[m]) => PoolOK'
      /\ pool' = pool /\ used' = used \ {s}
  BY FragmentFreed DEF Freed
<1>4. SessionTyped' /\ session'.used = FALSE /\ session'.waiting = FALSE
  BY <1>2, IdleTyped
<1>5. /\ ReportsTyped' /\ ReportStep
      /\ outcome'[session.large] = how
      /\ \A y \in Items : y # session.large => outcome'[y] = outcome[y]
  BY <1>1, <1>2, <1>3, ReportEffect
<1>6. /\ todo' \in Seq(Calls) /\ CallCounts(rest, Flush, todo')
      /\ \A r \in Slots : Flush # Route(r) /\ Flush # Transmit(r)
      /\ Flush \notin {Later, Again, Drain}
  <2>1. Flush \in Calls
    BY DEF Calls
  <2>2. \A r \in Slots : Flush # Route(r) /\ Flush # Transmit(r)
    BY DEF Flush, Route, Transmit
  <2>3. Flush \notin {Later, Again, Drain}
    BY DEF Flush, Later, Again, Drain
  <2> QED BY <1>2, <2>1, <2>2, <2>3, CallMade
<1>7. SameCalls(rest, todo') /\ Nexts(todo') = 0
  <2>1. \A r \in Slots : Times(rest, Route(r)) \in Nat /\ Times(rest, Transmit(r)) \in Nat
    BY CallsCounted
  <2>2. Times(rest, Drain) \in Nat
    BY CallsCounted
  <2>3. Is(Flush \in {Later, Again}) = 0 /\ Is(Flush = Drain) = 0
        /\ \A r \in Slots : Is(Flush = Route(r)) = 0 /\ Is(Flush = Transmit(r)) = 0
    BY <1>6 DEF Is
  <2> QED BY <1>6, <2>1, <2>2, <2>3 DEF CallCounts, SameCalls
<1>8. AppOK'
  <2>1. app.at # "idle" => app.item # session.large
    BY <1>1, <1>3 DEF AppOK
  <2> QED BY <1>1, <1>3, <1>5, <2>1 DEF AppOK
<1>9. SessionOK'
  BY <1>4 DEF SessionOK
<1>10. OneFragment'
  BY <1>3, <1>4, <1>7 DEF OneFragment
<1>11. PoolOK'
  <2>1. \A m \in Msgs : m \in Items /\ outcome'[m] = outcome[m]
    BY <1>3, <1>5 DEF Items
  <2> QED BY <1>3, <2>1
<1>12. LargeOkMeansAll'
  <2> SUFFICES ASSUME NEW l \in Larges, outcome'[l] = "ok", NEW k \in 0..(Total - 1)
               PROVE  <<l, k>> \in delivered'
    BY DEF LargeOkMeansAll
  <2>1. CASE l = session.large
    BY <1>5, <2>1
  <2>2. CASE l # session.large
    <3>1. l \in Items /\ outcome[l] = "ok"
      BY <1>5, <2>2 DEF Items
    <3> QED BY <1>1, <3>1 DEF LargeOkMeansAll
  <2> QED BY <2>1, <2>2
<1> QED BY <1>3, <1>4, <1>5, <1>6, <1>7, <1>8, <1>9, <1>10, <1>11, <1>12 DEF Core

\* A fragment is over and the session goes on.
LEMMA ContinueKeeps ==
  ASSUME IInv, NEW s \in InFlight, s # app.slot, Freed(s), app' = app, outcome' = outcome,
         NEW rest \in Seq(Calls), Nexts(rest) = 0,
         NEW c \in {Later, Again}, todo' = <<c>> \o rest,
         SessionTyped', session'.used = session.used, session'.large = session.large,
         session'.waiting = session.waiting,
         delivered \subseteq delivered',
         \A k \in 0..(session'.next - 1) : <<session.large, k>> \in delivered'
  PROVE  /\ Core' /\ PoolTyped'
         /\ todo' \in Seq(Calls) /\ SameCalls(rest, todo')
<1>1. /\ Typed /\ AppOK /\ SessionOK /\ OneFragment /\ LargeOkMeansAll
  BY DEF IInv, Core
<1>2. /\ InFlight' = {} /\ PoolTyped' /\ session.used /\ ~session.waiting
      /\ session.large \in Larges /\ outcome[session.large] = "accepted"
      /\ app.at \notin {"opened", "filled"}
      /\ PoolOK'
      /\ pool' = pool /\ used' = used \ {s}
  BY FragmentFreed DEF Freed
<1>3. /\ todo' \in Seq(Calls) /\ CallCounts(rest, c, todo')
      /\ \A r \in Slots : c # Route(r) /\ c # Transmit(r)
      /\ c # Drain
  <2>1. c \in Calls
    BY DEF Calls
  <2>2. \A r \in Slots : c # Route(r) /\ c # Transmit(r)
    BY DEF Later, Again, Route, Transmit
  <2>3. c # Drain
    BY DEF Later, Again, Drain
  <2> QED BY <2>1, <2>2, <2>3, CallMade
<1>4. SameCalls(rest, todo') /\ Nexts(todo') = 1
  <2>1. \A r \in Slots : Times(rest, Route(r)) \in Nat /\ Times(rest, Transmit(r)) \in Nat
    BY CallsCounted
  <2>2. Times(rest, Drain) \in Nat
    BY CallsCounted
  <2>3. Is(c \in {Later, Again}) = 1 /\ Is(c = Drain) = 0
        /\ \A r \in Slots : Is(c = Route(r)) = 0 /\ Is(c = Transmit(r)) = 0
    BY <1>3 DEF Is
  <2> QED BY <1>3, <2>1, <2>2, <2>3 DEF CallCounts, SameCalls
<1>5. AppOK'
  BY <1>1, <1>2 DEF AppOK
<1>6. SessionOK'
  BY <1>2 DEF SessionOK
<1>7. OneFragment'
  BY <1>2, <1>4 DEF OneFragment
<1>8. LargeOkMeansAll'
  BY <1>1 DEF LargeOkMeansAll
<1> QED BY <1>2, <1>3, <1>4, <1>5, <1>6, <1>7, <1>8 DEF Core

\* The result of a fragment: its slot is freed, and the session ends or goes on
\* with the next fragment or the same one.
LEMMA FragmentResultKeeps ==
  ASSUME IInv, NEW s \in InFlight, s # app.slot, app' = app,
         NEW ok \in BOOLEAN, NEW late \in BOOLEAN,
         NEW rest \in Seq(Calls), Nexts(rest) = 0, FragmentResult(s, ok, late, rest)
  PROVE  /\ Core' /\ PoolTyped' /\ SessionTyped' /\ ReportsTyped' /\ ReportStep
         /\ delivered' \subseteq Frags /\ used' = used \ {s}
         /\ todo' \in Seq(Calls) /\ SameCalls(rest, todo')
<1>1. Freed(s) /\ delivered' = IF ok THEN delivered \cup {pool[s]} ELSE delivered
  BY DEF FragmentResult
<1>2. Typed /\ SessionOK
  BY DEF IInv, Core
<1>3. pool[s] = <<session.large, session.next>> /\ session.used /\ used' = used \ {s}
  BY <1>1, FragmentFreed DEF Freed
<1>4. PICK n \in Nat : n = session.next /\ n <= Total - 1
  BY <1>2, SizeAssumption DEF Typed, SessionTyped
<1>5. PICK t \in Nat : t = session.retries /\ t <= FragRetryMax
  BY <1>2, SizeAssumption DEF Typed, SessionTyped
<1>6. delivered \subseteq delivered' /\ delivered' \subseteq Frags
  BY <1>1, <1>2 DEF Typed, HistoryTyped, InFlight, IsFragment
<1>7. \A k \in 0..(n - 1) : <<session.large, k>> \in delivered'
  BY <1>2, <1>3, <1>4, <1>6 DEF SessionOK
<1>8. ok => \A k \in 0..n : <<session.large, k>> \in delivered'
  <2> SUFFICES ASSUME ok, NEW k \in 0..n PROVE <<session.large, k>> \in delivered'
    OBVIOUS
  <2>1. k = n \/ k \in 0..(n - 1)
    BY <1>4
  <2> QED BY <1>1, <1>3, <1>4, <1>7, <2>1
<1>9. Total \in Nat /\ Total > 1 /\ FragRetryMax \in Nat
  BY SizeAssumption
<1>10. CASE Done(ok)
  <2> DEFINE how == IF ok THEN "ok" ELSE "failed"
  <2>1. CompleteLarge(how, rest) /\ how \in {"ok", "failed"}
    BY <1>10 DEF FragmentResult
  <2>2. how = "ok" => \A k \in 0..(Total - 1) : <<session.large, k>> \in delivered'
    <3> SUFFICES ASSUME ok, NEW k \in 0..(Total - 1) PROVE <<session.large, k>> \in delivered'
      OBVIOUS
    <3>1. n + 1 >= Total
      BY <1>4, <1>10 DEF Done
    <3>2. k \in 0..n
      BY <1>4, <1>9, <3>1
    <3> QED BY <1>8, <3>2
  <2> HIDE DEF how
  <2> QED BY <1>1, <1>3, <1>6, <2>1, <2>2, CompleteLargeKeeps
<1>11. CASE ~Done(ok)
  <2>1. /\ session' = IF ok THEN [session EXCEPT !.next = session.next + 1, !.retries = 0]
                         ELSE [session EXCEPT !.retries = session.retries + 1]
        /\ UNCHANGED <<outcome, reports>>
        /\ todo' = <<NextFragment(late)>> \o rest
    BY <1>11 DEF FragmentResult, NoReport, Continue
  <2>2. PICK c \in {Later, Again} : todo' = <<c>> \o rest
    BY <2>1, CallsAre
  <2>3. /\ SessionTyped' /\ session'.used = session.used /\ session'.large = session.large
        /\ session'.waiting = session.waiting
        /\ session'.next = IF ok THEN n + 1 ELSE n
    <3>1. CASE ok
      <4>1. n + 1 \in 0..(Total - 1) /\ 0 \in 0..FragRetryMax
        BY <1>4, <1>9, <1>11, <3>1 DEF Done
      <4> QED BY <1>2, <1>4, <2>1, <3>1, <4>1 DEF Typed, SessionTyped
    <3>2. CASE ~ok
      <4>1. t + 1 \in 0..FragRetryMax
        BY <1>5, <1>9, <1>11, <3>2 DEF Done
      <4> QED BY <1>2, <1>4, <1>5, <2>1, <3>2, <4>1 DEF Typed, SessionTyped
    <3> QED BY <3>1, <3>2
  <2>4. \A k \in 0..(session'.next - 1) : <<session.large, k>> \in delivered'
    <3>1. CASE ok
      <4>1. session'.next - 1 = n
        BY <1>4, <2>3, <3>1
      <4> QED BY <1>8, <3>1, <4>1
    <3>2. CASE ~ok
      BY <1>7, <2>3, <3>2
    <3> QED BY <3>1, <3>2
  <2>5. /\ Core' /\ PoolTyped' /\ todo' \in Seq(Calls) /\ SameCalls(rest, todo')
    BY <1>1, <1>6, <2>1, <2>2, <2>3, <2>4, ContinueKeeps
  <2>6. ReportsTyped' /\ ReportStep
    BY <1>2, <2>1, QuietReports DEF Typed, HistoryTyped, ReportsTyped
  <2> QED BY <1>3, <1>6, <2>3, <2>5, <2>6
<1> QED BY <1>10, <1>11

\* The slot of the call in hand is freed, or goes elsewhere with its owner.
LEMMA CallerFrees ==
  ASSUME IInv, todo # <<>>, todo[1][1] \in {"route", "send"},
         used' = used \ {Arg}, SameCalls(Tail(todo), todo'),
         UNCHANGED <<app, queue, pending, deferred, parked, ripe>>
  PROVE  OneOwner'
<1>1. /\ todo[1] \in Calls /\ Tail(todo) \in Seq(Calls)
      /\ CallCounts(Tail(todo), todo[1], todo) /\ Typed
  BY CallInHand DEF IInv
<1>2. Arg \in used /\ Arg \in Slots
  BY SlotInHand
<1> SUFFICES ASSUME NEW s \in Slots PROVE Owners(s)' = InSet(used', s)
  BY DEF OneOwner
<1>3. Owners(s) = InSet(used, s) /\ Counted(s)
  BY <1>1, OwnersCounted DEF IInv, OneOwner
<1>4. /\ Times(todo, Route(s)) = Times(todo', Route(s)) + Is(todo[1] = Route(s))
      /\ Times(todo, Transmit(s)) = Times(todo', Transmit(s)) + Is(todo[1] = Transmit(s))
      /\ Times(todo', Route(s)) \in Nat /\ Times(todo', Transmit(s)) \in Nat
  BY <1>1, CallsCounted DEF CallCounts, SameCalls
<1>5. /\ todo[1] = Route(s) <=> todo[1][1] = "route" /\ Arg = s
      /\ todo[1] = Transmit(s) <=> todo[1][1] = "send" /\ Arg = s
  BY <1>1, KindsOfCall DEF Arg
<1>6. CASE s = Arg
  <2>1. InSet(used, s) = 1 /\ InSet(used', s) = 0
    BY <1>2, <1>6 DEF InSet
  <2>2. CASE todo[1][1] = "route"
    <3>1. Is(todo[1] = Route(s)) = 1 /\ Is(todo[1] = Transmit(s)) = 0
      BY <1>5, <1>6, <2>2 DEF Is
    <3>2. Times(todo', Route(s)) = Times(todo, Route(s)) + (-1)
      BY <1>4, <3>1
    <3>a. Times(todo', Transmit(s)) = Times(todo, Transmit(s))
      BY <1>4, <3>1
    <3>3. MovesBy(s, 0, 0, 0, 0, 0, 0, -1, 0)
      BY <1>3, <3>2, <3>a, Still DEF MovesBy
    <3>4. Owners(s)' = Owners(s) - 1
      <4>1. Owners(s)' = Owners(s) + (0 + 0 + 0 + 0 + 0 + 0 + (-1) + 0) /\ Owners(s) \in Nat
        BY <1>3, <3>3, OwnersMove
      <4> QED BY <4>1
    <3> QED BY <1>3, <2>1, <3>4
  <2>3. CASE todo[1][1] = "send"
    <3>1. Is(todo[1] = Route(s)) = 0 /\ Is(todo[1] = Transmit(s)) = 1
      BY <1>5, <1>6, <2>3 DEF Is
    <3>2. Times(todo', Transmit(s)) = Times(todo, Transmit(s)) + (-1)
      BY <1>4, <3>1
    <3>a. Times(todo', Route(s)) = Times(todo, Route(s))
      BY <1>4, <3>1
    <3>3. MovesBy(s, 0, 0, 0, 0, 0, 0, 0, -1)
      BY <1>3, <3>2, <3>a, Still DEF MovesBy
    <3>4. Owners(s)' = Owners(s) - 1
      <4>1. Owners(s)' = Owners(s) + (0 + 0 + 0 + 0 + 0 + 0 + 0 + (-1)) /\ Owners(s) \in Nat
        BY <1>3, <3>3, OwnersMove
      <4> QED BY <4>1
    <3> QED BY <1>3, <2>1, <3>4
  <2> QED BY <2>2, <2>3
<1>7. CASE s # Arg
  <2>1. InSet(used', s) = InSet(used, s)
    BY <1>7 DEF InSet
  <2>2. Is(todo[1] = Route(s)) = 0 /\ Is(todo[1] = Transmit(s)) = 0
    BY <1>5, <1>7 DEF Is
  <2>3. Times(todo', Route(s)) = Times(todo, Route(s))
        /\ Times(todo', Transmit(s)) = Times(todo, Transmit(s))
    BY <1>4, <2>2
  <2> QED BY <1>3, <2>1, <2>3 DEF Owners
<1> QED BY <1>6, <1>7

\* The slot of a pending entry is freed with the entry.
LEMMA EntryFreed ==
  ASSUME IInv, NEW i \in Slots, pending[i] # NoSlot,
         pending' = [pending EXCEPT ![i] = NoSlot], used' = used \ {pending[i]},
         SameCalls(todo, todo'),
         UNCHANGED <<app, queue, deferred, parked, ripe>>
  PROVE  OneOwner'
<1>1. Typed /\ pending[i] \in used
  BY SlotInTable DEF IInv
<1> SUFFICES ASSUME NEW s \in Slots PROVE Owners(s)' = InSet(used', s)
  BY DEF OneOwner
<1>2. Owners(s) = InSet(used, s) /\ Counted(s)
  BY <1>1, OwnersCounted DEF IInv, OneOwner
<1>3. /\ pending[i] = s => Times(pending, s) = Times(pending', s) + 1
      /\ pending[i] # s => Times(pending', s) = Times(pending, s)
      /\ Times(pending', s) \in Nat
  <2>1. PoolSize \in Nat /\ DifferAt(pending, pending', i, PoolSize) /\ pending'[i] = NoSlot
    BY <1>1, SizeAssumption DEF Typed, TableTyped, Slots, DifferAt
  <2>2. NoSlot # s
    BY SizeAssumption DEF Slots, NoSlot
  <2>3. PICK f, g : f = pending /\ g = pending'
    OBVIOUS
  <2>4. DifferAt(f, g, i, PoolSize) /\ g[i] # s
    BY <2>1, <2>2, <2>3
  <2>5. /\ f[i] = s => Times(f, s) = Times(g, s) + 1
        /\ f[i] # s => Times(g, s) = Times(f, s)
        /\ Times(g, s) \in Nat
    BY <2>1, <2>4, TimesExcept
  <2> QED BY <2>3, <2>5
<1>4. /\ Times(todo', Route(s)) = Times(todo, Route(s))
      /\ Times(todo', Transmit(s)) = Times(todo, Transmit(s))
  BY DEF SameCalls
<1>5. CASE pending[i] = s
  <2>1. InSet(used, s) = 1 /\ InSet(used', s) = 0
    BY <1>1, <1>5 DEF InSet
  <2>2. Times(pending', s) = Times(pending, s) + (-1)
    BY <1>3, <1>5
  <2>3. MovesBy(s, 0, 0, -1, 0, 0, 0, 0, 0)
    BY <1>2, <1>4, <2>2, Still DEF MovesBy
  <2>4. Owners(s)' = Owners(s) - 1
    <3>1. Owners(s)' = Owners(s) + (0 + 0 + (-1) + 0 + 0 + 0 + 0 + 0) /\ Owners(s) \in Nat
      BY <1>2, <2>3, OwnersMove
    <3> QED BY <3>1
  <2> QED BY <1>2, <2>1, <2>4
<1>6. CASE pending[i] # s
  <2>1. InSet(used', s) = InSet(used, s)
    BY <1>6 DEF InSet
  <2>2. Times(pending', s) = Times(pending, s)
    BY <1>3, <1>6
  <2> QED BY <1>2, <1>4, <2>1, <2>2 DEF Owners
<1> QED BY <1>5, <1>6

\* The message in slot s got its ACK, or wants none.
LEMMA DeliveredKeeps ==
  ASSUME IInv, NEW s \in used, s # app.slot, app' = app,
         NEW rest \in Seq(Calls), Nexts(rest) = Nexts(todo), Delivered(s, rest)
  PROVE  /\ Core' /\ PoolTyped' /\ SessionTyped' /\ ReportsTyped' /\ ReportStep
         /\ delivered' \subseteq Frags /\ used' = used \ {s}
         /\ todo' \in Seq(Calls) /\ SameCalls(rest, todo')
<1>1. CASE IsFragment(s)
  <2>1. s \in InFlight
    BY <1>1 DEF InFlight
  <2>2. Nexts(rest) = 0
    BY <2>1 DEF IInv, Core, OneFragment
  <2>3. PICK ok, late \in BOOLEAN : FragmentResult(s, ok, late, rest)
    BY <1>1 DEF Delivered
  <2> QED BY <2>1, <2>2, <2>3, FragmentResultKeeps
<1>2. CASE ~IsFragment(s)
  <2>1. PICK how \in {"ok", "failed"} : Finish(s, how)
    BY <1>2 DEF Delivered
  <2>2. todo' = rest /\ UNCHANGED <<session, delivered>>
    BY <1>2 DEF Delivered
  <2>3. Core' /\ PoolTyped' /\ ReportsTyped' /\ ReportStep
    BY <1>2, <2>1, <2>2, FinishKeeps
  <2>4. SessionTyped' /\ delivered' \subseteq Frags
    BY <2>2 DEF IInv, Typed, SessionTyped, HistoryTyped
  <2>5. SameCalls(rest, todo')
    BY <2>2 DEF SameCalls
  <2>6. used' = used \ {s}
    BY <2>1 DEF Finish, Freed
  <2> QED BY <2>2, <2>3, <2>4, <2>5, <2>6
<1> QED BY <1>1, <1>2

-----------------------------------------------------------------------------
(* The worker sends.                                                       *)

\* Taking a _routeTxReq or _sendMsg call leaves the other calls.
LEMMA SlotCallTaken ==
  ASSUME IInv, todo # <<>>, todo[1][1] \in {"route", "send"}
  PROVE  /\ Tail(todo) \in Seq(Calls) /\ Nexts(Tail(todo)) = Nexts(todo)
         /\ Times(Tail(todo), Drain) = Times(todo, Drain)
<1>1. /\ todo[1] \in Calls /\ Tail(todo) \in Seq(Calls)
      /\ CallCounts(Tail(todo), todo[1], todo)
  BY CallInHand DEF IInv
<1>2. Is(todo[1] \in {Later, Again}) = 0 /\ Is(todo[1] = Drain) = 0
  BY <1>1, KindsOfCall DEF Is
<1>3. Nexts(Tail(todo)) \in Nat /\ Times(Tail(todo), Drain) \in Nat
  BY <1>1, CallsCounted
<1> QED BY <1>1, <1>2, <1>3 DEF CallCounts

\* A step that leaves radio, queue and _pending alone keeps their relation.
LEMMA WireFrame ==
  ASSUME WireOK, UNCHANGED <<radio, queue, pending, clock>>,
         Times(todo', Drain) = Times(todo, Drain)
  PROVE  WireOK'
BY DEF WireOK

\* _sendMsg gives a message up.
LEMMA SendFailsKeeps ==
  ASSUME IInv, SendFails
  PROVE  Kept
<1>1. /\ todo # <<>> /\ todo[1][1] = "send" /\ ~IsFragment(Arg) /\ Finish(Arg, "failed")
      /\ todo' = Tail(todo)
      /\ UNCHANGED <<queue, session, app, phase, scan, tableVars, radio, delivered, early, bounds>>
  BY DEF SendFails, Calling
<1>2. Arg \in used /\ Arg \in Slots /\ Arg # app.slot
  BY <1>1, SlotInHand
<1>3. todo' \in Seq(Calls) /\ Nexts(todo') = Nexts(todo) /\ Times(todo', Drain) = Times(todo, Drain)
  BY <1>1, SlotCallTaken
<1>4. PICK how \in {"ok", "failed"} : Finish(Arg, how)
  BY <1>1
<1>5. Core' /\ PoolTyped' /\ ReportsTyped' /\ ReportStep
  BY <1>1, <1>2, <1>3, <1>4, FinishKeeps
<1>6. Typed'
  BY <1>1, <1>3, <1>5 DEF IInv, Typed, QueueTyped, SessionTyped, AppTyped, WorkerTyped,
     TableTyped, RadioTyped, HistoryTyped, ReportsTyped, BoundsTyped, tableVars, bounds
<1>7. WireOK'
  BY <1>1, <1>3, WireFrame DEF IInv, tableVars
<1>8. OneOwner'
  <2>1. SameCalls(Tail(todo), todo')
    BY <1>1 DEF SameCalls
  <2>2. used' = used \ {Arg}
    BY <1>1 DEF Finish, Freed
  <2> QED BY <1>1, <2>1, <2>2, CallerFrees DEF tableVars
<1> QED BY <1>5, <1>6, <1>7, <1>8 DEF Kept

\* The three ends of a fragment the worker could not send.
LEMMA FragmentUnsentKeeps ==
  ASSUME IInv, FragmentUnbuildable \/ FragmentPutOff \/ FragmentSendFails
  PROVE  Kept
<1>1. /\ todo # <<>> /\ todo[1][1] = "send" /\ IsFragment(Arg)
      /\ UNCHANGED <<queue, app, phase, scan, tableVars, radio, early>>
  BY DEF FragmentUnbuildable, FragmentPutOff, FragmentSendFails, Calling, history
<1>2. Arg \in used /\ Arg \in Slots /\ Arg # app.slot /\ Arg \in InFlight
  BY <1>1, SlotInHand DEF InFlight
<1>3. /\ Tail(todo) \in Seq(Calls) /\ Nexts(Tail(todo)) = 0
      /\ Times(Tail(todo), Drain) = Times(todo, Drain)
  <2>1. Nexts(todo) = 0
    BY <1>2 DEF IInv, Core, OneFragment
  <2> QED BY <1>1, <2>1, SlotCallTaken
<1>4. PICK s \in InFlight : s = Arg
  BY <1>2
<1> DEFINE Goal == /\ Core' /\ PoolTyped' /\ SessionTyped' /\ ReportsTyped' /\ ReportStep
                   /\ delivered' \subseteq Frags /\ used' = used \ {Arg} /\ BoundsTyped'
                   /\ todo' \in Seq(Calls) /\ SameCalls(Tail(todo), todo')
<1>5. ASSUME FragmentUnbuildable PROVE Goal
  <2>1. /\ Freed(s) /\ delivered' = delivered /\ UNCHANGED bounds
    BY <1>4, <1>5 DEF FragmentUnbuildable
  <2>2. PICK how \in {"ok", "failed"} : how # "ok" /\ CompleteLarge(how, Tail(todo))
    BY <1>5 DEF FragmentUnbuildable
  <2>3. /\ Core' /\ PoolTyped' /\ SessionTyped' /\ ReportsTyped' /\ ReportStep
        /\ todo' \in Seq(Calls) /\ SameCalls(Tail(todo), todo')
    BY <1>1, <1>2, <1>3, <1>4, <2>1, <2>2, CompleteLargeKeeps
  <2> QED BY <1>4, <2>1, <2>3 DEF Freed, IInv, Typed, HistoryTyped, BoundsTyped, bounds
<1>6. ASSUME FragmentPutOff PROVE Goal
  <2>1. /\ Freed(s) /\ UNCHANGED <<session, outcome, reports, delivered, irqs>>
        /\ duties < MaxDuty /\ duties' = duties + 1
        /\ todo' = <<NextFragment(TRUE)>> \o Tail(todo)
    BY <1>4, <1>6 DEF FragmentPutOff, history
  <2>2. PICK c \in {Later, Again} : todo' = <<c>> \o Tail(todo)
    BY <2>1 DEF NextFragment, Later
  <2>3. SessionTyped'
    BY <2>1 DEF IInv, Typed, SessionTyped
  <2>4. \A k \in 0..(session'.next - 1) : <<session.large, k>> \in delivered'
    <3>1. session.used
      BY <1>1, <1>2, <1>4, <2>1, FragmentFreed
    <3> QED BY <2>1, <3>1 DEF IInv, Core, SessionOK
  <2>5. /\ Core' /\ PoolTyped' /\ todo' \in Seq(Calls) /\ SameCalls(Tail(todo), todo')
    BY <1>1, <1>2, <1>3, <1>4, <2>1, <2>2, <2>3, <2>4, ContinueKeeps
  <2>6. ReportsTyped' /\ ReportStep /\ delivered' \subseteq Frags
    BY <2>1, QuietReports DEF IInv, Typed, HistoryTyped, ReportsTyped
  <2>7. BoundsTyped'
    BY <2>1, SizeAssumption DEF IInv, Typed, BoundsTyped
  <2> QED BY <1>4, <2>1, <2>3, <2>5, <2>6, <2>7 DEF Freed
<1>7. ASSUME FragmentSendFails PROVE Goal
  <2>1. PICK ok, late \in BOOLEAN : FragmentResult(s, ok, late, Tail(todo))
    BY <1>4, <1>7 DEF FragmentSendFails
  <2>2. BoundsTyped'
    BY <1>7 DEF FragmentSendFails, IInv, Typed, BoundsTyped, bounds
  <2> QED BY <1>1, <1>2, <1>3, <1>4, <2>1, <2>2, FragmentResultKeeps
<1>8. Goal
  BY <1>5, <1>6, <1>7
<1>9. Typed'
  BY <1>1, <1>8 DEF IInv, Typed, QueueTyped, AppTyped, WorkerTyped,
     TableTyped, RadioTyped, HistoryTyped, ReportsTyped, tableVars
<1>10. WireOK'
  <2>1. Times(todo', Drain) = Times(todo, Drain)
    BY <1>3, <1>8 DEF SameCalls
  <2> QED BY <1>1, <2>1, WireFrame DEF IInv, tableVars
<1>11. OneOwner'
  BY <1>1, <1>8, CallerFrees DEF tableVars
<1> QED BY <1>8, <1>9, <1>10, <1>11 DEF Kept

\* What taking the call in hand from the list changes.
LEMMA TakenCounts ==
  ASSUME IInv, todo # <<>>, todo[1][1] \in {"route", "send"}, NEW s \in Slots
  PROVE  /\ s # Arg => /\ Times(todo, Route(s)) = Times(Tail(todo), Route(s))
                      /\ Times(todo, Transmit(s)) = Times(Tail(todo), Transmit(s))
         /\ s = Arg /\ todo[1][1] = "route" =>
               /\ Times(todo, Route(s)) = Times(Tail(todo), Route(s)) + 1
               /\ Times(todo, Transmit(s)) = Times(Tail(todo), Transmit(s))
         /\ s = Arg /\ todo[1][1] = "send" =>
               /\ Times(todo, Route(s)) = Times(Tail(todo), Route(s))
               /\ Times(todo, Transmit(s)) = Times(Tail(todo), Transmit(s)) + 1
         /\ Times(Tail(todo), Route(s)) \in Nat /\ Times(Tail(todo), Transmit(s)) \in Nat
<1>1. /\ todo[1] \in Calls /\ Tail(todo) \in Seq(Calls)
      /\ CallCounts(Tail(todo), todo[1], todo)
  BY CallInHand DEF IInv
<1>2. Times(Tail(todo), Route(s)) \in Nat /\ Times(Tail(todo), Transmit(s)) \in Nat
  BY <1>1, CallsCounted
<1>3. /\ todo[1] = Route(s) <=> todo[1][1] = "route" /\ Arg = s
      /\ todo[1] = Transmit(s) <=> todo[1][1] = "send" /\ Arg = s
  BY <1>1, KindsOfCall DEF Arg
<1>4. /\ Times(todo, Route(s)) = Times(Tail(todo), Route(s)) + Is(todo[1] = Route(s))
      /\ Times(todo, Transmit(s)) = Times(Tail(todo), Transmit(s)) + Is(todo[1] = Transmit(s))
  BY <1>1 DEF CallCounts
<1>5. CASE s # Arg
  <2>1. Is(todo[1] = Route(s)) = 0 /\ Is(todo[1] = Transmit(s)) = 0
    BY <1>3, <1>5 DEF Is
  <2> QED BY <1>2, <1>4, <1>5, <2>1
<1>6. CASE s = Arg /\ todo[1][1] = "route"
  <2>1. Is(todo[1] = Route(s)) = 1 /\ Is(todo[1] = Transmit(s)) = 0
    BY <1>3, <1>6 DEF Is
  <2> QED BY <1>2, <1>4, <1>6, <2>1
<1>7. CASE s = Arg /\ todo[1][1] = "send"
  <2>1. Is(todo[1] = Route(s)) = 0 /\ Is(todo[1] = Transmit(s)) = 1
    BY <1>3, <1>7 DEF Is
  <2> QED BY <1>2, <1>4, <1>7, <2>1
<1> QED BY <1>5, <1>6, <1>7

\* The frame is out: its slot passes to _pending, or the message is done.
LEMMA SentKeeps ==
  ASSUME IInv, Sent
  PROVE  Kept
<1>1. /\ todo # <<>> /\ todo[1][1] = "send" /\ radio = NoSlot /\ radio' = radio
      /\ UNCHANGED <<queue, app, phase, scan, deferred, parked, ripe, jittered, early, bounds>>
  BY DEF Sent, Calling
<1>2. Arg \in used /\ Arg \in Slots /\ Arg # app.slot /\ Times(pending, Arg) = 0
  BY <1>1, SlotInHand
<1>3. /\ Tail(todo) \in Seq(Calls) /\ Nexts(Tail(todo)) = Nexts(todo)
      /\ Times(Tail(todo), Drain) = Times(todo, Drain)
  BY <1>1, SlotCallTaken
<1>n. NoSlot \notin Slots
  BY SizeAssumption DEF Slots, NoSlot
<1>4. CASE NeedsAck(Arg)
  <2>1. /\ pending' = [pending EXCEPT ![FreeEntry] = Arg]
        /\ \E c \in {"future", "waiting"} : clock' = [clock EXCEPT ![FreeEntry] = c]
        /\ todo' = Tail(todo)
        /\ UNCHANGED <<pool, used, session, outcome, reports, delivered>>
    BY <1>4 DEF Sent, NoReport, poolVars
  <2>2. PICK e \in Slots : e = FreeEntry /\ pending[e] = NoSlot
    <3>1. ASSUME NEW s \in Slots PROVE Times(pending, s) <= 1
      <4>1. Owners(s) = InSet(used, s) /\ Counted(s)
        BY OwnersCounted DEF IInv, OneOwner
      <4> QED BY <4>1 DEF Owners, Counted
    <3>2. pending \in [Slots -> Slots \cup {NoSlot}]
      BY DEF IInv, Typed, TableTyped
    <3> QED BY <1>2, <3>1, <3>2, FreeEntryIsFree
  <2>3. Typed'
    BY <1>1, <1>2, <1>3, <2>1, <2>2 DEF IInv, Typed, PoolTyped, QueueTyped, SessionTyped, AppTyped,
       WorkerTyped, TableTyped, RadioTyped, HistoryTyped, BoundsTyped, bounds
  <2>4. Core'
    BY <1>1, <1>3, <2>1, CoreFrame DEF IInv
  <2>5. WireOK'
    <3>1. \A i \in Slots : clock'[i] # "off" => pending'[i] # NoSlot
      BY <1>2, <1>n, <2>1, <2>2 DEF IInv, WireOK, Typed, TableTyped
    <3>2. radio' \notin Slots /\ ~(radio' # NoSlot)
      BY <1>1, <1>n
    <3> QED BY <3>1, <3>2 DEF WireOK
  <2>6. OneOwner'
    <3> SUFFICES ASSUME NEW s \in Slots PROVE Owners(s)' = InSet(used', s)
      BY DEF OneOwner
    <3>1. Owners(s) = InSet(used, s) /\ Counted(s)
      BY OwnersCounted DEF IInv, OneOwner
    <3>2. /\ pending[e] = NoSlot /\ NoSlot # s /\ pending'[e] = Arg
          /\ PoolSize \in Nat /\ DifferAt(pending, pending', e, PoolSize)
      BY <1>n, <2>1, <2>2, SizeAssumption DEF IInv, Typed, TableTyped, Slots, DifferAt
    <3>3. /\ s = Arg => Times(pending', s) = Times(pending, s) + 1
          /\ s # Arg => Times(pending', s) = Times(pending, s)
          /\ Times(pending', s) \in Nat
      <4>1. PICK f, g : f = pending /\ g = pending'
        OBVIOUS
      <4>2. DifferAt(f, g, e, PoolSize) /\ f[e] # s /\ g[e] = Arg /\ PoolSize \in Nat
        BY <3>2, <4>1
      <4>3. /\ f[e] # s /\ g[e] = s => Times(g, s) = Times(f, s) + 1
            /\ f[e] # s /\ g[e] # s => Times(g, s) = Times(f, s)
            /\ Times(g, s) \in Nat
        BY <4>2, TimesExcept
      <4> QED BY <4>1, <4>2, <4>3
    <3>4. CASE s = Arg
      <4>1. /\ Times(todo', Route(s)) = Times(todo, Route(s)) /\ Times(todo', Route(s)) \in Nat
            /\ Times(todo, Transmit(s)) = Times(todo', Transmit(s)) + 1
            /\ Times(todo', Transmit(s)) \in Nat
        BY <1>1, <2>1, <3>4, TakenCounts
      <4>2. Times(pending', s) = Times(pending, s) + 1
        BY <3>3, <3>4
      <4>3. MovesBy(s, 0, 0, 1, 0, 0, 0, 0, -1)
        <5>1. UNCHANGED <<app, queue, deferred, parked, ripe>>
          BY <1>1
        <5>2. Times(todo', Transmit(s)) = Times(todo, Transmit(s)) + (-1)
          BY <4>1
        <5> QED BY <3>1, <4>1, <4>2, <5>1, <5>2, Still DEF MovesBy
      <4>4. Owners(s)' = Owners(s)
        BY <3>1, <4>3, OwnersMove
      <4> QED BY <2>1, <3>1, <4>4 DEF InSet
    <3>5. CASE s # Arg
      <4>1. /\ Times(todo', Route(s)) = Times(todo, Route(s))
            /\ Times(todo', Transmit(s)) = Times(todo, Transmit(s))
        BY <1>1, <2>1, <3>5, TakenCounts
      <4>2. Times(pending', s) = Times(pending, s)
        BY <3>3, <3>5
      <4> QED BY <1>1, <2>1, <3>1, <4>1, <4>2 DEF Owners
    <3> QED BY <3>4, <3>5
  <2>7. ReportStep
    BY <2>1, QuietReports
  <2> QED BY <2>3, <2>4, <2>5, <2>6, <2>7 DEF Kept
<1>5. CASE ~NeedsAck(Arg)
  <2>1. Delivered(Arg, Tail(todo)) /\ UNCHANGED <<pending, clock>>
    BY <1>5 DEF Sent
  <2>2. /\ Core' /\ PoolTyped' /\ SessionTyped' /\ ReportsTyped' /\ ReportStep
        /\ delivered' \subseteq Frags /\ used' = used \ {Arg}
        /\ todo' \in Seq(Calls) /\ SameCalls(Tail(todo), todo')
    BY <1>1, <1>2, <1>3, <2>1, DeliveredKeeps
  <2>3. Typed'
    BY <1>1, <2>1, <2>2 DEF IInv, Typed, QueueTyped, AppTyped, WorkerTyped,
       TableTyped, RadioTyped, HistoryTyped, ReportsTyped, BoundsTyped, bounds
  <2>4. WireOK'
    <3>1. Times(todo', Drain) = Times(todo, Drain)
      BY <1>3, <2>2 DEF SameCalls
    <3> QED BY <1>1, <2>1, <3>1, WireFrame DEF IInv
  <2>5. OneOwner'
    BY <1>1, <2>1, <2>2, CallerFrees
  <2> QED BY <2>2, <2>3, <2>4, <2>5 DEF Kept
<1> QED BY <1>4, <1>5

\* A slot that is about to be routed is not delayed as well.
LEMMA RoutedNotParked ==
  ASSUME IInv, todo # <<>>, todo[1][1] = "route", NEW s \in Slots, s = Arg
  PROVE  s \notin parked
<1>1. Owners(s) = InSet(used, s) /\ Counted(s)
  BY OwnersCounted DEF IInv, OneOwner
<1>2. Times(todo, Route(s)) = Times(Tail(todo), Route(s)) + 1 /\ Times(Tail(todo), Route(s)) \in Nat
  BY TakenCounts
<1>3. Times(todo, Route(s)) >= 1
  BY <1>2
<1>4. InSet(parked, s) < 1
  BY <1>1, <1>3 DEF Owners, Counted
<1> QED BY <1>4 DEF InSet

\* _routeTxReq passes the slot on: to _sendMsg, to _delayedTx or to _deferred.
LEMMA RouteTxReqKeeps ==
  ASSUME IInv, RouteTxReq
  PROVE  Kept
<1>1. /\ todo # <<>> /\ todo[1][1] = "route"
      /\ UNCHANGED <<poolVars, queue, session, app, phase, scan, pending, clock, ripe,
                     radio, history, bounds>>
  BY DEF RouteTxReq, Calling
<1>2. PICK a \in Slots : a = Arg /\ a \in used
  BY <1>1, SlotInHand
<1>3. /\ Tail(todo) \in Seq(Calls) /\ Nexts(Tail(todo)) = Nexts(todo)
      /\ Times(Tail(todo), Drain) = Times(todo, Drain)
  BY <1>1, SlotCallTaken
<1>4. \/ todo' = <<Transmit(a)>> \o Tail(todo) /\ UNCHANGED <<deferred, parked, jittered>>
      \/ /\ todo' = Tail(todo) /\ parked' = parked \cup {a} /\ jittered' = jittered \cup {a}
         /\ deferred' = deferred
      \/ /\ todo' = Tail(todo) /\ deferred' = Append(deferred, a)
         /\ UNCHANGED <<parked, jittered>>
  BY <1>2 DEF RouteTxReq
<1>5. /\ todo' = <<Transmit(a)>> \o Tail(todo) =>
            todo' \in Seq(Calls) /\ CallCounts(Tail(todo), Transmit(a), todo')
      /\ Transmit(a) \notin {Later, Again, Drain}
      /\ \A s \in Slots : Transmit(a) # Route(s) /\ (Transmit(a) = Transmit(s) <=> a = s)
  <2>1. Transmit(a) \in Calls
    BY DEF Calls
  <2>2. Transmit(a) \notin {Later, Again, Drain}
    BY DEF Transmit, Later, Again, Drain
  <2>3. \A s \in Slots : Transmit(a) # Route(s) /\ (Transmit(a) = Transmit(s) <=> a = s)
    BY DEF Transmit, Route
  <2> QED BY <1>3, <2>1, <2>2, <2>3, CallMade
<1>6. todo' \in Seq(Calls) /\ Nexts(todo') = Nexts(todo) /\ Times(todo', Drain) = Times(todo, Drain)
  <2>1. Is(Transmit(a) \in {Later, Again}) = 0 /\ Is(Transmit(a) = Drain) = 0
    BY <1>5 DEF Is
  <2>2. Nexts(Tail(todo)) \in Nat /\ Times(Tail(todo), Drain) \in Nat
    BY <1>3, CallsCounted
  <2>3. CASE todo' = <<Transmit(a)>> \o Tail(todo)
    BY <1>3, <1>5, <2>1, <2>2, <2>3 DEF CallCounts
  <2>4. CASE todo' = Tail(todo)
    BY <1>3, <2>4
  <2> QED BY <1>4, <2>3, <2>4
<1>7. Typed'
  <2>1. deferred' \in Seq(Slots) /\ parked' \subseteq Slots /\ jittered' \subseteq Slots
    <3>1. Append(deferred, a) \in Seq(Slots)
      BY AppendProperties DEF IInv, Typed, TableTyped
    <3> QED BY <1>4, <3>1 DEF IInv, Typed, TableTyped
  <2> QED BY <1>1, <1>6, <2>1 DEF IInv, Typed, PoolTyped, QueueTyped, SessionTyped, AppTyped,
       WorkerTyped, TableTyped, RadioTyped, HistoryTyped, BoundsTyped, poolVars, history, bounds
<1>8. Core'
  BY <1>1, <1>6, CoreFrame DEF IInv, poolVars, history
<1>9. WireOK'
  BY <1>1, <1>6, WireFrame DEF IInv
<1>10. OneOwner'
  <2> SUFFICES ASSUME NEW s \in Slots PROVE Owners(s)' = InSet(used', s)
    BY DEF OneOwner
  <2>1. Owners(s) = InSet(used, s) /\ Counted(s) /\ used' = used
    BY <1>1, OwnersCounted DEF IInv, OneOwner, poolVars
  <2>2. UNCHANGED <<app, queue, pending, ripe>>
    BY <1>1
  <2>3. CASE s = a
    <3>1. /\ Times(todo, Route(s)) = Times(Tail(todo), Route(s)) + 1
          /\ Times(todo, Transmit(s)) = Times(Tail(todo), Transmit(s))
          /\ Times(Tail(todo), Route(s)) \in Nat /\ Times(Tail(todo), Transmit(s)) \in Nat
      BY <1>1, <1>2, <2>3, TakenCounts
    <3>2. s \notin parked
      BY <1>1, <1>2, <2>3, RoutedNotParked
    <3>3. CASE todo' = <<Transmit(a)>> \o Tail(todo) /\ UNCHANGED <<deferred, parked, jittered>>
      <4>1. Is(Transmit(a) = Route(s)) = 0 /\ Is(Transmit(a) = Transmit(s)) = 1
        BY <1>5, <2>3 DEF Is
      <4>2. /\ Times(todo', Route(s)) = Times(Tail(todo), Route(s))
            /\ Times(todo', Transmit(s)) = Times(Tail(todo), Transmit(s)) + 1
        BY <1>5, <3>1, <3>3, <4>1 DEF CallCounts
      <4>a. Times(todo', Route(s)) = Times(todo, Route(s)) + (-1)
        BY <3>1, <4>2
      <4>3. MovesBy(s, 0, 0, 0, 0, 0, 0, -1, 1)
        BY <2>1, <2>2, <3>1, <3>3, <4>2, <4>a, Still DEF MovesBy
      <4>4. Owners(s)' = Owners(s)
        BY <2>1, <4>3, OwnersMove
      <4> QED BY <2>1, <4>4 DEF InSet
    <3>4. CASE todo' = Tail(todo) /\ parked' = parked \cup {a} /\ deferred' = deferred
      <4>1. InSet(parked', s) = InSet(parked, s) + 1
        BY <2>3, <3>2, <3>4 DEF InSet
      <4>2. Times(todo', Transmit(s)) = Times(todo, Transmit(s))
        BY <3>1, <3>4
      <4>a. Times(todo', Route(s)) = Times(todo, Route(s)) + (-1)
        BY <3>1, <3>4
      <4>3. MovesBy(s, 0, 0, 0, 0, 1, 0, -1, 0)
        BY <2>1, <2>2, <3>4, <4>1, <4>2, <4>a, Still DEF MovesBy
      <4>4. Owners(s)' = Owners(s)
        BY <2>1, <4>3, OwnersMove
      <4> QED BY <2>1, <4>4 DEF InSet
    <3>5. CASE todo' = Tail(todo) /\ deferred' = Append(deferred, a) /\ parked' = parked
      <4>1. Times(deferred', s) = Times(deferred, s) + 1
        <5>1. Times(deferred', s) = Times(deferred, s) + Is(a = s)
          BY <3>5, TimesAppend DEF IInv, Typed, TableTyped
        <5> QED BY <2>3, <5>1 DEF Is
      <4>2. Times(todo', Transmit(s)) = Times(todo, Transmit(s))
        BY <3>1, <3>5
      <4>a. Times(todo', Route(s)) = Times(todo, Route(s)) + (-1)
        BY <3>1, <3>5
      <4>3. MovesBy(s, 0, 0, 0, 1, 0, 0, -1, 0)
        BY <2>1, <2>2, <3>5, <4>1, <4>2, <4>a, Still DEF MovesBy
      <4>4. Owners(s)' = Owners(s)
        BY <2>1, <4>3, OwnersMove
      <4> QED BY <2>1, <4>4 DEF InSet
    <3> QED BY <1>4, <3>3, <3>4, <3>5
  <2>4. CASE s # a
    <3>1. /\ Times(todo, Route(s)) = Times(Tail(todo), Route(s))
          /\ Times(todo, Transmit(s)) = Times(Tail(todo), Transmit(s))
          /\ Times(Tail(todo), Route(s)) \in Nat /\ Times(Tail(todo), Transmit(s)) \in Nat
      BY <1>1, <1>2, <2>4, TakenCounts
    <3>2. Times(todo', Route(s)) = Times(todo, Route(s))
          /\ Times(todo', Transmit(s)) = Times(todo, Transmit(s))
      <4>1. Is(Transmit(a) = Route(s)) = 0 /\ Is(Transmit(a) = Transmit(s)) = 0
        BY <1>5, <2>4 DEF Is
      <4>2. CASE todo' = <<Transmit(a)>> \o Tail(todo)
        BY <1>5, <3>1, <4>1, <4>2 DEF CallCounts
      <4>3. CASE todo' = Tail(todo)
        BY <3>1, <4>3
      <4> QED BY <1>4, <4>2, <4>3
    <3>3. InSet(parked', s) = InSet(parked, s)
      BY <1>4, <2>4 DEF InSet
    <3>4. Times(deferred', s) = Times(deferred, s)
      <4>1. Times(Append(deferred, a), s) = Times(deferred, s) + Is(a = s)
        BY TimesAppend DEF IInv, Typed, TableTyped
      <4>2. Times(deferred, s) \in Nat /\ Is(a = s) = 0
        BY <2>1, <2>4 DEF Counted, Is
      <4>3. Times(Append(deferred, a), s) = Times(deferred, s)
        BY <4>1, <4>2
      <4> QED BY <1>4, <4>3
    <3> QED BY <2>1, <2>2, <3>2, <3>3, <3>4 DEF Owners
  <2> QED BY <2>3, <2>4
<1>11. ReportStep
  BY <1>1, QuietReports DEF history
<1> QED BY <1>7, <1>8, <1>9, <1>10, <1>11 DEF Kept

-----------------------------------------------------------------------------
(* The worker: the next fragment, the deferred messages.                   *)

\* _sendNextFragment fills a slot, or leaves the session waiting.
LEMMA SendNextFragmentKeeps ==
  ASSUME IInv, SendNextFragment
  PROVE  Kept
<1>1. /\ todo # <<>> /\ todo[1][1] = "next" /\ todo' = Tail(todo)
      /\ UNCHANGED <<app, phase, scan, pending, clock, deferred, ripe, jittered,
                     radio, history, bounds>>
  BY DEF SendNextFragment, Calling
<1>2. /\ todo[1] \in Calls /\ Tail(todo) \in Seq(Calls)
      /\ CallCounts(Tail(todo), todo[1], todo) /\ todo[1] \in {Later, Again}
  BY <1>1, CallInHand, KindsOfCall DEF IInv
<1>3. /\ \A s \in Slots : /\ Times(todo', Route(s)) = Times(todo, Route(s))
                          /\ Times(todo', Transmit(s)) = Times(todo, Transmit(s))
      /\ Times(todo', Drain) = Times(todo, Drain)
      /\ Nexts(todo) = Nexts(todo') + 1 /\ Nexts(todo') \in Nat
  <2>1. /\ \A s \in Slots : Is(todo[1] = Route(s)) = 0 /\ Is(todo[1] = Transmit(s)) = 0
        /\ Is(todo[1] = Drain) = 0 /\ Is(todo[1] \in {Later, Again}) = 1
    BY <1>2 DEF Is, Later, Again, Route, Transmit, Drain
  <2>2. /\ \A s \in Slots : /\ Times(Tail(todo), Route(s)) \in Nat
                            /\ Times(Tail(todo), Transmit(s)) \in Nat
        /\ Nexts(Tail(todo)) \in Nat /\ Times(Tail(todo), Drain) \in Nat
    BY <1>2, CallsCounted
  <2> QED BY <1>1, <1>2, <2>1, <2>2 DEF CallCounts
<1>4. /\ Typed /\ AppOK /\ SessionOK /\ OneFragment /\ PoolOK /\ LargeOkMeansAll
      /\ WireOK /\ OneOwner
  BY DEF IInv, Core
<1>5. /\ Nexts(todo) = 1 /\ Nexts(todo') = 0 /\ InFlight = {} /\ session.used
      /\ app.at \notin {"opened", "filled"} /\ session.large \in Larges
  <2>1. Nexts(todo) = 1 /\ Nexts(todo') = 0
    BY <1>3, <1>4 DEF OneFragment
  <2>2. InFlight = {} /\ session.used /\ app.at # "opened"
    BY <1>4, <2>1 DEF OneFragment
  <2>3. app.at # "filled"
    BY <1>4, <2>2 DEF AppOK, InFlight, IsFragment
  <2> QED BY <1>4, <2>1, <2>2, <2>3 DEF SessionOK
<1>6. NoSlot \notin Slots
  BY SizeAssumption DEF Slots, NoSlot
<1>7. WireOK' \/ (queue' # queue)
  BY <1>1, <1>3, <1>4, WireFrame
<1>8. ReportStep
  BY <1>1, QuietReports DEF history
<1> DEFINE n == LowestFree(TRUE)
           f == <<session.large, session.next>>
<1>9. CASE /\ CanAlloc(TRUE) /\ Filled(n, f) /\ session' = [session EXCEPT !.waiting = FALSE]
           /\ \/ parked' = parked \cup {n} /\ queue' = queue
              \/ Len(queue) < QueueDepth /\ queue' = Append(queue, n) /\ parked' = parked
  <2>1. /\ pool' = [pool EXCEPT ![n] = f] /\ used' = used \cup {n}
    BY <1>9 DEF Filled
  <2>2. n \in Slots /\ n \notin used
    BY <1>9, LowestIsFree
  <2>3. f \in Frags
    BY <1>4, <1>5 DEF Frags, Typed, SessionTyped
  <2>a. /\ session'.used = session.used /\ session'.large = session.large
        /\ session'.next = session.next /\ session'.waiting = FALSE /\ SessionTyped'
    BY <1>4, <1>9 DEF Typed, SessionTyped
  <2>4. f = <<session'.large, session'.next>>
    BY <2>a
  <2> DEFINE Placed == \/ parked' = parked \cup {n} /\ queue' = queue
                       \/ Len(queue) < QueueDepth /\ queue' = Append(queue, n) /\ parked' = parked
  <2>b. Placed
    BY <1>9
  <2>c. /\ QueueTyped' /\ parked' \subseteq Slots /\ (queue' = queue \/ queue' # <<>>)
    BY <1>4, <2>2, <2>b, QueueGrows DEF Typed, QueueTyped, TableTyped
  <2> HIDE DEF n, f
  <2>d. n \notin parked /\ app.slot # n
    <3>1. Owners(n) = InSet(used, n) /\ Counted(n) /\ InSet(used, n) = 0
      BY <1>4, <2>2, OwnersCounted DEF OneOwner, InSet
    <3>2. InSet(parked, n) < 1
      BY <3>1 DEF Owners, Counted
    <3>3. InSet({app.slot}, n) < 1
      BY <3>1 DEF Owners, Counted
    <3> QED BY <3>2, <3>3 DEF InSet
  <2>e. ASSUME NEW s \in Slots
        PROVE  /\ s = n => Times(queue', s) + InSet(parked', s)
                              = Times(queue, s) + InSet(parked, s) + 1
               /\ s # n => Times(queue', s) = Times(queue, s)
                              /\ InSet(parked', s) = InSet(parked, s)
               /\ queue' = queue \/ parked' = parked
               /\ Times(queue', s) \in Nat
    <3>1. Times(queue, s) \in Nat
      BY <1>4, OwnersCounted DEF Counted
    <3>a. InSet(parked, s) \in Nat /\ InSet(parked', s) \in Nat
      BY DEF InSet
    <3>2. CASE parked' = parked \cup {n} /\ queue' = queue
      <4>1. s = n => InSet(parked, s) = 0 /\ InSet(parked', s) = 1
        BY <2>d, <3>2 DEF InSet
      <4>2. s # n => InSet(parked', s) = InSet(parked, s)
        BY <3>2 DEF InSet
      <4> QED BY <3>1, <3>2, <3>a, <4>1, <4>2
    <3>3. CASE queue' = Append(queue, n) /\ parked' = parked
      <4>1. Times(queue', s) = Times(queue, s) + Is(n = s)
        BY <1>4, <2>2, <3>3, TimesAppend DEF Typed, QueueTyped
      <4>2. s = n => Is(n = s) = 1
        BY DEF Is
      <4>3. s # n => Is(n = s) = 0
        BY DEF Is
      <4> QED BY <3>1, <3>3, <3>a, <4>1, <4>2, <4>3
    <3> QED BY <2>b, <3>2, <3>3
  <2>5. f \notin Msgs
    BY <2>3, MsgAssumption
  <2>7. pool'[n] = f /\ \A s \in used : s \in Slots /\ s # n /\ pool'[s] = pool[s]
    BY <1>4, <2>1, <2>2 DEF Typed, PoolTyped
  <2>8. Typed'
    <3>1. PoolTyped'
      BY <1>4, <2>1, <2>2, <2>3 DEF Typed, PoolTyped
    <3> QED BY <1>1, <1>2, <1>4, <2>a, <2>c, <3>1 DEF Typed, AppTyped, WorkerTyped,
         TableTyped, RadioTyped, HistoryTyped, BoundsTyped, history, bounds
  <2>9. Core'
    <3>1. AppOK'
      BY <1>1, <1>4, <1>5, <2>1, <2>7, <2>a DEF AppOK, history
    <3>2. SessionOK'
      BY <1>1, <1>4, <2>a DEF SessionOK, history
    <3>3. InFlight' = {n}
      <4>1. \A s \in used' : s = n \/ s \in used
        BY <2>1
      <4>2. n \in used'
        BY <2>1
      <4>3. \A s \in used : pool[s] \notin Frags
        BY <1>5 DEF InFlight, IsFragment
      <4>4. \A s \in used' : pool'[s] \in Frags <=> s = n
        BY <2>2, <2>3, <2>7, <4>1, <4>3
      <4>5. InFlight' = {s \in used' : pool'[s] \in Frags}
        BY DEF InFlight, IsFragment
      <4> QED BY <4>2, <4>4, <4>5
    <3>4. OneFragment'
      BY <1>1, <1>5, <2>4, <2>7, <2>a, <3>3 DEF OneFragment
    <3>5. PoolOK'
      <4>1. \A s \in used' : pool'[s] \in Msgs \cup Frags
        BY <1>4, <2>1, <2>3, <2>7 DEF PoolOK
      <4>2. \A s \in used' : s # app'.slot /\ pool'[s] \in Msgs => outcome'[pool'[s]] = "accepted"
        BY <1>1, <1>4, <2>1, <2>5, <2>7 DEF PoolOK, history
      <4>3. \A s, r \in used' : pool'[s] \in Msgs /\ pool'[s] = pool'[r] => s = r
        BY <1>4, <2>1, <2>5, <2>7 DEF PoolOK
      <4>4. PoolSize \in used' => pool'[PoolSize] \in Frags
        BY <1>4, <2>1, <2>3, <2>7 DEF PoolOK
      <4> QED BY <4>1, <4>2, <4>3, <4>4 DEF PoolOK
    <3>6. LargeOkMeansAll'
      BY <1>1, <1>4 DEF LargeOkMeansAll, history
    <3> QED BY <3>1, <3>2, <3>4, <3>5, <3>6 DEF Core
  <2>10. WireOK'
    BY <1>1, <1>3, <1>4, <2>c DEF WireOK
  <2>11. OneOwner'
    <3> SUFFICES ASSUME NEW s \in Slots PROVE Owners(s)' = InSet(used', s)
      BY DEF OneOwner
    <3>1. Owners(s) = InSet(used, s) /\ Counted(s)
      BY <1>4, OwnersCounted DEF OneOwner
    <3>2. UNCHANGED <<app, pending, deferred, ripe>>
      BY <1>1
    <3>3. CASE s = n
      <4>1. InSet(used, s) = 0 /\ InSet(used', s) = 1
        BY <2>1, <2>2, <3>3 DEF InSet
      <4>2. Owners(s)' = Owners(s) + 1
        <5>1. CASE queue' = queue
          <6>1. InSet(parked', s) = InSet(parked, s) + 1
            <7>1. Times(queue, s) \in Nat /\ InSet(parked, s) \in Nat /\ InSet(parked', s) \in Nat
              BY <3>1 DEF Counted, InSet
            <7> QED BY <2>e, <3>3, <5>1, <7>1
          <6>2. MovesBy(s, 0, 0, 0, 0, 1, 0, 0, 0)
            BY <1>3, <3>1, <3>2, <5>1, <6>1, Still DEF MovesBy
          <6> QED BY <3>1, <6>2, OwnersMove
        <5>2. CASE parked' = parked
          <6>1. Times(queue', s) = Times(queue, s) + 1
            <7>1. Times(queue, s) \in Nat /\ InSet(parked, s) \in Nat
              BY <3>1 DEF Counted, InSet
            <7> QED BY <2>e, <3>3, <5>2, <7>1
          <6>2. MovesBy(s, 0, 1, 0, 0, 0, 0, 0, 0)
            BY <1>3, <3>1, <3>2, <5>2, <6>1, Still DEF MovesBy
          <6> QED BY <3>1, <6>2, OwnersMove
        <5> QED BY <2>e, <5>1, <5>2
      <4> QED BY <3>1, <4>1, <4>2
    <3>4. CASE s # n
      <4>1. InSet(used', s) = InSet(used, s)
        BY <2>1, <3>4 DEF InSet
      <4>2. Times(queue', s) = Times(queue, s) /\ InSet(parked', s) = InSet(parked, s)
        BY <2>e, <3>4
      <4> QED BY <1>3, <3>1, <3>2, <4>1, <4>2 DEF Owners
    <3> QED BY <3>3, <3>4
  <2> QED BY <1>8, <2>8, <2>9, <2>10, <2>11 DEF Kept
<1>10. CASE /\ session' = [session EXCEPT !.waiting = TRUE]
            /\ UNCHANGED <<poolVars, queue, parked>>
  <2>1. /\ session'.used = session.used /\ session'.large = session.large
        /\ session'.next = session.next /\ session'.waiting = TRUE /\ SessionTyped'
    BY <1>4, <1>10 DEF Typed, SessionTyped
  <2>2. Typed'
    BY <1>1, <1>2, <1>4, <1>10, <2>1 DEF Typed, PoolTyped, QueueTyped, AppTyped, WorkerTyped,
       TableTyped, RadioTyped, HistoryTyped, BoundsTyped, history, bounds, poolVars
  <2>3. Core'
    <3>1. AppOK'
      BY <1>1, <1>4, <1>10, <2>1 DEF AppOK, history, poolVars
    <3>2. SessionOK'
      BY <1>1, <1>4, <1>5, <2>1 DEF SessionOK, history
    <3>3. InFlight' = {}
      BY <1>5, <1>10 DEF InFlight, IsFragment, poolVars
    <3>4. OneFragment'
      BY <1>1, <1>5, <2>1, <3>3 DEF OneFragment
    <3>5. PoolOK'
      BY <1>1, <1>4, <1>10 DEF PoolOK, poolVars, history
    <3>6. LargeOkMeansAll'
      BY <1>1, <1>4 DEF LargeOkMeansAll, history
    <3> QED BY <3>1, <3>2, <3>4, <3>5, <3>6 DEF Core
  <2>4. WireOK'
    BY <1>7, <1>10
  <2>5. OneOwner'
    BY <1>1, <1>3, <1>4, <1>10 DEF OneOwner, Owners, poolVars
  <2> QED BY <1>8, <2>2, <2>3, <2>4, <2>5 DEF Kept
<1> QED BY <1>9, <1>10 DEF SendNextFragment

\* _flushDeferred: the deferred messages move from their table to the calls.
LEMMA FlushDeferredKeeps ==
  ASSUME IInv, FlushDeferred
  PROVE  Kept
<1>1. /\ todo # <<>> /\ todo[1][1] = "flush" /\ deferred' = <<>>
      /\ UNCHANGED <<poolVars, queue, session, app, phase, scan, pending, clock, parked,
                     ripe, jittered, radio, history, bounds>>
  BY DEF FlushDeferred, Calling
<1>2. PICK t : t = [i \in DOMAIN deferred |-> Route(deferred[i])]
  OBVIOUS
<1>3. todo' = t \o Tail(todo)
  BY <1>2 DEF FlushDeferred
<1>4. /\ todo[1] = Flush /\ Tail(todo) \in Seq(Calls)
      /\ CallCounts(Tail(todo), todo[1], todo)
  BY <1>1, CallInHand, KindsOfCall DEF IInv
<1>5. /\ \A s \in Slots : /\ Times(Tail(todo), Route(s)) = Times(todo, Route(s))
                          /\ Times(Tail(todo), Transmit(s)) = Times(todo, Transmit(s))
      /\ Times(Tail(todo), Drain) = Times(todo, Drain)
      /\ Nexts(Tail(todo)) = Nexts(todo)
  <2>1. /\ \A s \in Slots : Is(todo[1] = Route(s)) = 0 /\ Is(todo[1] = Transmit(s)) = 0
        /\ Is(todo[1] = Drain) = 0 /\ Is(todo[1] \in {Later, Again}) = 0
    BY <1>4 DEF Is, Later, Again, Route, Transmit, Drain, Flush
  <2>2. /\ \A s \in Slots : /\ Times(Tail(todo), Route(s)) \in Nat
                            /\ Times(Tail(todo), Transmit(s)) \in Nat
        /\ Nexts(Tail(todo)) \in Nat /\ Times(Tail(todo), Drain) \in Nat
    BY <1>4, CallsCounted
  <2> QED BY <1>4, <2>1, <2>2 DEF CallCounts
<1>6. /\ t \in Seq(Calls)
      /\ \A s \in Slots : Times(t, Route(s)) = Times(deferred, s) /\ Times(t, Transmit(s)) = 0
      /\ Nexts(t) = 0 /\ Times(t, Drain) = 0
  <2>1. PICK d \in Seq(Slots) : d = deferred
    BY DEF IInv, Typed, TableTyped
  <2>2. t = [i \in DOMAIN d |-> Route(d[i])]
    BY <1>2, <2>1
  <2>3. /\ t \in Seq(Calls)
        /\ \A s \in Slots : Times(t, Route(s)) = Times(d, s) /\ Times(t, Transmit(s)) = 0
        /\ Nexts(t) = 0 /\ Times(t, Drain) = 0
    BY <2>2, TimesRouted
  <2> QED BY <2>1, <2>3
<1>7. /\ todo' \in Seq(Calls)
      /\ \A c : Times(todo', c) = Times(t, c) + Times(Tail(todo), c)
  <2>1. todo' \in Seq(Calls)
    BY <1>3, <1>4, <1>6, ConcatProperties
  <2>2. PICK b \in Seq(Calls) : b = Tail(todo)
    BY <1>4
  <2>3. ASSUME NEW c PROVE Times(t \o b, c) = Times(t, c) + Times(b, c)
    <3>1. t \in Seq(Calls) /\ b \in Seq(Calls)
      BY <1>6
    <3> QED BY <3>1, TimesConcat
  <2> QED BY <1>3, <2>1, <2>2, <2>3
<1>8. /\ \A s \in Slots : /\ Times(todo', Route(s)) = Times(todo, Route(s)) + Times(deferred, s)
                          /\ Times(todo', Transmit(s)) = Times(todo, Transmit(s))
      /\ Times(todo', Drain) = Times(todo, Drain)
      /\ Nexts(todo') = Nexts(todo)
  <2>1. /\ \A s \in Slots : /\ Times(todo, Route(s)) \in Nat /\ Times(deferred, s) \in Nat
                            /\ Times(todo, Transmit(s)) \in Nat
        /\ Nexts(todo) \in Nat /\ Times(todo, Drain) \in Nat
    BY CallsCounted, OwnersCounted DEF IInv, Typed, WorkerTyped, Counted
  <2>2. \A s \in Slots : Times(todo', Route(s)) = Times(todo, Route(s)) + Times(deferred, s)
    BY <1>5, <1>6, <1>7, <2>1
  <2>3. \A s \in Slots : Times(todo', Transmit(s)) = Times(todo, Transmit(s))
    BY <1>5, <1>6, <1>7, <2>1
  <2>4. Times(todo', Drain) = Times(todo, Drain)
    BY <1>5, <1>6, <1>7, <2>1
  <2>5. Nexts(todo') = Nexts(todo)
    <3>1. /\ Times(t, Later) \in Nat /\ Times(t, Again) \in Nat
          /\ Times(Tail(todo), Later) \in Nat /\ Times(Tail(todo), Again) \in Nat
      BY <1>4, <1>6, TimesOfSeq
    <3>2. Nexts(todo') = Nexts(t) + Nexts(Tail(todo))
      BY <1>7, <3>1 DEF Nexts
    <3>3. Nexts(Tail(todo)) \in Nat
      BY <1>4, CallsCounted
    <3> QED BY <1>5, <1>6, <3>2, <3>3
  <2> QED BY <2>2, <2>3, <2>4, <2>5
<1>9. Typed'
  <2>1. deferred' \in Seq(Slots)
    BY <1>1, EmptySeq
  <2> QED BY <1>1, <1>7, <2>1 DEF IInv, Typed, PoolTyped, QueueTyped, SessionTyped, AppTyped,
       WorkerTyped, TableTyped, RadioTyped, HistoryTyped, BoundsTyped, poolVars, history, bounds
<1>10. Core'
  BY <1>1, <1>8, CoreFrame DEF IInv, poolVars, history
<1>11. WireOK'
  BY <1>1, <1>8, WireFrame DEF IInv
<1>12. OneOwner'
  <2> SUFFICES ASSUME NEW s \in Slots PROVE Owners(s)' = InSet(used', s)
    BY DEF OneOwner
  <2>1. Owners(s) = InSet(used, s) /\ Counted(s)
    BY OwnersCounted DEF IInv, OneOwner
  <2>2. PICK D : D = Times(deferred, s)
    OBVIOUS
  <2>3. D \in Nat
    BY <2>1, <2>2 DEF Counted
  <2>4. MovesBy(s, 0, 0, 0, -D, 0, 0, D, 0)
    <3>1. Times(deferred', s) = 0
      BY <1>1, TimesOfEmpty
    <3>2. Times(deferred', s) = Times(deferred, s) + (-D)
      BY <2>2, <2>3, <3>1
    <3>3. UNCHANGED <<app, queue, pending, parked, ripe>>
      BY <1>1
    <3>4. /\ Times(todo', Route(s)) = Times(todo, Route(s)) + D
          /\ Times(todo', Transmit(s)) = Times(todo, Transmit(s))
      BY <1>8, <2>2
    <3> QED BY <2>1, <3>2, <3>3, <3>4, Still DEF MovesBy
  <2>5. Owners(s)' = Owners(s)
    BY <2>1, <2>3, <2>4, OwnersMove
  <2> QED BY <1>1, <2>1, <2>5 DEF poolVars
<1>13. ReportStep
  BY <1>1, QuietReports DEF history
<1> QED BY <1>9, <1>10, <1>11, <1>12, <1>13 DEF Kept

-----------------------------------------------------------------------------
(* The worker: reading the radio, the timeouts.                            *)

\* A frame is read: it clears the entry of the message it acknowledges.
LEMMA DrainRadioKeeps ==
  ASSUME IInv, DrainRadio
  PROVE  Kept
<1>1. /\ todo # <<>> /\ todo[1][1] = "drain" /\ radio' = NoSlot
      /\ UNCHANGED <<queue, app, phase, scan, deferred, parked, ripe, jittered, early, bounds>>
  BY DEF DrainRadio, Calling
<1>2. /\ todo[1] = Drain /\ Tail(todo) \in Seq(Calls) /\ todo \in Seq(Calls)
      /\ CallCounts(Tail(todo), todo[1], todo)
  BY <1>1, CallInHand, KindsOfCall DEF IInv, Typed, WorkerTyped
<1>3. NoSlot \notin Slots
  BY SizeAssumption DEF Slots, NoSlot
<1>4. CASE radio \in Slots
  <2>1. PICK i \in Slots : /\ pending[i] = radio
                           /\ ClearEntry(i) /\ Delivered(radio, todo)
    <3>1. \E j \in Slots : pending[j] = radio
      BY <1>4 DEF IInv, WireOK
    <3>2. PICK i : i = CHOOSE j \in Slots : pending[j] = radio
      OBVIOUS
    <3>3. i \in Slots /\ pending[i] = radio
      BY <3>1, <3>2
    <3>4. ClearEntry(i) /\ Delivered(radio, todo)
      BY <1>4, <3>2 DEF DrainRadio
    <3> QED BY <3>3, <3>4
  <2>2. /\ pending[i] # NoSlot /\ pending' = [pending EXCEPT ![i] = NoSlot]
        /\ clock' = [clock EXCEPT ![i] = "off"]
    BY <1>3, <1>4, <2>1 DEF ClearEntry
  <2>3. radio \in used /\ radio # app.slot
    BY <2>1, <2>2, SlotInTable
  <2>4. PICK s \in used : s = radio
    BY <2>3
  <2>5. s # app.slot /\ Delivered(s, todo)
    BY <2>1, <2>3, <2>4
  <2>6. /\ Core' /\ PoolTyped' /\ SessionTyped' /\ ReportsTyped' /\ ReportStep
        /\ delivered' \subseteq Frags /\ used' = used \ {s}
        /\ todo' \in Seq(Calls) /\ SameCalls(todo, todo')
    BY <1>1, <1>2, <2>5, DeliveredKeeps
  <2>7. Typed'
    <3>1. /\ pending' \in [Slots -> Slots \cup {NoSlot}]
          /\ clock' \in [Slots -> {"off", "waiting", "elapsed", "future"}]
      BY <2>2 DEF IInv, Typed, TableTyped
    <3> QED BY <1>1, <2>6, <3>1 DEF IInv, Typed, QueueTyped, AppTyped, WorkerTyped,
         TableTyped, RadioTyped, HistoryTyped, ReportsTyped, BoundsTyped, bounds
  <2>8. WireOK'
    <3>1. \A j \in Slots : clock'[j] # "off" => pending'[j] # NoSlot
      BY <2>2 DEF IInv, WireOK, Typed, TableTyped
    <3> QED BY <1>1, <1>3, <3>1 DEF WireOK
  <2>9. OneOwner'
    <3>1. used' = used \ {pending[i]}
      BY <2>1, <2>4, <2>6
    <3> QED BY <1>1, <2>2, <2>6, <3>1, EntryFreed
  <2> QED BY <2>6, <2>7, <2>8, <2>9 DEF Kept
<1>5. CASE radio \notin Slots
  <2>1. /\ todo' = IF radio = NoSlot THEN Tail(todo) ELSE todo
        /\ NoReport
        /\ UNCHANGED <<poolVars, session, pending, clock, delivered>>
    BY <1>5 DEF DrainRadio
  <2>2. /\ todo' \in Seq(Calls) /\ Nexts(todo') = Nexts(todo)
        /\ \A s \in Slots : /\ Times(todo', Route(s)) = Times(todo, Route(s))
                            /\ Times(todo', Transmit(s)) = Times(todo, Transmit(s))
    <3>1. /\ \A s \in Slots : Is(todo[1] = Route(s)) = 0 /\ Is(todo[1] = Transmit(s)) = 0
          /\ Is(todo[1] \in {Later, Again}) = 0
      BY <1>2 DEF Is, Later, Again, Route, Transmit, Drain
    <3>2. /\ \A s \in Slots : /\ Times(Tail(todo), Route(s)) \in Nat
                              /\ Times(Tail(todo), Transmit(s)) \in Nat
          /\ Nexts(Tail(todo)) \in Nat
      BY <1>2, CallsCounted
    <3>3. CASE todo' = todo
      BY <1>2, <3>3
    <3>4. CASE todo' = Tail(todo)
      BY <1>2, <3>1, <3>2, <3>4 DEF CallCounts
    <3> QED BY <2>1, <3>3, <3>4
  <2>3. Typed'
    BY <1>1, <2>1, <2>2 DEF IInv, Typed, PoolTyped, QueueTyped, SessionTyped, AppTyped,
       WorkerTyped, TableTyped, RadioTyped, HistoryTyped, BoundsTyped, bounds, poolVars, NoReport
  <2>4. Core'
    BY <1>1, <2>1, <2>2, CoreFrame DEF IInv, poolVars, NoReport
  <2>5. WireOK'
    BY <1>1, <1>3, <2>1 DEF IInv, WireOK
  <2>6. OneOwner'
    BY <1>1, <2>1, <2>2 DEF IInv, OneOwner, Owners, poolVars
  <2>7. ReportStep
    BY <2>1, QuietReports DEF NoReport
  <2> QED BY <2>3, <2>4, <2>5, <2>6, <2>7 DEF Kept
<1> QED BY <1>4, <1>5

\* _checkTimeouts gives up an entry, and a late ACK for it will match nothing.
LEMMA ExpireKeeps ==
  ASSUME IInv, Expire
  PROVE  Kept
<1>1. /\ todo = <<>> /\ UNCHANGED <<queue, app, phase, deferred, parked, ripe, jittered, bounds>>
  BY DEF Expire, At
<1>2. PICK i \in Expired :
        /\ scan' = i + 1 /\ ClearEntry(i) /\ Forget(pending[i])
        /\ early' = IF clock[i] = "future" THEN early \cup {pool[pending[i]]} ELSE early
        /\ IF IsFragment(pending[i])
           THEN FragmentResult(pending[i], FALSE, FALSE, <<>>)
           ELSE /\ Finish(pending[i], "failed")
                /\ UNCHANGED <<todo, session, delivered>>
  BY DEF Expire
<1>3. NoSlot \notin Slots /\ Stale \notin Slots /\ Stale # NoSlot
  BY SizeAssumption DEF Slots, NoSlot, Stale
<1>4. i \in Slots /\ scan' \in 1..(PoolSize + 1) /\ clock[i] # "off"
  BY <1>2, SizeAssumption DEF Expired, IInv, Typed, WorkerTyped, Slots
<1>5. pending[i] # NoSlot
  BY <1>4 DEF IInv, WireOK
<1>6. pending[i] \in used /\ pending[i] \in Slots /\ pending[i] # app.slot
  BY <1>4, <1>5, SlotInTable
<1>7. PICK s \in used : s = pending[i] /\ s # app.slot /\ s \in Slots
  BY <1>6
<1>8. /\ pending' = [pending EXCEPT ![i] = NoSlot] /\ clock' = [clock EXCEPT ![i] = "off"]
      /\ radio' = IF radio = s THEN Stale ELSE radio
  BY <1>2, <1>7 DEF ClearEntry, Forget
<1>9. /\ <<>> \in Seq(Calls) /\ Nexts(<<>>) = 0 /\ todo \in Seq(Calls) /\ Nexts(todo) = 0
  BY <1>1, TimesOfEmpty, EmptySeq DEF Nexts
<1> DEFINE Goal == /\ Core' /\ PoolTyped' /\ SessionTyped' /\ ReportsTyped' /\ ReportStep
                   /\ delivered' \subseteq Frags /\ used' = used \ {s}
                   /\ todo' \in Seq(Calls) /\ SameCalls(todo, todo')
<1>10. ASSUME IsFragment(s) PROVE Goal
  <2>1. PICK f \in InFlight : f = s
    BY <1>7, <1>10 DEF InFlight
  <2>2. PICK ok, late \in BOOLEAN, rest \in Seq(Calls) :
          ok = FALSE /\ late = FALSE /\ rest = <<>>
    BY <1>9
  <2>3. FragmentResult(f, ok, late, rest)
    BY <1>2, <1>7, <1>10, <2>1, <2>2
  <2>4. f # app.slot /\ app' = app /\ Nexts(rest) = 0
    BY <1>1, <1>7, <1>9, <2>1, <2>2
  <2>5. /\ Core' /\ PoolTyped' /\ SessionTyped' /\ ReportsTyped' /\ ReportStep
        /\ delivered' \subseteq Frags /\ used' = used \ {f}
        /\ todo' \in Seq(Calls) /\ SameCalls(rest, todo')
    BY <2>3, <2>4, FragmentResultKeeps
  <2> QED BY <1>1, <2>1, <2>2, <2>5
<1>11. ASSUME ~IsFragment(s) PROVE Goal
  <2>1. Finish(s, "failed") /\ UNCHANGED <<todo, session, delivered>>
    BY <1>2, <1>7, <1>11
  <2>2. PICK how \in {"ok", "failed"} : Finish(s, how)
    BY <2>1
  <2>3. Core' /\ PoolTyped' /\ ReportsTyped' /\ ReportStep
    BY <1>1, <1>7, <1>11, <2>1, <2>2, FinishKeeps
  <2>4. SessionTyped' /\ delivered' \subseteq Frags
    BY <2>1 DEF IInv, Typed, SessionTyped, HistoryTyped
  <2>5. used' = used \ {s}
    BY <2>1 DEF Finish, Freed
  <2>6. todo' \in Seq(Calls) /\ SameCalls(todo, todo')
    BY <1>9, <2>1 DEF SameCalls
  <2> QED BY <2>3, <2>4, <2>5, <2>6
<1>12. Goal
  BY <1>10, <1>11
<1> HIDE DEF Goal
<1>13. Typed'
  <2>1. /\ pending' \in [Slots -> Slots \cup {NoSlot}]
        /\ clock' \in [Slots -> {"off", "waiting", "elapsed", "future"}]
    BY <1>8 DEF IInv, Typed, TableTyped
  <2>2. RadioTyped'
    BY <1>8 DEF IInv, Typed, RadioTyped
  <2>3. early' \subseteq Items \cup Frags
    <3>1. pool[s] \in Items \cup Frags
      BY <1>7 DEF IInv, Core, PoolOK, Items
    <3>2. early \subseteq Items \cup Frags
      BY DEF IInv, Typed, HistoryTyped
    <3>3. early' = early \/ early' = early \cup {pool[s]}
      BY <1>2, <1>7
    <3> QED BY <3>1, <3>2, <3>3
  <2>4. WorkerTyped'
    BY <1>1, <1>4, <1>12 DEF Goal, IInv, Typed, WorkerTyped
  <2> QED BY <1>1, <1>12, <2>1, <2>2, <2>3, <2>4 DEF Goal, IInv, Typed, QueueTyped, AppTyped,
       TableTyped, HistoryTyped, ReportsTyped, BoundsTyped, bounds
<1>14. WireOK'
  <2>1. \A j \in Slots : clock'[j] # "off" => pending'[j] # NoSlot
    BY <1>4, <1>8 DEF IInv, WireOK, Typed, TableTyped
  <2>2. radio' \in Slots => \E j \in Slots : pending'[j] = radio'
    <3> SUFFICES ASSUME radio' \in Slots PROVE \E j \in Slots : pending'[j] = radio'
      OBVIOUS
    <3>1. radio' = radio /\ radio # s /\ radio \in Slots
      BY <1>3, <1>8
    <3>2. PICK j \in Slots : pending[j] = radio
      BY <3>1 DEF IInv, WireOK
    <3>3. j # i /\ pending'[j] = pending[j]
      BY <1>7, <1>8, <3>1, <3>2 DEF IInv, Typed, TableTyped
    <3> QED BY <3>1, <3>2, <3>3
  <2>3. radio' # NoSlot => queue' # <<>>
    <3>1. radio' # NoSlot => radio # NoSlot
      BY <1>3, <1>7, <1>8
    <3>2. Times(todo, Drain) = 0
      BY <1>1, TimesOfEmpty
    <3> QED BY <1>1, <3>1, <3>2 DEF IInv, WireOK
  <2> QED BY <2>1, <2>2, <2>3 DEF WireOK
<1>15. OneOwner'
  BY <1>1, <1>4, <1>5, <1>7, <1>8, <1>12, EntryFreed DEF Goal
<1> QED BY <1>12, <1>13, <1>14, <1>15 DEF Goal, Kept

-----------------------------------------------------------------------------
(* The worker: the loop itself.                                            *)

\* What the worker does for an event.
LEMMA ServeCalls ==
  ASSUME NEW e \in Slots \cup {Irq}
  PROVE  /\ Serve(e) \in Seq(Calls) /\ Nexts(Serve(e)) = 0 /\ Times(Serve(e), Drain) = 1
         /\ \A s \in Slots : /\ Times(Serve(e), Route(s)) = Is(e = s)
                             /\ Times(Serve(e), Transmit(s)) = 0
<1>1. Drain \in Calls /\ <<>> \in Seq(Calls)
  BY EmptySeq DEF Calls
<1>2. /\ Is(Drain \in {Later, Again}) = 0 /\ Is(Drain = Drain) = 1
      /\ \A s \in Slots : Is(Drain = Route(s)) = 0 /\ Is(Drain = Transmit(s)) = 0
  BY DEF Is, Drain, Later, Again, Route, Transmit
<1>3. /\ Nexts(<<>>) = 0 /\ Times(<<>>, Drain) = 0
      /\ \A s \in Slots : Times(<<>>, Route(s)) = 0 /\ Times(<<>>, Transmit(s)) = 0
  BY TimesOfEmpty DEF Nexts
<1>4. CASE e = Irq
  <2>1. Serve(e) = <<Drain>> \o <<>>
    BY <1>1, <1>4, ConcatEmptySeq DEF Serve
  <2>2. Serve(e) \in Seq(Calls) /\ CallCounts(<<>>, Drain, Serve(e))
    BY <1>1, <2>1, CallMade
  <2>3. \A s \in Slots : Is(e = s) = 0
    BY <1>4, SizeAssumption DEF Is, Irq, Slots
  <2> QED BY <1>2, <1>3, <2>2, <2>3 DEF CallCounts
<1>5. CASE e # Irq
  <2>1. e \in Slots /\ Route(e) \in Calls
    BY <1>5 DEF Calls
  <2>2. PICK t : t = <<Route(e)>>
    OBVIOUS
  <2>3. t = <<Route(e)>> \o <<>>
    BY <2>1, <2>2, ConcatEmptySeq
  <2>4. t \in Seq(Calls) /\ CallCounts(<<>>, Route(e), t)
    BY <1>1, <2>1, <2>3, CallMade
  <2>5. Serve(e) = <<Drain>> \o t
    BY <1>5, <2>2 DEF Serve
  <2>6. Serve(e) \in Seq(Calls) /\ CallCounts(t, Drain, Serve(e))
    BY <1>1, <2>4, <2>5, CallMade
  <2>7. /\ Is(Route(e) \in {Later, Again}) = 0 /\ Is(Route(e) = Drain) = 0
        /\ \A s \in Slots : Is(Route(e) = Route(s)) = Is(e = s) /\ Is(Route(e) = Transmit(s)) = 0
    BY DEF Is, Drain, Later, Again, Route, Transmit
  <2>8. \A s \in Slots : Is(e = s) \in Nat
    BY DEF Is
  <2> QED BY <1>2, <1>3, <2>4, <2>6, <2>7, <2>8 DEF CallCounts
<1> QED BY <1>4, <1>5

\* No call is left when the worker is between two of its stages.
LEMMA NothingLeft ==
  ASSUME todo = <<>>
  PROVE  /\ Nexts(todo) = 0 /\ Times(todo, Drain) = 0
         /\ \A s \in Slots : Times(todo, Route(s)) = 0 /\ Times(todo, Transmit(s)) = 0
BY TimesOfEmpty DEF Nexts

\* The worker wakes up, drains the radio and serves the event.
LEMMA WakeKeeps ==
  ASSUME IInv, Wake
  PROVE  Kept
<1>1. /\ todo = <<>> /\ phase' = "delayed"
      /\ UNCHANGED <<poolVars, session, app, scan, tableVars, radio, history, bounds>>
  BY DEF Wake, At
<1>2. PICK e \in Slots \cup {Irq} :
        /\ todo' = Serve(e)
        /\ \/ queue # <<>> /\ e = queue[1] /\ queue' = Tail(queue)
           \/ e = Irq /\ queue' = queue
  <2>1. CASE queue # <<>>
    <3>1. Head(queue) \in Slots \cup {Irq} /\ Head(queue) = queue[1]
      BY <2>1, HeadTailProperties DEF IInv, Typed, QueueTyped
    <3> QED BY <2>1, <3>1 DEF Wake
  <2>2. CASE queue = <<>>
    BY <2>2 DEF Wake, Serve
  <2> QED BY <2>1, <2>2
<1>3. /\ todo' \in Seq(Calls) /\ Nexts(todo') = 0 /\ Times(todo', Drain) = 1
      /\ \A s \in Slots : /\ Times(todo', Route(s)) = Is(e = s)
                          /\ Times(todo', Transmit(s)) = 0
  BY <1>2, ServeCalls
<1>4. QueueTyped'
  <2>1. queue \in Seq(Slots \cup {Irq}) /\ Len(queue) <= QueueDepth /\ QueueDepth \in Nat
    BY SizeAssumption DEF IInv, Typed, QueueTyped
  <2>2. CASE queue # <<>> /\ queue' = Tail(queue)
    <3>1. Tail(queue) \in Seq(Slots \cup {Irq}) /\ Len(Tail(queue)) = Len(queue) - 1
      BY <2>1, <2>2, HeadTailProperties
    <3>2. Len(queue) \in Nat
      BY <2>1, LenProperties
    <3> QED BY <2>1, <2>2, <3>1, <3>2 DEF QueueTyped
  <2>3. CASE queue' = queue
    BY <2>1, <2>3 DEF QueueTyped
  <2> QED BY <1>2, <2>2, <2>3
<1>5. Typed'
  BY <1>1, <1>3, <1>4 DEF IInv, Typed, PoolTyped, SessionTyped, AppTyped, WorkerTyped,
     TableTyped, RadioTyped, HistoryTyped, BoundsTyped, poolVars, tableVars, history, bounds
<1>6. Core'
  BY <1>1, <1>3, NothingLeft, CoreFrame DEF IInv, poolVars, history
<1>7. WireOK'
  BY <1>1, <1>3 DEF IInv, WireOK, tableVars
<1>8. OneOwner'
  <2> SUFFICES ASSUME NEW s \in Slots PROVE Owners(s)' = InSet(used', s)
    BY DEF OneOwner
  <2>1. Owners(s) = InSet(used, s) /\ Counted(s)
    BY OwnersCounted DEF IInv, OneOwner
  <2>2. PICK x : x = Is(e = s)
    OBVIOUS
  <2>3. x \in {0, 1} /\ (e = Irq => x = 0)
    BY <2>2, SizeAssumption DEF Is, Irq, Slots
  <2>4. Times(queue', s) = Times(queue, s) + (-x)
    <3>1. CASE queue # <<>> /\ e = queue[1] /\ queue' = Tail(queue)
      <4>1. Times(Tail(queue), s) = Times(queue, s) - x
        BY <2>2, <3>1, TimesTail DEF IInv, Typed, QueueTyped
      <4> QED BY <2>1, <2>3, <3>1, <4>1 DEF Counted
    <3>2. CASE e = Irq /\ queue' = queue
      BY <2>1, <2>3, <3>2 DEF Counted
    <3> QED BY <1>2, <3>1, <3>2
  <2>5. /\ Times(todo', Route(s)) = Times(todo, Route(s)) + x
        /\ Times(todo', Transmit(s)) = Times(todo, Transmit(s))
    BY <1>1, <1>3, <2>2, <2>3, NothingLeft
  <2>6. UNCHANGED <<app, pending, deferred, parked, ripe>>
    BY <1>1 DEF tableVars
  <2>7. MovesBy(s, 0, -x, 0, 0, 0, 0, x, 0)
    BY <2>1, <2>4, <2>5, <2>6, Still DEF MovesBy
  <2>8. Owners(s)' = Owners(s)
    BY <2>1, <2>3, <2>7, OwnersMove
  <2> QED BY <1>1, <2>1, <2>8 DEF poolVars
<1>9. ReportStep
  BY <1>1, QuietReports DEF history
<1> QED BY <1>5, <1>6, <1>7, <1>8, <1>9 DEF Kept

\* A delayed message is routed.
LEMMA DispatchDelayedKeeps ==
  ASSUME IInv, DispatchDelayed
  PROVE  Kept
<1>1. /\ todo = <<>> /\ phase' = "dispatched"
      /\ UNCHANGED <<poolVars, queue, session, app, scan, pending, clock, deferred, parked,
                     jittered, radio, history, bounds>>
  BY DEF DispatchDelayed, At
<1>2. PICK r \in ripe : ripe' = ripe \ {r} /\ todo' = <<Route(r)>>
  BY DEF DispatchDelayed
<1>3. r \in Slots /\ Route(r) \in Calls
  BY DEF IInv, Typed, TableTyped, Calls
<1>4. \A c : Times(todo', c) = Is(Route(r) = c)
  BY <1>2, TimesOne
<1>5. /\ todo' \in Seq(Calls) /\ Nexts(todo') = 0 /\ Times(todo', Drain) = 0
      /\ \A s \in Slots : /\ Times(todo', Route(s)) = Is(r = s)
                          /\ Times(todo', Transmit(s)) = 0
  <2>1. /\ Is(Route(r) = Later) = 0 /\ Is(Route(r) = Again) = 0 /\ Is(Route(r) = Drain) = 0
        /\ \A s \in Slots : Is(Route(r) = Route(s)) = Is(r = s) /\ Is(Route(r) = Transmit(s)) = 0
    BY DEF Is, Drain, Later, Again, Route, Transmit
  <2> QED BY <1>2, <1>3, <1>4, <2>1 DEF Nexts
<1>6. Typed'
  BY <1>1, <1>2, <1>5 DEF IInv, Typed, PoolTyped, QueueTyped, SessionTyped, AppTyped, WorkerTyped,
     TableTyped, RadioTyped, HistoryTyped, BoundsTyped, poolVars, history, bounds
<1>7. Core'
  BY <1>1, <1>5, NothingLeft, CoreFrame DEF IInv, poolVars, history
<1>8. WireOK'
  BY <1>1, <1>5, NothingLeft, WireFrame DEF IInv
<1>9. OneOwner'
  <2> SUFFICES ASSUME NEW s \in Slots PROVE Owners(s)' = InSet(used', s)
    BY DEF OneOwner
  <2>1. Owners(s) = InSet(used, s) /\ Counted(s)
    BY OwnersCounted DEF IInv, OneOwner
  <2>2. PICK x : x = Is(r = s)
    OBVIOUS
  <2>3. x \in {0, 1} /\ InSet(ripe', s) = InSet(ripe, s) + (-x)
    BY <1>2, <2>2 DEF Is, InSet
  <2>4. /\ Times(todo', Route(s)) = Times(todo, Route(s)) + x
        /\ Times(todo', Transmit(s)) = Times(todo, Transmit(s))
    BY <1>1, <1>5, <2>2, <2>3, NothingLeft
  <2>5. UNCHANGED <<app, queue, pending, deferred, parked>>
    BY <1>1
  <2>6. MovesBy(s, 0, 0, 0, 0, 0, -x, x, 0)
    BY <2>1, <2>3, <2>4, <2>5, Still DEF MovesBy
  <2>7. Owners(s)' = Owners(s)
    BY <2>1, <2>3, <2>6, OwnersMove
  <2> QED BY <1>1, <2>1, <2>7 DEF poolVars
<1>10. ReportStep
  BY <1>1, QuietReports DEF history
<1> QED BY <1>6, <1>7, <1>8, <1>9, <1>10 DEF Kept

\* The steps from one stage of the loop to the next.
LEMMA StageKeeps ==
  ASSUME IInv, ProcessDelayed \/ StartScan \/ EndScan
  PROVE  Kept
<1>1. /\ UNCHANGED <<poolVars, queue, session, app, todo, pending, deferred, parked, ripe,
                     jittered, radio, history, bounds>>
      /\ phase' \in {"timeouts", "drive"} /\ (scan' = scan \/ scan' = 1)
  BY DEF ProcessDelayed, StartScan, EndScan, tableVars
<1>2. /\ clock' \in [Slots -> {"off", "waiting", "elapsed", "future"}]
      /\ \A i \in Slots : clock'[i] # "off" => clock[i] # "off"
  <2>1. clock \in [Slots -> {"off", "waiting", "elapsed", "future"}]
    BY DEF IInv, Typed, TableTyped
  <2>2. \/ clock' = clock
        \/ clock' = [i \in Slots |-> IF clock[i] = "future" THEN "waiting" ELSE clock[i]]
    BY DEF ProcessDelayed, StartScan, EndScan, tableVars
  <2> QED BY <2>1, <2>2
<1>3. Typed'
  BY <1>1, <1>2, SizeAssumption DEF IInv, Typed, PoolTyped, QueueTyped, SessionTyped, AppTyped,
     WorkerTyped, TableTyped, RadioTyped, HistoryTyped, BoundsTyped, poolVars, history, bounds
<1>4. Core'
  BY <1>1, CoreFrame DEF IInv, poolVars, history
<1>5. WireOK'
  BY <1>1, <1>2 DEF IInv, WireOK
<1>6. OneOwner'
  BY <1>1 DEF IInv, OneOwner, Owners, poolVars
<1>7. ReportStep
  BY <1>1, QuietReports DEF history
<1> QED BY <1>3, <1>4, <1>5, <1>6, <1>7 DEF Kept

\* _driveFragmentSessions gives a waiting session its call.
LEMMA DriveSessionsKeeps ==
  ASSUME IInv, DriveSessions
  PROVE  Kept
<1>1. /\ todo = <<>> /\ phase' = "wait"
      /\ todo' = IF DriveAgain THEN <<NextFragment(FALSE)>> ELSE <<>>
      /\ UNCHANGED <<poolVars, queue, session, app, scan, tableVars, radio, history, bounds>>
  BY DEF DriveSessions, At
<1>2. CASE DriveAgain
  <2>1. todo' = <<Again>>
    BY <1>1, <1>2 DEF NextFragment, Again
  <2>2. \A c : Times(todo', c) = Is(Again = c)
    BY <2>1, TimesOne
  <2>3. /\ todo' \in Seq(Calls) /\ Nexts(todo') = 1 /\ Times(todo', Drain) = 0
        /\ \A s \in Slots : Times(todo', Route(s)) = 0 /\ Times(todo', Transmit(s)) = 0
    <3>1. /\ Is(Again = Later) = 0 /\ Is(Again = Again) = 1 /\ Is(Again = Drain) = 0
          /\ \A s \in Slots : Is(Again = Route(s)) = 0 /\ Is(Again = Transmit(s)) = 0
      BY DEF Is, Drain, Later, Again, Route, Transmit
    <3>2. Again \in Calls
      BY DEF Calls
    <3> QED BY <2>1, <2>2, <3>1, <3>2 DEF Nexts
  <2>4. Typed'
    BY <1>1, <2>3 DEF IInv, Typed, PoolTyped, QueueTyped, SessionTyped, AppTyped, WorkerTyped,
       TableTyped, RadioTyped, HistoryTyped, BoundsTyped, poolVars, tableVars, history, bounds
  <2>5. Core'
    <3>1. AppOK' /\ SessionOK' /\ PoolOK' /\ LargeOkMeansAll'
      BY <1>1 DEF IInv, Core, AppOK, SessionOK, PoolOK, LargeOkMeansAll, poolVars, history
    <3>2. InFlight' = InFlight
      BY <1>1 DEF InFlight, IsFragment, poolVars
    <3>3. /\ session.used /\ session.waiting /\ InFlight = {} /\ app.at # "opened"
      BY <1>2 DEF DriveAgain, IInv, Core, OneFragment
    <3>4. OneFragment'
      BY <1>1, <2>3, <3>2, <3>3 DEF OneFragment
    <3> QED BY <3>1, <3>4 DEF Core
  <2>6. WireOK'
    BY <1>1, <2>3, NothingLeft, WireFrame DEF IInv, tableVars
  <2>7. OneOwner'
    BY <1>1, <2>3, NothingLeft DEF IInv, OneOwner, Owners, poolVars, tableVars
  <2>8. ReportStep
    BY <1>1, QuietReports DEF history
  <2> QED BY <2>4, <2>5, <2>6, <2>7, <2>8 DEF Kept
<1>3. CASE ~DriveAgain
  <2>1. todo' = todo
    BY <1>1, <1>3
  <2>2. Typed'
    BY <1>1, <2>1 DEF IInv, Typed, PoolTyped, QueueTyped, SessionTyped, AppTyped, WorkerTyped,
       TableTyped, RadioTyped, HistoryTyped, BoundsTyped, poolVars, tableVars, history, bounds
  <2>3. Core'
    BY <1>1, <2>1, CoreFrame DEF IInv, poolVars, history
  <2>4. WireOK'
    BY <1>1, <2>1 DEF IInv, WireOK, tableVars
  <2>5. OneOwner'
    BY <1>1, <2>1 DEF IInv, OneOwner, Owners, poolVars, tableVars
  <2>6. ReportStep
    BY <1>1, QuietReports DEF history
  <2> QED BY <2>2, <2>3, <2>4, <2>5, <2>6 DEF Kept
<1> QED BY <1>2, <1>3

-----------------------------------------------------------------------------
(* The theorems.                                                           *)

\* The invariant holds at the start: nothing is in use, nothing is counted.
LEMMA InitOK ==
  ASSUME Init
  PROVE  IInv
<1>1. /\ todo = <<>> /\ queue = <<>> /\ deferred = <<>> /\ used = {} /\ parked = {} /\ ripe = {}
      /\ app = Resting /\ session = Idle /\ radio = NoSlot
      /\ pending = [i \in Slots |-> NoSlot] /\ clock = [i \in Slots |-> "off"]
      /\ outcome = [x \in Items |-> "new"]
  BY DEF Init
<1>2. NoSlot \notin Slots /\ PoolSize \in Nat /\ Slots = 1..PoolSize
  BY SizeAssumption DEF Slots, NoSlot
<1>3. /\ session.used = FALSE /\ session.waiting = FALSE
      /\ app.at = "idle" /\ app.slot = NoSlot /\ app.item = NoMsg
  BY <1>1 DEF Resting, Idle
<1>4. Typed
  <2>1. SessionTyped
    BY <1>1, SizeAssumption DEF SessionTyped, Idle
  <2>2. AppTyped
    BY <1>1 DEF AppTyped, Resting
  <2>3. QueueTyped /\ todo \in Seq(Calls) /\ deferred \in Seq(Slots)
    BY <1>1, SizeAssumption, EmptySeq DEF QueueTyped
  <2> QED BY <2>1, <2>2, <2>3, SizeAssumption DEF Init, Typed, PoolTyped, WorkerTyped,
       TableTyped, RadioTyped, HistoryTyped, BoundsTyped
<1>5. Core
  <2>1. InFlight = {}
    BY <1>1 DEF InFlight
  <2> QED BY <1>1, <1>3, <2>1, NothingLeft DEF Core, AppOK, SessionOK, OneFragment, PoolOK,
       LargeOkMeansAll, Items
<1>6. WireOK
  BY <1>1, <1>2 DEF WireOK
<1>7. OneOwner
  <2> SUFFICES ASSUME NEW s \in Slots PROVE Owners(s) = InSet(used, s)
    BY DEF OneOwner
  <2>1. Times(queue, s) = 0 /\ Times(deferred, s) = 0
    BY <1>1, TimesOfEmpty
  <2>2. Times(todo, Route(s)) = 0 /\ Times(todo, Transmit(s)) = 0
    BY <1>1, NothingLeft
  <2>3. Times(pending, s) = 0
    <3>1. DOMAIN pending = 1..PoolSize /\ \A i \in 1..PoolSize : pending[i] # s
      BY <1>1, <1>2
    <3> QED BY <1>2, <3>1, PlacesFinite
  <2>4. /\ InSet({app.slot}, s) = 0 /\ InSet(parked, s) = 0 /\ InSet(ripe, s) = 0
        /\ InSet(used, s) = 0
    BY <1>1, <1>2, <1>3 DEF InSet
  <2> QED BY <2>1, <2>2, <2>3, <2>4 DEF Owners
<1> QED BY <1>4, <1>5, <1>6, <1>7 DEF IInv

\* Every action of the application, the worker and their surroundings keeps the
\* invariant and reports as it should.
LEMMA NextKeeps ==
  ASSUME IInv, Next
  PROVE  Kept
<1>1. CASE AppStep
  <2>1. ASSUME NEW m \in Msgs, Acquire(m) PROVE Kept
    BY <2>1, AcquireKeeps
  <2>2. ASSUME NEW l \in Larges, NEW ack \in BOOLEAN, OpenSession(l, ack) PROVE Kept
    BY <2>2, OpenSessionKeeps
  <2> QED BY <1>1, <2>1, <2>2, SubmitKeeps, FillFirstKeeps, SubmitFirstKeeps DEF AppStep
<1>2. CASE WorkerStep
  BY <1>2, RouteTxReqKeeps, SendFailsKeeps, FragmentUnsentKeeps, SentKeeps,
     SendNextFragmentKeeps, FlushDeferredKeeps, DrainRadioKeeps, WakeKeeps,
     DispatchDelayedKeeps, StageKeeps, ExpireKeeps, DriveSessionsKeeps DEF WorkerStep
<1>3. CASE FrameArrives
  BY <1>3, FrameArrivesKeeps
<1>4. CASE TimeStep
  <2>1. ASSUME NEW i \in Slots, Elapse(i) PROVE Kept
    BY <2>1, ElapseKeeps
  <2>2. ASSUME NEW i \in Slots, Ripen(i) PROVE Kept
    BY <2>2, RipenKeeps
  <2> QED BY <1>4, <2>1, <2>2 DEF TimeStep
<1> QED BY <1>1, <1>2, <1>3, <1>4 DEF Next

\* The invariant is inductive, and no step reports what it should not.
LEMMA StepKeeps ==
  ASSUME IInv, [Next]_vars
  PROVE  IInv' /\ ReportStep
<1>1. CASE Next
  BY <1>1, NextKeeps DEF Kept, IInv
<1>2. CASE UNCHANGED vars
  <2>1. UNCHANGED <<pool, used, queue, session, app, phase, todo, scan, pending, clock,
                    deferred, parked, ripe, jittered, radio, outcome, reports, delivered,
                    early, irqs, duties>>
    BY <1>2 DEF vars, poolVars, workerVars, tableVars, history, bounds
  <2>2. Typed'
    BY <2>1 DEF IInv, Typed, PoolTyped, QueueTyped, SessionTyped, AppTyped, WorkerTyped,
       TableTyped, RadioTyped, HistoryTyped, BoundsTyped
  <2>3. Core'
    BY <2>1, CoreFrame DEF IInv
  <2>4. WireOK' /\ OneOwner'
    BY <2>1 DEF IInv, WireOK, OneOwner, Owners
  <2> QED BY <2>1, <2>2, <2>3, <2>4, QuietReports DEF IInv
<1> QED BY <1>1, <1>2

\* The inductive invariant holds in every reachable state.
LEMMA Invariant ==
  Spec => []IInv
<1>1. Init => IInv
  BY InitOK
<1>2. IInv /\ [Next]_vars => IInv'
  BY StepKeeps
<1> QED BY <1>1, <1>2, PTL DEF Spec

\* Every variable keeps its type: no table overflows its array, no call of the
\* worker names a slot outside the pool (Engine.cpp, RFConfig.h).
THEOREM TypesAlways ==
  Spec => []TypeOK
<1>1. IInv => TypeOK
  BY CallsAre DEF IInv, Typed, PoolTyped, QueueTyped, SessionTyped, AppTyped, WorkerTyped,
     TableTyped, RadioTyped, HistoryTyped, BoundsTyped, TypeOK
<1> QED BY <1>1, Invariant, PTL

\* A pool slot in use has exactly one owner and a free one none: nothing leaks
\* and nothing is freed twice (Engine.cpp _poolAlloc, _poolFree, its tables).
THEOREM SlotsHaveOneOwner ==
  Spec => []OneOwner
<1>1. IInv => OneOwner
  BY DEF IInv
<1> QED BY <1>1, Invariant, PTL

\* At most one fragment is in the engine, the one the running session stands at
\* (LargeTxSession, _sendNextFragment).
THEOREM OneFragmentAtATime ==
  Spec => []StopAndWait
<1>1. IInv => StopAndWait
  <2> SUFFICES ASSUME IInv, NEW s \in InFlight
               PROVE  InFlight = {s} /\ session.used /\ pool[s] = <<session.large, session.next>>
    BY DEF StopAndWait
  <2> QED BY DEF IInv, Core, OneFragment
<1> QED BY <1>1, Invariant, PTL

\* A running session nobody works on has its fragment in the engine, or waits
\* for the next round of _driveFragmentSessions.
THEOREM SessionsGoOn ==
  Spec => []SessionNotForgotten
<1>1. IInv => SessionNotForgotten
  <2> SUFFICES ASSUME IInv, session.used, app.at = "idle", todo = <<>>
               PROVE  InFlight # {} \/ session.waiting
    BY DEF SessionNotForgotten
  <2>1. Nexts(todo) # 1
    BY NothingLeft
  <2> QED BY <2>1 DEF IInv, Core, OneFragment
<1> QED BY <1>1, Invariant, PTL

\* A large message reported sent has had every fragment sent, or acknowledged
\* where it asked for that (onFragmentResult, _completeLargeSend).
THEOREM LargeOkIsWhole ==
  Spec => []LargeOkMeansAll
<1>1. IInv => LargeOkMeansAll
  BY DEF IInv, Core
<1> QED BY <1>1, Invariant, PTL

\* A lost HW_IRQ event leaves no frame unread behind a sleeping worker
\* (RFConfig.h:55-56, the drain in _workerLoop).
THEOREM LostIrqLeavesAWakeup ==
  Spec => []LostIrqHarmless
<1>1. IInv => LostIrqHarmless
  <2> SUFFICES ASSUME IInv, todo = <<>>, radio # NoSlot PROVE queue # <<>>
    BY DEF LostIrqHarmless, At
  <2>1. Times(todo, Drain) = 0
    BY NothingLeft
  <2> QED BY <2>1 DEF IInv, WireOK
<1> QED BY <1>1, Invariant, PTL

\* The reserved pool slot is free whenever a session has no fragment in the
\* engine, however many other messages wait (_poolAlloc).
THEOREM ReserveIsThere ==
  Spec => []FragmentReserve
<1>1. IInv => FragmentReserve
  <2> SUFFICES ASSUME IInv, InFlight = {} PROVE CanAlloc(TRUE)
    BY DEF FragmentReserve
  <2>1. PoolSize \notin used
    BY DEF IInv, Core, PoolOK, InFlight, IsFragment
  <2>2. PoolSize \in FreeSlots(AllocLimit(TRUE))
    BY <2>1, SizeAssumption DEF FreeSlots, AllocLimit
  <2> QED BY <2>2 DEF CanAlloc
<1> QED BY <1>1, Invariant, PTL

\* An accepted message is reported at most once, as sent or failed, and no other
\* message ever is (Engine.cpp _fireSend, _fireSendFail, _completeLargeSend).
THEOREM OneReportEach ==
  Spec => ReportOnce
<1>1. IInv /\ [Next]_vars =>
        [\A x \in Items : reports'[x] # reports[x] =>
            outcome[x] = "accepted" /\ outcome'[x] \in {"ok", "failed"}]_vars
  BY StepKeeps DEF ReportStep
<1> QED BY <1>1, Invariant, PTL DEF Spec, ReportOnce
=============================================================================
