----------------------------- MODULE Freshness ------------------------------
(***************************************************************************)
(* What an RFNet node remembers of the frames it has heard:                *)
(* core/freshness/ReplayWindow.h, a sliding window per sender over the     *)
(* sequence numbers of data frames, and core/freshness/SeenCache.h, the    *)
(* last ACKs whatever their numbers.                                       *)
(*                                                                         *)
(* A window table is the sequence of its valid peers, least recently heard *)
(* first, which is what the lru stamps of the code order them by.          *)
(***************************************************************************)
EXTENDS Integers, Sequences, FiniteSets, SequencesExt

CONSTANTS
    SeqSpace,    \* sequence numbers before they wrap, 2^24
    WindowBits,  \* RF_REPLAY_WINDOW_BITS
    MaxPeers,    \* RF_REPLAY_MAX_PEERS
    SeenSize     \* RF_SEEN_CACHE_SIZE

ASSUME FreshnessAssumption ==
    /\ SeqSpace \in Nat /\ SeqSpace % 2 = 0
    /\ WindowBits \in Nat \ {0} /\ 2 * WindowBits <= SeqSpace
    /\ MaxPeers \in Nat \ {0} /\ SeenSize \in Nat \ {0}

Sequences24 == 0..(SeqSpace - 1)

\* bits holds i where bit i of the history is set: last - i was accepted.
Peer(src, last, bits) == [src |-> src, last |-> last, bits |-> bits]

Knows(table, src) == \E i \in 1..Len(table) : table[i].src = src
PeerAt(table, src) == CHOOSE i \in 1..Len(table) : table[i].src = src

\* Mutant of Ahead: the difference is not folded.
AheadUnsigned(seq, last) == seq - last

\* The signed difference of two 24-bit numbers.
Ahead(seq, last) ==
    LET raw == (seq - last) % SeqSpace
    IN  IF raw >= SeqSpace \div 2 THEN raw - SeqSpace ELSE raw

\* The victim is marked invalid first: its own frames come back as new.
Evicts(table, src) == ~Knows(table, src) /\ Len(table) = MaxPeers
Victim(table) == Head(table).src

Kept(table, src) ==
    IF Knows(table, src) THEN RemoveAt(table, PeerAt(table, src))
    ELSE IF Evicts(table, src) THEN Tail(table) ELSE table

Shifted(bits, by) ==
    {0} \cup ({i + by : i \in bits} \cap (0..(WindowBits - 1)))

\* Mutant of IsReplay: the newest frame itself is not in the history.
IsReplayIfOlder(table, src, seq) ==
    /\ Knows(table, src)
    /\ LET p == table[PeerAt(table, src)]
           back == -Ahead(seq, p.last)
       IN  back > 0 /\ (back >= WindowBits \/ back \in p.bits)

IsReplay(table, src, seq) ==
    /\ Knows(table, src)
    /\ LET p == table[PeerAt(table, src)]
           back == -Ahead(seq, p.last)
       IN  back >= 0 /\ (back >= WindowBits \/ back \in p.bits)

\* The peer after a frame, accepted or not.
Updated(p, seq) ==
    LET d == Ahead(seq, p.last) IN
    IF d > 0 THEN Peer(p.src, seq, Shifted(p.bits, d))
    ELSE IF -d < WindowBits THEN [p EXCEPT !.bits = @ \cup {-d}]
    ELSE p

\* The table after a frame: its sender is the most recently heard.
AfterFrame(table, src, seq) ==
    Append(Kept(table, src),
           IF Knows(table, src) THEN Updated(table[PeerAt(table, src)], seq)
                                ELSE Peer(src, seq, {0}))

\* SeenCache::checkAndMark, a ring of the last SeenSize identities.
SeenAfter(cache, id) ==
    IF Contains(cache, id) THEN cache
    ELSE IF Len(cache) < SeenSize THEN Append(cache, id)
    ELSE Append(Tail(cache), id)
=============================================================================
