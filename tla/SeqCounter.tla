------------------------------ MODULE SeqCounter ------------------------------
(***************************************************************************)
(* The persisted sequence counter of a node (core/nvs/MonotonicCounter.h)  *)
(* together with the two places Engine.cpp drives it from: begin(), which  *)
(* restores it after a power cycle, and _sendMsg(), which takes one value  *)
(* per transmitted frame.  The low 24 bits of a value, with the node's     *)
(* address, are the AES-GCM nonce of a frame, so a value must not be on    *)
(* the air twice.                                                          *)
(*                                                                         *)
(* The non-volatile store is external (port/hal/nvs/INVBackend.h): a read  *)
(* may report failure although a record exists, a write may fail and leave *)
(* the old record, a record may turn into bytes without the magic.         *)
(***************************************************************************)
EXTENDS Integers

CONSTANTS
    Skip,     \* cfg.nv.nonceCommitStep: how far begin() skips ahead
    SeqMod,   \* 2^24 in the code: the width of seq on the wire
    Sec,      \* TRUE iff the node encrypts (cfg.sec != nullptr)
    MaxSeq    \* bound: no value above MaxSeq is handed out

ASSUME SkipAssumption == Skip \in Nat
ASSUME SeqModAssumption == SeqMod \in Nat \ {0}
ASSUME SecAssumption == Sec \in BOOLEAN
ASSUME MaxSeqAssumption == MaxSeq \in Nat

VARIABLES
    nvState,    \* what the store holds: no record, a good one, foreign bytes
    nvValue,    \* the value of the last record written successfully
    power,      \* "off" | "run" | "refused" (begin() != OK)
    current,    \* _current
    lastSaved,  \* _lastSaved
    inHand,     \* the value _sendMsg took for a frame not yet on the air, or None
    aired,      \* history: every value that went on the air
    repeated,   \* history: the values whose nonce was already on the air
    lastWrite,  \* history: how the latest commit attempt of this boot ended
    losses      \* history: how persisted values were lost at a power cycle

nvVars == <<nvState, nvValue>>
ramVars == <<current, lastSaved, inHand>>
history == <<aired, repeated, lastWrite, losses>>
counterVars == <<nvVars, power, ramVars, history>>

None == -1
LossKinds == {"writeLost", "misread", "garbled"}

Wire(v) == v % SeqMod

-----------------------------------------------------------------------------
(* A factory-new node, powered off.                                        *)
CounterInit ==
    /\ nvState = "empty" /\ nvValue = 0
    /\ power = "off"
    /\ current = 0 /\ lastSaved = 0 /\ inHand = None
    /\ aired = {} /\ repeated = {} /\ lastWrite = "ok" /\ losses = {}

\* Mutant of Commit: _lastSaved advances whether or not the write succeeded.
CommitUnconfirmed(value, saved) ==
    \/ /\ nvState' = "ok" /\ nvValue' = value
       /\ lastSaved' = value
       /\ lastWrite' = "ok"
    \/ /\ UNCHANGED nvVars
       /\ lastSaved' = value
       /\ lastWrite' = "failed"

\* _commit(): only a confirmed write advances _lastSaved.
Commit(value, saved) ==
    \/ /\ nvState' = "ok" /\ nvValue' = value
       /\ lastSaved' = value
       /\ lastWrite' = "ok"
    \/ /\ UNCHANGED nvVars
       /\ lastSaved' = saved
       /\ lastWrite' = "failed"

NoCommit(saved) ==
    /\ UNCHANGED nvVars
    /\ lastSaved' = saved
    /\ lastWrite' = lastWrite

\* Mutants of ResumeAt: no skip, the skip taken off.
ResumeAtSaved(saved) == saved

ResumeBehind(saved) == saved - Skip

\* begin() skips ahead of what was persisted (0 when no record was read).
ResumeAt(saved) == saved + Skip

\* MonotonicCounter::begin with a record that carries the magic.
BootFromRecord ==
    /\ nvState = "ok"
    /\ current' = ResumeAt(nvValue)
    /\ Commit(ResumeAt(nvValue), nvValue)
    /\ power' = "run"
    /\ losses' = losses

\* read() == false: nothing was ever written, or the read failed.  Both look
\* the same to begin(), which starts over at Skip.
BootFromNothing ==
    /\ current' = ResumeAt(0)
    /\ Commit(ResumeAt(0), 0)
    /\ power' = "run"
    /\ losses' = IF nvState = "empty" THEN losses ELSE losses \cup {"misread"}

\* The record reads back without the magic: corrupted().  An encrypting node
\* does not start; any other runs on, and its first increment() commits.
BootFromGarbage ==
    /\ nvState = "garbage"
    /\ current' = ResumeAt(0)
    /\ NoCommit(0)
    /\ power' = IF Sec THEN "refused" ELSE "run"
    /\ losses' = IF Sec THEN losses ELSE losses \cup {"garbled"}

Boot ==
    /\ power = "off"
    /\ nvValue + Skip <= MaxSeq
    /\ BootFromRecord \/ BootFromNothing \/ BootFromGarbage
    /\ inHand' = None
    /\ UNCHANGED <<aired, repeated>>

\* _sendMsg: seq = get(), then increment(), before the frame is built.
IncrementCommits(value) == value >= lastSaved + Skip

Take ==
    /\ power = "run" /\ inHand = None /\ current < MaxSeq
    /\ inHand' = current
    /\ current' = current + 1
    /\ IF IncrementCommits(current + 1) THEN Commit(current + 1, lastSaved)
                                    ELSE NoCommit(lastSaved)
    /\ UNCHANGED <<power, aired, repeated, losses>>

\* _txAndAccount put the frame on the air.
Air ==
    /\ power = "run" /\ inHand # None
    /\ aired' = aired \cup {inHand}
    /\ repeated' = repeated \cup {w \in {inHand} : \E v \in aired : Wire(v) = Wire(w)}
    /\ inHand' = None
    /\ UNCHANGED <<nvVars, power, current, lastSaved, lastWrite, losses>>

\* The build or the transmission failed; the value is not tried again.
Drop ==
    /\ power = "run" /\ inHand # None
    /\ inHand' = None
    /\ UNCHANGED <<nvVars, power, current, lastSaved, history>>

\* Power is lost between any two of the steps above.
PowerLoss ==
    /\ power # "off"
    /\ power' = "off"
    /\ inHand' = None
    /\ losses' = IF lastWrite = "failed" THEN losses \cup {"writeLost"} ELSE losses
    /\ lastWrite' = "ok"
    /\ UNCHANGED <<nvVars, current, lastSaved, aired, repeated>>

\* External: the stored bytes are overwritten by something else.
Garble ==
    /\ power = "off" /\ nvState = "ok"
    /\ nvState' = "garbage"
    /\ UNCHANGED <<nvValue, power, ramVars, history>>

CounterNext == Boot \/ Take \/ Air \/ Drop \/ PowerLoss \/ Garble

CounterSpec == CounterInit /\ [][CounterNext]_counterVars

-----------------------------------------------------------------------------
(* Every variable has its type. *)
CounterTypeOK ==
    /\ nvState \in {"empty", "ok", "garbage"} /\ nvValue \in Nat
    /\ power \in {"off", "run", "refused"}
    /\ current \in Nat /\ lastSaved \in Nat /\ inHand \in Nat \cup {None}
    /\ aired \in SUBSET Nat
    /\ repeated \in SUBSET Nat /\ lastWrite \in {"ok", "failed"}
    /\ losses \in SUBSET LossKinds

\* The 24-bit space has been used up: _sendMsg only logs it.
Wrapped == \E v \in aired : v >= SeqMod

\* No nonce goes on the air twice, whatever the moments of power loss, until
\* the 24-bit space wraps, unless persisted state was lost: a failed write not
\* yet retried at the power loss, or a record that could not be read.  An
\* encrypting node never resumes from a garbled record.
ReuseOnlyAfterLoss ==
    repeated # {} => \/ Wrapped
              \/ losses \cap {"writeLost", "misread"} # {}
              \/ (~Sec /\ "garbled" \in losses)

\* While the node runs on what it restored, _lastSaved is the value in the
\* store: a write believed done has been done, so a failed one is retried at
\* the very next increment() and not Skip values later.
LastSavedIsStored ==
    (power = "run" /\ losses = {}) => lastSaved = nvValue
=============================================================================
