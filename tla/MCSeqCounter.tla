---- MODULE MCSeqCounter ----
(* Small instances of SeqCounter for TLC. *)
EXTENDS SeqCounter
====
