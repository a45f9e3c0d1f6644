--------------------------- MODULE LargeDelivery ---------------------------
(***************************************************************************)
(* What RFNet promises of a large message, seen from the two applications: *)
(* the sender hears of it once, the receiver gets it whole or not at all,  *)
(* and a success that was asked for means that it was handed over - unless *)
(* the receiver has forgotten something about the message.  FragTransfer   *)
(* implements this.                                                        *)
(***************************************************************************)
EXTENDS Naturals

CONSTANTS
    Messages,    \* the large messages
    MaxHanded    \* bound: how often late copies can hand over one message

VARIABLES
    outcome,     \* what the sender was told: new, open, ok, sent, failed
    handed,      \* how often the receiver's application got the message
    forgot       \* messages of which the receiver lost a record

vars == <<outcome, handed, forgot>>

Init ==
    /\ outcome = [m \in Messages |-> "new"]
    /\ handed = [m \in Messages |-> 0]
    /\ forgot = {}

\* startLargeSend accepts the message.
Offer(m) ==
    /\ outcome[m] = "new"
    /\ outcome' = [outcome EXCEPT ![m] = "open"]
    /\ UNCHANGED <<handed, forgot>>

\* The receive callback gets the whole message, possibly when the sender has
\* already been told of a failure.
HandOver(m) ==
    /\ outcome[m] # "new" /\ handed[m] < MaxHanded
    /\ handed' = [handed EXCEPT ![m] = @ + 1]
    /\ UNCHANGED <<outcome, forgot>>

\* The receiver restarts, or loses the record of an aborted message.
Forget(S) ==
    /\ forgot' = forgot \cup S
    /\ UNCHANGED <<outcome, handed>>

\* Success with acknowledgement: handed over, as far as the receiver remembers.
Succeed(m) ==
    /\ outcome[m] = "open"
    /\ handed[m] > 0 \/ m \in forgot
    /\ outcome' = [outcome EXCEPT ![m] = "ok"]
    /\ UNCHANGED <<handed, forgot>>

\* Without acknowledgement: all fragments went out, nothing else is said.
SentOut(m) ==
    /\ outcome[m] = "open"
    /\ outcome' = [outcome EXCEPT ![m] = "sent"]
    /\ UNCHANGED <<handed, forgot>>

Fail(m) ==
    /\ outcome[m] = "open"
    /\ outcome' = [outcome EXCEPT ![m] = "failed"]
    /\ UNCHANGED <<handed, forgot>>

Next ==
    \/ \E m \in Messages : Offer(m) \/ HandOver(m) \/ Succeed(m) \/ SentOut(m) \/ Fail(m)
    \/ \E S \in SUBSET Messages : Forget(S)

Spec == Init /\ [][Next]_vars
=============================================================================
