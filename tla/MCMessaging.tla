------------------------------ MODULE MCMessaging ------------------------------
(* Messaging on either transport, with two consumers.                       *)
EXTENDS Messaging

CONSTANTS d1, d2

TwoDeliveries == {d1, d2}
\* At most one complication at a time: faults of the consumer, a second event
\* in the Outbox, or a third call of dispatch.  No step that is subject to
\* fairness leads out of this.
Faulty == failures + hookFailures + crashes > 0
InCompany == \E e \in Events \ {Traced} : outbox[e].status # "NONE"
OneComplication ==
    Cardinality({b \in {1} : Faulty} \cup {b \in {2} : InCompany}
                \cup {b \in {3} : dispatches > 2}) <= 1

BothTransports == {"rabbitmq", "in-memory"}
=============================================================================
