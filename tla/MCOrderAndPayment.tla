--------------------------- MODULE MCOrderAndPayment ---------------------------
(* Ordering with overlapping requests and replicas, and Payment with crashes *)
(* and failing steps in both runtimes.                                       *)
EXTENDS OrderAndPayment, TLC

CONSTANTS r1, r2, pay1, del1, del2

TwoRequests == {r1, r2}
OnePayment == {pay1}
TwoDeliveries == {del1, del2}

\* Every event but a second kind of refusal and the one that Ordering never
\* looks at.
MixedEvents == (PaymentEvents \cup DeliveryEvents)
                 \ {"PaymentFailedRetryable", "DeliveryCreated"}

NoCaller == {}
Outcome(kind, retryable) == [kind |-> kind, retryable |-> retryable]
Answered == {Outcome("SUCCEEDED", FALSE), Outcome("FAILED", FALSE), Outcome("FAILED", TRUE)}
Timeout == Outcome("TIMED_OUT", TRUE)

\* Every honest answer.
AllAnswers ==
    {[response |-> o, truth |-> o] : o \in Answered}
    \cup {[response |-> Timeout, truth |-> o] : o \in Answered \cup {Timeout}}
BothRuntimes == {"dbos", "local"}
=============================================================================
