------------------------------- MODULE MCOrdering -------------------------------
(* Ordering with one request and one replica of each of its consumers.      *)
EXTENDS Ordering, TLC

CONSTANTS r1, pay1, del1

OneRequest == {r1}
OnePayment == {pay1}
OneDelivery == {del1}

\* The events of one way through.
HappyEvents == {"PaymentSucceeded", "DeliveryStarted", "DeliveryCompleted"}
=============================================================================
