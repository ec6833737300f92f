-------------------------------- MODULE MCInbox --------------------------------
(* Inbox alone, fed with copies of the message.                             *)
EXTENDS Inbox

CONSTANTS d1, d2

OneDelivery == {d1}
RabbitMQ == {"rabbitmq"}
=============================================================================
