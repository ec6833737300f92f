---------------------------- MODULE MCPaymentIntent ----------------------------
(* PaymentIntent on small instances with a callback that overlaps the runs. *)
EXTENDS PaymentIntent

CONSTANT c1

OneCaller == {c1}

\* Of the timeouts only the one whose money moved: the answer after which
\* another charge does harm.
KeyAnswers ==
    {x \in HonestAnswers :
        x.response.kind = "TIMED_OUT" => x.truth.kind = "SUCCEEDED"}

BothRuntimes == {"dbos", "local"}

\* One complication in a behaviour: the callback and with it a customer's retry
\* or a crash, the local runtime with its redeliveries, or a step that throws.
OneComplication ==
    /\ crashes > 0 => generation = 1 /\ runtime = "dbos"
    /\ runtime = "local" \/ stepErrors > 0 =>
         /\ generation = 1 /\ crashes = 0
         /\ \A t \in txs : t.process \notin Callers
=============================================================================
