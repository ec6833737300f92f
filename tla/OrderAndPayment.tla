---------------------------- MODULE OrderAndPayment ----------------------------
(***************************************************************************)
(* Ordering and the Payment of its Order, side by side.  The two contexts   *)
(* share no row and meet only through integration events, which each takes  *)
(* from the other in any order the other may announce them: what holds of   *)
(* each while the other rests holds of both.  focus names the one that      *)
(* moves, so that their states are added up and never multiplied.           *)
(***************************************************************************)
EXTENDS Ordering

CONSTANTS Callers, Answers, MaxAttempts, MaxGeneration, MaxCrashes,
          MaxStepErrors, Runtimes    \* those of PaymentIntent

VARIABLES
    focus,                         \* the context that moves
    paymentStatus, paymentOutbox,  \* status and outbox of PaymentIntent
    generation, currentAttempt, failureRetryable, due, attempts, callbacks,
    provider, wf, began, starting, txs, runtime, crashes, stepErrors

Pay == INSTANCE PaymentIntent WITH status <- paymentStatus, outbox <- paymentOutbox

paymentVars == <<paymentStatus, paymentOutbox, generation, currentAttempt,
    failureRetryable, due, attempts, callbacks, provider, wf, began, starting,
    txs, runtime, crashes, stepErrors>>
bothVars == <<vars, paymentVars, focus>>

BothInit ==
    /\ Init /\ Pay!Init
    /\ focus \in {"order", "payment"}
    /\ focus = "order" => runtime = CHOOSE r \in Runtimes : TRUE

InOrder(A) == focus = "order" /\ A /\ UNCHANGED <<paymentVars, focus>>
InPayment(A) == focus = "payment" /\ A /\ UNCHANGED <<vars, focus>>

BothNext == InOrder(Next) \/ InPayment(Pay!Next)

\* The fairness of FairSpec in Ordering and in PaymentIntent.
FairBoth ==
    /\ BothInit /\ [][BothNext]_bothVars
    /\ \A p \in Consumers : WF_bothVars(InOrder(Serve(p)))
    /\ \A g \in 1..MaxGeneration : WF_bothVars(InPayment(Pay!Proceed(g)))

-------------------------------------------------------------------------------
\* The attempts of one generation take the money at most once, across
\* crashes, replays and redeliveries (PaymentIntent).
OneChargePerGeneration == Pay!OneChargePerGeneration

\* A run of the PaymentWorkflow ends with its generation decided, or in an
\* error that has a cause (PaymentIntent).
RunDecides == Pay!RunDecides
=============================================================================
