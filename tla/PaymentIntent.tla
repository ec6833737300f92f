----------------------------- MODULE PaymentIntent -----------------------------
(***************************************************************************)
(* The Payment context: one Payment Intent, its attempts, the provider     *)
(* callbacks recorded for it, the integration events it puts in the        *)
(* Outbox, and the actors that write these rows: the PaymentWorkflow of    *)
(* each generation, concurrent provider callbacks, the customer's retry    *)
(* and the consumer of OrderPlaced.  Intents share no row, so one intent   *)
(* is enough.                                                              *)
(*                                                                         *)
(* PostgreSQL runs at READ COMMITTED.  A transaction that reads rows and   *)
(* later writes them is two steps here: the reads, kept in a snapshot, and *)
(* the writes with the commit.  Writes hold their row locks until the      *)
(* commit, so a transaction's writes are one step; its reads are stale by  *)
(* as much as the other transactions commit in between.                    *)
(***************************************************************************)
EXTENDS Naturals, FiniteSets

CONSTANTS
    Callers,        \* deliveries of provider callbacks that may overlap
    Answers,        \* what the provider may answer a charge, and do
    MaxAttempts,    \* PAYMENT_WORKFLOW_MAX_ATTEMPTS
    MaxGeneration,  \* bound on workflowGeneration (customer retries + 1)
    MaxCrashes,     \* bound on process crashes
    MaxStepErrors,  \* bound on workflow steps that throw
    Runtimes        \* the workflow runtimes the API may be configured with

Generations == 1..MaxGeneration
Numbers == 1..MaxAttempts
Processes == Callers \cup Generations   \* who opens an outcome transaction

Outcomes == [kind : {"SUCCEEDED"}, retryable : {FALSE}]
            \cup [kind : {"FAILED"}, retryable : BOOLEAN]
            \cup [kind : {"TIMED_OUT"}, retryable : {TRUE}]
NoOutcome == [kind |-> "NONE", retryable |-> FALSE]
NoAnswer == [response |-> NoOutcome, truth |-> NoOutcome]

\* What the provider did with the money is its answer, unless it timed out.
HonestAnswers == {x \in [response : Outcomes, truth : Outcomes] :
                    x.response.kind # "TIMED_OUT" => x.truth = x.response}

ASSUME PaymentAssumption ==
    /\ Answers \subseteq HonestAnswers
    /\ MaxAttempts \in Nat \ {0}
    /\ MaxGeneration \in Nat \ {0}
    /\ MaxCrashes \in Nat
    /\ MaxStepErrors \in Nat
    /\ Runtimes \subseteq {"dbos", "local"}
    /\ Callers \cap Generations = {}

VARIABLES
    status,           \* payment_intents.status, "ABSENT" before the insert
    generation,       \* payment_intents.workflow_generation
    currentAttempt,   \* payment_intents.current_attempt_number
    failureRetryable, \* payment_intents.last_failure_retryable
    due,              \* TRUE once the clock has reached expires_at
    attempts,         \* payment_attempts: status by generation and number
    callbacks,        \* payment_callbacks rows
    outbox,           \* Outbox rows the Payment context enqueued
    provider,         \* what the provider answered and did, per charge key
    wf,               \* workflow run of each generation: the step it is at
    began,            \* where the latest step of each run began
    starting,         \* generations whose start is held in memory only
    txs,              \* open applyProviderOutcome transactions
    runtime,          \* "dbos" or "local", chosen by the configuration
    crashes, stepErrors

rows == <<status, generation, currentAttempt, failureRetryable, attempts,
          callbacks, outbox>>
vars == <<status, generation, currentAttempt, failureRetryable, due, attempts,
          callbacks, outbox, provider, wf, began, starting, txs, runtime,
          crashes, stepErrors>>

-------------------------------------------------------------------------------
Statuses == {"ABSENT", "PENDING", "SUCCEEDED", "FAILED", "EXPIRED"}
Terminal == {"SUCCEEDED", "FAILED", "EXPIRED"}
AttemptKeys == Generations \X Numbers

\* A callback identity belongs to the attempt it reports: the one in the
\* charge response, or the one of the provider's own later report.
CallbackIds == AttemptKeys \X {"charge", "report"}
CallbackRows == [id : CallbackIds, outcome : Outcomes, late : BOOLEAN]

SucceededEvent(a) == [type |-> "PaymentSucceeded", generation |-> 0,
                      reference |-> a, retryable |-> FALSE]
FailedEvent(g, r) == [type |-> "PaymentFailed", generation |-> g,
                      reference |-> <<g, 0>>, retryable |-> r]
ExpiredEvent == [type |-> "PaymentExpired", generation |-> 0,
                 reference |-> <<0, 0>>, retryable |-> FALSE]
Events == {SucceededEvent(a) : a \in AttemptKeys}
          \cup {FailedEvent(g, r) : g \in Generations, r \in BOOLEAN}
          \cup {ExpiredEvent}

\* The identity of an event is its type and, for PaymentFailed, the
\* generation.
SameIdentity(e, f) == e.type = f.type /\ e.generation = f.generation

\* enqueue compares the JSON text of the payload with that of the stored one,
\* whose keys jsonb has put into another order: an identity that is taken is
\* always refused, for an equal event as well.
Refused(e) == \E f \in outbox : SameIdentity(e, f)

RunPhases == {"idle", "load", "expire", "ensure", "ensuring", "check",
              "charge", "apply", "applying", "reload", "done", "failed"}
Runs == [phase : RunPhases, number : Numbers]
NotStarted == [phase |-> "idle", number |-> 1]

\* The phases within a step: what came before it is recorded.
MidStep == {"ensuring", "charge", "applying"}
Transactions == [process : Processes, id : CallbackIds, outcome : Outcomes,
                 seenStatus : Statuses,
                 seenAttempt : {"PENDING", "SUCCEEDED", "FAILED", "TIMED_OUT"},
                 late : BOOLEAN]

TypeOK ==
    /\ status \in Statuses
    /\ generation \in Generations
    /\ currentAttempt \in 0..MaxAttempts
    /\ failureRetryable \in BOOLEAN
    /\ due \in BOOLEAN
    /\ attempts \in [AttemptKeys ->
                       {"NONE", "PENDING", "SUCCEEDED", "FAILED", "TIMED_OUT"}]
    /\ callbacks \subseteq CallbackRows
    /\ outbox \subseteq Events
    /\ provider \in [AttemptKeys -> Answers \cup {NoAnswer}]
    /\ wf \in [Generations -> Runs]
    /\ began \in [Generations -> Runs]
    /\ starting \subseteq Generations
    /\ txs \subseteq Transactions
    /\ runtime \in Runtimes
    /\ crashes \in 0..MaxCrashes
    /\ stepErrors \in 0..MaxStepErrors

Init ==
    /\ status = "ABSENT"
    /\ generation = 1
    /\ currentAttempt = 0
    /\ failureRetryable = FALSE
    /\ due = FALSE
    /\ attempts = [a \in AttemptKeys |-> "NONE"]
    /\ callbacks = {}
    /\ outbox = {}
    /\ provider = [a \in AttemptKeys |-> NoAnswer]
    /\ wf = [g \in Generations |-> NotStarted]
    /\ began = wf
    /\ starting = {}
    /\ txs = {}
    /\ runtime \in Runtimes
    /\ crashes = 0
    /\ stepErrors = 0

-------------------------------------------------------------------------------
(* The consumer of OrderPlaced, the clock and the customer.                *)

\* The inbox transaction inserts the intent; its afterCommit callback, held
\* in memory, will start the workflow of the intent's generation.
HandleOrderPlaced ==
    /\ status = "ABSENT"
    /\ status' = "PENDING"
    /\ starting' = starting \cup {generation}
    /\ UNCHANGED <<generation, currentAttempt, failureRetryable, due, attempts,
                   callbacks, outbox, provider, wf, began, txs, crashes,
                   stepErrors, runtime>>

\* In the local runtime afterCommit awaits the whole run, so a run that
\* throws fails the delivery: the message is retried and the effect, which
\* finds the intent, starts the current generation again.
RedeliverOrderPlaced ==
    /\ runtime = "local"
    /\ wf[1].phase = "failed"
    /\ starting' = starting \cup {generation}
    /\ UNCHANGED <<rows, due, provider, wf, began, txs, crashes, stepErrors,
                   runtime>>

ExpiryPasses ==
    /\ status # "ABSENT"
    /\ ~due
    /\ due' = TRUE
    /\ UNCHANGED <<rows, provider, wf, began, starting, txs, crashes, stepErrors,
                   runtime>>

NextGeneration ==
    /\ generation' = generation + 1
    /\ currentAttempt' = 0

\* prepareRetry: the guarded UPDATE repeats the conditions of the read, so
\* the transaction is one step; the start follows it in memory.
RetryForUser ==
    /\ status = "FAILED" /\ failureRetryable /\ ~due
    /\ generation < MaxGeneration
    /\ status' = "PENDING"
    /\ NextGeneration
    /\ starting' = starting \cup {generation'}
    /\ UNCHANGED <<failureRetryable, due, attempts, callbacks, outbox, provider,
                   wf, began, txs, crashes, stepErrors, runtime>>

\* A start returns the run that exists.  The local runtime forgets a run
\* that threw and begins again; DBOS keeps its error.
Start(g) ==
    /\ g \in starting
    /\ starting' = starting \ {g}
    /\ IF \/ wf[g].phase = "idle"
          \/ runtime = "local" /\ wf[g].phase = "failed"
       THEN /\ wf' = [wf EXCEPT ![g] = [phase |-> "load", number |-> 1]]
            /\ began' = [began EXCEPT ![g] = [phase |-> "load", number |-> 1]]
       ELSE UNCHANGED <<wf, began>>
    /\ UNCHANGED <<rows, due, provider, txs, crashes, stepErrors, runtime>>

-------------------------------------------------------------------------------
(* The steps of PaymentWorkflowEngine.runInternal before the charge.       *)

\* Run g goes on to its next point; a point within a step belongs to the
\* step that began before.
MoveTo(g, run) ==
    /\ wf' = [wf EXCEPT ![g] = run]
    /\ began' = IF wf[g].phase \in MidStep THEN began
                ELSE [began EXCEPT ![g] = wf[g]]

GoTo(g, phase) == MoveTo(g, [wf[g] EXCEPT !.phase = phase])

Load(g) ==
    /\ wf[g].phase = "load"
    /\ GoTo(g, IF status \in Terminal THEN "done" ELSE "expire")
    /\ UNCHANGED <<rows, due, provider, starting, txs, crashes, stepErrors, runtime>>

\* Slip: the UPDATE is not guarded by the status.
ExpireAnyStatus ==
    /\ status' = "EXPIRED"
    /\ failureRetryable' = FALSE
    /\ outbox' = outbox \cup {ExpiredEvent}

\* Slip: the event is enqueued without looking at the number of rows updated.
ExpireAndAlwaysAnnounce ==
    /\ status' = IF status = "PENDING" THEN "EXPIRED" ELSE status
    /\ failureRetryable' = IF status = "PENDING" THEN FALSE ELSE failureRetryable
    /\ outbox' = outbox \cup {ExpiredEvent}

\* UPDATE ... WHERE status = 'PENDING', with PaymentExpired only for a row
\* that was updated.
ExpirePending ==
    /\ status' = IF status = "PENDING" THEN "EXPIRED" ELSE status
    /\ failureRetryable' = IF status = "PENDING" THEN FALSE ELSE failureRetryable
    /\ outbox' = IF status = "PENDING" THEN outbox \cup {ExpiredEvent} ELSE outbox

ExpireIfDue(g) ==
    /\ wf[g].phase = "expire"
    /\ IF due THEN ExpirePending
              ELSE UNCHANGED <<status, failureRetryable, outbox>>
    /\ GoTo(g, IF status' \in Terminal THEN "done" ELSE "ensure")
    /\ UNCHANGED <<generation, currentAttempt, due, attempts, callbacks,
                   provider, starting, txs, crashes, stepErrors, runtime>>

\* ensureAttempt reads the intent and the attempt ...
EnsureRead(g) ==
    /\ wf[g].phase = "ensure"
    /\ GoTo(g, IF generation # g \/ status # "PENDING" THEN "done"
               ELSE IF attempts[<<g, wf[g].number>>] # "NONE" THEN "check"
               ELSE "ensuring")
    /\ UNCHANGED <<rows, due, provider, starting, txs, crashes, stepErrors, runtime>>

\* ... and then inserts the attempt, whatever became of the intent, and
\* moves current_attempt_number if the intent is still its own.
EnsureWrite(g) ==
    LET a == <<g, wf[g].number>> IN
    /\ wf[g].phase = "ensuring"
    /\ attempts' = [attempts EXCEPT ![a] = IF @ = "NONE" THEN "PENDING" ELSE @]
    /\ currentAttempt' = IF status = "PENDING" /\ generation = g
                         THEN wf[g].number ELSE currentAttempt
    /\ GoTo(g, "check")
    /\ UNCHANGED <<status, generation, failureRetryable, due, callbacks, outbox,
                   provider, starting, txs, crashes, stepErrors, runtime>>

\* Only the expiry is looked at again before the charge, not the status.
CheckExpiry(g) ==
    /\ wf[g].phase = "check"
    /\ IF due THEN ExpirePending /\ GoTo(g, "done")
              ELSE /\ UNCHANGED <<status, failureRetryable, outbox>>
                   /\ GoTo(g, "charge")
    /\ UNCHANGED <<generation, currentAttempt, due, attempts, callbacks,
                   provider, starting, txs, crashes, stepErrors, runtime>>

\* The provider answers a charge key once and repeats that answer.
Charge(g) ==
    LET a == <<g, wf[g].number>> IN
    /\ wf[g].phase = "charge"
    /\ IF provider[a] # NoAnswer
       THEN UNCHANGED provider
       ELSE \E x \in Answers : provider' = [provider EXCEPT ![a] = x]
    /\ GoTo(g, "apply")
    /\ UNCHANGED <<rows, due, starting, txs, crashes, stepErrors, runtime>>

-------------------------------------------------------------------------------
(* applyProviderOutcome, called by the workflow and by provider callbacks. *)

Snapshot(p, id, o) ==
    [process |-> p, id |-> id, outcome |-> o, seenStatus |-> status,
     seenAttempt |-> attempts[id[1]], late |-> due]

BeginApply(g) ==
    LET a == <<g, wf[g].number>> IN
    /\ wf[g].phase = "apply"
    /\ txs' = txs \cup {Snapshot(g, <<a, "charge">>, provider[a].response)}
    /\ GoTo(g, "applying")
    /\ UNCHANGED <<rows, due, provider, starting, crashes, stepErrors, runtime>>

\* recordProviderCallback: the provider repeats its answer or reports what
\* it did, under the identity of the answer or under one of its own.
ReceiveCallback(c) ==
    /\ \A t \in txs : t.process # c
    /\ \E a \in AttemptKeys, tag \in {"charge", "report"} :
         /\ provider[a] # NoAnswer
         /\ \E o \in {provider[a].response, provider[a].truth} :
              txs' = txs \cup {Snapshot(c, <<a, tag>>, o)}
    /\ UNCHANGED <<rows, due, provider, wf, began, starting, crashes, stepErrors,
                   runtime>>

\* The commit of transaction t: where the caller, if it is a workflow,
\* goes next.
Finish(t, phase) ==
    /\ txs' = txs \ {t}
    /\ IF t.process \in Generations THEN GoTo(t.process, phase)
                                    ELSE UNCHANGED <<wf, began>>
    /\ UNCHANGED <<generation, currentAttempt, due, provider, starting,
                   crashes, stepErrors, runtime>>

Known(t) == \E r \in callbacks : r.id = t.id

RecordCallback(t) ==
    /\ ~Known(t)
    /\ callbacks' = callbacks \cup
                      {[id |-> t.id, outcome |-> t.outcome, late |-> t.late]}

\* Slip: a late outcome gives the attempt the status of the intent.
RecordAttemptExpired(t) ==
    /\ RecordCallback(t)
    /\ t.seenAttempt = "PENDING"
    /\ attempts' = [attempts EXCEPT ![t.id[1]] =
                      IF t.late THEN "EXPIRED" ELSE t.outcome.kind]

\* Slip: the attempt takes its status from anything but the outcome.
RecordAttemptFailed(t) ==
    /\ RecordCallback(t)
    /\ t.seenAttempt = "PENDING"
    /\ attempts' = [attempts EXCEPT ![t.id[1]] = "FAILED"]

RecordAttempt(t) ==
    /\ RecordCallback(t)
    /\ t.seenAttempt = "PENDING"
    /\ attempts' = [attempts EXCEPT ![t.id[1]] = t.outcome.kind]

\* Slip: every refusal is taken for a retryable one.
RetriesAnyRefusal(t) == t.outcome.kind = "FAILED" /\ t.id[1][2] < MaxAttempts

\* A retry is left to the workflow only while the attempts last.
RetriesLeft(t) == t.outcome.kind = "FAILED" /\ t.outcome.retryable
                  /\ t.id[1][2] < MaxAttempts

\* The identity is recorded: the same outcome is answered from the row, by
\* the status read at the beginning; another one is refused.
ApplyKnown(t) ==
    /\ Known(t)
    /\ LET r == CHOOSE x \in callbacks : x.id = t.id IN
       Finish(t, IF r.outcome # t.outcome THEN "failed"
                 ELSE IF RetriesLeft(t) /\ t.seenStatus = "PENDING"
                 THEN "reload" ELSE "done")
    /\ UNCHANGED <<status, failureRetryable, attempts, callbacks, outbox>>

\* The attempt was seen completed: the callback is kept and nothing else.
ApplyToCompleted(t) ==
    /\ RecordCallback(t)
    /\ t.seenAttempt # "PENDING"
    /\ Finish(t, "done")
    /\ UNCHANGED <<status, failureRetryable, attempts, outbox>>

\* The intent was seen decided: only the attempt is completed.
ApplyToDecided(t) ==
    /\ RecordAttempt(t)
    /\ t.seenStatus # "PENDING"
    /\ Finish(t, "done")
    /\ UNCHANGED <<status, failureRetryable, outbox>>

Expires(t) == t.outcome.kind = "TIMED_OUT" \/ t.late

\* Slip: a timeout is retried like a refusal.
ApplyExpiryLateOnly(t) ==
    /\ RecordAttempt(t)
    /\ t.seenStatus = "PENDING" /\ Expires(t)
    /\ IF t.late THEN ExpirePending /\ Finish(t, "done")
       ELSE Finish(t, "reload") /\ UNCHANGED <<status, failureRetryable, outbox>>

ApplyExpiry(t) ==
    /\ RecordAttempt(t)
    /\ t.seenStatus = "PENDING" /\ Expires(t)
    /\ ExpirePending
    /\ Finish(t, "done")

FinalFailure(t) == t.outcome.kind = "FAILED" /\ ~RetriesLeft(t)

Announcement(t) == IF t.outcome.kind = "SUCCEEDED" THEN SucceededEvent(t.id[1])
                   ELSE FailedEvent(t.id[1][1], t.outcome.retryable)

\* The UPDATE is guarded by status = 'PENDING'; the event is enqueued
\* whether or not a row was updated.
ApplySuccess(t) ==
    /\ RecordAttempt(t)
    /\ t.seenStatus = "PENDING" /\ ~Expires(t) /\ t.outcome.kind = "SUCCEEDED"
    /\ ~Refused(Announcement(t))
    /\ status' = IF status = "PENDING" THEN "SUCCEEDED" ELSE status
    /\ failureRetryable' = IF status = "PENDING" THEN FALSE ELSE failureRetryable
    /\ outbox' = outbox \cup {Announcement(t)}
    /\ Finish(t, "done")

ApplyRetry(t) ==
    /\ RecordAttempt(t)
    /\ t.seenStatus = "PENDING" /\ ~Expires(t) /\ RetriesLeft(t)
    /\ failureRetryable' = IF status = "PENDING" THEN TRUE ELSE failureRetryable
    /\ Finish(t, "reload")
    /\ UNCHANGED <<status, outbox>>

ApplyFailure(t) ==
    /\ RecordAttempt(t)
    /\ t.seenStatus = "PENDING" /\ ~Expires(t) /\ FinalFailure(t)
    /\ ~Refused(Announcement(t))
    /\ status' = IF status = "PENDING" THEN "FAILED" ELSE status
    /\ failureRetryable' = IF status = "PENDING" THEN t.outcome.retryable
                           ELSE failureRetryable
    /\ outbox' = outbox \cup {Announcement(t)}
    /\ Finish(t, "done")

\* enqueue found the event's identity taken and throws: the transaction, its
\* callback row included, is rolled back.
ApplyRefused(t) ==
    /\ ~Known(t)
    /\ t.seenAttempt = "PENDING" /\ t.seenStatus = "PENDING" /\ ~Expires(t)
    /\ ~RetriesLeft(t)
    /\ Refused(Announcement(t))
    /\ Finish(t, "failed")
    /\ UNCHANGED <<status, failureRetryable, attempts, callbacks, outbox>>

Apply(t) ==
    \/ ApplyKnown(t)
    \/ ApplyToCompleted(t)
    \/ ApplyToDecided(t)
    \/ ApplyExpiry(t)
    \/ ApplySuccess(t)
    \/ ApplyRetry(t)
    \/ ApplyFailure(t)
    \/ ApplyRefused(t)

\* After a retryable failure the engine looks at the intent once more.
Reload(g) ==
    /\ wf[g].phase = "reload"
    /\ IF status \in Terminal \/ wf[g].number = MaxAttempts
       THEN GoTo(g, "done")
       ELSE MoveTo(g, [phase |-> "ensure", number |-> wf[g].number + 1])
    /\ UNCHANGED <<rows, due, provider, starting, txs, crashes, stepErrors, runtime>>

-------------------------------------------------------------------------------
(* Failures.                                                               *)

Active == RunPhases \ {"idle", "done", "failed"}

\* A step throws, for instance on a database error: its transaction rolls
\* back and the run ends in error.
StepThrows(g) ==
    /\ stepErrors < MaxStepErrors
    /\ wf[g].phase \in Active
    /\ stepErrors' = stepErrors + 1
    /\ GoTo(g, "failed")
    /\ txs' = {t \in txs : t.process # g}
    /\ UNCHANGED <<rows, due, provider, starting, crashes, runtime>>

\* The engine runs from its beginning and is answered from the record, but it
\* looks at the clock again before each charge: once the expiry has passed, it
\* asks for the expiry where a charge is recorded, and DBOS ends the run in
\* error.
Replayed(run) ==
    IF due /\ run.phase \in Active
       /\ (run.number > 1 \/ run.phase \in {"apply", "reload"})
    THEN [run EXCEPT !.phase = "failed"]
    ELSE run

\* Slip: nothing recovers the interrupted runs.
ResumedNever(run) == NotStarted

\* DBOS replays its runs at the next launch; the local runtime loses them.
Resumed(run) == IF runtime = "local" THEN NotStarted ELSE Replayed(run)

\* The API process dies.  Open transactions roll back and starts held in
\* memory are gone.  A step that did not end is repeated, and so is one that
\* had its effect but whose record was lost.
Crash ==
    /\ crashes < MaxCrashes
    /\ crashes' = crashes + 1
    /\ starting' = {}
    /\ txs' = {}
    /\ \E lost \in SUBSET Generations :
         wf' = [g \in Generations |->
                  Resumed(IF g \in lost \/ wf[g].phase \in MidStep
                          THEN began[g] ELSE wf[g])]
    /\ began' = wf'
    /\ UNCHANGED <<rows, due, provider, stepErrors, runtime>>

-------------------------------------------------------------------------------
WorkflowStep(g) ==
    \/ Load(g)
    \/ ExpireIfDue(g)
    \/ EnsureRead(g)
    \/ EnsureWrite(g)
    \/ CheckExpiry(g)
    \/ Charge(g)
    \/ BeginApply(g)
    \/ Reload(g)
    \/ \E t \in txs : t.process = g /\ Apply(t)

CallbackStep(c) ==
    \/ ReceiveCallback(c)
    \/ \E t \in txs : t.process = c /\ Apply(t)

Next ==
    \/ HandleOrderPlaced
    \/ RedeliverOrderPlaced
    \/ ExpiryPasses
    \/ RetryForUser
    \/ \E g \in Generations : Start(g) \/ WorkflowStep(g) \/ StepThrows(g)
    \/ \E c \in Callers : CallbackStep(c)
    \/ Crash

Spec == Init /\ [][Next]_vars

\* A live process runs its pending starts and its workflows, whose open
\* transactions end; nothing obliges a customer, a crash or the provider's own
\* reports.
Proceed(g) == Start(g) \/ WorkflowStep(g)

Fairness == \A g \in Generations : WF_vars(Proceed(g))

FairSpec == Spec /\ Fairness

-------------------------------------------------------------------------------
(* Properties.                                                             *)

\* A decision is final: SUCCEEDED and EXPIRED are never left, whatever stale
\* transaction commits later, and FAILED is left only by the customer's
\* retry, which opens the next generation (the guarded UPDATEs of
\* applyProviderOutcome, expireIfDue and prepareRetry).
FinalDecision ==
    [][/\ status \in {"SUCCEEDED", "EXPIRED"} => status' = status
       /\ status = "FAILED" /\ status' # status
            => status' = "PENDING" /\ generation' = generation + 1]_vars

\* PaymentExpired is announced exactly when the intent is expired: a late
\* timeout that loses against another decision announces nothing, and no
\* expiry goes unannounced (expireIntentInTransaction).
ExpiredMatchesEvent == status = "EXPIRED" <=> ExpiredEvent \in outbox

\* Success is decided only by a SUCCEEDED callback that was received before
\* the expiry, and is announced under that attempt's reference
\* (applyProviderOutcome's expiry check on a late success).
SuccessInTime ==
    status = "SUCCEEDED" =>
        \E r \in callbacks : /\ r.outcome.kind = "SUCCEEDED"
                             /\ ~r.late
                             /\ SucceededEvent(r.id[1]) \in outbox

\* PaymentFailed is announced for a generation only when an attempt of it was
\* refused for good: not retryable, or retryable with no attempt left.
FailureJustified ==
    \A g \in Generations, b \in BOOLEAN :
        FailedEvent(g, b) \in outbox =>
            \E r \in callbacks : /\ r.id[1][1] = g
                                 /\ r.outcome = [kind |-> "FAILED", retryable |-> b]
                                 /\ b => r.id[1][2] = MaxAttempts

\* Each of the three decisions is announced, and for its reason alone, whatever
\* callbacks, timeouts and retries commit around it.
DecisionsAnnounced == ExpiredMatchesEvent /\ SuccessInTime /\ FailureJustified

\* An attempt is made only after the provider really refused every earlier
\* one of its generation in a retryable way: never after a timeout, whose
\* money may have moved.
RetryOnlyAfterRefusal ==
    \A g \in Generations, n \in Numbers :
        attempts[<<g, n>>] # "NONE" =>
            \A m \in 1..(n - 1) :
                provider[<<g, m>>].truth = [kind |-> "FAILED", retryable |-> TRUE]

\* The attempts of one generation take the customer's money at most once,
\* across timeouts, retries, crashes and replays (the attempt's idempotency
\* key and the loop of PaymentWorkflowEngine.runInternal).
OneChargePerGeneration ==
    \A g \in Generations : \A m, n \in Numbers :
        /\ provider[<<g, m>>].truth.kind = "SUCCEEDED"
        /\ provider[<<g, n>>].truth.kind = "SUCCEEDED"
        => m = n

\* The attempt rows and the callback rows tell the same story: an attempt is
\* completed exactly when a callback for it was recorded, with an outcome
\* some callback reported.
AttemptReflectsCallback ==
    \A a \in AttemptKeys :
        LET kinds == {r.outcome.kind : r \in {x \in callbacks : x.id[1] = a}}
        IN IF attempts[a] \in {"NONE", "PENDING"} THEN kinds = {}
           ELSE attempts[a] \in kinds

\* The attempts of all generations together take it at most once: a customer
\* can retry only a payment whose every charge was refused, also when
\* callbacks of an older generation commit late (prepareRetry's guard, which
\* stands on enqueue refusing the PaymentFailed of a generation that already
\* failed).
OneCharge ==
    \A a, b \in AttemptKeys :
        /\ provider[a].truth.kind = "SUCCEEDED"
        /\ provider[b].truth.kind = "SUCCEEDED"
        => a = b

\* An intent never announces both that it is paid and that it expired.
NoContradiction ==
    ~(ExpiredEvent \in outbox
      /\ \E a \in AttemptKeys : SucceededEvent(a) \in outbox)

\* A run that began under DBOS ends: with its own generation decided, unless
\* one of its steps threw or its process died and the expiry had passed by the
\* time it was replayed.  A crash alone takes no run away, whichever step it
\* interrupts or leaves unrecorded (PaymentWorkflowEngine.runInternal).
RunDecides ==
    \A g \in Generations :
        runtime = "dbos" /\ wf[g].phase = "load" /\ generation = g
            ~> \/ wf[g].phase = "done" /\ (status \in Terminal \/ generation # g)
               \/ wf[g].phase = "failed" /\ (stepErrors > 0 \/ (crashes > 0 /\ due))
=============================================================================
