------------------------------- MODULE Delivery -------------------------------
(***************************************************************************)
(* The Delivery context: the delivery of one Order, its attempts, the      *)
(* provider callbacks recorded for it, the integration events it puts in   *)
(* the Outbox, and the actors that write these rows: the consumer of       *)
(* Ordering's events, the DeliveryWorkflow runs of each generation and the *)
(* operator's retry.  Deliveries share no row, so one is enough.           *)
(*                                                                         *)
(* The local runtime keeps its runs in the memory of one API replica, so   *)
(* two replicas may run one generation at the same time; DBOS keeps one    *)
(* run per generation, whoever starts it.                                  *)
(*                                                                         *)
(* PostgreSQL runs at READ COMMITTED: a transaction that reads rows and    *)
(* later writes them is two steps, the reads and then the writes with the  *)
(* commit, unless its guarded UPDATE repeats what it read.                 *)
(***************************************************************************)
EXTENDS Naturals

CONSTANTS
    Replicas,       \* API processes
    Durable,        \* where DBOS runs live: the database, not a replica
    Tags,           \* callback identities the provider may use for one request
    Answers,        \* what the provider may answer a delivery request
    MaxAttempts,    \* DELIVERY_WORKFLOW_MAX_ATTEMPTS
    MaxDeliveries,  \* RetryPolicy.maxAttempts of the Inbox
    MaxGeneration,  \* bound on workflowGeneration (operator retries + 1)
    MaxThrows,      \* bound on steps that throw or lose their reply
    MaxCrashes,     \* bound on process crashes
    Runtimes        \* the workflow runtimes the API may be configured with

Generations == 1..MaxGeneration
Numbers == 1..MaxAttempts
Hosts == Replicas \cup {Durable}
Runs == Hosts \X Generations

Outcomes == [kind : {"SUCCEEDED"}, retryable : {FALSE}]
            \cup [kind : {"FAILED"}, retryable : BOOLEAN]
NoAnswer == [kind |-> "NONE", retryable |-> FALSE]

ASSUME DeliveryAssumption ==
    /\ Durable \notin Replicas
    /\ Answers \subseteq Outcomes
    /\ MaxAttempts \in Nat \ {0}
    /\ MaxDeliveries \in Nat \ {0}
    /\ MaxGeneration \in Nat \ {0}
    /\ MaxThrows \in Nat
    /\ MaxCrashes \in Nat
    /\ Runtimes \subseteq {"dbos", "local"}

VARIABLES
    status,           \* deliveries.status, "ABSENT" before the insert
    generation,       \* deliveries.workflow_generation
    currentAttempt,   \* deliveries.current_attempt_number
    failureRetryable, \* deliveries.last_failure_retryable
    attempts,         \* delivery_attempts: status by generation and number
    callbacks,        \* delivery_callbacks rows
    outbox,           \* Outbox rows the Delivery context enqueued
    provider,         \* what the provider did for each idempotency key
    ready,            \* the OrderReadyForDelivery message and who awaits a run
    starting,         \* starts that are held in a replica's memory only
    wf,               \* the runs: phase, attempt number, reply and reads
    runtime,          \* "dbos" or "local", chosen by the configuration
    throws, crashes

rows == <<status, generation, currentAttempt, failureRetryable, attempts,
          callbacks, outbox>>
vars == <<status, generation, currentAttempt, failureRetryable, attempts,
          callbacks, outbox, provider, ready, starting, wf, runtime, throws,
          crashes>>

-------------------------------------------------------------------------------
Statuses == {"ABSENT", "REQUESTED", "READY", "IN_TRANSIT", "DELIVERED", "FAILED"}
Terminal == {"DELIVERED", "FAILED"}
Underway == {"READY", "IN_TRANSIT"}
AttemptKeys == Generations \X Numbers
CallbackIds == AttemptKeys \X Tags
CallbackRows == [id : CallbackIds, outcome : Outcomes]

\* Events by type, and by generation where their identity names it.
Events == ({"DeliveryCreated", "DeliveryStarted", "DeliveryCompleted"} \X {0})
          \cup ({"DeliveryFailed"} \X Generations)

RunPhases == {"idle", "load", "ensure", "ensuring", "deliver", "apply",
              "applying", "reload", "done", "ignored", "failed"}
Active == RunPhases \ {"idle", "done", "ignored", "failed"}
NoTag == "none"
RunStates == [phase : RunPhases, number : Numbers, tag : Tags \cup {NoTag},
              seenStatus : Statuses,
              seenAttempt : {"NONE", "PENDING", "SUCCEEDED", "FAILED"}]
At(phase, n) == [phase |-> phase, number |-> n, tag |-> NoTag,
                 seenStatus |-> "ABSENT", seenAttempt |-> "NONE"]

\* Starts of a run from replica on; awaited ones hold up the message.
Starts == [on : Replicas, generation : Generations, awaited : BOOLEAN]
NoRun == <<"none", 0>>

TypeOK ==
    /\ status \in Statuses
    /\ generation \in Generations
    /\ currentAttempt \in 0..MaxAttempts
    /\ failureRetryable \in BOOLEAN
    /\ attempts \in [AttemptKeys -> {"NONE", "PENDING", "SUCCEEDED", "FAILED"}]
    /\ callbacks \subseteq CallbackRows
    /\ outbox \subseteq Events
    /\ provider \in [AttemptKeys -> Answers \cup {NoAnswer}]
    /\ ready \in [state : {"queued", "handled", "dead"},
                  deliveries : 0..(MaxDeliveries + 1), run : Runs \cup {NoRun}]
    /\ starting \subseteq Starts
    /\ wf \in [Runs -> RunStates]
    /\ runtime \in Runtimes
    /\ throws \in 0..MaxThrows
    /\ crashes \in 0..MaxCrashes

Init ==
    /\ status = "ABSENT"
    /\ generation = 1
    /\ currentAttempt = 0
    /\ failureRetryable = FALSE
    /\ attempts = [a \in AttemptKeys |-> "NONE"]
    /\ callbacks = {}
    /\ outbox = {}
    /\ provider = [a \in AttemptKeys |-> NoAnswer]
    /\ ready = [state |-> "queued", deliveries |-> 0, run |-> NoRun]
    /\ starting = {}
    /\ wf = [r \in Runs |-> At("idle", 1)]
    /\ runtime \in Runtimes
    /\ throws = 0
    /\ crashes = 0

-------------------------------------------------------------------------------
(* The consumer of Ordering's events.                                      *)

\* createFromOrderConfirmed: the Inbox runs it once, so the row is new.
HandleOrderConfirmed ==
    /\ status = "ABSENT"
    /\ status' = "REQUESTED"
    /\ outbox' = outbox \cup {<<"DeliveryCreated", 0>>}
    /\ UNCHANGED <<generation, currentAttempt, failureRetryable, attempts,
                   callbacks, provider, ready, starting, wf, runtime, throws,
                   crashes>>

\* recordFailure counts one more attempt, also for an effect that is committed
\* and counted already, and repeats the delivery until there were too many.
Redelivered(m) ==
    [state |-> IF m.deliveries + 1 >= MaxDeliveries THEN "dead" ELSE "queued",
     deliveries |-> m.deliveries + 1, run |-> NoRun]

\* OrderReadyForDelivery overtook OrderConfirmed: its effect throws.
ReadyTooEarly ==
    /\ ready.state = "queued"
    /\ status = "ABSENT"
    /\ ready' = Redelivered(ready)
    /\ UNCHANGED <<rows, provider, starting, wf, runtime, throws, crashes>>

\* prepareForOrderReady, on replica p: READY, and a start that only lives in
\* the afterCommit callback; nothing for a delivery that is decided.
HandleOrderReady(p) ==
    /\ ready.state = "queued"
    /\ status # "ABSENT"
    /\ ready' = [ready EXCEPT !.state = "handled", !.deliveries = @ + 1]
    /\ status' = IF status = "REQUESTED" THEN "READY" ELSE status
    /\ starting' = IF status \in Terminal THEN starting
                   ELSE starting \cup {[on |-> p, generation |-> generation,
                                        awaited |-> TRUE]}
    /\ UNCHANGED <<generation, currentAttempt, failureRetryable, attempts,
                   callbacks, outbox, provider, wf, runtime, throws, crashes>>

-------------------------------------------------------------------------------
(* The operator's retry and the start of runs.                             *)

\* Slip: the retry does not look at the status.
RetryAnyStatus == status \in Terminal \cup {"READY"}

\* prepareRetry reads FAILED and a retryable failure, and its UPDATE repeats
\* both conditions.
RetryAllowed == status = "FAILED" /\ failureRetryable

RetryForUser(p) ==
    /\ RetryAllowed
    /\ generation < MaxGeneration
    /\ status' = "READY"
    /\ generation' = generation + 1
    /\ currentAttempt' = 0
    /\ starting' = starting \cup {[on |-> p, generation |-> generation',
                                   awaited |-> FALSE]}
    /\ UNCHANGED <<failureRetryable, attempts, callbacks, outbox, provider,
                   ready, wf, runtime, throws, crashes>>

RunOf(s) == <<IF runtime = "local" THEN s.on ELSE Durable, s.generation>>

\* The local runtime returns the run its replica remembers, which forgets
\* runs that threw, and awaits it; DBOS returns the run that exists, failed
\* or not, and awaits nothing.
Start(s) ==
    LET r == RunOf(s) IN
    /\ s \in starting
    /\ starting' = starting \ {s}
    /\ wf' = IF wf[r].phase = "idle" \/ (runtime = "local" /\ wf[r].phase = "failed")
             THEN [wf EXCEPT ![r] = At("load", 1)] ELSE wf
    /\ ready' = IF s.awaited /\ runtime = "local" THEN [ready EXCEPT !.run = r]
                ELSE ready
    /\ UNCHANGED <<rows, provider, runtime, throws, crashes>>

-------------------------------------------------------------------------------
(* The steps of DeliveryWorkflowEngine.runInternal up to the callback.     *)

Go(r, state) ==
    /\ wf' = [wf EXCEPT ![r] = state]
    /\ UNCHANGED <<ready, starting, runtime, crashes>>

Load(r) ==
    /\ wf[r].phase = "load"
    /\ Go(r, At(IF status \in Terminal THEN "done" ELSE "ensure", 1))
    /\ UNCHANGED <<rows, provider, throws>>

\* The delivery is decided or belongs to another generation.
NotMine(r) == generation # r[2] \/ status \in Terminal

Key(r) == <<r[2], wf[r].number>>

\* ensureAttempt reads the delivery and the attempt ...
EnsureRead(r) ==
    /\ wf[r].phase = "ensure"
    /\ Go(r, At(IF NotMine(r) THEN "done"
                ELSE IF attempts[Key(r)] # "NONE" THEN "deliver"
                ELSE "ensuring", wf[r].number))
    /\ UNCHANGED <<rows, provider, throws>>

\* ... and then inserts the attempt, whatever became of the delivery, and
\* moves current_attempt_number if the delivery still is of its generation.
EnsureWrite(r) ==
    /\ wf[r].phase = "ensuring"
    /\ attempts' = [attempts EXCEPT ![Key(r)] = IF @ = "NONE" THEN "PENDING" ELSE @]
    /\ currentAttempt' = IF generation = r[2] /\ status \in Underway
                         THEN wf[r].number ELSE currentAttempt
    /\ Go(r, At("deliver", wf[r].number))
    /\ UNCHANGED <<status, generation, failureRetryable, callbacks, outbox,
                   provider, throws>>

\* The provider acts once for an idempotency key and repeats its answer.
Request(k) ==
    IF provider[k] # NoAnswer THEN UNCHANGED provider
    ELSE \E x \in Answers : provider' = [provider EXCEPT ![k] = x]

Deliver(r) ==
    /\ wf[r].phase = "deliver"
    /\ Request(Key(r))
    /\ \E tag \in Tags : Go(r, [At("apply", wf[r].number) EXCEPT !.tag = tag])
    /\ UNCHANGED <<rows, throws>>

-------------------------------------------------------------------------------
(* applyProviderOutcome.                                                   *)

BeginApply(r) ==
    /\ wf[r].phase = "apply"
    /\ Go(r, [wf[r] EXCEPT !.phase = "applying", !.seenStatus = status,
                           !.seenAttempt = attempts[Key(r)]])
    /\ UNCHANGED <<rows, provider, throws>>

Outcome(r) == provider[Key(r)]
CallbackId(r) == <<Key(r), wf[r].tag>>
Known(r) == \E c \in callbacks : c.id = CallbackId(r)
RecordCallback(r) ==
    callbacks' = callbacks \cup {[id |-> CallbackId(r), outcome |-> Outcome(r)]}

\* Nobody completed the attempt or decided the delivery before the reads.
SeenOpen(r) == wf[r].seenAttempt = "PENDING" /\ wf[r].seenStatus \notin Terminal

RecordAttempt(r) ==
    attempts' = [attempts EXCEPT ![Key(r)] = Outcome(r).kind]

\* The failure of a run reaches the message that awaits it.
Failing(r) ==
    /\ wf' = [wf EXCEPT ![r] = At("failed", 1)]
    /\ ready' = IF ready.run = r THEN Redelivered(ready) ELSE ready

\* Commit: the run goes on, or its replica never sees the reply: a step that
\* throws ends a local run, and DBOS repeats a step it has no record of.
Commit(r, phase) ==
    /\ UNCHANGED <<generation, currentAttempt, provider, starting, runtime, crashes>>
    /\ \/ /\ wf' = [wf EXCEPT ![r] = At(phase, wf[r].number)]
          /\ UNCHANGED <<ready, throws>>
       \/ /\ throws < MaxThrows
          /\ throws' = throws + 1
          /\ IF runtime = "local" THEN Failing(r)
             ELSE wf' = [wf EXCEPT ![r] = [At("apply", wf[r].number)
                                             EXCEPT !.tag = wf[r].tag]]
                  /\ UNCHANGED ready

\* Slip: the last attempt is retried as well.
RetriesPastTheLast(r) ==
    Outcome(r).kind = "FAILED" /\ Outcome(r).retryable
    /\ wf[r].number <= MaxAttempts

RetriesLeft(r) ==
    Outcome(r).kind = "FAILED" /\ Outcome(r).retryable
    /\ wf[r].number < MaxAttempts

\* Slip: a recorded outcome always ends the run.
KnownEnds(r) ==
    /\ Known(r)
    /\ Commit(r, "done")
    /\ UNCHANGED <<status, failureRetryable, attempts, callbacks, outbox>>

\* existingOutcome: the identity is recorded, and the run answers from the
\* row and the delivery it read; another outcome under it is refused.
ApplyKnown(r) ==
    /\ Known(r)
    /\ LET c == CHOOSE x \in callbacks : x.id = CallbackId(r) IN
       Commit(r, IF c.outcome # Outcome(r) THEN "failed"
                 ELSE IF RetriesLeft(r) /\ wf[r].seenStatus \notin Terminal
                 THEN "reload" ELSE "done")
    /\ UNCHANGED <<status, failureRetryable, attempts, callbacks, outbox>>

\* The attempt was seen completed, or the delivery decided: the callback and
\* a pending attempt are recorded, and an undecided delivery is left alone.
ApplyLate(r) ==
    /\ ~Known(r) /\ ~SeenOpen(r)
    /\ RecordCallback(r)
    /\ IF wf[r].seenAttempt = "PENDING" THEN RecordAttempt(r) ELSE UNCHANGED attempts
    /\ Commit(r, IF wf[r].seenStatus \in Terminal THEN "done" ELSE "ignored")
    /\ UNCHANGED <<status, failureRetryable, outbox>>

\* Slip: the success only finds a delivery that is in transit already.
InTransitOnly == {"IN_TRANSIT"}

\* The states a success may leave: IN_TRANSIT is passed within the transaction.
Deliverable == {"REQUESTED", "READY", "IN_TRANSIT"}

Arrival(r) == {<<"DeliveryCompleted", 0>>}
              \cup (IF wf[r].seenStatus = "IN_TRANSIT" THEN {}
                    ELSE {<<"DeliveryStarted", 0>>})

\* completeDelivery: guarded UPDATEs, and events whether or not they found
\* the row.
ApplySuccess(r) ==
    /\ ~Known(r) /\ SeenOpen(r) /\ Outcome(r).kind = "SUCCEEDED"
    /\ Arrival(r) \cap outbox = {}
    /\ RecordCallback(r) /\ RecordAttempt(r)
    /\ status' = IF status \in Deliverable THEN "DELIVERED" ELSE status
    /\ failureRetryable' = IF status \in Deliverable THEN FALSE ELSE failureRetryable
    /\ outbox' = outbox \cup Arrival(r)
    /\ Commit(r, "done")

\* Slip: the UPDATE of a refusal does not look at the status.
ApplyRetryUnguarded(r) ==
    /\ ~Known(r) /\ SeenOpen(r) /\ RetriesLeft(r)
    /\ RecordCallback(r) /\ RecordAttempt(r)
    /\ status' = "READY"
    /\ failureRetryable' = TRUE
    /\ Commit(r, "reload")
    /\ UNCHANGED outbox

ApplyRetry(r) ==
    /\ ~Known(r) /\ SeenOpen(r) /\ RetriesLeft(r)
    /\ RecordCallback(r) /\ RecordAttempt(r)
    /\ status' = IF status \in Underway THEN "READY" ELSE status
    /\ failureRetryable' = IF status \in Underway THEN TRUE ELSE failureRetryable
    /\ Commit(r, "reload")
    /\ UNCHANGED outbox

FinalRefusal(r) == Outcome(r).kind = "FAILED" /\ ~RetriesLeft(r)
FailedEvent(r) == <<"DeliveryFailed", r[2]>>

\* The UPDATE looks at the status, not at the generation.
ApplyFailure(r) ==
    /\ ~Known(r) /\ SeenOpen(r) /\ FinalRefusal(r)
    /\ FailedEvent(r) \notin outbox
    /\ RecordCallback(r) /\ RecordAttempt(r)
    /\ status' = IF status \in Underway THEN "FAILED" ELSE status
    /\ failureRetryable' = IF status \in Underway THEN Outcome(r).retryable
                           ELSE failureRetryable
    /\ outbox' = outbox \cup {FailedEvent(r)}
    /\ Commit(r, "done")

\* enqueue finds the identity taken and throws, also for an equal event
\* (jsonb reorders its keys): the transaction rolls back.
Refused(r) ==
    \/ Outcome(r).kind = "SUCCEEDED" /\ Arrival(r) \cap outbox # {}
    \/ FinalRefusal(r) /\ FailedEvent(r) \in outbox

ApplyRefused(r) ==
    /\ ~Known(r) /\ SeenOpen(r) /\ Refused(r)
    /\ Failing(r)
    /\ UNCHANGED <<rows, provider, starting, runtime, throws, crashes>>

Apply(r) ==
    /\ wf[r].phase = "applying"
    /\ \/ ApplyKnown(r)
       \/ ApplyLate(r)
       \/ ApplySuccess(r)
       \/ ApplyRetry(r)
       \/ ApplyFailure(r)
       \/ ApplyRefused(r)

\* After a retryable refusal the engine looks at the delivery once more.
Reload(r) ==
    /\ wf[r].phase = "reload"
    /\ Go(r, IF status \in Terminal THEN At("done", wf[r].number)
             ELSE At("ensure", wf[r].number + 1))
    /\ UNCHANGED <<rows, provider, throws>>

-------------------------------------------------------------------------------
(* Failures.                                                               *)

\* A step throws before it had an effect; an open transaction rolls back.
StepThrows(r) ==
    /\ wf[r].phase \in Active
    /\ throws < MaxThrows
    /\ throws' = throws + 1
    /\ Failing(r)
    /\ UNCHANGED <<rows, provider, starting, runtime, crashes>>

\* The provider acts and its reply is lost: DBOS asks again, a local run ends.
ReplyLost(r) ==
    /\ wf[r].phase = "deliver"
    /\ throws < MaxThrows
    /\ throws' = throws + 1
    /\ Request(Key(r))
    /\ IF runtime = "local" THEN Failing(r) ELSE UNCHANGED <<wf, ready>>
    /\ UNCHANGED <<rows, starting, runtime, crashes>>

\* DBOS repeats the step that was not recorded.
Resumed(run) ==
    IF run.phase = "ensuring" THEN At("ensure", run.number)
    ELSE IF run.phase = "applying"
    THEN [At("apply", run.number) EXCEPT !.tag = run.tag]
    ELSE run

\* Replica p dies: its starts and its local runs are gone, its transactions
\* roll back, and the message it acknowledges no more is a duplicate.
Crash(p) ==
    /\ crashes < MaxCrashes
    /\ crashes' = crashes + 1
    /\ starting' = {s \in starting : s.on # p}
    /\ wf' = [r \in Runs |-> IF r[1] = p THEN At("idle", 1)
                              ELSE IF r[1] = Durable THEN Resumed(wf[r])
                              ELSE wf[r]]
    /\ ready' = IF ready.run[1] = p THEN [ready EXCEPT !.run = NoRun] ELSE ready
    /\ UNCHANGED <<rows, provider, runtime, throws>>

-------------------------------------------------------------------------------
WorkflowStep(r) ==
    \/ Load(r)
    \/ EnsureRead(r)
    \/ EnsureWrite(r)
    \/ Deliver(r)
    \/ BeginApply(r)
    \/ Apply(r)
    \/ Reload(r)

Next ==
    \/ HandleOrderConfirmed
    \/ ReadyTooEarly
    \/ \E p \in Replicas : HandleOrderReady(p) \/ RetryForUser(p) \/ Crash(p)
    \/ \E s \in starting : Start(s)
    \/ \E r \in Runs : WorkflowStep(r) \/ StepThrows(r) \/ ReplyLost(r)

Spec == Init /\ [][Next]_vars

-------------------------------------------------------------------------------
(* Properties.                                                             *)

\* The Order is delivered at most once, over every attempt of every
\* generation, whatever runs overlap and whatever replies are lost (the
\* attempt's idempotency key, prepareRetry's guards, the stop of a run whose
\* generation is over).
DeliveredOnce ==
    \A a, b \in AttemptKeys :
        provider[a].kind = "SUCCEEDED" /\ provider[b].kind = "SUCCEEDED" => a = b

\* An attempt is recorded as successful exactly when the delivery is
\* DELIVERED: no stale transaction completes the attempt and loses the
\* delivery, or the other way round (applyProviderOutcome, completeDelivery).
SuccessIsDelivered ==
    status = "DELIVERED" <=> \E a \in AttemptKeys : attempts[a] = "SUCCEEDED"

\* A run that ends normally leaves its generation decided, also when another
\* replica ran it at the same time or a step was repeated (existingOutcome,
\* the exits of runInternal).  A run whose attempt was completed under
\* another callback identity is told apart: it ends as "ignored".
DoneRunDecided ==
    \A r \in Runs :
        wf[r].phase = "done" => r[2] < generation \/ status \in Terminal

\* Delivery implements its lifecycle: one decision at a time, each announced
\* once, in the step that takes it.
Lifecycle == INSTANCE DeliveryLifecycle
                 WITH retryable <- failureRetryable, announced <- outbox

LifecycleKept == Lifecycle!Spec
=============================================================================
