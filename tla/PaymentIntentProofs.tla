-------------------------- MODULE PaymentIntentProofs --------------------------
(***************************************************************************)
(* Proofs about PaymentIntent, for every number of attempts, generations,  *)
(* overlapping callbacks and crashes, in both runtimes.                    *)
(***************************************************************************)
EXTENDS PaymentIntent, TLAPS

-------------------------------------------------------------------------------
(* The inductive invariant, in named parts.                                *)

Refusal == [kind |-> "FAILED", retryable |-> TRUE]

\* A run beyond ensureAttempt, an answer of the provider and an open
\* transaction each stand on an attempt row.
AttemptExists ==
    /\ \A g \in Generations :
         wf[g].phase \in {"check", "charge", "apply", "applying", "reload"} =>
             attempts[<<g, wf[g].number>>] # "NONE"
    /\ \A a \in AttemptKeys : provider[a] # NoAnswer => attempts[a] # "NONE"

\* A run that applies an outcome has the provider's answer.
Answered ==
    \A g \in Generations :
        wf[g].phase \in {"apply", "applying", "reload"} =>
            provider[<<g, wf[g].number>>] # NoAnswer

\* A process has one transaction open at a time.  It carries something the
\* provider said of its attempt, and a run's transaction is that of the
\* attempt the run is at.
TxSound ==
    /\ \A t, u \in txs : t.process = u.process => t = u
    /\ \A t \in txs :
         /\ provider[t.id[1]] # NoAnswer
         /\ t.outcome \in {provider[t.id[1]].response, provider[t.id[1]].truth}
         /\ t.process \in Generations =>
              /\ wf[t.process].phase = "applying"
              /\ t.id[1] = <<t.process, wf[t.process].number>>

\* Where the latest step of a run began is a point between two steps, with
\* the attempt and the answer that such a point stands on.
BeganSound ==
    \A g \in Generations :
        /\ began[g].phase \notin MidStep
        /\ began[g].phase \in {"check", "apply", "reload"} =>
             attempts[<<g, began[g].number>>] # "NONE"
        /\ began[g].phase \in {"apply", "reload"} =>
             provider[<<g, began[g].number>>] # NoAnswer

IInv == TypeOK /\ AttemptExists /\ Answered /\ TxSound /\ BeganSound

USE DEF Runs

-------------------------------------------------------------------------------
\* Whatever Apply(t) does, it closes t, keeps what Finish keeps, completes at
\* most the attempt of t and moves only the run that opened t.
LEMMA ApplyShape ==
    ASSUME IInv, NEW t \in txs, Apply(t)
    PROVE  /\ txs' = txs \ {t}
           /\ UNCHANGED <<generation, currentAttempt, due, provider, starting,
                          crashes, stepErrors, runtime>>
           /\ \E phase \in {"done", "failed", "reload"} :
                wf' = IF t.process \in Generations
                      THEN [wf EXCEPT ![t.process].phase = phase] ELSE wf
           /\ attempts' = attempts
              \/ attempts' = [attempts EXCEPT ![t.id[1]] = t.outcome.kind]
<1>1. CASE ApplyKnown(t)
  <2>1. /\ txs' = txs \ {t}
        /\ UNCHANGED <<generation, currentAttempt, due, provider, starting,
                       crashes, stepErrors, runtime>>
        /\ attempts' = attempts
    BY <1>1 DEF ApplyKnown, Finish, GoTo, MoveTo
  <2>2. \E phase \in {"done", "failed", "reload"} :
          wf' = IF t.process \in Generations
                THEN [wf EXCEPT ![t.process].phase = phase] ELSE wf
    BY <1>1 DEF ApplyKnown, Finish, GoTo, MoveTo
  <2> QED BY <2>1, <2>2
<1>2. CASE ApplyToCompleted(t) BY <1>2 DEF ApplyToCompleted, Finish, GoTo, MoveTo
<1>3. CASE ApplyToDecided(t) BY <1>3 DEF ApplyToDecided, RecordAttempt, Finish, GoTo, MoveTo
<1>4. CASE ApplyExpiry(t) BY <1>4 DEF ApplyExpiry, RecordAttempt, Finish, GoTo, MoveTo
<1>5. CASE ApplySuccess(t) BY <1>5 DEF ApplySuccess, RecordAttempt, Finish, GoTo, MoveTo
<1>6. CASE ApplyRetry(t) BY <1>6 DEF ApplyRetry, RecordAttempt, Finish, GoTo, MoveTo
<1>7. CASE ApplyFailure(t) BY <1>7 DEF ApplyFailure, RecordAttempt, Finish, GoTo, MoveTo
<1>8. CASE ApplyRefused(t) BY <1>8 DEF ApplyRefused, Finish, GoTo, MoveTo
<1> QED BY <1>1, <1>2, <1>3, <1>4, <1>5, <1>6, <1>7, <1>8 DEF Apply

LEMMA TxFields ==
    ASSUME TypeOK, NEW t \in txs
    PROVE  /\ t \in Transactions
           /\ t.process \in Processes
           /\ t.id \in CallbackIds /\ t.id[1] \in AttemptKeys
           /\ t.id[1][1] \in Generations /\ t.id[1][2] \in Numbers
           /\ t.outcome \in Outcomes
           /\ t.late \in BOOLEAN
BY DEF TypeOK, Transactions, CallbackIds, AttemptKeys

LEMMA RunFields ==
    ASSUME TypeOK, NEW g \in Generations
    PROVE  /\ wf[g] \in Runs
           /\ wf[g].number \in Numbers
           /\ <<g, wf[g].number>> \in AttemptKeys
BY DEF TypeOK, AttemptKeys

\* What a step does to the beginnings of the latest steps: the step that a run
\* goes on from began there, and a run that is started or resumed has none
\* before the one it is at.
BeganMoves ==
    \/ UNCHANGED began
    \/ \E g \in Generations :
         /\ wf[g].phase \notin MidStep
         /\ began' = [began EXCEPT ![g] = wf[g]]
    \/ \E g \in Generations :
         began' = [began EXCEPT ![g] = [phase |-> "load", number |-> 1]]
    \/ Crash

LEMMA NextBegan ==
    ASSUME IInv, Next
    PROVE  BeganMoves
<1> USE DEF BeganMoves
<1>a. ASSUME NEW g \in Generations, NEW run, MoveTo(g, run) PROVE BeganMoves
  BY <1>a DEF MoveTo
<1>b. ASSUME NEW t \in txs, Apply(t) PROVE BeganMoves
  <2>1. ASSUME NEW p, Finish(t, p) PROVE BeganMoves
    BY <1>a, <2>1 DEF Finish, GoTo
  <2> QED
    BY <1>b, <2>1 DEF Apply, ApplyKnown, ApplyToCompleted, ApplyToDecided,
       ApplyExpiry, ApplySuccess, ApplyRetry, ApplyFailure, ApplyRefused
<1>1. CASE HandleOrderPlaced BY <1>1 DEF HandleOrderPlaced
<1>2. CASE RedeliverOrderPlaced BY <1>2 DEF RedeliverOrderPlaced
<1>3. CASE ExpiryPasses BY <1>3 DEF ExpiryPasses
<1>4. CASE RetryForUser BY <1>4 DEF RetryForUser
<1>5. ASSUME NEW g \in Generations, Start(g) PROVE BeganMoves
  BY <1>5 DEF Start
<1>6. ASSUME NEW g \in Generations, WorkflowStep(g) PROVE BeganMoves
  BY <1>6, <1>a, <1>b DEF WorkflowStep, Load, ExpireIfDue, EnsureRead, EnsureWrite,
     CheckExpiry, Charge, BeginApply, Reload, GoTo
<1>7. ASSUME NEW g \in Generations, StepThrows(g) PROVE BeganMoves
  BY <1>7, <1>a DEF StepThrows, GoTo
<1>8. ASSUME NEW c \in Callers, CallbackStep(c) PROVE BeganMoves
  BY <1>8, <1>b DEF CallbackStep, ReceiveCallback
<1>9. CASE Crash BY <1>9
<1> QED BY <1>1, <1>2, <1>3, <1>4, <1>5, <1>6, <1>7, <1>8, <1>9 DEF Next

\* A crash puts each run back to the step it was at, or to the beginning of
\* the latest one, unless it is lost or ends in error there.
LEMMA CrashRuns ==
    ASSUME IInv, Crash, NEW g \in Generations
    PROVE  \E run \in Runs :
             /\ run = began[g] \/ run = wf[g]
             /\ run.phase \notin MidStep
             /\ wf'[g] \in {NotStarted, run, [run EXCEPT !.phase = "failed"]}
<1>1. PICK lost \in SUBSET Generations :
        wf' = [h \in Generations |->
                 Resumed(IF h \in lost \/ wf[h].phase \in MidStep
                         THEN began[h] ELSE wf[h])]
  BY DEF Crash
<1> DEFINE run == IF g \in lost \/ wf[g].phase \in MidStep THEN began[g] ELSE wf[g]
<1>2. run \in Runs BY DEF IInv, TypeOK
<1>3. run.phase \notin MidStep BY DEF IInv, BeganSound
<1>4. wf'[g] = Resumed(run) BY <1>1
<1>5. run = began[g] \/ run = wf[g] OBVIOUS
<1> HIDE DEF run
<1>6. wf'[g] \in {NotStarted, run, [run EXCEPT !.phase = "failed"]}
  BY <1>4 DEF Resumed, Replayed
<1> QED BY <1>2, <1>3, <1>5, <1>6

LEMMA CrashTyped ==
    ASSUME IInv, Crash
    PROVE  wf' \in [Generations -> Runs] /\ began' = wf'
<1>1. \A g \in Generations : wf'[g] \in Runs
  <2> SUFFICES ASSUME NEW g \in Generations PROVE wf'[g] \in Runs OBVIOUS
  <2>1. PICK run \in Runs :
          wf'[g] \in {NotStarted, run, [run EXCEPT !.phase = "failed"]}
    BY CrashRuns
  <2>2. NotStarted \in Runs
    BY PaymentAssumption DEF NotStarted, RunPhases, Numbers
  <2>3. [run EXCEPT !.phase = "failed"] \in Runs BY DEF RunPhases
  <2> QED BY <2>1, <2>2, <2>3
<1>2. \E f : wf' = [g \in Generations |-> f[g]]
  BY DEF Crash
<1> QED BY <1>1, <1>2 DEF Crash

LEMMA BeganTyped ==
    ASSUME IInv, Next
    PROVE  began' \in [Generations -> Runs]
<1>1. /\ wf \in [Generations -> Runs] /\ began \in [Generations -> Runs]
  BY DEF IInv, TypeOK
<1>2. [phase |-> "load", number |-> 1] \in Runs
  BY PaymentAssumption DEF RunPhases, Numbers
<1> HIDE DEF Runs
<1>3. CASE Crash BY <1>3, CrashTyped
<1>4. CASE ~Crash BY <1>1, <1>2, <1>4, NextBegan DEF BeganMoves
<1> QED BY <1>3, <1>4

\* A step that changes of the runs only the phase of one.
LEMMA GoToTyped ==
    ASSUME TypeOK, NEW g \in Generations, NEW p \in RunPhases, GoTo(g, p)
    PROVE  wf' \in [Generations -> Runs]
BY DEF TypeOK, GoTo, MoveTo

LEMMA ApplyTyped ==
    ASSUME IInv, NEW t \in txs, Apply(t), began' \in [Generations -> Runs]
    PROVE  TypeOK'
<1>0. TypeOK BY DEF IInv
<1>1. PICK phase \in {"done", "failed", "reload"} :
        /\ txs' = txs \ {t}
        /\ UNCHANGED <<generation, currentAttempt, due, provider, starting,
                       crashes, stepErrors, runtime>>
        /\ wf' = IF t.process \in Generations
                 THEN [wf EXCEPT ![t.process].phase = phase] ELSE wf
        /\ attempts' = attempts
           \/ attempts' = [attempts EXCEPT ![t.id[1]] = t.outcome.kind]
  BY ApplyShape
<1>2. phase \in RunPhases BY DEF RunPhases
<1>3. wf' \in [Generations -> Runs]
  BY <1>0, <1>1, <1>2 DEF TypeOK
<1>4. t.outcome.kind \in {"SUCCEEDED", "FAILED", "TIMED_OUT"}
  BY <1>0, TxFields DEF Outcomes
<1>5. attempts' \in [AttemptKeys ->
                       {"NONE", "PENDING", "SUCCEEDED", "FAILED", "TIMED_OUT"}]
  BY <1>0, <1>1, <1>4 DEF TypeOK
<1>6. [id |-> t.id, outcome |-> t.outcome, late |-> t.late] \in CallbackRows
  BY <1>0, TxFields DEF CallbackRows
<1>7. callbacks' \subseteq CallbackRows
  <2>1. callbacks' = callbacks \/ RecordCallback(t)
    BY DEF Apply, ApplyKnown, ApplyToCompleted, ApplyToDecided, ApplyExpiry,
           ApplySuccess, ApplyRetry, ApplyFailure, ApplyRefused, RecordAttempt
  <2> QED BY <2>1, <1>0, <1>6 DEF RecordCallback, TypeOK
<1>8. ExpiredEvent \in Events /\ Announcement(t) \in Events
  <2>1. t.outcome.retryable \in BOOLEAN BY <1>0, TxFields DEF Outcomes
  <2> QED BY <1>0, <2>1, TxFields DEF Events, Announcement
<1>9. outbox' \subseteq Events
  <2>1. \/ outbox' = outbox
        \/ outbox' = outbox \cup {ExpiredEvent}
        \/ outbox' = outbox \cup {Announcement(t)}
    BY DEF Apply, ApplyKnown, ApplyToCompleted, ApplyToDecided, ApplyExpiry,
           ApplySuccess, ApplyRetry, ApplyFailure, ApplyRefused, ExpirePending
  <2> QED BY <2>1, <1>0, <1>8 DEF TypeOK
<1>10. status' \in Statuses /\ failureRetryable' \in BOOLEAN
  <2>1. t.outcome.retryable \in BOOLEAN BY <1>0, TxFields DEF Outcomes
  <2>2. \/ UNCHANGED <<status, failureRetryable>>
        \/ status' \in {"EXPIRED", "SUCCEEDED", "FAILED", status}
           /\ failureRetryable' \in {TRUE, FALSE, failureRetryable, t.outcome.retryable}
    BY DEF Apply, ApplyKnown, ApplyToCompleted, ApplyToDecided, ApplyExpiry,
           ApplySuccess, ApplyRetry, ApplyFailure, ApplyRefused, ExpirePending
  <2> QED BY <1>0, <2>1, <2>2 DEF TypeOK, Statuses
<1> QED BY <1>0, <1>1, <1>3, <1>5, <1>7, <1>9, <1>10 DEF TypeOK

-------------------------------------------------------------------------------
\* The initial state satisfies the inductive invariant.
LEMMA InitIInv == Init => IInv
<1> SUFFICES ASSUME Init PROVE IInv OBVIOUS
<1> USE PaymentAssumption DEF Init
<1>1. TypeOK
  <2>1. NotStarted \in Runs
    BY DEF NotStarted, RunPhases, Numbers
  <2>2. 1 \in Generations BY DEF Generations
  <2>3. wf \in [Generations -> Runs] /\ began \in [Generations -> Runs]
    BY <2>1
  <2>4. currentAttempt \in 0..MaxAttempts /\ crashes \in 0..MaxCrashes
        /\ stepErrors \in 0..MaxStepErrors
    OBVIOUS
  <2>5. /\ status \in Statuses
        /\ provider \in [AttemptKeys -> Answers \cup {NoAnswer}]
        /\ attempts \in [AttemptKeys ->
                       {"NONE", "PENDING", "SUCCEEDED", "FAILED", "TIMED_OUT"}]
    BY DEF Statuses
  <2> QED BY <2>2, <2>3, <2>4, <2>5 DEF TypeOK
<1>2. AttemptExists /\ Answered /\ TxSound /\ BeganSound
  BY DEF AttemptExists, Answered, TxSound, BeganSound, NotStarted, MidStep
<1> QED BY <1>1, <1>2 DEF IInv

LEMMA ExpireTyped ==
    ASSUME TypeOK,
           ExpirePending \/ UNCHANGED <<status, failureRetryable, outbox>>
    PROVE  /\ status' \in Statuses /\ failureRetryable' \in BOOLEAN
           /\ outbox' \subseteq Events
<1>1. ExpiredEvent \in Events /\ "EXPIRED" \in Statuses
  BY DEF Events, Statuses
<1>2. CASE ExpirePending
  BY <1>1, <1>2 DEF ExpirePending, TypeOK
<1>3. CASE UNCHANGED <<status, failureRetryable, outbox>>
  BY <1>3 DEF TypeOK
<1> QED BY <1>2, <1>3

LEMMA AnswerTyped ==
    ASSUME TypeOK, NEW a \in AttemptKeys, provider[a] # NoAnswer
    PROVE  /\ provider[a] \in Answers
           /\ provider[a].response \in Outcomes
           /\ provider[a].truth \in Outcomes
           /\ provider[a].response.kind # "TIMED_OUT" =>
                provider[a].truth = provider[a].response
BY PaymentAssumption DEF TypeOK, HonestAnswers

LEMMA AnswersAnswer == \A x \in Answers : x # NoAnswer
<1> SUFFICES ASSUME NEW x \in Answers PROVE x # NoAnswer OBVIOUS
<1>1. x.response \in Outcomes BY PaymentAssumption DEF HonestAnswers
<1>2. x.response.kind # "NONE" BY <1>1 DEF Outcomes
<1> QED BY <1>2 DEF NoAnswer, NoOutcome

LEMMA SnapshotTyped ==
    ASSUME IInv, NEW p \in Processes, NEW id \in CallbackIds,
           NEW o \in Outcomes, provider[id[1]] # NoAnswer
    PROVE  Snapshot(p, id, o) \in Transactions
<1>1. id[1] \in AttemptKeys BY DEF CallbackIds
<1>2. attempts[id[1]] \in {"PENDING", "SUCCEEDED", "FAILED", "TIMED_OUT"}
  BY <1>1 DEF IInv, AttemptExists, TypeOK
<1>3. status \in Statuses /\ due \in BOOLEAN BY DEF IInv, TypeOK
<1> QED BY <1>2, <1>3 DEF Snapshot, Transactions

\* Every step keeps the types.
LEMMA NextTyped == IInv /\ Next => TypeOK'
<1> SUFFICES ASSUME IInv, Next PROVE TypeOK' OBVIOUS
<1>0. TypeOK /\ began' \in [Generations -> Runs] BY BeganTyped DEF IInv
<1> USE PaymentAssumption
<1>1. CASE HandleOrderPlaced
  BY <1>0, <1>1 DEF HandleOrderPlaced, TypeOK, Statuses
<1>2. CASE RedeliverOrderPlaced
  BY <1>0, <1>2 DEF RedeliverOrderPlaced, rows, TypeOK
<1>3. CASE ExpiryPasses
  BY <1>0, <1>3 DEF ExpiryPasses, rows, TypeOK
<1>4. CASE RetryForUser
  <2>1. generation + 1 \in Generations
    BY <1>0, <1>4 DEF RetryForUser, TypeOK, Generations
  <2> QED BY <1>0, <1>4, <2>1 DEF RetryForUser, NextGeneration, TypeOK, Statuses
<1>5. ASSUME NEW g \in Generations, Start(g) PROVE TypeOK'
  <2>1. [phase |-> "load", number |-> 1] \in Runs
    BY DEF RunPhases, Numbers
  <2> QED BY <1>0, <1>5, <2>1 DEF Start, rows, TypeOK
<1>6. ASSUME NEW g \in Generations, WorkflowStep(g) PROVE TypeOK'
  <2>1. CASE Load(g)
    BY <1>0, <2>1 DEF Load, GoTo, MoveTo, rows, TypeOK, RunPhases
  <2>2. CASE ExpireIfDue(g)
    <3>1. ExpirePending \/ UNCHANGED <<status, failureRetryable, outbox>>
      BY <2>2 DEF ExpireIfDue
    <3>2. PICK p \in {"done", "ensure"} : GoTo(g, p)
      BY <2>2 DEF ExpireIfDue
    <3>3. wf' \in [Generations -> Runs]
      BY <1>0, <3>2, GoToTyped DEF RunPhases
    <3>4. UNCHANGED <<generation, currentAttempt, due, attempts, callbacks,
                      provider, starting, txs, crashes, stepErrors, runtime>>
      BY <2>2 DEF ExpireIfDue
    <3> QED BY <1>0, <3>1, <3>3, <3>4, ExpireTyped DEF TypeOK
  <2>3. CASE EnsureRead(g)
    <3>1. PICK p \in {"done", "check", "ensuring"} : GoTo(g, p)
      BY <2>3 DEF EnsureRead
    <3>2. wf' \in [Generations -> Runs]
      BY <1>0, <3>1, GoToTyped DEF RunPhases
    <3>3. UNCHANGED <<rows, due, provider, starting, txs, crashes, stepErrors, runtime>>
      BY <2>3 DEF EnsureRead
    <3> QED BY <1>0, <3>2, <3>3 DEF rows, TypeOK
  <2>4. CASE EnsureWrite(g)
    <3>1. wf[g].number \in 0..MaxAttempts
      <4>1. wf[g].number \in Numbers BY <1>0, RunFields
      <4> QED BY <4>1 DEF Numbers
    <3>2. currentAttempt' \in 0..MaxAttempts
      BY <1>0, <2>4, <3>1 DEF EnsureWrite, TypeOK
    <3>3. wf' \in [Generations -> Runs]
      BY <1>0, <2>4, GoToTyped DEF EnsureWrite, RunPhases
    <3>4. attempts' \in [AttemptKeys ->
                       {"NONE", "PENDING", "SUCCEEDED", "FAILED", "TIMED_OUT"}]
      BY <1>0, <2>4 DEF EnsureWrite, TypeOK
    <3> QED BY <1>0, <2>4, <3>2, <3>3, <3>4 DEF EnsureWrite, TypeOK
  <2>5. CASE CheckExpiry(g)
    <3>1. PICK p \in {"done", "charge"} : GoTo(g, p)
      BY <2>5 DEF CheckExpiry
    <3>2. wf' \in [Generations -> Runs]
      BY <1>0, <3>1, GoToTyped DEF RunPhases
    <3>3. /\ status' \in Statuses /\ failureRetryable' \in BOOLEAN
          /\ outbox' \subseteq Events
      <4>1. ExpirePending \/ UNCHANGED <<status, failureRetryable, outbox>>
        BY <2>5 DEF CheckExpiry
      <4> QED BY <1>0, <4>1, ExpireTyped
    <3> QED BY <1>0, <2>5, <3>2, <3>3 DEF CheckExpiry, TypeOK
  <2>6. CASE Charge(g)
    <3>1. wf' \in [Generations -> Runs]
      BY <1>0, <2>6, GoToTyped DEF Charge, RunPhases
    <3> QED BY <1>0, <2>6, <3>1 DEF Charge, rows, TypeOK
  <2>7. CASE BeginApply(g)
    <3> DEFINE a == <<g, wf[g].number>>
    <3>1. wf' \in [Generations -> Runs]
      BY <1>0, <2>7, GoToTyped DEF BeginApply, RunPhases
    <3>2. provider[a] # NoAnswer /\ a \in AttemptKeys
      BY <1>0, <2>7, RunFields DEF IInv, Answered, BeginApply
    <3>3. provider[a].response \in Outcomes
      BY <1>0, <3>2, AnswerTyped
    <3>4. <<a, "charge">> \in CallbackIds BY <3>2 DEF CallbackIds
    <3>5. Snapshot(g, <<a, "charge">>, provider[a].response) \in Transactions
      BY <3>2, <3>3, <3>4, SnapshotTyped DEF Processes
    <3> QED BY <1>0, <2>7, <3>1, <3>5 DEF BeginApply, rows, TypeOK
  <2>8. CASE Reload(g)
    <3>1. wf[g].number \in Numbers BY <1>0, RunFields
    <3>2. wf[g].number # MaxAttempts => wf[g].number + 1 \in Numbers
      BY <3>1 DEF Numbers
    <3>3. wf' \in [Generations -> Runs]
      <4>1. CASE status \in Terminal \/ wf[g].number = MaxAttempts
        BY <1>0, <2>8, <4>1 DEF Reload, GoTo, MoveTo, TypeOK, RunPhases
      <4>2. CASE ~(status \in Terminal \/ wf[g].number = MaxAttempts)
        <5>1. wf' = [wf EXCEPT ![g] =
                       [phase |-> "ensure", number |-> wf[g].number + 1]]
          BY <1>0, <2>8, <4>2 DEF Reload, GoTo, MoveTo, TypeOK
        <5>2. [phase |-> "ensure", number |-> wf[g].number + 1]
                \in Runs
          BY <3>2, <4>2 DEF RunPhases
        <5> QED BY <1>0, <5>1, <5>2 DEF TypeOK
      <4> QED BY <4>1, <4>2
    <3> QED BY <1>0, <2>8, <3>3 DEF Reload, GoTo, MoveTo, rows, TypeOK
  <2>9. ASSUME NEW t \in txs, t.process = g, Apply(t) PROVE TypeOK'
    BY <1>0, <2>9, ApplyTyped
  <2> QED BY <1>6, <2>1, <2>2, <2>3, <2>4, <2>5, <2>6, <2>7, <2>8, <2>9
          DEF WorkflowStep
<1>7. ASSUME NEW g \in Generations, StepThrows(g) PROVE TypeOK'
  BY <1>0, <1>7 DEF StepThrows, GoTo, MoveTo, rows, TypeOK, RunPhases
<1>8. ASSUME NEW c \in Callers, CallbackStep(c) PROVE TypeOK'
  <2>1. CASE ReceiveCallback(c)
    <3>1. PICK a \in AttemptKeys, tag \in {"charge", "report"} :
            /\ provider[a] # NoAnswer
            /\ \E o \in {provider[a].response, provider[a].truth} :
                 txs' = txs \cup {Snapshot(c, <<a, tag>>, o)}
      BY <2>1 DEF ReceiveCallback
    <3>2. PICK o \in {provider[a].response, provider[a].truth} :
            txs' = txs \cup {Snapshot(c, <<a, tag>>, o)}
      BY <3>1
    <3>3. o \in Outcomes BY <1>0, <3>1, <3>2, AnswerTyped
    <3>4. <<a, tag>> \in CallbackIds BY DEF CallbackIds
    <3>5. Snapshot(c, <<a, tag>>, o) \in Transactions
      BY <3>1, <3>3, <3>4, SnapshotTyped DEF Processes
    <3> QED BY <1>0, <2>1, <3>2, <3>5 DEF ReceiveCallback, rows, TypeOK
  <2>2. ASSUME NEW t \in txs, t.process = c, Apply(t) PROVE TypeOK'
    BY <1>0, <2>2, ApplyTyped
  <2> QED BY <1>8, <2>1, <2>2 DEF CallbackStep
<1>9. CASE Crash
  BY <1>0, <1>9, CrashTyped DEF Crash, rows, TypeOK
<1> QED BY <1>1, <1>2, <1>3, <1>4, <1>5, <1>6, <1>7, <1>8, <1>9 DEF Next

LEMMA ApplyLinked ==
    ASSUME IInv, NEW t \in txs, Apply(t)
    PROVE  (AttemptExists /\ Answered /\ TxSound)'
<1>0. TypeOK /\ AttemptExists /\ Answered /\ TxSound BY DEF IInv
<1>1. PICK phase \in {"done", "failed", "reload"} :
        /\ txs' = txs \ {t}
        /\ UNCHANGED <<generation, currentAttempt, due, provider, starting,
                       crashes, stepErrors, runtime>>
        /\ wf' = IF t.process \in Generations
                 THEN [wf EXCEPT ![t.process].phase = phase] ELSE wf
        /\ attempts' = attempts
           \/ attempts' = [attempts EXCEPT ![t.id[1]] = t.outcome.kind]
  BY ApplyShape
<1>2. t.outcome.kind \in {"SUCCEEDED", "FAILED", "TIMED_OUT"}
  BY <1>0, TxFields DEF Outcomes
<1>3. \A a \in AttemptKeys : attempts[a] # "NONE" => attempts'[a] # "NONE"
  BY <1>0, <1>1, <1>2, TxFields DEF TypeOK
<1>4. \A g \in Generations :
        /\ wf'[g].number = wf[g].number
        /\ wf'[g] = wf[g] \/ (g = t.process /\ wf'[g].phase = phase)
  BY <1>0, <1>1 DEF TypeOK
<1>5. t.process \in Generations =>
        /\ wf[t.process].phase = "applying"
        /\ t.id[1] = <<t.process, wf[t.process].number>>
  BY <1>0 DEF TxSound
<1>6. TxSound' BY <1>0, <1>1, <1>4 DEF TxSound
<1>7. Answered' BY <1>0, <1>1, <1>4, <1>5 DEF Answered
<1>8. AttemptExists'
  <2>1. \A a \in AttemptKeys : provider'[a] # NoAnswer => attempts'[a] # "NONE"
    BY <1>0, <1>1, <1>3 DEF AttemptExists
  <2>2. ASSUME NEW g \in Generations,
               wf'[g].phase \in {"check", "charge", "apply", "applying", "reload"}
        PROVE  attempts'[<<g, wf'[g].number>>] # "NONE"
    <3>1. <<g, wf[g].number>> \in AttemptKeys BY <1>0, RunFields
    <3>2. attempts[<<g, wf[g].number>>] # "NONE"
      BY <1>0, <1>4, <1>5, <2>2 DEF AttemptExists
    <3> QED BY <1>3, <1>4, <3>1, <3>2
  <2> QED BY <2>1, <2>2 DEF AttemptExists
<1> QED BY <1>6, <1>7, <1>8

\* Every step keeps the correspondence of runs, transactions, answers and
\* attempt rows.
LEMMA NextLinked == IInv /\ Next => (AttemptExists /\ Answered /\ TxSound)'
<1> SUFFICES ASSUME IInv, Next PROVE (AttemptExists /\ Answered /\ TxSound)'
  OBVIOUS
<1> DEFINE Linked == AttemptExists /\ Answered /\ TxSound
<1>0. TypeOK /\ Linked BY DEF IInv
<1>a. ASSUME UNCHANGED <<attempts, provider, wf, txs>> PROVE Linked'
  BY <1>0, <1>a DEF AttemptExists, Answered, TxSound
<1>1. CASE HandleOrderPlaced BY <1>1, <1>a DEF HandleOrderPlaced
<1>2. CASE RedeliverOrderPlaced BY <1>2, <1>a DEF RedeliverOrderPlaced, rows
<1>3. CASE ExpiryPasses BY <1>3, <1>a DEF ExpiryPasses, rows
<1>4. CASE RetryForUser BY <1>4, <1>a DEF RetryForUser
<1>5. ASSUME NEW g \in Generations, Start(g) PROVE Linked'
  <2>1. UNCHANGED <<attempts, provider, txs>> BY <1>5 DEF Start, rows
  <2>2. CASE wf' = wf BY <2>1, <2>2, <1>a
  <2>3. CASE /\ wf[g].phase \in {"idle", "failed"}
             /\ wf' = [wf EXCEPT ![g] = [phase |-> "load", number |-> 1]]
    <3>1. wf'[g].phase = "load" /\ \A h \in Generations : h # g => wf'[h] = wf[h]
      BY <1>0, <2>3 DEF TypeOK
    <3> QED BY <1>0, <2>1, <2>3, <3>1 DEF AttemptExists, Answered, TxSound
  <2> QED BY <1>5, <2>2, <2>3 DEF Start
<1>6. ASSUME NEW g \in Generations, WorkflowStep(g) PROVE Linked'
  <2> DEFINE a == <<g, wf[g].number>>
  <2>0. a \in AttemptKeys BY <1>0, RunFields
  <2>1. CASE Load(g)
    <3>1. wf[g].phase = "load" /\ UNCHANGED <<attempts, provider, txs>>
      BY <2>1 DEF Load, rows
    <3>2. /\ wf'[g].phase \in {"done", "expire"}
          /\ \A h \in Generations : h # g => wf'[h] = wf[h]
      BY <1>0, <2>1 DEF Load, GoTo, MoveTo, TypeOK
    <3> QED BY <1>0, <3>1, <3>2 DEF AttemptExists, Answered, TxSound
  <2>2. CASE ExpireIfDue(g)
    <3>1. wf[g].phase = "expire" /\ UNCHANGED <<attempts, provider, txs>>
      BY <2>2 DEF ExpireIfDue
    <3>2. /\ wf'[g].phase \in {"done", "ensure"}
          /\ \A h \in Generations : h # g => wf'[h] = wf[h]
      BY <1>0, <2>2 DEF ExpireIfDue, GoTo, MoveTo, TypeOK
    <3> QED BY <1>0, <3>1, <3>2 DEF AttemptExists, Answered, TxSound
  <2>3. CASE EnsureRead(g)
    <3>1. wf[g].phase = "ensure" /\ UNCHANGED <<attempts, provider, txs>>
      BY <2>3 DEF EnsureRead, rows
    <3>2. /\ wf'[g].phase \in {"done", "check", "ensuring"}
          /\ wf'[g].phase = "check" => attempts[a] # "NONE"
      BY <1>0, <2>3 DEF EnsureRead, GoTo, MoveTo, TypeOK
    <3>3. /\ wf'[g].number = wf[g].number
          /\ \A h \in Generations : h # g => wf'[h] = wf[h]
      BY <1>0, <2>3 DEF EnsureRead, GoTo, MoveTo, TypeOK
    <3> QED BY <1>0, <3>1, <3>2, <3>3 DEF AttemptExists, Answered, TxSound
  <2>4. CASE EnsureWrite(g)
    <3>1. wf[g].phase = "ensuring" /\ UNCHANGED <<provider, txs>>
      BY <2>4 DEF EnsureWrite
    <3>2. /\ wf'[g].phase = "check" /\ wf'[g].number = wf[g].number
          /\ \A h \in Generations : h # g => wf'[h] = wf[h]
      BY <1>0, <2>4 DEF EnsureWrite, GoTo, MoveTo, TypeOK
    <3>3. /\ attempts'[a] # "NONE"
          /\ \A b \in AttemptKeys : attempts[b] # "NONE" => attempts'[b] # "NONE"
      BY <1>0, <2>0, <2>4 DEF EnsureWrite, TypeOK
    <3>4. \A h \in Generations : <<h, wf[h].number>> \in AttemptKeys
      BY <1>0, RunFields
    <3>5. AttemptExists' BY <1>0, <3>1, <3>2, <3>3, <3>4 DEF AttemptExists
    <3>6. Answered' BY <1>0, <3>1, <3>2 DEF Answered
    <3>7. TxSound' BY <1>0, <3>1, <3>2 DEF TxSound
    <3> QED BY <3>5, <3>6, <3>7
  <2>5. CASE CheckExpiry(g)
    <3>1. /\ wf[g].phase = "check" /\ UNCHANGED <<attempts, provider, txs>>
          /\ wf' = [wf EXCEPT ![g].phase = "done"] \/ wf' = [wf EXCEPT ![g].phase = "charge"]
      BY <2>5 DEF CheckExpiry, GoTo, MoveTo
    <3>2. \A h \in Generations :
            /\ wf'[h].number = wf[h].number
            /\ wf'[h].phase = wf[h].phase
               \/ (h = g /\ wf'[h].phase \in {"done", "charge"})
      BY <1>0, <3>1 DEF TypeOK
    <3>3. AttemptExists' BY <1>0, <3>1, <3>2 DEF AttemptExists
    <3>4. Answered' BY <1>0, <3>1, <3>2 DEF Answered
    <3>5. TxSound' BY <1>0, <3>1, <3>2 DEF TxSound
    <3> QED BY <3>3, <3>4, <3>5
  <2>6. CASE Charge(g)
    <3>1. /\ wf[g].phase = "charge" /\ wf' = [wf EXCEPT ![g].phase = "apply"]
          /\ UNCHANGED <<attempts, txs>>
      BY <2>6 DEF Charge, GoTo, MoveTo, rows
    <3>2. /\ provider'[a] # NoAnswer
          /\ \A b \in AttemptKeys :
               b # a \/ provider[b] # NoAnswer => provider'[b] = provider[b]
      BY <1>0, <2>0, <2>6, AnswersAnswer DEF Charge, TypeOK
    <3>3. wf'[g].number = wf[g].number /\ wf'[g].phase = "apply"
          /\ \A h \in Generations : h # g => wf'[h] = wf[h]
      BY <1>0, <3>1 DEF TypeOK
    <3>4. AttemptExists'
      BY <1>0, <2>0, <3>1, <3>2, <3>3 DEF AttemptExists
    <3>5. Answered'
      <4>1. \A h \in Generations : <<h, wf[h].number>> \in AttemptKeys
        BY <1>0, RunFields
      <4> QED BY <1>0, <3>1, <3>2, <3>3, <4>1 DEF Answered
    <3>6. TxSound'
      <4>1. \A t \in txs : t.id[1] \in AttemptKeys BY <1>0, TxFields
      <4> QED BY <1>0, <3>1, <3>2, <3>3, <4>1 DEF TxSound
    <3> QED BY <3>4, <3>5, <3>6
  <2>7. CASE BeginApply(g)
    <3> DEFINE n == Snapshot(g, <<a, "charge">>, provider[a].response)
    <3>1. n.process = g /\ n.id[1] = a /\ n.outcome = provider[a].response
      BY DEF Snapshot
    <3>2. /\ wf[g].phase = "apply" /\ wf' = [wf EXCEPT ![g].phase = "applying"]
          /\ txs' = txs \cup {n}
          /\ UNCHANGED <<attempts, provider>>
      BY <2>7 DEF BeginApply, GoTo, MoveTo, rows
    <3>3. wf'[g].number = wf[g].number /\ wf'[g].phase = "applying"
          /\ \A h \in Generations : h # g => wf'[h] = wf[h]
      BY <1>0, <3>2 DEF TypeOK
    <3>4. \A t \in txs : t.process # g BY <1>0, <3>2 DEF TxSound
    <3>5. provider[a] # NoAnswer BY <1>0, <3>2 DEF Answered
    <3> HIDE DEF n
    <3>6. TxSound'
      BY <1>0, <3>1, <3>2, <3>3, <3>4, <3>5 DEF TxSound
    <3>7. AttemptExists' /\ Answered'
      BY <1>0, <3>2, <3>3, <3>5, <2>0 DEF AttemptExists, Answered
    <3> QED BY <3>6, <3>7
  <2>8. CASE Reload(g)
    <3>1. wf[g].phase = "reload" /\ UNCHANGED <<attempts, provider, txs>>
      BY <2>8 DEF Reload, rows
    <3>2. /\ wf'[g].phase \in {"done", "ensure"}
          /\ \A h \in Generations : h # g => wf'[h] = wf[h]
      BY <1>0, <2>8 DEF Reload, GoTo, MoveTo, TypeOK
    <3> QED BY <1>0, <3>1, <3>2 DEF AttemptExists, Answered, TxSound
  <2>9. ASSUME NEW t \in txs, t.process = g, Apply(t) PROVE Linked'
    BY <2>9, ApplyLinked
  <2> QED BY <1>6, <2>1, <2>2, <2>3, <2>4, <2>5, <2>6, <2>7, <2>8, <2>9
          DEF WorkflowStep
<1>7. ASSUME NEW g \in Generations, StepThrows(g) PROVE Linked'
  <2>1. UNCHANGED <<attempts, provider>> /\ txs' = {t \in txs : t.process # g}
    BY <1>7 DEF StepThrows, rows
  <2>2. /\ wf'[g].phase = "failed"
        /\ \A h \in Generations : h # g => wf'[h] = wf[h]
    BY <1>0, <1>7 DEF StepThrows, GoTo, MoveTo, TypeOK
  <2> QED BY <1>0, <2>1, <2>2 DEF AttemptExists, Answered, TxSound
<1>8. ASSUME NEW c \in Callers, CallbackStep(c) PROVE Linked'
  <2>1. CASE ReceiveCallback(c)
    <3>1. PICK a \in AttemptKeys, tag \in {"charge", "report"} :
            /\ provider[a] # NoAnswer
            /\ \E o \in {provider[a].response, provider[a].truth} :
                 txs' = txs \cup {Snapshot(c, <<a, tag>>, o)}
      BY <2>1 DEF ReceiveCallback
    <3>2. PICK o \in {provider[a].response, provider[a].truth} :
            txs' = txs \cup {Snapshot(c, <<a, tag>>, o)}
      BY <3>1
    <3> DEFINE n == Snapshot(c, <<a, tag>>, o)
    <3>3. n.process = c /\ n.id[1] = a /\ n.outcome = o BY DEF Snapshot
    <3>4. c \notin Generations BY PaymentAssumption
    <3>5. \A t \in txs : t.process # c BY <2>1 DEF ReceiveCallback
    <3>6. UNCHANGED <<attempts, provider, wf>> BY <2>1 DEF ReceiveCallback, rows
    <3> HIDE DEF n
    <3>7. TxSound'
      BY <1>0, <3>1, <3>2, <3>3, <3>4, <3>5, <3>6 DEF TxSound, n
    <3> QED BY <1>0, <3>6, <3>7 DEF AttemptExists, Answered
  <2>2. ASSUME NEW t \in txs, t.process = c, Apply(t) PROVE Linked'
    BY <2>2, ApplyLinked
  <2> QED BY <1>8, <2>1, <2>2 DEF CallbackStep
<1>9. CASE Crash
  <2>1. UNCHANGED <<attempts, provider>> /\ txs' = {} BY <1>9 DEF Crash, rows
  <2>2. ASSUME NEW g \in Generations
        PROVE  /\ wf'[g].phase \in {"check", "charge", "apply", "applying", "reload"}
                    => attempts[<<g, wf'[g].number>>] # "NONE"
               /\ wf'[g].phase \in {"apply", "applying", "reload"}
                    => provider[<<g, wf'[g].number>>] # NoAnswer
    <3>1. PICK run \in Runs :
            /\ run = began[g] \/ run = wf[g]
            /\ run.phase \notin MidStep
            /\ wf'[g] \in {NotStarted, run, [run EXCEPT !.phase = "failed"]}
      BY <1>9, CrashRuns
    <3>2. /\ run.phase \in {"check", "apply", "reload"}
               => attempts[<<g, run.number>>] # "NONE"
          /\ run.phase \in {"apply", "reload"}
               => provider[<<g, run.number>>] # NoAnswer
      BY <3>1 DEF IInv, AttemptExists, Answered, BeganSound
    <3> QED BY <3>1, <3>2 DEF NotStarted, MidStep
  <2> QED BY <1>0, <2>1, <2>2 DEF AttemptExists, Answered, TxSound
<1> QED BY <1>1, <1>2, <1>3, <1>4, <1>5, <1>6, <1>7, <1>8, <1>9 DEF Next

\* No attempt row and no answer is ever taken back.
LEMMA NothingLost ==
    ASSUME IInv, Next
    PROVE  \A a \in AttemptKeys :
             /\ attempts[a] # "NONE" => attempts'[a] # "NONE"
             /\ provider[a] # NoAnswer => provider'[a] = provider[a]
<1> DEFINE Kept == \A a \in AttemptKeys :
                     /\ attempts[a] # "NONE" => attempts'[a] # "NONE"
                     /\ provider[a] # NoAnswer => provider'[a] = provider[a]
<1>0. TypeOK BY DEF IInv
<1>a. ASSUME NEW t \in txs, Apply(t) PROVE Kept
  <2>1. t.outcome.kind # "NONE" BY <1>0, TxFields DEF Outcomes
  <2>2. /\ UNCHANGED provider
        /\ attempts' = attempts
           \/ attempts' = [attempts EXCEPT ![t.id[1]] = t.outcome.kind]
    BY <1>a, ApplyShape
  <2> QED BY <1>0, <2>1, <2>2 DEF TypeOK
<1>b. ASSUME UNCHANGED <<attempts, provider>> PROVE Kept BY <1>b
<1>1. CASE HandleOrderPlaced BY <1>1, <1>b DEF HandleOrderPlaced
<1>2. CASE RedeliverOrderPlaced BY <1>2, <1>b DEF RedeliverOrderPlaced, rows
<1>3. CASE ExpiryPasses BY <1>3, <1>b DEF ExpiryPasses, rows
<1>4. CASE RetryForUser BY <1>4, <1>b DEF RetryForUser
<1>5. ASSUME NEW g \in Generations, Start(g) PROVE Kept
  BY <1>5, <1>b DEF Start, rows
<1>6. ASSUME NEW g \in Generations, WorkflowStep(g) PROVE Kept
  <2>1. CASE Charge(g)
    BY <1>0, <2>1 DEF Charge, rows, TypeOK
  <2>2. CASE EnsureWrite(g)
    BY <1>0, <2>2 DEF EnsureWrite, TypeOK
  <2>3. CASE Load(g) \/ ExpireIfDue(g) \/ EnsureRead(g) \/ CheckExpiry(g)
             \/ BeginApply(g) \/ Reload(g)
    BY <2>3, <1>b DEF Load, ExpireIfDue, EnsureRead, CheckExpiry, BeginApply,
                      Reload, rows
  <2> QED BY <1>6, <1>a, <2>1, <2>2, <2>3 DEF WorkflowStep
<1>7. ASSUME NEW g \in Generations, StepThrows(g) PROVE Kept
  BY <1>7, <1>b DEF StepThrows, rows
<1>8. ASSUME NEW c \in Callers, CallbackStep(c) PROVE Kept
  BY <1>8, <1>a, <1>b DEF CallbackStep, ReceiveCallback, rows
<1>9. CASE Crash BY <1>9, <1>b DEF Crash, rows
<1> QED BY <1>1, <1>2, <1>3, <1>4, <1>5, <1>6, <1>7, <1>8, <1>9 DEF Next

\* Every step keeps what the beginnings of the latest steps stand on.
LEMMA NextBeganSound == IInv /\ Next => BeganSound'
<1> SUFFICES ASSUME IInv, Next, NEW g \in Generations
             PROVE  /\ began'[g].phase \notin MidStep
                    /\ began'[g].phase \in {"check", "apply", "reload"} =>
                         attempts'[<<g, began'[g].number>>] # "NONE"
                    /\ began'[g].phase \in {"apply", "reload"} =>
                         provider'[<<g, began'[g].number>>] # NoAnswer
  BY DEF BeganSound
<1>0. TypeOK BY DEF IInv
<1> DEFINE Sound(run) ==
      /\ run.phase \notin MidStep
      /\ run.phase \in {"check", "apply", "reload"} =>
           attempts[<<g, run.number>>] # "NONE"
      /\ run.phase \in {"apply", "reload"} =>
           provider[<<g, run.number>>] # NoAnswer
<1>1. ASSUME NEW run \in Runs, Sound(run), began'[g] = run PROVE Sound(run)'
  <2>1. <<g, run.number>> \in AttemptKeys BY DEF AttemptKeys
  <2> QED BY <1>1, <2>1, NothingLost
<1>2. Sound(began[g]) BY DEF IInv, BeganSound
<1>3. wf[g].phase \notin MidStep => Sound(wf[g])
  BY DEF IInv, AttemptExists, Answered
<1>4. /\ wf[g] \in Runs /\ began[g] \in Runs
      /\ began \in [Generations -> Runs]
  BY <1>0 DEF TypeOK
<1>5. CASE Crash
  <2>1. UNCHANGED <<attempts, provider>> /\ began' = wf' BY <1>5 DEF Crash, rows
  <2>2. PICK run \in Runs :
          /\ run = began[g] \/ run = wf[g]
          /\ run.phase \notin MidStep
          /\ wf'[g] \in {NotStarted, run, [run EXCEPT !.phase = "failed"]}
    BY <1>5, CrashRuns
  <2>3. Sound(run) BY <1>2, <1>3, <2>2
  <2>4. \/ began'[g].phase \in {"idle", "failed"}
        \/ began'[g] = run
    BY <2>1, <2>2 DEF NotStarted
  <2> QED BY <2>1, <2>3, <2>4 DEF MidStep
<1>6. CASE ~Crash
  <2> DEFINE load == [phase |-> "load", number |-> 1]
  <2>1. \/ began'[g] = began[g]
        \/ began'[g] = wf[g] /\ wf[g].phase \notin MidStep
        \/ began'[g] = load
    <3> HIDE DEF load
    <3> QED BY <1>4, <1>6, NextBegan DEF BeganMoves, load
  <2>2. CASE began'[g] = load BY <2>2 DEF MidStep
  <2>3. CASE began'[g] = began[g] BY <1>1, <1>2, <1>4, <2>3
  <2>4. CASE began'[g] = wf[g] /\ wf[g].phase \notin MidStep
    BY <1>1, <1>3, <1>4, <2>4
  <2> QED BY <2>1, <2>2, <2>3, <2>4
<1> QED BY <1>5, <1>6

LEMMA NextIInv == IInv /\ [Next]_vars => IInv'
<1> SUFFICES ASSUME IInv, [Next]_vars PROVE IInv' OBVIOUS
<1>1. CASE Next BY <1>1, NextTyped, NextLinked, NextBeganSound DEF IInv
<1>2. CASE UNCHANGED vars
  BY <1>2 DEF vars, IInv, TypeOK, AttemptExists, Answered, TxSound, BeganSound
<1> QED BY <1>1, <1>2

LEMMA Invariance == Spec => []IInv
BY InitIInv, NextIInv, PTL DEF Spec

\* Every variable keeps its type: what the rows, runs, transactions and the
\* Outbox may hold.
THEOREM TypeCorrect == Spec => []TypeOK
<1>1. IInv => TypeOK BY DEF IInv
<1> QED BY <1>1, Invariance, PTL

-------------------------------------------------------------------------------
(* Decisions and their announcements.                                      *)

\* What a transaction that ends does to the decision and to the Outbox.
LEMMA ApplyDecides ==
    ASSUME NEW t \in txs, Apply(t)
    PROVE  \/ UNCHANGED <<status, outbox>>
           \/ ExpirePending
           \/ ApplySuccess(t)
           \/ ApplyFailure(t)
BY DEF Apply, ApplyKnown, ApplyToCompleted, ApplyToDecided, ApplyExpiry,
       ApplyRetry, ApplyRefused

LEMMA ApplyKeepsCallbacks ==
    ASSUME NEW t \in txs, Apply(t)
    PROVE  callbacks \subseteq callbacks'
BY DEF Apply, ApplyKnown, ApplyToCompleted, ApplyToDecided, ApplyExpiry,
       ApplySuccess, ApplyRetry, ApplyFailure, ApplyRefused, RecordAttempt,
       RecordCallback

\* What any step does to the decision and to the Outbox.
LEMMA NextDecides ==
    ASSUME TypeOK, Next
    PROVE  /\ callbacks \subseteq callbacks'
           /\ \/ UNCHANGED <<status, outbox>>
              \/ status = "ABSENT" /\ status' = "PENDING" /\ outbox' = outbox
              \/ RetryForUser
              \/ ExpirePending
              \/ \E t \in txs : ApplySuccess(t) \/ ApplyFailure(t)
<1> DEFINE Decides == /\ callbacks \subseteq callbacks'
                      /\ \/ UNCHANGED <<status, outbox>>
                         \/ status = "ABSENT" /\ status' = "PENDING" /\ outbox' = outbox
                         \/ RetryForUser
                         \/ ExpirePending
                         \/ \E t \in txs : ApplySuccess(t) \/ ApplyFailure(t)
<1>a. ASSUME NEW t \in txs, Apply(t) PROVE Decides
  BY <1>a, ApplyDecides, ApplyKeepsCallbacks
<1>1. CASE HandleOrderPlaced BY <1>1 DEF HandleOrderPlaced
<1>2. CASE RedeliverOrderPlaced BY <1>2 DEF RedeliverOrderPlaced, rows
<1>3. CASE ExpiryPasses BY <1>3 DEF ExpiryPasses, rows
<1>4. CASE RetryForUser BY <1>4 DEF RetryForUser
<1>5. ASSUME NEW g \in Generations, Start(g) PROVE Decides
  BY <1>5 DEF Start, rows
<1>6. ASSUME NEW g \in Generations, WorkflowStep(g) PROVE Decides
  BY <1>6, <1>a DEF WorkflowStep, Load, ExpireIfDue, EnsureRead, EnsureWrite,
                    CheckExpiry, Charge, BeginApply, Reload, rows
<1>7. ASSUME NEW g \in Generations, StepThrows(g) PROVE Decides
  BY <1>7 DEF StepThrows, rows
<1>8. ASSUME NEW c \in Callers, CallbackStep(c) PROVE Decides
  BY <1>8, <1>a DEF CallbackStep, ReceiveCallback, rows
<1>9. CASE Crash BY <1>9 DEF Crash, rows
<1> QED BY <1>1, <1>2, <1>3, <1>4, <1>5, <1>6, <1>7, <1>8, <1>9 DEF Next

\* The events are told apart by their type.
LEMMA EventTypes ==
    /\ \A a : SucceededEvent(a) # ExpiredEvent
    /\ \A g, b : FailedEvent(g, b) # ExpiredEvent
    /\ \A a, g, b : FailedEvent(g, b) # SucceededEvent(a)
<1>1. /\ \A a : SucceededEvent(a).type = "PaymentSucceeded"
      /\ \A g, b : FailedEvent(g, b).type = "PaymentFailed"
      /\ ExpiredEvent.type = "PaymentExpired"
  BY DEF SucceededEvent, FailedEvent, ExpiredEvent
<1> QED BY <1>1

\* The justification of the failures announced so far is never lost.
LEMMA FailureKept ==
    ASSUME FailureJustified, callbacks \subseteq callbacks',
           \A g, b : FailedEvent(g, b) \in outbox' => FailedEvent(g, b) \in outbox
    PROVE  FailureJustified'
<1> SUFFICES ASSUME NEW g \in Generations, NEW b \in BOOLEAN,
                    FailedEvent(g, b) \in outbox'
             PROVE  \E r \in callbacks' :
                      /\ r.id[1][1] = g
                      /\ r.outcome = [kind |-> "FAILED", retryable |-> b]
                      /\ b => r.id[1][2] = MaxAttempts
  BY DEF FailureJustified
<1>1. PICK r \in callbacks :
        /\ r.id[1][1] = g
        /\ r.outcome = [kind |-> "FAILED", retryable |-> b]
        /\ b => r.id[1][2] = MaxAttempts
  BY DEF FailureJustified
<1> QED BY <1>1

LEMMA InitDecision == Init => DecisionsAnnounced
BY DEF Init, DecisionsAnnounced, ExpiredMatchesEvent, SuccessInTime, FailureJustified

LEMMA NextDecision == IInv /\ DecisionsAnnounced /\ [Next]_vars => DecisionsAnnounced'
<1> SUFFICES ASSUME IInv, DecisionsAnnounced, [Next]_vars PROVE DecisionsAnnounced'
  OBVIOUS
<1>0. TypeOK BY DEF IInv
<1>1. CASE UNCHANGED vars
  BY <1>1 DEF vars, DecisionsAnnounced, ExpiredMatchesEvent, SuccessInTime,
              FailureJustified
<1>2. CASE callbacks \subseteq callbacks' /\ UNCHANGED <<status, outbox>>
  BY <1>2 DEF DecisionsAnnounced, ExpiredMatchesEvent, SuccessInTime, FailureJustified
<1>3. CASE /\ callbacks \subseteq callbacks' /\ outbox' = outbox
           /\ status \in {"ABSENT", "FAILED"} /\ status' = "PENDING"
  BY <1>3 DEF DecisionsAnnounced, ExpiredMatchesEvent, SuccessInTime, FailureJustified
<1>4. CASE callbacks \subseteq callbacks' /\ ExpirePending
  <2>1. ExpiredMatchesEvent'
    BY <1>4 DEF ExpirePending, DecisionsAnnounced, ExpiredMatchesEvent
  <2>2. SuccessInTime'
    BY <1>4 DEF ExpirePending, DecisionsAnnounced, SuccessInTime
  <2>3. FailureJustified'
    <3>1. \A g, b : FailedEvent(g, b) \in outbox' => FailedEvent(g, b) \in outbox
      BY <1>4, EventTypes DEF ExpirePending
    <3> QED BY <1>4, <3>1, FailureKept DEF DecisionsAnnounced
  <2> QED BY <2>1, <2>2, <2>3 DEF DecisionsAnnounced
<1>5. ASSUME NEW t \in txs, ApplySuccess(t), callbacks \subseteq callbacks'
      PROVE  DecisionsAnnounced'
  <2>1. /\ outbox' = outbox \cup {Announcement(t)}
        /\ Announcement(t) = SucceededEvent(t.id[1])
        /\ status' \in {status, "SUCCEEDED"} /\ (status = "EXPIRED" => status' = status)
    BY <1>5 DEF ApplySuccess, Announcement
  <2>2. [id |-> t.id, outcome |-> t.outcome, late |-> t.late] \in callbacks'
    BY <1>5 DEF ApplySuccess, RecordAttempt, RecordCallback
  <2>3. t.outcome.kind = "SUCCEEDED" /\ ~t.late
    BY <1>5 DEF ApplySuccess, Expires
  <2>4. ExpiredMatchesEvent'
    BY <2>1, EventTypes DEF DecisionsAnnounced, ExpiredMatchesEvent
  <2>5. SuccessInTime'
    BY <1>5, <2>1, <2>2, <2>3 DEF DecisionsAnnounced, SuccessInTime
  <2>6. FailureJustified'
    <3>1. \A g, b : FailedEvent(g, b) \in outbox' => FailedEvent(g, b) \in outbox
      BY <2>1, EventTypes
    <3> QED BY <1>5, <3>1, FailureKept DEF DecisionsAnnounced
  <2> QED BY <2>4, <2>5, <2>6 DEF DecisionsAnnounced
<1>6. ASSUME NEW t \in txs, ApplyFailure(t), callbacks \subseteq callbacks'
      PROVE  DecisionsAnnounced'
  <2>1. /\ outbox' = outbox \cup {FailedEvent(t.id[1][1], t.outcome.retryable)}
        /\ \/ status' = status
           \/ status = "PENDING" /\ status' = "FAILED"
    BY <1>6 DEF ApplyFailure, FinalFailure, Announcement
  <2> DEFINE r == [id |-> t.id, outcome |-> t.outcome, late |-> t.late]
  <2>2. r \in callbacks'
    BY <1>6 DEF ApplyFailure, RecordAttempt, RecordCallback
  <2>3. /\ t.outcome.kind = "FAILED"
        /\ t.outcome.retryable => ~(t.id[1][2] < MaxAttempts)
    BY <1>6 DEF ApplyFailure, FinalFailure, RetriesLeft
  <2>4. t.outcome = [kind |-> "FAILED", retryable |-> t.outcome.retryable]
    BY <1>0, <2>3, TxFields DEF Outcomes
  <2>5. t.outcome.retryable => t.id[1][2] = MaxAttempts
    BY <1>0, <2>3, TxFields, PaymentAssumption DEF Numbers
  <2>6. ExpiredMatchesEvent'
    BY <2>1, EventTypes DEF DecisionsAnnounced, ExpiredMatchesEvent
  <2>7. SuccessInTime'
    BY <1>6, <2>1 DEF DecisionsAnnounced, SuccessInTime
  <2>8. FailureJustified'
    <3> SUFFICES ASSUME NEW g \in Generations, NEW b \in BOOLEAN,
                        FailedEvent(g, b) \in outbox'
                 PROVE  \E x \in callbacks' :
                          /\ x.id[1][1] = g
                          /\ x.outcome = [kind |-> "FAILED", retryable |-> b]
                          /\ b => x.id[1][2] = MaxAttempts
      BY DEF FailureJustified
    <3>1. CASE FailedEvent(g, b) \in outbox
      BY <1>6, <3>1 DEF DecisionsAnnounced, FailureJustified
    <3>2. CASE FailedEvent(g, b) = FailedEvent(t.id[1][1], t.outcome.retryable)
      <4>1. g = t.id[1][1] /\ b = t.outcome.retryable
        BY <3>2 DEF FailedEvent
      <4>2. r.id = t.id /\ r.outcome = t.outcome OBVIOUS
      <4> QED BY <2>2, <2>4, <2>5, <4>1, <4>2
    <3> QED BY <2>1, <3>1, <3>2
  <2> QED BY <2>6, <2>7, <2>8 DEF DecisionsAnnounced
<1> QED
  <2>1. CASE Next
    BY <1>0, <1>2, <1>3, <1>4, <1>5, <1>6, <2>1, NextDecides DEF RetryForUser
  <2> QED BY <1>1, <2>1

\* Expiry, success and final failure are each announced for their reason alone.
THEOREM DecisionsJustified == Spec => []DecisionsAnnounced
<1>1. Init => IInv /\ DecisionsAnnounced BY InitIInv, InitDecision
<1>2. (IInv /\ DecisionsAnnounced) /\ [Next]_vars
       => (IInv /\ DecisionsAnnounced)'
  BY NextIInv, NextDecision
<1> QED BY <1>1, <1>2, PTL DEF Spec

\* A decision is final, whatever transaction commits after it.
THEOREM DecisionsAreFinal == Spec => FinalDecision
<1> DEFINE Final ==
      /\ status \in {"SUCCEEDED", "EXPIRED"} => status' = status
      /\ status = "FAILED" /\ status' # status
           => status' = "PENDING" /\ generation' = generation + 1
<1>1. IInv /\ [Next]_vars => [Final]_vars
  <2> SUFFICES ASSUME IInv, Next PROVE Final OBVIOUS
  <2>1. TypeOK BY DEF IInv
  <2> QED BY <2>1, NextDecides DEF RetryForUser, NextGeneration, ExpirePending,
          ApplySuccess, ApplyFailure
<1> QED BY <1>1, Invariance, PTL DEF Spec, FinalDecision

-------------------------------------------------------------------------------
(* The customer's money.                                                   *)

\* A run has left only refused attempts behind, and goes back to its loop
\* only from a refused one.
RefusedUpTo(g, run) ==
    /\ \A m \in 1..(run.number - 1) : provider[<<g, m>>].truth = Refusal
    /\ run.phase = "reload" => provider[<<g, run.number>>].truth = Refusal

RefusedBefore ==
    \A g \in Generations : RefusedUpTo(g, wf[g]) /\ RefusedUpTo(g, began[g])

MoneyInv == RefusedBefore /\ RetryOnlyAfterRefusal

\* What a step does to the answers: a refusal stays.
RefusalsStay ==
    \A a \in AttemptKeys :
        provider[a].truth = Refusal => provider'[a].truth = Refusal

\* ... to the attempts: only the run at an attempt creates it.
AttemptsByRuns ==
    \A a \in AttemptKeys :
        \/ attempts[a] = "NONE" => attempts'[a] = "NONE"
        \/ \E g \in Generations : a = <<g, wf[g].number>>

\* ... and to the runs: a run moves on after a refusal, begins again, stays at
\* its attempt, or is put back to where its latest step began.
RunsMove ==
    \A g \in Generations :
        \/ /\ wf'[g].number = wf[g].number
           /\ \/ wf'[g].phase = "reload" => wf[g].phase = "reload"
              \/ provider[<<g, wf[g].number>>].truth = Refusal
        \/ /\ wf[g].phase = "reload" /\ wf'[g].phase # "reload"
           /\ wf'[g].number = wf[g].number + 1
        \/ wf'[g].number = 1 /\ wf'[g].phase # "reload"
        \/ /\ wf'[g].number = began[g].number
           /\ wf'[g].phase = "reload" => began[g].phase = "reload"

Moves == RefusalsStay /\ AttemptsByRuns /\ RunsMove

LEMMA ApplyMoves ==
    ASSUME IInv, NEW t \in txs, Apply(t)
    PROVE  Moves
<1>0. TypeOK /\ TxSound BY DEF IInv
<1>1. PICK phase \in {"done", "failed", "reload"} :
        /\ UNCHANGED provider
        /\ wf' = IF t.process \in Generations
                 THEN [wf EXCEPT ![t.process].phase = phase] ELSE wf
        /\ attempts' = attempts
           \/ attempts' = [attempts EXCEPT ![t.id[1]] = t.outcome.kind]
  BY ApplyShape
<1>2. RefusalsStay BY <1>1 DEF RefusalsStay
<1>3. AttemptsByRuns
  <2>1. t.id[1] \in AttemptKeys BY <1>0, TxFields
  <2>2. attempts[t.id[1]] # "NONE"
    BY <1>0, <2>1 DEF IInv, AttemptExists, TxSound
  <2>3. \A a \in AttemptKeys : attempts[a] = "NONE" => attempts'[a] = "NONE"
    BY <1>0, <1>1, <2>1, <2>2 DEF TypeOK
  <2> QED BY <2>3 DEF AttemptsByRuns
<1>4. RunsMove
  <2>1. \A g \in Generations :
          /\ wf'[g].number = wf[g].number
          /\ wf'[g] = wf[g] \/ g = t.process
    BY <1>0, <1>1 DEF TypeOK
  <2>2. ASSUME t.process \in Generations, wf'[t.process].phase = "reload"
        PROVE  provider[<<t.process, wf[t.process].number>>].truth = Refusal
    <3>1. wf[t.process].phase = "applying"
      BY <1>0, <2>2 DEF TxSound
    <3>2. t.id[1] = <<t.process, wf[t.process].number>>
      BY <1>0, <2>2 DEF TxSound
    <3>3. RetriesLeft(t)
      <4>1. ASSUME NEW p \in {"done", "failed"}, Finish(t, p) PROVE FALSE
        BY <1>0, <2>2, <4>1 DEF Finish, GoTo, MoveTo, TypeOK
      <4> QED
        BY <4>1 DEF Apply, ApplyKnown, ApplyToCompleted, ApplyToDecided, ApplyExpiry,
           ApplySuccess, ApplyRetry, ApplyFailure, ApplyRefused
    <3>4. t.outcome = Refusal
      BY <1>0, <3>3, TxFields DEF RetriesLeft, Refusal, Outcomes
    <3>5. /\ provider[t.id[1]] # NoAnswer
          /\ t.outcome \in {provider[t.id[1]].response, provider[t.id[1]].truth}
      BY <1>0 DEF TxSound
    <3>6. provider[t.id[1]].truth = Refusal
      BY <1>0, <3>4, <3>5, AnswerTyped, TxFields DEF Refusal
    <3> QED BY <3>2, <3>6
  <2> QED BY <2>1, <2>2 DEF RunsMove
<1> QED BY <1>2, <1>3, <1>4 DEF Moves

LEMMA NextMoves == IInv /\ Next => Moves
<1> SUFFICES ASSUME IInv, Next PROVE Moves OBVIOUS
<1>0. TypeOK BY DEF IInv
<1> USE DEF Moves, RefusalsStay, AttemptsByRuns, RunsMove
<1>a. ASSUME UNCHANGED <<attempts, provider, wf>> PROVE Moves
  BY <1>a
<1>1. CASE HandleOrderPlaced BY <1>1, <1>a DEF HandleOrderPlaced
<1>2. CASE RedeliverOrderPlaced BY <1>2, <1>a DEF RedeliverOrderPlaced, rows
<1>3. CASE ExpiryPasses BY <1>3, <1>a DEF ExpiryPasses, rows
<1>4. CASE RetryForUser BY <1>4, <1>a DEF RetryForUser
<1>5. ASSUME NEW g \in Generations, Start(g) PROVE Moves
  BY <1>0, <1>5 DEF Start, rows, TypeOK
<1>6. ASSUME NEW g \in Generations, WorkflowStep(g) PROVE Moves
  <2>1. CASE Load(g) BY <1>0, <2>1 DEF Load, GoTo, MoveTo, rows, TypeOK
  <2>2. CASE ExpireIfDue(g) BY <1>0, <2>2 DEF ExpireIfDue, GoTo, MoveTo, TypeOK
  <2>3. CASE EnsureRead(g) BY <1>0, <2>3 DEF EnsureRead, GoTo, MoveTo, rows, TypeOK
  <2>4. CASE EnsureWrite(g) BY <1>0, <2>4 DEF EnsureWrite, GoTo, MoveTo, TypeOK
  <2>5. CASE CheckExpiry(g) BY <1>0, <2>5 DEF CheckExpiry, GoTo, MoveTo, TypeOK
  <2>6. CASE Charge(g)
    <3>1. \A a \in AttemptKeys :
            provider[a] # NoAnswer => provider'[a] = provider[a]
      BY <1>0, <2>6 DEF Charge, TypeOK
    <3>2. \A a \in AttemptKeys :
            provider[a].truth = Refusal => provider[a] # NoAnswer
      BY DEF NoAnswer, NoOutcome, Refusal
    <3> QED BY <1>0, <2>6, <3>1, <3>2 DEF Charge, GoTo, MoveTo, rows, TypeOK
  <2>7. CASE BeginApply(g) BY <1>0, <2>7 DEF BeginApply, GoTo, MoveTo, rows, TypeOK
  <2>8. CASE Reload(g) BY <1>0, <2>8 DEF Reload, GoTo, MoveTo, rows, TypeOK
  <2>9. ASSUME NEW t \in txs, t.process = g, Apply(t) PROVE Moves
    BY <2>9, ApplyMoves
  <2> QED BY <1>6, <2>1, <2>2, <2>3, <2>4, <2>5, <2>6, <2>7, <2>8, <2>9
          DEF WorkflowStep
<1>7. ASSUME NEW g \in Generations, StepThrows(g) PROVE Moves
  BY <1>0, <1>7 DEF StepThrows, GoTo, MoveTo, rows, TypeOK
<1>8. ASSUME NEW c \in Callers, CallbackStep(c) PROVE Moves
  BY <1>8, <1>a, ApplyMoves DEF CallbackStep, ReceiveCallback, rows
<1>9. CASE Crash
  <2>1. UNCHANGED <<attempts, provider>> BY <1>9 DEF Crash, rows
  <2>2. RunsMove BY <1>9, CrashRuns DEF NotStarted
  <2> QED BY <2>1, <2>2
<1> QED BY <1>1, <1>2, <1>3, <1>4, <1>5, <1>6, <1>7, <1>8, <1>9 DEF Next

LEMMA InitMoney == Init => MoneyInv
<1> SUFFICES ASSUME Init PROVE MoneyInv OBVIOUS
<1>1. \A g \in Generations : /\ wf[g].number = 1 /\ wf[g].phase = "idle"
                             /\ began[g] = wf[g]
  BY DEF Init, NotStarted
<1>2. \A g \in Generations, n \in Numbers : attempts[<<g, n>>] = "NONE"
  BY DEF Init, AttemptKeys
<1> QED BY <1>1, <1>2 DEF MoneyInv, RefusedBefore, RefusedUpTo, RetryOnlyAfterRefusal

LEMMA NextMoney == IInv /\ MoneyInv /\ [Next]_vars => MoneyInv'
<1> SUFFICES ASSUME IInv, MoneyInv, [Next]_vars PROVE MoneyInv' OBVIOUS
<1>0. TypeOK BY DEF IInv
<1>1. CASE UNCHANGED vars
  BY <1>1 DEF vars, MoneyInv, RefusedBefore, RefusedUpTo, RetryOnlyAfterRefusal
<1>2. CASE Next
  <2>1. RefusalsStay /\ AttemptsByRuns /\ RunsMove
    BY <1>2, NextMoves DEF Moves
  <2>2. \A g \in Generations, n \in Numbers : <<g, n>> \in AttemptKeys
    BY DEF AttemptKeys
  <2>3. \A g \in Generations : wf[g].number \in Numbers BY <1>0, RunFields
  <2>4. \A n \in Numbers : n \in Nat /\ \A m \in 1..(n - 1) : m \in Numbers
    BY PaymentAssumption DEF Numbers
  <2>5. ASSUME NEW g \in Generations, NEW run \in Runs, RefusedUpTo(g, run)
        PROVE  /\ \A m \in 1..(run.number - 1) :
                    provider'[<<g, m>>].truth = Refusal
               /\ provider[<<g, run.number>>].truth = Refusal =>
                    provider'[<<g, run.number>>].truth = Refusal
               /\ run.phase = "reload" =>
                    provider'[<<g, run.number>>].truth = Refusal
    BY <2>1, <2>2, <2>4, <2>5 DEF RefusedUpTo, RefusalsStay
  <2>6. ASSUME NEW g \in Generations
        PROVE  /\ wf[g] \in Runs /\ began[g] \in Runs
               /\ RefusedUpTo(g, wf[g]) /\ RefusedUpTo(g, began[g])
    BY <1>0 DEF TypeOK, MoneyInv, RefusedBefore
  <2>7. ASSUME NEW g \in Generations PROVE RefusedUpTo(g, wf[g])'
    <3> SUFFICES /\ \A m \in 1..(wf'[g].number - 1) :
                      provider'[<<g, m>>].truth = Refusal
                 /\ wf'[g].phase = "reload" =>
                      provider'[<<g, wf'[g].number>>].truth = Refusal
      BY DEF RefusedUpTo
    <3>1. /\ \A m \in 1..(wf[g].number - 1) : provider'[<<g, m>>].truth = Refusal
          /\ provider[<<g, wf[g].number>>].truth = Refusal =>
               provider'[<<g, wf[g].number>>].truth = Refusal
          /\ wf[g].phase = "reload" =>
               provider'[<<g, wf[g].number>>].truth = Refusal
      BY <2>5, <2>6
    <3>2. /\ \A m \in 1..(began[g].number - 1) : provider'[<<g, m>>].truth = Refusal
          /\ began[g].phase = "reload" =>
               provider'[<<g, began[g].number>>].truth = Refusal
      BY <2>5, <2>6
    <3>3. wf[g].number \in Nat BY <2>3, <2>4
    <3>4. CASE /\ wf'[g].number = wf[g].number
               /\ \/ wf'[g].phase = "reload" => wf[g].phase = "reload"
                  \/ provider[<<g, wf[g].number>>].truth = Refusal
      BY <3>1, <3>4
    <3>5. CASE /\ wf[g].phase = "reload" /\ wf'[g].phase # "reload"
               /\ wf'[g].number = wf[g].number + 1
      <4>1. \A m \in 1..(wf'[g].number - 1) :
              m \in 1..(wf[g].number - 1) \/ m = wf[g].number
        BY <3>3, <3>5
      <4> QED BY <3>1, <3>5, <4>1
    <3>6. CASE wf'[g].number = 1 /\ wf'[g].phase # "reload"
      BY <3>6
    <3>7. CASE /\ wf'[g].number = began[g].number
               /\ wf'[g].phase = "reload" => began[g].phase = "reload"
      BY <3>2, <3>7
    <3> QED BY <2>1, <3>4, <3>5, <3>6, <3>7 DEF RunsMove
  <2>8. ASSUME NEW g \in Generations PROVE RefusedUpTo(g, began[g])'
    <3> SUFFICES /\ \A m \in 1..(began'[g].number - 1) :
                      provider'[<<g, m>>].truth = Refusal
                 /\ began'[g].phase = "reload" =>
                      provider'[<<g, began'[g].number>>].truth = Refusal
      BY DEF RefusedUpTo
    <3> DEFINE load == [phase |-> "load", number |-> 1]
    <3>1. began'[g] \in {began[g], wf[g], wf'[g], load}
      <4>1. began \in [Generations -> Runs] BY <1>0 DEF TypeOK
      <4> HIDE DEF load
      <4> QED BY <1>2, <4>1, NextBegan DEF BeganMoves, Crash, load
    <3>2. CASE began'[g] = wf'[g] BY <2>7, <3>2 DEF RefusedUpTo
    <3>3. CASE began'[g] = load BY <3>3
    <3>4. CASE began'[g] \in {began[g], wf[g]} BY <2>5, <2>6, <3>4
    <3> QED BY <3>1, <3>2, <3>3, <3>4
  <2>9. RefusedBefore' BY <2>7, <2>8 DEF RefusedBefore
  <2>10. RetryOnlyAfterRefusal'
    <3> SUFFICES ASSUME NEW g \in Generations, NEW n \in Numbers,
                        attempts'[<<g, n>>] # "NONE", NEW m \in 1..(n - 1)
                 PROVE  provider'[<<g, m>>].truth = Refusal
      BY DEF RetryOnlyAfterRefusal, Refusal
    <3>1. <<g, n>> \in AttemptKeys /\ <<g, m>> \in AttemptKeys BY <2>2, <2>4
    <3>2. CASE attempts[<<g, n>>] # "NONE"
      BY <2>1, <3>1, <3>2 DEF MoneyInv, RetryOnlyAfterRefusal, RefusalsStay, Refusal
    <3>3. CASE attempts[<<g, n>>] = "NONE"
      <4>1. n = wf[g].number
        BY <2>1, <3>1, <3>3 DEF AttemptsByRuns
      <4> QED BY <2>1, <3>1, <4>1
              DEF MoneyInv, RefusedBefore, RefusedUpTo, RefusalsStay
    <3> QED BY <3>2, <3>3
  <2> QED BY <2>9, <2>10 DEF MoneyInv
<1> QED BY <1>1, <1>2

\* An attempt stands only on refused ones.
THEOREM RetriesFollowRefusals == Spec => []RetryOnlyAfterRefusal
<1>1. Init => IInv /\ MoneyInv BY InitIInv, InitMoney
<1>2. (IInv /\ MoneyInv) /\ [Next]_vars => (IInv /\ MoneyInv)'
  BY NextIInv, NextMoney
<1>3. MoneyInv => RetryOnlyAfterRefusal BY DEF MoneyInv
<1> QED BY <1>1, <1>2, <1>3, PTL DEF Spec

\* One generation at most holds a charge that took the money.
LEMMA ChargedOncePerGeneration == IInv /\ MoneyInv => OneChargePerGeneration
<1> SUFFICES ASSUME IInv, MoneyInv, NEW g \in Generations
             PROVE  \A m, n \in Numbers :
                      /\ provider[<<g, m>>].truth.kind = "SUCCEEDED"
                      /\ provider[<<g, n>>].truth.kind = "SUCCEEDED"
                      => m = n
  BY DEF OneChargePerGeneration
<1>1. ASSUME NEW m \in Numbers, NEW n \in Numbers, m < n,
             provider[<<g, n>>].truth.kind = "SUCCEEDED"
      PROVE  provider[<<g, m>>].truth.kind # "SUCCEEDED"
  <2>1. <<g, n>> \in AttemptKeys BY DEF AttemptKeys
  <2>2. provider[<<g, n>>] # NoAnswer BY <1>1 DEF NoAnswer, NoOutcome
  <2>3. attempts[<<g, n>>] # "NONE" BY <2>1, <2>2 DEF IInv, AttemptExists
  <2>4. m \in 1..(n - 1) BY <1>1 DEF Numbers
  <2> QED BY <2>3, <2>4 DEF MoneyInv, RetryOnlyAfterRefusal
<1>2. \A m, n \in Numbers : m < n \/ n < m \/ m = n
  BY PaymentAssumption DEF Numbers
<1> QED BY <1>1, <1>2

\* The attempts of a generation take the customer's money at most once,
\* whatever crashes, is redelivered, times out or is replayed.
THEOREM NoDoubleCharge == Spec => []OneChargePerGeneration
<1>1. Init => IInv /\ MoneyInv BY InitIInv, InitMoney
<1>2. (IInv /\ MoneyInv) /\ [Next]_vars => (IInv /\ MoneyInv)'
  BY NextIInv, NextMoney
<1> QED BY <1>1, <1>2, ChargedOncePerGeneration, PTL DEF Spec

-------------------------------------------------------------------------------
(* The customer's retries.                                                 *)

\* A generation that announced its retryable failure had every charge
\* refused.
RefusedGenerations ==
    \A g \in Generations, n \in Numbers :
        FailedEvent(g, TRUE) \in outbox => provider[<<g, n>>].truth = Refusal

\* Every generation that the customer retried announced such a failure, and
\* so did the current one if the customer may retry it.
RetriedAnnounced ==
    /\ \A h \in Generations : h < generation => FailedEvent(h, TRUE) \in outbox
    /\ status = "FAILED" /\ failureRetryable
         => FailedEvent(generation, TRUE) \in outbox

\* No attempt is made ahead of the current generation.
NoneAhead ==
    /\ \A a \in AttemptKeys : attempts[a] # "NONE" => a[1] <= generation
    /\ \A g \in Generations : wf[g].phase = "ensuring" => g <= generation

RetryInv == RefusedGenerations /\ RetriedAnnounced /\ NoneAhead

\* What a step does to the generation, and to the rows that hang on it.
GenerationMoves ==
    \/ UNCHANGED generation
    \/ RetryForUser
DecisionMoves ==
    \/ UNCHANGED <<status, failureRetryable, outbox>>
    \/ status' = "PENDING" /\ UNCHANGED outbox
    \/ RetryForUser
    \/ ExpirePending
    \/ \E t \in txs : ApplySuccess(t) \/ ApplyFailure(t)
AttemptMoves ==
    /\ \A a \in AttemptKeys :
         attempts[a] = "NONE" /\ attempts'[a] # "NONE" =>
             \E g \in Generations : wf[g].phase = "ensuring" /\ a[1] = g
    /\ \A g \in Generations :
         wf'[g].phase = "ensuring" =>
             wf[g].phase = "ensuring" \/ generation = g
RetryMoves == GenerationMoves /\ DecisionMoves /\ AttemptMoves

LEMMA ApplyRetryMoves ==
    ASSUME IInv, NEW t \in txs, Apply(t)
    PROVE  RetryMoves
<1>0. TypeOK /\ TxSound BY DEF IInv
<1>1. PICK phase \in {"done", "failed", "reload"} :
        /\ UNCHANGED generation
        /\ wf' = IF t.process \in Generations
                 THEN [wf EXCEPT ![t.process].phase = phase] ELSE wf
        /\ attempts' = attempts
           \/ attempts' = [attempts EXCEPT ![t.id[1]] = t.outcome.kind]
  BY ApplyShape
<1>2. DecisionMoves
  <2>1. CASE ApplyKnown(t) \/ ApplyToCompleted(t) \/ ApplyToDecided(t)
             \/ ApplyRefused(t)
    BY <2>1 DEF ApplyKnown, ApplyToCompleted, ApplyToDecided, ApplyRefused,
                DecisionMoves
  <2>2. CASE ApplyExpiry(t) BY <2>2 DEF ApplyExpiry, DecisionMoves
  <2>3. CASE ApplyRetry(t)
    <3>1. UNCHANGED <<status, outbox>> BY <2>3 DEF ApplyRetry
    <3>2. CASE status = "PENDING" BY <3>1, <3>2 DEF DecisionMoves
    <3>3. CASE status # "PENDING"
      BY <2>3, <3>1, <3>3 DEF ApplyRetry, DecisionMoves
    <3> QED BY <3>2, <3>3
  <2>4. CASE ApplySuccess(t) \/ ApplyFailure(t) BY <2>4 DEF DecisionMoves
  <2> QED BY <2>1, <2>2, <2>3, <2>4 DEF Apply
<1>3. AttemptMoves
  <2>1. t.id[1] \in AttemptKeys BY <1>0, TxFields
  <2>2. attempts[t.id[1]] # "NONE"
    BY <1>0, <2>1 DEF IInv, AttemptExists, TxSound
  <2>3. \A a \in AttemptKeys : attempts[a] = "NONE" => attempts'[a] = "NONE"
    BY <1>0, <1>1, <2>1, <2>2 DEF TypeOK
  <2>4. \A g \in Generations : wf'[g].phase = "ensuring" => wf[g].phase = "ensuring"
    BY <1>0, <1>1 DEF TypeOK
  <2> QED BY <2>3, <2>4 DEF AttemptMoves
<1> QED BY <1>1, <1>2, <1>3 DEF RetryMoves, GenerationMoves

LEMMA NextRetryMoves == IInv /\ Next => RetryMoves
<1> SUFFICES ASSUME IInv, Next PROVE RetryMoves OBVIOUS
<1>0. TypeOK BY DEF IInv
<1> USE DEF RetryMoves, GenerationMoves, DecisionMoves, AttemptMoves
<1>1. CASE HandleOrderPlaced BY <1>1 DEF HandleOrderPlaced
<1>2. CASE RedeliverOrderPlaced BY <1>2 DEF RedeliverOrderPlaced, rows
<1>3. CASE ExpiryPasses BY <1>3 DEF ExpiryPasses, rows
<1>4. CASE RetryForUser
  <2>1. UNCHANGED <<attempts, wf>> BY <1>4 DEF RetryForUser
  <2> QED BY <1>4, <2>1
<1>5. ASSUME NEW g \in Generations, Start(g) PROVE RetryMoves
  BY <1>0, <1>5 DEF Start, rows, TypeOK
<1>6. ASSUME NEW g \in Generations, WorkflowStep(g) PROVE RetryMoves
  <2>1. CASE Load(g) BY <1>0, <2>1 DEF Load, GoTo, MoveTo, rows, TypeOK
  <2>2. CASE ExpireIfDue(g)
    <3>1. ExpirePending \/ UNCHANGED <<status, failureRetryable, outbox>>
      BY <2>2 DEF ExpireIfDue
    <3>2. UNCHANGED <<generation, attempts>> BY <2>2 DEF ExpireIfDue
    <3>3. \A h \in Generations :
            wf'[h].phase = "ensuring" => wf[h].phase = "ensuring"
      BY <1>0, <2>2 DEF ExpireIfDue, GoTo, MoveTo, TypeOK
    <3> QED BY <3>1, <3>2, <3>3
  <2>3. CASE EnsureRead(g) BY <1>0, <2>3 DEF EnsureRead, GoTo, MoveTo, rows, TypeOK
  <2>4. CASE EnsureWrite(g)
    <3>1. UNCHANGED <<status, generation, failureRetryable, outbox>>
      BY <2>4 DEF EnsureWrite
    <3>2. \A h \in Generations :
            wf'[h].phase = "ensuring" => wf[h].phase = "ensuring"
      BY <1>0, <2>4 DEF EnsureWrite, GoTo, MoveTo, TypeOK
    <3>3. \A a \in AttemptKeys :
            attempts[a] = "NONE" /\ attempts'[a] # "NONE"
              => a = <<g, wf[g].number>>
      BY <1>0, <2>4 DEF EnsureWrite, TypeOK
    <3>4. wf[g].phase = "ensuring" BY <2>4 DEF EnsureWrite
    <3> QED BY <3>1, <3>2, <3>3, <3>4
  <2>5. CASE CheckExpiry(g)
    <3>1. ExpirePending \/ UNCHANGED <<status, failureRetryable, outbox>>
      BY <2>5 DEF CheckExpiry
    <3>2. UNCHANGED <<generation, attempts>> BY <2>5 DEF CheckExpiry
    <3>3. \A h \in Generations :
            wf'[h].phase = "ensuring" => wf[h].phase = "ensuring"
      BY <1>0, <2>5 DEF CheckExpiry, GoTo, MoveTo, TypeOK
    <3> QED BY <3>1, <3>2, <3>3
  <2>6. CASE Charge(g) BY <1>0, <2>6 DEF Charge, GoTo, MoveTo, rows, TypeOK
  <2>7. CASE BeginApply(g) BY <1>0, <2>7 DEF BeginApply, GoTo, MoveTo, rows, TypeOK
  <2>8. CASE Reload(g) BY <1>0, <2>8 DEF Reload, GoTo, MoveTo, rows, TypeOK
  <2>9. ASSUME NEW t \in txs, t.process = g, Apply(t) PROVE RetryMoves
    BY <2>9, ApplyRetryMoves
  <2> QED BY <1>6, <2>1, <2>2, <2>3, <2>4, <2>5, <2>6, <2>7, <2>8, <2>9
          DEF WorkflowStep
<1>7. ASSUME NEW g \in Generations, StepThrows(g) PROVE RetryMoves
  BY <1>0, <1>7 DEF StepThrows, GoTo, MoveTo, rows, TypeOK
<1>8. ASSUME NEW c \in Callers, CallbackStep(c) PROVE RetryMoves
  <2>1. CASE ReceiveCallback(c) BY <2>1 DEF ReceiveCallback, rows
  <2> QED BY <1>8, <2>1, ApplyRetryMoves DEF CallbackStep
<1>9. CASE Crash
  <2>1. UNCHANGED <<generation, status, failureRetryable, outbox, attempts>>
    BY <1>9 DEF Crash, rows
  <2>2. \A g \in Generations : wf'[g].phase # "ensuring"
    BY <1>9, CrashRuns DEF NotStarted, MidStep
  <2> QED BY <2>1, <2>2
<1> QED BY <1>1, <1>2, <1>3, <1>4, <1>5, <1>6, <1>7, <1>8, <1>9 DEF Next

LEMMA InitRetry == Init => RetryInv
<1> SUFFICES ASSUME Init PROVE RetryInv OBVIOUS
<1>1. \A a \in AttemptKeys : attempts[a] = "NONE" BY DEF Init
<1>2. \A g \in Generations : wf[g].phase = "idle" BY DEF Init, NotStarted
<1>3. \A h \in Generations : ~(h < 1) BY DEF Generations
<1>4. outbox = {} /\ generation = 1 /\ status = "ABSENT" BY DEF Init
<1> QED BY <1>1, <1>2, <1>3, <1>4
        DEF RetryInv, RefusedGenerations, RetriedAnnounced, NoneAhead

\* The outcome of an older generation is refused by its own announcement, so
\* a failure that commits is the current generation's; if it may be retried,
\* it is that of the last attempt, after refusals only.
LEMMA FailureIsCurrent ==
    ASSUME IInv, MoneyInv, RetryInv, NEW t \in txs, ApplyFailure(t)
    PROVE  /\ Announcement(t) = FailedEvent(generation, t.outcome.retryable)
           /\ t.outcome.retryable =>
                \A n \in Numbers : provider[<<generation, n>>].truth = Refusal
<1>0. TypeOK /\ TxSound BY DEF IInv
<1>1. /\ t.id[1] \in AttemptKeys
      /\ t.outcome \in Outcomes
      /\ t.outcome.kind = "FAILED"
      /\ ~RetriesLeft(t)
      /\ ~Refused(Announcement(t))
  BY <1>0, TxFields DEF ApplyFailure, FinalFailure
<1>2. PICK h \in Generations, k \in Numbers : t.id[1] = <<h, k>>
  BY <1>1 DEF AttemptKeys
<1>3. Announcement(t) = FailedEvent(h, t.outcome.retryable)
  BY <1>1, <1>2 DEF Announcement
<1>4. provider[<<h, k>>] # NoAnswer /\ attempts[<<h, k>>] # "NONE"
  BY <1>0, <1>1, <1>2 DEF TxSound, IInv, AttemptExists
<1>5. h <= generation BY <1>1, <1>2, <1>4 DEF RetryInv, NoneAhead
<1>6. h = generation
  <2>1. SUFFICES ASSUME h < generation PROVE FALSE
    BY <1>0, <1>5 DEF TypeOK, Generations
  <2>2. FailedEvent(h, TRUE) \in outbox BY <2>1 DEF RetryInv, RetriedAnnounced
  <2>3. SameIdentity(Announcement(t), FailedEvent(h, TRUE))
    BY <1>3 DEF SameIdentity, FailedEvent
  <2> QED BY <1>1, <2>2, <2>3 DEF Refused
<1>7. ASSUME t.outcome.retryable, NEW n \in Numbers
      PROVE  provider[<<h, n>>].truth = Refusal
  <2>1. k = MaxAttempts
    BY <1>1, <1>2, <1>7, PaymentAssumption DEF RetriesLeft, Numbers
  <2>2. t.outcome = Refusal BY <1>1, <1>7 DEF Outcomes, Refusal
  <2>3. provider[<<h, k>>].truth = Refusal
    <3>1. t.outcome \in {provider[<<h, k>>].response, provider[<<h, k>>].truth}
      BY <1>0, <1>2 DEF TxSound
    <3> QED BY <1>0, <1>1, <1>2, <1>4, <2>2, <3>1, AnswerTyped DEF Refusal
  <2>4. n = k \/ n \in 1..(k - 1)
    BY <2>1, PaymentAssumption DEF Numbers
  <2>5. n \in 1..(k - 1) => provider[<<h, n>>].truth = Refusal
    BY <1>4 DEF MoneyInv, RetryOnlyAfterRefusal, Refusal
  <2> QED BY <2>3, <2>4, <2>5
<1> QED BY <1>3, <1>6, <1>7

LEMMA NextRetry == IInv /\ MoneyInv /\ RetryInv /\ [Next]_vars => RetryInv'
<1> SUFFICES ASSUME IInv, MoneyInv, RetryInv, [Next]_vars PROVE RetryInv'
  OBVIOUS
<1>0. TypeOK BY DEF IInv
<1>1. CASE UNCHANGED vars
  BY <1>1 DEF vars, RetryInv, RefusedGenerations, RetriedAnnounced, NoneAhead
<1>2. CASE Next
  <2>1. RefusalsStay /\ GenerationMoves /\ DecisionMoves /\ AttemptMoves
    BY <1>2, NextMoves, NextRetryMoves DEF Moves, RetryMoves
  <2>2. generation \in Nat /\ generation' \in {generation, generation + 1}
    BY <1>0, <2>1, PaymentAssumption
    DEF GenerationMoves, RetryForUser, NextGeneration, TypeOK, Generations
  <2>3. \A g \in Generations, n \in Numbers : <<g, n>> \in AttemptKeys
    BY DEF AttemptKeys
  <2>4. NoneAhead'
    <3>1. ASSUME NEW a \in AttemptKeys, attempts'[a] # "NONE"
          PROVE  a[1] <= generation'
      <4>1. a[1] \in Nat BY DEF AttemptKeys, Generations
      <4>2. a[1] <= generation
        BY <2>1, <3>1 DEF AttemptMoves, RetryInv, NoneAhead
      <4> QED BY <2>2, <4>1, <4>2
    <3>2. ASSUME NEW g \in Generations, wf'[g].phase = "ensuring"
          PROVE  g <= generation'
      <4>1. g \in Nat BY DEF Generations
      <4>2. g <= generation
        BY <2>1, <2>2, <3>2 DEF AttemptMoves, RetryInv, NoneAhead
      <4> QED BY <2>2, <4>1, <4>2
    <3> QED BY <3>1, <3>2 DEF NoneAhead
  <2>5. outbox \subseteq outbox'
    BY <2>1 DEF DecisionMoves, RetryForUser, ExpirePending, ApplySuccess,
                ApplyFailure
  <2>6. \A h \in Generations : h < generation' => FailedEvent(h, TRUE) \in outbox'
    <3> SUFFICES ASSUME NEW h \in Generations, h < generation'
                 PROVE  FailedEvent(h, TRUE) \in outbox
      BY <2>5
    <3>1. CASE h < generation BY <3>1 DEF RetryInv, RetriedAnnounced
    <3>2. CASE ~(h < generation)
      <4>1. h = generation BY <2>2, <3>2 DEF Generations
      <4>2. RetryForUser BY <2>1, <3>2 DEF GenerationMoves
      <4> QED BY <4>1, <4>2 DEF RetryForUser, RetryInv, RetriedAnnounced
    <3> QED BY <3>1, <3>2
  <2>7. \A g \in Generations :
          FailedEvent(g, TRUE) \in outbox' =>
              \/ FailedEvent(g, TRUE) \in outbox
              \/ g = generation /\ \A n \in Numbers :
                   provider[<<generation, n>>].truth = Refusal
    <3> SUFFICES ASSUME NEW g \in Generations, FailedEvent(g, TRUE) \in outbox',
                        FailedEvent(g, TRUE) \notin outbox
                 PROVE  g = generation /\ \A n \in Numbers :
                          provider[<<generation, n>>].truth = Refusal
      OBVIOUS
    <3>1. \A t \in txs : ApplySuccess(t) =>
            outbox' = outbox \cup {SucceededEvent(t.id[1])}
      BY DEF ApplySuccess, Announcement
    <3>2. PICK t \in txs : ApplyFailure(t)
      BY <2>1, <3>1, EventTypes DEF DecisionMoves, RetryForUser, ExpirePending
    <3>3. FailedEvent(g, TRUE) = FailedEvent(generation, t.outcome.retryable)
      BY <3>2, FailureIsCurrent DEF ApplyFailure
    <3>4. g = generation /\ t.outcome.retryable = TRUE BY <3>3 DEF FailedEvent
    <3> QED BY <3>2, <3>4, FailureIsCurrent
  <2>8. RefusedGenerations'
    BY <2>1, <2>3, <2>7 DEF RefusalsStay, RetryInv, RefusedGenerations
  <2>9. ASSUME status' = "FAILED", failureRetryable'
        PROVE  FailedEvent(generation', TRUE) \in outbox'
    <3>1. CASE RetryForUser BY <2>9, <3>1 DEF RetryForUser
    <3>2. CASE generation' = generation
               /\ UNCHANGED <<status, failureRetryable, outbox>>
      BY <2>9, <3>2 DEF RetryInv, RetriedAnnounced
    <3>3. CASE generation' = generation /\ ExpirePending
      BY <2>5, <2>9, <3>3 DEF ExpirePending, RetryInv, RetriedAnnounced
    <3>4. ASSUME generation' = generation, NEW t \in txs, ApplySuccess(t)
          PROVE  FailedEvent(generation', TRUE) \in outbox'
      BY <2>5, <2>9, <3>4 DEF ApplySuccess, RetryInv, RetriedAnnounced
    <3>5. ASSUME generation' = generation, NEW t \in txs, ApplyFailure(t)
          PROVE  FailedEvent(generation', TRUE) \in outbox'
      <4>1. CASE status = "PENDING"
        <5>1. t.outcome.retryable = TRUE
          <6>1. t.outcome.retryable \in BOOLEAN
            BY <1>0, TxFields DEF Outcomes
          <6> QED BY <2>9, <3>5, <4>1, <6>1 DEF ApplyFailure
        <5>2. Announcement(t) \in outbox' BY <3>5 DEF ApplyFailure
        <5> QED BY <3>5, <5>1, <5>2, FailureIsCurrent
      <4>2. CASE status # "PENDING"
        BY <2>5, <2>9, <3>5, <4>2 DEF ApplyFailure, RetryInv, RetriedAnnounced
      <4> QED BY <4>1, <4>2
    <3> QED BY <2>1, <2>9, <3>1, <3>2, <3>3, <3>4, <3>5
            DEF GenerationMoves, DecisionMoves
  <2> QED BY <2>4, <2>6, <2>8, <2>9 DEF RetryInv, RetriedAnnounced
<1> QED BY <1>1, <1>2

\* All attempts of all generations together take the customer's money at most
\* once, however late the callbacks of older generations commit.
THEOREM MoneyTakenOnce == Spec => []OneCharge
<1>1. Init => IInv /\ MoneyInv /\ RetryInv BY InitIInv, InitMoney, InitRetry
<1>2. (IInv /\ MoneyInv /\ RetryInv) /\ [Next]_vars
        => (IInv /\ MoneyInv /\ RetryInv)'
  BY NextIInv, NextMoney, NextRetry
<1>3. IInv /\ MoneyInv /\ RetryInv => OneCharge
  <2> SUFFICES ASSUME IInv, MoneyInv, RetryInv,
                      NEW a \in AttemptKeys, NEW b \in AttemptKeys,
                      provider[a].truth.kind = "SUCCEEDED",
                      provider[b].truth.kind = "SUCCEEDED"
               PROVE  a = b
    BY DEF OneCharge
  <2>0. TypeOK BY DEF IInv
  <2>1. ASSUME NEW c \in AttemptKeys, provider[c].truth.kind = "SUCCEEDED"
        PROVE  c[1] = generation
    <3>1. c[1] \in Generations /\ c[2] \in Numbers /\ c = <<c[1], c[2]>>
      BY DEF AttemptKeys
    <3>2. provider[c] # NoAnswer BY <2>1 DEF NoAnswer, NoOutcome
    <3>3. c[1] <= generation
      BY <3>2 DEF IInv, AttemptExists, RetryInv, NoneAhead
    <3>4. c[1] < generation => provider[<<c[1], c[2]>>].truth = Refusal
      BY <3>1 DEF RetryInv, RetriedAnnounced, RefusedGenerations
    <3>5. ~(c[1] < generation) BY <2>1, <3>1, <3>4 DEF Refusal
    <3> QED BY <2>0, <3>1, <3>3, <3>5 DEF TypeOK, Generations
  <2>2. a[1] = b[1] BY <2>1
  <2>3. a = <<a[1], a[2]>> /\ b = <<b[1], b[2]>>
        /\ a[1] \in Generations /\ a[2] \in Numbers /\ b[2] \in Numbers
    BY DEF AttemptKeys
  <2>4. a[2] = b[2]
    BY <2>2, <2>3, ChargedOncePerGeneration DEF OneChargePerGeneration
  <2> QED BY <2>2, <2>3, <2>4
<1> QED BY <1>1, <1>2, <1>3, PTL DEF Spec

-------------------------------------------------------------------------------
(* The attempts and their callbacks.                                       *)

Completed == {"SUCCEEDED", "FAILED", "TIMED_OUT"}

\* A transaction that saw its attempt completed still finds it so.
SeenCompleted ==
    \A t \in txs : t.seenAttempt # "PENDING" => attempts[t.id[1]] \in Completed

CallbackInv == AttemptReflectsCallback /\ SeenCompleted

\* What a step does to the attempts and callbacks, and what a transaction it
\* opens has seen.
AttemptStarts ==
    /\ UNCHANGED callbacks
    /\ \A a \in AttemptKeys :
         \/ attempts'[a] = attempts[a]
         \/ attempts[a] = "NONE" /\ attempts'[a] = "PENDING"
CallbackMoves ==
    /\ \/ AttemptStarts
       \/ \E t \in txs : RecordAttempt(t) \/ ApplyToCompleted(t)
    /\ \A u \in txs' :
         \/ u \in txs
         \/ /\ UNCHANGED attempts
            /\ u.seenAttempt = attempts[u.id[1]]
            /\ attempts[u.id[1]] # "NONE"
            /\ u.id[1] \in AttemptKeys

LEMMA NextCallbackMoves == IInv /\ Next => CallbackMoves
<1> SUFFICES ASSUME IInv, Next PROVE CallbackMoves OBVIOUS
<1>0. TypeOK BY DEF IInv
<1> USE DEF CallbackMoves, AttemptStarts
<1>a. ASSUME UNCHANGED <<callbacks, attempts>>, txs' \subseteq txs
      PROVE  CallbackMoves
  BY <1>a
<1>b. ASSUME NEW t \in txs, Apply(t) PROVE CallbackMoves
  <2>1. txs' \subseteq txs BY <1>b, ApplyShape
  <2>2. CASE ApplyKnown(t) \/ ApplyRefused(t)
    BY <1>a, <2>1, <2>2 DEF ApplyKnown, ApplyRefused
  <2>3. CASE RecordAttempt(t) \/ ApplyToCompleted(t) BY <2>1, <2>3
  <2> QED BY <1>b, <2>2, <2>3
          DEF Apply, ApplyToDecided, ApplyExpiry, ApplySuccess, ApplyRetry,
              ApplyFailure
<1>c. ASSUME NEW p, NEW id, NEW o, id[1] \in AttemptKeys,
             attempts[id[1]] # "NONE", UNCHANGED <<callbacks, attempts>>,
             txs' = txs \cup {Snapshot(p, id, o)}
      PROVE  CallbackMoves
  BY <1>c DEF Snapshot
<1>1. CASE HandleOrderPlaced BY <1>1, <1>a DEF HandleOrderPlaced
<1>2. CASE RedeliverOrderPlaced BY <1>2, <1>a DEF RedeliverOrderPlaced, rows
<1>3. CASE ExpiryPasses BY <1>3, <1>a DEF ExpiryPasses, rows
<1>4. CASE RetryForUser BY <1>4, <1>a DEF RetryForUser
<1>5. ASSUME NEW g \in Generations, Start(g) PROVE CallbackMoves
  BY <1>5, <1>a DEF Start, rows
<1>6. ASSUME NEW g \in Generations, WorkflowStep(g) PROVE CallbackMoves
  <2>1. CASE Load(g) \/ ExpireIfDue(g) \/ EnsureRead(g) \/ CheckExpiry(g)
             \/ Charge(g) \/ Reload(g)
    BY <1>a, <2>1 DEF Load, ExpireIfDue, EnsureRead, CheckExpiry, Charge,
                      Reload, rows
  <2>2. CASE EnsureWrite(g) BY <1>0, <2>2 DEF EnsureWrite, TypeOK
  <2>3. CASE BeginApply(g)
    <3>1. <<g, wf[g].number>> \in AttemptKeys BY <1>0, RunFields
    <3>2. attempts[<<g, wf[g].number>>] # "NONE"
      BY <2>3 DEF BeginApply, IInv, AttemptExists
    <3>3. UNCHANGED <<callbacks, attempts>>
          /\ txs' = txs \cup {Snapshot(g, <<<<g, wf[g].number>>, "charge">>,
                                      provider[<<g, wf[g].number>>].response)}
      BY <2>3 DEF BeginApply, rows
    <3> QED BY <1>c, <3>1, <3>2, <3>3
  <2>4. ASSUME NEW t \in txs, t.process = g, Apply(t) PROVE CallbackMoves
    BY <2>4, <1>b
  <2> QED BY <1>6, <2>1, <2>2, <2>3, <2>4 DEF WorkflowStep
<1>7. ASSUME NEW g \in Generations, StepThrows(g) PROVE CallbackMoves
  BY <1>7, <1>a DEF StepThrows, rows
<1>8. ASSUME NEW c \in Callers, CallbackStep(c) PROVE CallbackMoves
  <2>1. CASE ReceiveCallback(c)
    <3>1. PICK a \in AttemptKeys, tag \in {"charge", "report"} :
            /\ provider[a] # NoAnswer
            /\ \E o \in {provider[a].response, provider[a].truth} :
                 txs' = txs \cup {Snapshot(c, <<a, tag>>, o)}
      BY <2>1 DEF ReceiveCallback
    <3>2. attempts[a] # "NONE" BY <3>1 DEF IInv, AttemptExists
    <3>3. UNCHANGED <<callbacks, attempts>> BY <2>1 DEF ReceiveCallback, rows
    <3> QED BY <1>c, <3>1, <3>2, <3>3
  <2> QED BY <1>8, <1>b, <2>1 DEF CallbackStep
<1>9. CASE Crash BY <1>9, <1>a DEF Crash, rows
<1> QED BY <1>1, <1>2, <1>3, <1>4, <1>5, <1>6, <1>7, <1>8, <1>9 DEF Next

\* The property, one callback at a time.
Reflects(a) ==
    /\ attempts[a] \in {"NONE", "PENDING"} => \A r \in callbacks : r.id[1] # a
    /\ attempts[a] \notin {"NONE", "PENDING"} =>
         \E r \in callbacks : r.id[1] = a /\ r.outcome.kind = attempts[a]

\* The same fact before and after a step.
LEMMA ReflectsEach ==
    /\ AttemptReflectsCallback <=> \A a \in AttemptKeys : Reflects(a)
    /\ AttemptReflectsCallback' <=> \A a \in AttemptKeys : Reflects(a)'
<1>1. ASSUME NEW a \in AttemptKeys
      PROVE  (LET kinds == {r.outcome.kind : r \in {x \in callbacks : x.id[1] = a}}
              IN IF attempts[a] \in {"NONE", "PENDING"} THEN kinds = {}
                 ELSE attempts[a] \in kinds) <=> Reflects(a)
  <2> DEFINE kinds == {r.outcome.kind : r \in {x \in callbacks : x.id[1] = a}}
  <2>1. kinds = {} <=> \A r \in callbacks : r.id[1] # a OBVIOUS
  <2>2. attempts[a] \in kinds <=>
          \E r \in callbacks : r.id[1] = a /\ r.outcome.kind = attempts[a]
    OBVIOUS
  <2> HIDE DEF kinds
  <2>3. (IF attempts[a] \in {"NONE", "PENDING"} THEN kinds = {}
         ELSE attempts[a] \in kinds) <=> Reflects(a)
    BY <2>1, <2>2 DEF Reflects
  <2> QED BY <2>3 DEF kinds
<1>2. ASSUME NEW a \in AttemptKeys
      PROVE  (LET kinds == {r.outcome.kind : r \in {x \in callbacks' : x.id[1] = a}}
              IN IF attempts'[a] \in {"NONE", "PENDING"} THEN kinds = {}
                 ELSE attempts'[a] \in kinds) <=> Reflects(a)'
  <2> DEFINE kinds == {r.outcome.kind : r \in {x \in callbacks' : x.id[1] = a}}
  <2>1. kinds = {} <=> \A r \in callbacks' : r.id[1] # a OBVIOUS
  <2>2. attempts'[a] \in kinds <=>
          \E r \in callbacks' : r.id[1] = a /\ r.outcome.kind = attempts'[a]
    OBVIOUS
  <2> HIDE DEF kinds
  <2>3. (IF attempts'[a] \in {"NONE", "PENDING"} THEN kinds = {}
         ELSE attempts'[a] \in kinds) <=> Reflects(a)'
    BY <2>1, <2>2 DEF Reflects
  <2> QED BY <2>3 DEF kinds
<1>3. AttemptReflectsCallback <=> \A a \in AttemptKeys : Reflects(a)
  BY <1>1 DEF AttemptReflectsCallback
<1>4. AttemptReflectsCallback' <=> \A a \in AttemptKeys : Reflects(a)'
  BY <1>2 DEF AttemptReflectsCallback
<1> QED BY <1>3, <1>4

LEMMA InitCallback == Init => CallbackInv
<1> SUFFICES ASSUME Init PROVE CallbackInv OBVIOUS
<1>1. \A a \in AttemptKeys : Reflects(a) BY DEF Init, Reflects
<1> QED BY <1>1, ReflectsEach DEF Init, CallbackInv, SeenCompleted

LEMMA NextCallback == IInv /\ CallbackInv /\ [Next]_vars => CallbackInv'
<1> SUFFICES ASSUME IInv, CallbackInv, [Next]_vars PROVE CallbackInv' OBVIOUS
<1>0. TypeOK BY DEF IInv
<1>1. CASE UNCHANGED vars
  BY <1>1 DEF vars, CallbackInv, AttemptReflectsCallback, SeenCompleted
<1>2. CASE Next
  <2>1. CallbackMoves BY <1>2, NextCallbackMoves
  <2>2. \A a \in AttemptKeys : Reflects(a) BY ReflectsEach DEF CallbackInv
  <2>3. \A a \in AttemptKeys :
          attempts[a] \in {"NONE", "PENDING", "SUCCEEDED", "FAILED", "TIMED_OUT"}
    BY <1>0 DEF TypeOK
  <2>4. /\ \A a \in AttemptKeys : Reflects(a)'
        /\ \A a \in AttemptKeys :
             attempts[a] \in Completed => attempts'[a] \in Completed
    <3>1. CASE AttemptStarts
      BY <2>2, <2>3, <3>1 DEF AttemptStarts, Reflects, Completed
    <3>2. ASSUME NEW t \in txs, RecordAttempt(t)
          PROVE  /\ \A a \in AttemptKeys : Reflects(a)'
                 /\ \A a \in AttemptKeys :
                      attempts[a] \in Completed => attempts'[a] \in Completed
      <4> DEFINE row == [id |-> t.id, outcome |-> t.outcome, late |-> t.late]
      <4>1. /\ t.id[1] \in AttemptKeys
            /\ t.outcome.kind \in Completed
        BY <1>0, TxFields DEF Outcomes, Completed
      <4>2. /\ callbacks' = callbacks \cup {row}
            /\ attempts' = [attempts EXCEPT ![t.id[1]] = t.outcome.kind]
        BY <3>2 DEF RecordAttempt, RecordCallback
      <4>3. row.id = t.id /\ row.outcome = t.outcome OBVIOUS
      <4> HIDE DEF row
      <4>4. ASSUME NEW a \in AttemptKeys, a # t.id[1] PROVE Reflects(a)'
        BY <1>0, <2>2, <4>1, <4>2, <4>3, <4>4 DEF Reflects, TypeOK
      <4>5. attempts'[t.id[1]] = t.outcome.kind
        BY <1>0, <4>1, <4>2 DEF TypeOK
      <4>6. Reflects(t.id[1])'
        BY <4>1, <4>2, <4>3, <4>5 DEF Reflects, Completed
      <4>7. \A a \in AttemptKeys : a # t.id[1] => attempts'[a] = attempts[a]
        BY <1>0, <4>1, <4>2 DEF TypeOK
      <4> QED BY <4>1, <4>4, <4>5, <4>6, <4>7
    <3>3. ASSUME NEW t \in txs, ApplyToCompleted(t)
          PROVE  /\ \A a \in AttemptKeys : Reflects(a)'
                 /\ \A a \in AttemptKeys :
                      attempts[a] \in Completed => attempts'[a] \in Completed
      <4> DEFINE row == [id |-> t.id, outcome |-> t.outcome, late |-> t.late]
      <4>1. attempts[t.id[1]] \in Completed
        BY <3>3 DEF ApplyToCompleted, CallbackInv, SeenCompleted
      <4>2. callbacks' = callbacks \cup {row} /\ attempts' = attempts
        BY <3>3 DEF ApplyToCompleted, RecordCallback
      <4>3. row.id = t.id OBVIOUS
      <4> HIDE DEF row
      <4> QED BY <2>2, <4>1, <4>2, <4>3 DEF Reflects, Completed
    <3> QED BY <2>1, <3>1, <3>2, <3>3 DEF CallbackMoves
  <2>5. SeenCompleted'
    <3> SUFFICES ASSUME NEW u \in txs', u.seenAttempt # "PENDING"
                 PROVE  attempts'[u.id[1]] \in Completed
      BY DEF SeenCompleted
    <3>1. CASE u \in txs
      <4>1. u.id[1] \in AttemptKeys BY <1>0, <3>1, TxFields
      <4> QED BY <2>4, <3>1, <4>1 DEF CallbackInv, SeenCompleted
    <3>2. CASE u \notin txs
      BY <2>1, <2>3, <3>2 DEF CallbackMoves, Completed
    <3> QED BY <3>1, <3>2
  <2>6. AttemptReflectsCallback' BY <2>4, ReflectsEach
  <2> QED BY <2>5, <2>6 DEF CallbackInv
<1> QED BY <1>1, <1>2

\* The attempt rows and the callback rows tell the same story: an attempt is
\* completed exactly by an outcome that is stored as a callback of it
\* (applyProviderOutcome writes both in one transaction).
THEOREM AttemptsAndCallbacksAgree == Spec => []AttemptReflectsCallback
<1>1. Init => IInv /\ CallbackInv BY InitIInv, InitCallback
<1>2. (IInv /\ CallbackInv) /\ [Next]_vars => (IInv /\ CallbackInv)'
  BY NextIInv, NextCallback
<1>3. CallbackInv => AttemptReflectsCallback BY DEF CallbackInv
<1> QED BY <1>1, <1>2, <1>3, PTL DEF Spec
=============================================================================
