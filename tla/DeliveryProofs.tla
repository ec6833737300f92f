----------------------------- MODULE DeliveryProofs -----------------------------
(***************************************************************************)
(* Proofs about Delivery for any number of replicas, generations, attempts, *)
(* callback identities, throwing steps and crashes, in both runtimes.       *)
(*                                                                         *)
(* A transaction of an old run may commit at any time.  It does no harm,    *)
(* because what it decides is what the provider answered for its attempt,   *)
(* and the answers of a generation that is over say that nothing arrived:   *)
(* a generation goes on to its next attempt only after a retryable refusal  *)
(* (Retried), and is over only after a final one.                           *)
(***************************************************************************)
EXTENDS Delivery, TLAPS

Retried(k) ==
    provider[k].kind = "FAILED" /\ provider[k].retryable /\ k[2] < MaxAttempts
Final(k) ==
    \/ provider[k].kind = "SUCCEEDED"
    \/ provider[k].kind = "FAILED" /\ (~provider[k].retryable \/ k[2] = MaxAttempts)

\* Generation g is over or decided.
Closed(g) == g < generation \/ status \in Terminal
Begun == status \notin {"ABSENT", "REQUESTED"}

\* The message has at most one start that awaits a run, and then no run yet.
MessageInv ==
    /\ ready.state = "queued" => ready.deliveries < MaxDeliveries
    /\ ready.state = "handled" => ready.deliveries <= MaxDeliveries
    /\ ready.state # "handled" => ready.run = NoRun
    /\ \A s \in starting : s.awaited => ready.state = "handled" /\ ready.run = NoRun
    /\ \A s, t \in starting : s.awaited /\ t.awaited => s = t

\* Runs and starts belong to generations that were opened, and a run has only
\* retried attempts behind it.
RunSound(r) ==
    /\ wf[r].phase # "idle" => r[2] <= generation /\ Begun
    /\ \A m \in Numbers : m < wf[r].number => Retried(<<r[2], m>>)
    /\ wf[r].phase \in {"deliver", "apply", "applying", "reload"} =>
         attempts[Key(r)] # "NONE"
    /\ wf[r].phase \in {"apply", "applying"} => provider[Key(r)] # NoAnswer
    /\ wf[r].phase \in {"apply", "applying"} => wf[r].tag \in Tags
    /\ wf[r].phase = "reload" => Retried(Key(r))
    /\ wf[r].phase = "done" => Closed(r[2])

\* What a transaction read is still so, where it was final.
SeenSound(r) ==
    wf[r].phase = "applying" =>
        /\ wf[r].seenStatus \in {"READY", "DELIVERED", "FAILED"}
        /\ wf[r].seenStatus = "DELIVERED" => status = "DELIVERED"
        /\ wf[r].seenStatus = "FAILED" => FailedEvent(r) \in outbox
        /\ wf[r].seenAttempt # "NONE"
        /\ wf[r].seenAttempt # "PENDING" => attempts[Key(r)] = wf[r].seenAttempt

RunInv ==
    /\ \A s \in starting : s.generation <= generation /\ Begun
    /\ \A r \in Runs : RunSound(r)

SeenInv == \A r \in Runs : SeenSound(r)

\* The provider is asked in the order of attempts, a completed attempt has its
\* answer, and a final answer that was recorded closed the generation.
AttemptInv ==
    /\ \A k \in AttemptKeys : provider[k] # NoAnswer =>
         /\ k[1] <= generation
         /\ \A m \in Numbers : m < k[2] => Retried(<<k[1], m>>)
    /\ \A k \in AttemptKeys : attempts[k] \in {"SUCCEEDED", "FAILED"} =>
         /\ attempts[k] = provider[k].kind
         /\ Final(k) => Closed(k[1])
    /\ \A c \in callbacks : /\ c.outcome = provider[c.id[1]]
                            /\ attempts[c.id[1]] \in {"SUCCEEDED", "FAILED"}

\* Every decision is announced, and a failure only over a final refusal.
DecisionInv ==
    /\ status # "IN_TRANSIT"
    /\ <<"DeliveryCreated", 0>> \in outbox <=> status # "ABSENT"
    /\ <<"DeliveryStarted", 0>> \in outbox <=> status = "DELIVERED"
    /\ <<"DeliveryCompleted", 0>> \in outbox <=> status = "DELIVERED"
    /\ \A g \in Generations :
         <<"DeliveryFailed", g>> \in outbox
           <=> g < generation \/ (g = generation /\ status = "FAILED")
    /\ \A g \in Generations : <<"DeliveryFailed", g>> \in outbox =>
         \E n \in Numbers : provider[<<g, n>>].kind = "FAILED" /\ Final(<<g, n>>)

IInv ==
    /\ TypeOK /\ MessageInv /\ RunInv /\ SeenInv /\ AttemptInv /\ DecisionInv
    /\ SuccessIsDelivered

-------------------------------------------------------------------------------
(* What the provider said.                                                  *)

LEMMA AnswerKinds ==
    ASSUME TypeOK, NEW k \in AttemptKeys
    PROVE  /\ provider[k] # NoAnswer => provider[k] \in Outcomes
           /\ provider[k] \in Outcomes =>
                provider[k].kind \in {"SUCCEEDED", "FAILED"} /\ provider[k] # NoAnswer
           /\ provider[k].kind \in {"SUCCEEDED", "FAILED"} => provider[k] # NoAnswer
<1>1. provider[k] \in Answers \cup {NoAnswer} /\ Answers \subseteq Outcomes
  BY DeliveryAssumption DEF TypeOK
<1>2. NoAnswer.kind = "NONE"
  BY DEF NoAnswer
<1>3. \A x \in Outcomes : x.kind \in {"SUCCEEDED", "FAILED"}
  BY DEF Outcomes
<1> QED BY <1>1, <1>2, <1>3

\* What was retried was refused and had an answer.
LEMMA RetriedAnswered ==
    ASSUME TypeOK, NEW k \in AttemptKeys, Retried(k) \/ Final(k)
    PROVE  provider[k] # NoAnswer
BY AnswerKinds DEF Retried, Final

\* Of one generation, no attempt arrived when the last one was refused.
LEMMA OneAnswer ==
    ASSUME IInv, NEW g \in Generations, NEW m \in Numbers, NEW n \in Numbers,
           provider[<<g, m>>].kind = "FAILED", Final(<<g, m>>)
    PROVE  provider[<<g, n>>].kind # "SUCCEEDED"
<1>1. /\ <<g, m>> \in AttemptKeys /\ <<g, n>> \in AttemptKeys
      /\ <<g, m>>[1] = g /\ <<g, m>>[2] = m /\ <<g, n>>[1] = g /\ <<g, n>>[2] = n
  BY DEF AttemptKeys
<1>2. SUFFICES ASSUME provider[<<g, n>>].kind = "SUCCEEDED" PROVE FALSE
  OBVIOUS
<1>3. provider[<<g, n>>] # NoAnswer /\ provider[<<g, m>>] # NoAnswer
  BY <1>1, <1>2, AnswerKinds DEF IInv
<1>4. CASE n < m
  <2>1. Retried(<<g, n>>)
    BY <1>1, <1>3, <1>4 DEF IInv, AttemptInv
  <2> QED BY <2>1, <1>2 DEF Retried
<1>5. CASE m < n
  <2>1. Retried(<<g, m>>)
    BY <1>1, <1>3, <1>5 DEF IInv, AttemptInv
  <2> QED BY <2>1, <1>1, DeliveryAssumption DEF Retried, Final
<1>6. CASE m = n
  BY <1>2, <1>6
<1> QED BY <1>4, <1>5, <1>6, DeliveryAssumption DEF Numbers

\* The attempts of a generation that announced its failure did not arrive.
LEMMA NoArrival ==
    ASSUME IInv, NEW g \in Generations, <<"DeliveryFailed", g>> \in outbox,
           NEW n \in Numbers
    PROVE  provider[<<g, n>>].kind # "SUCCEEDED"
<1>1. PICK m \in Numbers : provider[<<g, m>>].kind = "FAILED" /\ Final(<<g, m>>)
  BY DEF IInv, DecisionInv
<1> QED BY <1>1, OneAnswer

\* What arrived is of the current generation.
LEMMA ArrivalIsCurrent ==
    ASSUME IInv, NEW k \in AttemptKeys, provider[k].kind = "SUCCEEDED"
    PROVE  k[1] = generation
<1>1. k = <<k[1], k[2]>> /\ k[1] \in Generations /\ k[2] \in Numbers
  BY DEF AttemptKeys
<1>2. provider[k] # NoAnswer
  BY AnswerKinds DEF IInv
<1>3. k[1] <= generation
  BY <1>2 DEF IInv, AttemptInv
<1>4. CASE k[1] < generation
  <2>1. <<"DeliveryFailed", k[1]>> \in outbox
    BY <1>1, <1>4 DEF IInv, DecisionInv
  <2> QED BY <1>1, <2>1, NoArrival
<1>5. k[1] \in Nat /\ generation \in Nat
  BY <1>1, DeliveryAssumption DEF IInv, TypeOK, Generations
<1> QED BY <1>3, <1>4, <1>5

\* The Order is delivered at most once.
LEMMA Unanimous == IInv => DeliveredOnce
<1> SUFFICES ASSUME IInv, NEW a \in AttemptKeys, NEW b \in AttemptKeys,
                    provider[a].kind = "SUCCEEDED", provider[b].kind = "SUCCEEDED"
             PROVE  a = b
  BY DEF DeliveredOnce
<1>1. provider[a] # NoAnswer /\ provider[b] # NoAnswer
  BY AnswerKinds DEF IInv
<1>2. a[1] = b[1] /\ a = <<a[1], a[2]>> /\ b = <<b[1], b[2]>>
      /\ a[2] \in Numbers /\ b[2] \in Numbers
  BY ArrivalIsCurrent DEF AttemptKeys
<1>3. CASE a[2] < b[2]
  <2>1. Retried(<<b[1], a[2]>>)
    BY <1>1, <1>2, <1>3 DEF IInv, AttemptInv
  <2> QED BY <1>2, <2>1 DEF Retried
<1>4. CASE b[2] < a[2]
  <2>1. Retried(<<a[1], b[2]>>)
    BY <1>1, <1>2, <1>4 DEF IInv, AttemptInv
  <2> QED BY <1>2, <2>1 DEF Retried
<1> QED BY <1>2, <1>3, <1>4, DeliveryAssumption DEF Numbers

-------------------------------------------------------------------------------
(* What no step takes back.                                                 *)

Grows ==
    /\ generation <= generation'
    /\ Begun => Begun'
    /\ \A k \in AttemptKeys : provider[k] # NoAnswer => provider'[k] = provider[k]
    /\ \A k \in AttemptKeys : attempts[k] # "NONE" => attempts'[k] # "NONE"
    /\ \A k \in AttemptKeys :
         attempts[k] \in {"SUCCEEDED", "FAILED"} => attempts'[k] = attempts[k]
    /\ outbox \subseteq outbox'
    /\ status = "DELIVERED" => status' = "DELIVERED"
    /\ \A g \in Generations : g <= generation /\ Closed(g) => Closed(g)'

\* So what holds of a run that does not move goes on to hold.
LEMMA Kept ==
    ASSUME IInv, Grows, generation' \in Nat, NEW r \in Runs, wf'[r] = wf[r]
    PROVE  RunSound(r)' /\ SeenSound(r)'
<1>1. /\ r[2] \in Generations /\ wf[r] \in RunStates /\ wf[r].number \in Numbers
      /\ RunSound(r) /\ SeenSound(r)
  BY DEF IInv, TypeOK, RunInv, SeenInv, Runs, RunStates
<1>2. Key(r) \in AttemptKeys /\ Key(r)' = Key(r)
  BY <1>1 DEF Key, AttemptKeys
<1>3. ASSUME NEW k \in AttemptKeys, Retried(k) PROVE Retried(k)'
  <2>1. provider[k] # NoAnswer
    BY <1>3, RetriedAnswered DEF IInv
  <2> QED BY <1>3, <2>1 DEF Grows, Retried
<1>4. \A m \in Numbers : <<r[2], m>> \in AttemptKeys
  BY <1>1 DEF AttemptKeys
<1>5. r[2] \in Nat /\ generation \in Nat
  BY <1>1, DeliveryAssumption DEF IInv, TypeOK, Generations
<1>6. (\A m \in Numbers : m < wf[r].number => Retried(<<r[2], m>>))'
  BY <1>1, <1>3, <1>4 DEF RunSound
<1>7. wf[r].phase # "idle" => r[2] <= generation' /\ Begun'
  BY <1>1, <1>5 DEF RunSound, Grows
<1>8. wf[r].phase \in {"deliver", "apply", "applying", "reload"} =>
        attempts'[Key(r)] # "NONE"
  BY <1>1, <1>2 DEF RunSound, Grows
<1>9. wf[r].phase \in {"apply", "applying"} => provider'[Key(r)] # NoAnswer
  BY <1>1, <1>2 DEF RunSound, Grows
<1>10. wf[r].phase = "reload" => Retried(Key(r))'
  BY <1>1, <1>2, <1>3 DEF RunSound
<1>11. wf[r].phase = "done" => Closed(r[2])'
  BY <1>1 DEF RunSound, Grows
<1>12. RunSound(r)'
  BY <1>1, <1>2, <1>6, <1>7, <1>8, <1>9, <1>10, <1>11 DEF RunSound
<1>13. ASSUME wf[r].phase = "applying"
       PROVE  /\ wf[r].seenStatus = "DELIVERED" => status' = "DELIVERED"
              /\ wf[r].seenStatus = "FAILED" => FailedEvent(r) \in outbox'
              /\ wf[r].seenAttempt # "PENDING" => attempts'[Key(r)] = wf[r].seenAttempt
  <2>1. wf[r].seenAttempt \in {"NONE", "PENDING", "SUCCEEDED", "FAILED"}
    BY <1>1 DEF RunStates
  <2> QED BY <1>1, <1>2, <1>13, <2>1 DEF SeenSound, Grows
<1>14. SeenSound(r)'
  BY <1>1, <1>2, <1>13 DEF SeenSound, FailedEvent
<1> QED BY <1>12, <1>14

\* A step that moves some runs, which go on soundly, keeps them all sound.
LEMMA RunsMove ==
    ASSUME IInv, Grows, generation' \in Nat, starting' \subseteq starting,
           \A q \in Runs : wf'[q] = wf[q] \/ (RunSound(q)' /\ SeenSound(q)')
    PROVE  RunInv' /\ SeenInv'
<1>1. ASSUME NEW q \in Runs PROVE RunSound(q)' /\ SeenSound(q)'
  BY Kept
<1>2. \A s \in starting : s.generation \in Nat
  BY DeliveryAssumption DEF IInv, TypeOK, Starts, Generations
<1>3. generation \in Nat
  BY DeliveryAssumption DEF IInv, TypeOK, Generations
<1>4. \A s \in starting' : s.generation <= generation' /\ Begun'
  BY <1>2, <1>3 DEF IInv, RunInv, Grows
<1> QED BY <1>1, <1>4 DEF RunInv, SeenInv

LEMMA OneRunMoves ==
    ASSUME IInv, Grows, generation' \in Nat, starting' \subseteq starting,
           NEW r \in Runs, NEW x, wf' = [wf EXCEPT ![r] = x],
           RunSound(r)', SeenSound(r)'
    PROVE  RunInv' /\ SeenInv'
<1>1. \A q \in Runs : q = r \/ wf'[q] = wf[q]
  BY DEF IInv, TypeOK
<1> QED BY <1>1, RunsMove

\* A step that leaves the rows and the provider alone.
LEMMA CalmStep ==
    ASSUME IInv, UNCHANGED <<rows, provider>>
    PROVE  /\ Grows /\ generation' \in Nat
           /\ AttemptInv' /\ DecisionInv' /\ SuccessIsDelivered'
<1>1. generation \in Nat
  BY DeliveryAssumption DEF IInv, TypeOK, Generations
<1>2. Grows
  BY <1>1 DEF Grows, rows, Begun, Closed
<1>3. AttemptInv'
  BY DEF IInv, AttemptInv, rows, Retried, Final, Closed
<1>4. DecisionInv' /\ SuccessIsDelivered'
  BY DEF IInv, DecisionInv, SuccessIsDelivered, rows, Final
<1> QED BY <1>1, <1>2, <1>3, <1>4 DEF rows

-------------------------------------------------------------------------------
(* The initial states.                                                      *)

LEMMA Places ==
    /\ \A phase \in RunPhases, n \in Numbers : At(phase, n) \in RunStates
    /\ \A n \in Numbers, tag \in Tags :
         [At("apply", n) EXCEPT !.tag = tag] \in RunStates
    /\ 1 \in Numbers /\ 1 \in Generations
    /\ \A r \in Runs : r # NoRun
<1>1. 1 \in Numbers /\ 1 \in Generations
  BY DeliveryAssumption DEF Numbers, Generations
<1>2. \A phase \in RunPhases, n \in Numbers : At(phase, n) \in RunStates
  BY DEF At, RunStates, Statuses, NoTag
<1>3. \A n \in Numbers, tag \in Tags :
        [At("apply", n) EXCEPT !.tag = tag] \in RunStates
  BY DEF At, RunStates, Statuses, NoTag, RunPhases
<1>4. \A r \in Runs : r # NoRun
  BY DeliveryAssumption DEF Runs, NoRun, Generations
<1> QED BY <1>1, <1>2, <1>3, <1>4

LEMMA DeliveryInitInv == Init => IInv
<1> SUFFICES ASSUME Init PROVE IInv
  OBVIOUS
<1>1. At("idle", 1) \in RunStates /\ At("idle", 1).phase = "idle"
      /\ At("idle", 1).number = 1
  BY Places DEF RunPhases, At
<1>2. \A r \in Runs : wf[r] = At("idle", 1)
  BY DEF Init
<1>3. TypeOK
  <2>1. wf \in [Runs -> RunStates]
    BY <1>1 DEF Init
  <2>2. attempts \in [AttemptKeys -> {"NONE", "PENDING", "SUCCEEDED", "FAILED"}]
        /\ provider \in [AttemptKeys -> Answers \cup {NoAnswer}]
    BY DEF Init
  <2>3. ready \in [state : {"queued", "handled", "dead"},
                   deliveries : 0..(MaxDeliveries + 1), run : Runs \cup {NoRun}]
    BY DeliveryAssumption DEF Init
  <2>4. generation \in Generations /\ currentAttempt \in 0..MaxAttempts
        /\ throws \in 0..MaxThrows /\ crashes \in 0..MaxCrashes
    BY Places, DeliveryAssumption DEF Init
  <2>5. status \in Statuses /\ failureRetryable \in BOOLEAN /\ runtime \in Runtimes
        /\ callbacks \subseteq CallbackRows /\ outbox \subseteq Events
        /\ starting \subseteq Starts
    BY DEF Init, Statuses
  <2> QED BY <2>1, <2>2, <2>3, <2>4, <2>5 DEF TypeOK
<1>4. MessageInv
  BY DeliveryAssumption DEF Init, MessageInv
<1>5. \A m \in Numbers : ~(m < 1)
  BY DeliveryAssumption DEF Numbers
<1>6. RunInv /\ SeenInv
  BY <1>1, <1>2, <1>5 DEF Init, RunInv, SeenInv, RunSound, SeenSound
<1>7. AttemptInv
  BY DEF Init, AttemptInv
<1>8. DecisionInv
  BY DeliveryAssumption DEF Init, DecisionInv, Generations
<1>9. SuccessIsDelivered
  BY DEF Init, SuccessIsDelivered
<1> QED BY <1>3, <1>4, <1>6, <1>7, <1>8, <1>9 DEF IInv

-------------------------------------------------------------------------------
(* Steps that leave the rows and the provider alone.                        *)

LifeStep ==
    [Lifecycle!Next]_<<status, generation, failureRetryable, outbox>>

LEMMA GoKeeps ==
    ASSUME IInv, UNCHANGED <<rows, provider, throws>>, NEW r \in Runs,
           NEW x \in RunStates, Go(r, x), RunSound(r)', SeenSound(r)'
    PROVE  IInv' /\ LifeStep
<1>1. wf' = [wf EXCEPT ![r] = x] /\ UNCHANGED <<ready, starting, runtime, crashes>>
  BY DEF Go
<1>2. TypeOK'
  <2>1. wf' \in [Runs -> RunStates] BY <1>1 DEF IInv, TypeOK
  <2> QED BY <1>1, <2>1 DEF IInv, TypeOK, rows
<1>3. MessageInv'
  BY <1>1 DEF IInv, MessageInv
<1>4. RunInv' /\ SeenInv'
  BY <1>1, CalmStep, OneRunMoves
<1>5. LifeStep
  BY DEF LifeStep, rows
<1> QED BY <1>2, <1>3, <1>4, <1>5, CalmStep DEF IInv

LEMMA LoadStep == ASSUME IInv, NEW r \in Runs, Load(r) PROVE IInv' /\ LifeStep
<1>1. wf[r].phase = "load" /\ RunSound(r)
  BY DEF Load, IInv, RunInv
<1> DEFINE x == At(IF status \in Terminal THEN "done" ELSE "ensure", 1)
<1>2. x \in RunStates /\ x.phase \in {"done", "ensure"} /\ x.number = 1
      /\ (x.phase = "done" => status \in Terminal)
  BY Places DEF RunPhases, At
<1>3. wf'[r] = x /\ UNCHANGED <<rows, provider, throws>>
  BY <1>2 DEF Load, Go, IInv, TypeOK
<1>4. \A m \in Numbers : ~(m < 1)
  BY DeliveryAssumption DEF Numbers
<1>5. RunSound(r)'
  BY <1>1, <1>2, <1>3, <1>4 DEF RunSound, rows, Begun, Closed
<1>6. SeenSound(r)'
  BY <1>2, <1>3 DEF SeenSound
<1> QED BY <1>2, <1>3, <1>5, <1>6, GoKeeps DEF Load

\* The attempt of a run, before and after a step that keeps its number.
LEMMA KeyOf ==
    ASSUME TypeOK, NEW r \in Runs
    PROVE  /\ r[2] \in Generations /\ wf[r] \in RunStates /\ wf[r].number \in Numbers
           /\ Key(r) \in AttemptKeys /\ Key(r)[1] = r[2]
           /\ Key(r)[2] = wf[r].number /\ Key(r) = <<r[2], wf[r].number>>
           /\ generation \in Generations /\ generation \in Nat /\ r[2] \in Nat
           /\ wf[r].number \in Nat
BY DeliveryAssumption DEF TypeOK, Runs, RunStates, Key, AttemptKeys, Generations, Numbers

LEMMA EnsureReadStep ==
    ASSUME IInv, NEW r \in Runs, EnsureRead(r) PROVE IInv' /\ LifeStep
<1>1. wf[r].phase = "ensure" /\ RunSound(r)
  BY DEF EnsureRead, IInv, RunInv
<1>2. /\ r[2] \in Nat /\ generation \in Nat /\ wf[r].number \in Numbers
      /\ Key(r) = <<r[2], wf[r].number>>
  BY KeyOf DEF IInv
<1> DEFINE x == At(IF NotMine(r) THEN "done"
                   ELSE IF attempts[Key(r)] # "NONE" THEN "deliver"
                   ELSE "ensuring", wf[r].number)
<1>3. /\ x \in RunStates /\ x.phase \in {"done", "deliver", "ensuring"}
      /\ x.number = wf[r].number
      /\ (x.phase = "done" => NotMine(r))
      /\ (x.phase = "deliver" => attempts[Key(r)] # "NONE")
  BY <1>2, Places DEF RunPhases, At
<1>4. wf'[r] = x /\ UNCHANGED <<rows, provider, throws>>
  BY <1>3 DEF EnsureRead, Go, IInv, TypeOK
<1>5. Key(r)' = Key(r)
  BY <1>3, <1>4 DEF Key
<1>6. x.phase = "done" => Closed(r[2])
  BY <1>1, <1>2, <1>3 DEF NotMine, Closed, RunSound
<1>7. RunSound(r)'
  BY <1>1, <1>3, <1>4, <1>5, <1>6 DEF RunSound, rows, Begun, Closed, Retried
<1>8. SeenSound(r)'
  BY <1>3, <1>4 DEF SeenSound
<1> QED BY <1>3, <1>4, <1>7, <1>8, GoKeeps DEF EnsureRead

LEMMA BeginApplyStep ==
    ASSUME IInv, NEW r \in Runs, BeginApply(r) PROVE IInv' /\ LifeStep
<1>1. wf[r].phase = "apply" /\ RunSound(r)
  BY DEF BeginApply, IInv, RunInv
<1>2. /\ r[2] \in Generations /\ r[2] \in Nat /\ generation \in Nat
      /\ wf[r] \in RunStates /\ Key(r) \in AttemptKeys
  BY KeyOf DEF IInv
<1> DEFINE x == [wf[r] EXCEPT !.phase = "applying", !.seenStatus = status,
                              !.seenAttempt = attempts[Key(r)]]
<1>3. /\ x \in RunStates /\ x.phase = "applying" /\ x.number = wf[r].number
      /\ x.seenStatus = status /\ x.seenAttempt = attempts[Key(r)]
      /\ x.tag = wf[r].tag
  BY <1>2 DEF RunStates, RunPhases, IInv, TypeOK
<1>4. wf'[r] = x /\ UNCHANGED <<rows, provider, throws>>
  BY <1>3 DEF BeginApply, Go, IInv, TypeOK
<1>5. Key(r)' = Key(r)
  BY <1>3, <1>4 DEF Key
<1>6. RunSound(r)'
  BY <1>1, <1>3, <1>4, <1>5 DEF RunSound, rows, Begun, Closed, Retried
<1>7. status \in {"READY", "DELIVERED", "FAILED"}
  BY <1>1 DEF RunSound, Begun, IInv, TypeOK, Statuses, DecisionInv
<1>8. status = "FAILED" => FailedEvent(r) \in outbox
  BY <1>1, <1>2 DEF RunSound, FailedEvent, IInv, DecisionInv
<1>9. SeenSound(r)'
  BY <1>1, <1>3, <1>4, <1>5, <1>7, <1>8 DEF SeenSound, RunSound, rows, FailedEvent
<1> QED BY <1>3, <1>4, <1>6, <1>9, GoKeeps DEF BeginApply

LEMMA ReloadStep == ASSUME IInv, NEW r \in Runs, Reload(r) PROVE IInv' /\ LifeStep
<1>1. wf[r].phase = "reload" /\ RunSound(r)
  BY DEF Reload, IInv, RunInv
<1>2. /\ r[2] \in Nat /\ wf[r].number \in Numbers /\ wf[r].number \in Nat
      /\ Key(r) = <<r[2], wf[r].number>> /\ Key(r)[2] = wf[r].number
  BY KeyOf DEF IInv
<1>3. wf[r].number + 1 \in Numbers /\ Retried(Key(r))
  BY <1>1, <1>2, DeliveryAssumption DEF RunSound, Retried, Numbers
<1> DEFINE x == IF status \in Terminal THEN At("done", wf[r].number)
                ELSE At("ensure", wf[r].number + 1)
<1>4. /\ x \in RunStates /\ x.phase \in {"done", "ensure"}
      /\ x.number \in {wf[r].number, wf[r].number + 1}
      /\ (x.phase = "done" => status \in Terminal)
  BY <1>2, <1>3, Places DEF RunPhases, At
<1>5. wf'[r] = x /\ UNCHANGED <<rows, provider, throws>>
  BY <1>4 DEF Reload, Go, IInv, TypeOK
<1>6. \A m \in Numbers : m < x.number => Retried(<<r[2], m>>)
  <2>1. SUFFICES ASSUME NEW m \in Numbers, m < x.number, ~(m < wf[r].number)
                 PROVE  m = wf[r].number
    BY <1>1, <1>2, <1>3 DEF RunSound
  <2> QED BY <1>2, <1>4, <2>1, DeliveryAssumption DEF Numbers
<1>7. RunSound(r)'
  BY <1>1, <1>4, <1>5, <1>6 DEF RunSound, rows, Begun, Closed, Retried
<1>8. SeenSound(r)'
  BY <1>4, <1>5 DEF SeenSound
<1> QED BY <1>4, <1>5, <1>7, <1>8, GoKeeps DEF Reload

-------------------------------------------------------------------------------
(* The message, its starts and the failures.                                *)

Messages == [state : {"queued", "handled", "dead"},
             deliveries : 0..(MaxDeliveries + 1), run : Runs \cup {NoRun}]

LEMMA RedeliveryKeeps ==
    ASSUME IInv, ready.state # "dead", ready' = Redelivered(ready),
           starting' = starting, \A s \in starting : ~s.awaited
    PROVE  MessageInv' /\ ready' \in Messages
<1>1. ready \in Messages /\ ready.deliveries \in Nat /\ ready.deliveries <= MaxDeliveries
      /\ MaxDeliveries \in Nat
  BY DeliveryAssumption DEF IInv, TypeOK, MessageInv, Messages
<1>2. /\ ready'.state \in {"dead", "queued"}
      /\ (ready'.state = "queued" => ready.deliveries + 1 < MaxDeliveries)
      /\ ready'.deliveries = ready.deliveries + 1 /\ ready'.run = NoRun
  BY <1>1 DEF Redelivered
<1>3. ready' \in Messages
  BY <1>1 DEF Redelivered, Messages
<1> QED BY <1>2, <1>3 DEF MessageInv

LEMMA FailingKeeps ==
    ASSUME IInv, NEW r \in Runs, wf[r].phase # "idle", Failing(r),
           starting' = starting, Grows, generation' \in Nat
    PROVE  /\ MessageInv' /\ ready' \in Messages
           /\ RunInv' /\ SeenInv' /\ wf' \in [Runs -> RunStates]
<1>1. At("failed", 1) \in RunStates /\ At("failed", 1).phase = "failed"
      /\ At("failed", 1).number = 1
  BY Places DEF RunPhases, At
<1>2. wf' \in [Runs -> RunStates] /\ wf'[r] = At("failed", 1)
  BY <1>1 DEF Failing, IInv, TypeOK
<1>3. \A m \in Numbers : ~(m < 1)
  BY DeliveryAssumption DEF Numbers
<1>4. r[2] <= generation' /\ Begun'
  BY KeyOf DEF IInv, RunInv, RunSound, Grows
<1>5. RunSound(r)' /\ SeenSound(r)'
  BY <1>1, <1>2, <1>3, <1>4 DEF RunSound, SeenSound
<1>6. RunInv' /\ SeenInv'
  BY <1>5, OneRunMoves DEF Failing
<1>7. MessageInv' /\ ready' \in Messages
  <2>1. CASE ready.run = r
    <3>1. ready.run # NoRun
      BY <2>1, Places
    <3>2. ready.state = "handled" /\ \A s \in starting : ~s.awaited
      BY <3>1 DEF IInv, MessageInv
    <3> QED BY <2>1, <3>2, RedeliveryKeeps DEF Failing
  <2>2. CASE ready.run # r
    BY <2>2 DEF Failing, IInv, MessageInv, TypeOK, Messages
  <2> QED BY <2>1, <2>2
<1> QED BY <1>2, <1>6, <1>7

LEMMA StepThrowsStep ==
    ASSUME IInv, NEW r \in Runs, StepThrows(r) PROVE IInv' /\ LifeStep
<1>1. UNCHANGED <<rows, provider>> /\ starting' = starting /\ wf[r].phase # "idle"
  BY DEF StepThrows, Active
<1>2. Grows /\ generation' \in Nat /\ AttemptInv' /\ DecisionInv' /\ SuccessIsDelivered'
  BY <1>1, CalmStep
<1>3. MessageInv' /\ ready' \in Messages /\ RunInv' /\ SeenInv'
      /\ wf' \in [Runs -> RunStates]
  BY <1>1, <1>2, FailingKeeps DEF StepThrows
<1>4. throws' \in 0..MaxThrows
  BY DeliveryAssumption DEF StepThrows, IInv, TypeOK
<1>5. TypeOK'
  BY <1>1, <1>3, <1>4 DEF StepThrows, IInv, TypeOK, rows, Messages
<1> QED BY <1>1, <1>2, <1>3, <1>5 DEF IInv, LifeStep, rows

LEMMA ReadyTooEarlyStep == ASSUME IInv, ReadyTooEarly PROVE IInv' /\ LifeStep
<1>1. UNCHANGED <<rows, provider, starting, wf>> /\ ready.state = "queued"
  BY DEF ReadyTooEarly
<1>2. Grows /\ generation' \in Nat /\ AttemptInv' /\ DecisionInv' /\ SuccessIsDelivered'
  BY <1>1, CalmStep
<1>3. MessageInv' /\ ready' \in Messages
  BY <1>1, RedeliveryKeeps DEF ReadyTooEarly, IInv, MessageInv
<1>4. RunInv' /\ SeenInv'
  BY <1>1, <1>2, RunsMove
<1>5. TypeOK'
  BY <1>1, <1>3 DEF ReadyTooEarly, IInv, TypeOK, rows, Messages
<1> QED BY <1>1, <1>2, <1>3, <1>4, <1>5 DEF IInv, LifeStep, rows

LEMMA StartStep ==
    ASSUME IInv, NEW s \in starting, Start(s) PROVE IInv' /\ LifeStep
<1>1. UNCHANGED <<rows, provider, runtime, throws, crashes>>
      /\ starting' = starting \ {s} /\ s \in Starts
  BY DEF Start, IInv, TypeOK
<1>2. PICK r \in Runs : r = RunOf(s) /\ r[2] = s.generation /\ r # NoRun
  <2>1. RunOf(s) \in Runs /\ RunOf(s)[2] = s.generation
    BY <1>1 DEF RunOf, Starts, Runs, Hosts
  <2> QED BY <2>1, Places
<1>3. Grows /\ generation' \in Nat /\ AttemptInv' /\ DecisionInv' /\ SuccessIsDelivered'
  BY <1>1, CalmStep
<1>4. At("load", 1) \in RunStates /\ At("load", 1).phase = "load"
      /\ At("load", 1).number = 1
  BY Places DEF RunPhases, At
<1>5. wf' = wf \/ wf' = [wf EXCEPT ![r] = At("load", 1)]
  BY <1>2 DEF Start
<1>6. wf' \in [Runs -> RunStates]
  BY <1>4, <1>5 DEF IInv, TypeOK
<1>7. RunInv' /\ SeenInv'
  <2>1. CASE wf' = wf
    BY <1>1, <1>3, <2>1, RunsMove
  <2>2. CASE wf' = [wf EXCEPT ![r] = At("load", 1)]
    <3>1. wf'[r] = At("load", 1)
      BY <1>2, <2>2 DEF IInv, TypeOK
    <3>2. r[2] <= generation /\ Begun
      BY <1>2 DEF IInv, RunInv
    <3>3. \A m \in Numbers : ~(m < 1)
      BY DeliveryAssumption DEF Numbers
    <3>4. RunSound(r)' /\ SeenSound(r)'
      BY <1>1, <1>4, <3>1, <3>2, <3>3 DEF RunSound, SeenSound, rows, Begun
    <3> QED BY <1>1, <1>2, <1>3, <2>2, <3>4, OneRunMoves
  <2> QED BY <1>5, <2>1, <2>2
<1>8. MessageInv' /\ ready' \in Messages
  <2>1. CASE s.awaited /\ runtime = "local"
    <3>1. ready' = [ready EXCEPT !.run = r]
      BY <1>2, <2>1 DEF Start
    <3>2. ready.state = "handled" /\ \A t \in starting : t.awaited => t = s
      BY <2>1 DEF IInv, MessageInv
    <3>3. ready' \in Messages
      BY <1>2, <3>1 DEF IInv, TypeOK, Messages
    <3>4. MessageInv'
      BY <1>1, <3>1, <3>2 DEF IInv, TypeOK, MessageInv
    <3> QED BY <3>3, <3>4
  <2>2. CASE ~(s.awaited /\ runtime = "local")
    <3>1. ready' = ready
      BY <2>2 DEF Start
    <3> QED BY <1>1, <3>1 DEF IInv, TypeOK, MessageInv, Messages
  <2> QED BY <2>1, <2>2
<1>9. TypeOK'
  BY <1>1, <1>6, <1>8 DEF IInv, TypeOK, rows, Messages
<1> QED BY <1>1, <1>3, <1>7, <1>8, <1>9 DEF IInv, LifeStep, rows

LEMMA CrashStep ==
    ASSUME IInv, NEW p \in Replicas, Crash(p) PROVE IInv' /\ LifeStep
<1>1. UNCHANGED <<rows, provider, runtime, throws>> /\ starting' \subseteq starting
  BY DEF Crash
<1>2. Grows /\ generation' \in Nat /\ AttemptInv' /\ DecisionInv' /\ SuccessIsDelivered'
  BY <1>1, CalmStep
<1>3. /\ At("idle", 1) \in RunStates
      /\ At("idle", 1).phase = "idle" /\ At("idle", 1).number = 1
  BY Places DEF RunPhases, At
<1>4. ASSUME NEW q \in Runs
      PROVE  wf'[q] \in RunStates
             /\ (wf'[q] = wf[q] \/ (RunSound(q)' /\ SeenSound(q)'))
  <2>1. wf[q] \in RunStates /\ wf[q].number \in Numbers /\ RunSound(q)
        /\ Key(q) = <<q[2], wf[q].number>>
    BY KeyOf DEF IInv, RunInv
  <2>2. CASE q[1] = p
    <3>1. wf'[q] = At("idle", 1)
      BY <2>2 DEF Crash
    <3>2. \A m \in Numbers : ~(m < 1)
      BY DeliveryAssumption DEF Numbers
    <3> QED BY <1>3, <3>1, <3>2 DEF RunSound, SeenSound
  <2>3. CASE q[1] # p /\ q[1] = Durable /\ wf[q].phase = "ensuring"
    <3>1. wf'[q] = At("ensure", wf[q].number)
      BY <2>3 DEF Crash, Resumed
    <3>2. /\ At("ensure", wf[q].number) \in RunStates
          /\ At("ensure", wf[q].number).phase = "ensure"
          /\ At("ensure", wf[q].number).number = wf[q].number
      BY <2>1, Places DEF RunPhases, At
    <3>3. RunSound(q)' /\ SeenSound(q)'
      BY <1>1, <2>1, <2>3, <3>1, <3>2
         DEF RunSound, SeenSound, rows, Begun, Retried
    <3> QED BY <3>1, <3>2, <3>3
  <2>4. CASE q[1] # p /\ q[1] = Durable /\ wf[q].phase = "applying"
    <3> DEFINE y == [At("apply", wf[q].number) EXCEPT !.tag = wf[q].tag]
    <3>1. wf'[q] = y
      BY <2>4 DEF Crash, Resumed
    <3>2. wf[q].tag \in Tags
      BY <2>1, <2>4 DEF RunSound
    <3>3. /\ y \in RunStates /\ y.phase = "apply" /\ y.number = wf[q].number
          /\ y.tag = wf[q].tag
      BY <2>1, <3>2, Places DEF At
    <3>4. Key(q)' = Key(q)
      BY <3>1, <3>3 DEF Key
    <3>5. RunSound(q)' /\ SeenSound(q)'
      BY <1>1, <2>1, <2>4, <3>1, <3>2, <3>3, <3>4
         DEF RunSound, SeenSound, rows, Begun, Retried
    <3> QED BY <3>1, <3>3, <3>5
  <2>5. CASE q[1] # p /\ ~(q[1] = Durable /\ wf[q].phase \in {"ensuring", "applying"})
    BY <2>1, <2>5 DEF Crash, Resumed
  <2> QED BY <2>2, <2>3, <2>4, <2>5
<1>5. RunInv' /\ SeenInv'
  BY <1>1, <1>2, <1>4, RunsMove
<1>6. wf' \in [Runs -> RunStates]
  <2>1. wf' = [r \in Runs |-> wf'[r]]
    BY DEF Crash
  <2> QED BY <1>4, <2>1
<1>7. ready' = ready \/ ready' = [ready EXCEPT !.run = NoRun]
  BY DEF Crash
<1>8. MessageInv' /\ ready' \in Messages
  BY <1>1, <1>7 DEF IInv, TypeOK, MessageInv, Messages
<1>9. crashes' \in 0..MaxCrashes
  BY DeliveryAssumption DEF Crash, IInv, TypeOK
<1>10. TypeOK'
  BY <1>1, <1>6, <1>8, <1>9 DEF IInv, TypeOK, rows, Messages
<1> QED BY <1>1, <1>2, <1>5, <1>8, <1>10 DEF IInv, LifeStep, rows

-------------------------------------------------------------------------------
(* The consumer and the operator.                                           *)

LEMMA HandleOrderConfirmedStep ==
    ASSUME IInv, HandleOrderConfirmed PROVE IInv' /\ LifeStep
<1>1. /\ status = "ABSENT" /\ status' = "REQUESTED"
      /\ outbox' = outbox \cup {<<"DeliveryCreated", 0>>}
      /\ UNCHANGED <<generation, currentAttempt, failureRetryable, attempts,
                     callbacks, provider, ready, starting, wf, runtime, throws,
                     crashes>>
  BY DEF HandleOrderConfirmed
<1>2. generation' \in Nat /\ generation \in Nat
  BY <1>1, DeliveryAssumption DEF IInv, TypeOK, Generations
<1>3. Grows
  BY <1>1, <1>2 DEF Grows, Begun, Closed, Terminal
<1>4. RunInv' /\ SeenInv'
  BY <1>1, <1>2, <1>3, RunsMove
<1>5. TypeOK'
  BY <1>1 DEF IInv, TypeOK, Statuses, Events
<1>6. MessageInv'
  BY <1>1 DEF IInv, MessageInv
<1>7. AttemptInv'
  BY <1>1 DEF IInv, AttemptInv, Retried, Final, Closed, Terminal
<1>8. DecisionInv'
  <2>1. /\ <<"DeliveryStarted", 0>> # <<"DeliveryCreated", 0>>
        /\ <<"DeliveryCompleted", 0>> # <<"DeliveryCreated", 0>>
        /\ \A g \in Generations : <<"DeliveryFailed", g>> # <<"DeliveryCreated", 0>>
    OBVIOUS
  <2> QED BY <1>1, <2>1 DEF IInv, DecisionInv, Final
<1>9. SuccessIsDelivered'
  BY <1>1 DEF IInv, SuccessIsDelivered
<1>10. LifeStep
  <2>1. <<"DeliveryCreated", 0>> \notin outbox
    BY <1>1 DEF IInv, DecisionInv
  <2>2. Lifecycle!Create
    BY <1>1, <2>1 DEF Lifecycle!Create, Lifecycle!Announce
  <2> QED BY <2>2 DEF LifeStep, Lifecycle!Next
<1> QED BY <1>4, <1>5, <1>6, <1>7, <1>8, <1>9, <1>10 DEF IInv

LEMMA HandleOrderReadyStep ==
    ASSUME IInv, NEW p \in Replicas, HandleOrderReady(p) PROVE IInv' /\ LifeStep
<1> DEFINE s == [on |-> p, generation |-> generation, awaited |-> TRUE]
<1>1. /\ ready.state = "queued" /\ status # "ABSENT"
      /\ ready' = [ready EXCEPT !.state = "handled", !.deliveries = @ + 1]
      /\ status' = IF status = "REQUESTED" THEN "READY" ELSE status
      /\ starting' \in {starting, starting \cup {s}}
      /\ UNCHANGED <<generation, currentAttempt, failureRetryable, attempts,
                     callbacks, outbox, provider, wf, runtime, throws, crashes>>
  BY DEF HandleOrderReady
<1>2. generation' \in Nat /\ generation \in Nat
  BY <1>1, DeliveryAssumption DEF IInv, TypeOK, Generations
<1>3. Grows /\ Begun'
  BY <1>1, <1>2 DEF Grows, Begun, Closed, Terminal
<1>4. \A q \in Runs : RunSound(q)' /\ SeenSound(q)'
  BY <1>1, <1>2, <1>3, Kept
<1>5. \A t \in starting' : t.generation <= generation'
  BY <1>1, <1>2 DEF IInv, RunInv
<1>6. RunInv' /\ SeenInv'
  BY <1>3, <1>4, <1>5 DEF RunInv, SeenInv
<1>7. s \in Starts
  BY DEF Starts, IInv, TypeOK
<1>8. /\ ready'.state = "handled" /\ ready'.deliveries = ready.deliveries + 1
      /\ ready'.run = ready.run /\ ready.run = NoRun
      /\ ready.deliveries \in Nat /\ ready.deliveries < MaxDeliveries
      /\ MaxDeliveries \in Nat
  BY <1>1, DeliveryAssumption DEF IInv, TypeOK, MessageInv
<1>9. TypeOK'
  <2>1. ready' \in Messages
    <3>1. ready.deliveries + 1 \in 0..(MaxDeliveries + 1)
      BY <1>8
    <3> QED BY <1>1, <3>1 DEF IInv, TypeOK, Messages
  <2> HIDE DEF s
  <2>2. status' \in Statuses /\ starting' \subseteq Starts
    BY <1>1, <1>7 DEF IInv, TypeOK, Statuses
  <2> QED BY <1>1, <2>1, <2>2 DEF IInv, TypeOK, Messages
<1>10. MessageInv'
  <2>1. \A t \in starting : ~t.awaited
    BY <1>1 DEF IInv, MessageInv
  <2> HIDE DEF s
  <2> QED BY <1>1, <1>8, <2>1 DEF MessageInv
<1>11. AttemptInv'
  BY <1>1 DEF IInv, AttemptInv, Retried, Final, Closed, Terminal
<1>12. DecisionInv'
  BY <1>1 DEF IInv, DecisionInv, Final
<1>13. SuccessIsDelivered'
  BY <1>1 DEF IInv, SuccessIsDelivered
<1>14. LifeStep
  BY <1>1 DEF LifeStep, Lifecycle!Next, Lifecycle!Accept
<1> QED BY <1>6, <1>9, <1>10, <1>11, <1>12, <1>13, <1>14 DEF IInv

LEMMA RetryForUserStep ==
    ASSUME IInv, NEW p \in Replicas, RetryForUser(p) PROVE IInv' /\ LifeStep
<1> DEFINE s == [on |-> p, generation |-> generation', awaited |-> FALSE]
<1>1. /\ status = "FAILED" /\ failureRetryable /\ status' = "READY"
      /\ generation < MaxGeneration /\ generation' = generation + 1
      /\ currentAttempt' = 0 /\ starting' = starting \cup {s}
      /\ UNCHANGED <<failureRetryable, attempts, callbacks, outbox, provider,
                     ready, wf, runtime, throws, crashes>>
  BY DEF RetryForUser, RetryAllowed
<1>2. /\ generation' \in Nat /\ generation \in Nat /\ generation' \in Generations
      /\ \A g \in Generations : g \in Nat
  BY <1>1, DeliveryAssumption DEF IInv, TypeOK, Generations
<1>3. Grows /\ Begun'
  BY <1>1, <1>2 DEF Grows, Begun, Closed, Terminal
<1>4. \A q \in Runs : RunSound(q)' /\ SeenSound(q)'
  BY <1>1, <1>2, <1>3, Kept
<1>5. s \in Starts /\ ~s.awaited /\ s.generation = generation'
  BY <1>2 DEF Starts
<1> HIDE DEF s
<1>6. \A t \in starting' : t.generation <= generation'
  <2>1. \A t \in starting : t.generation \in Nat /\ t.generation <= generation
    BY <1>2 DEF IInv, RunInv, TypeOK, Starts
  <2> QED BY <1>1, <1>2, <1>5, <2>1
<1>7. RunInv' /\ SeenInv'
  BY <1>3, <1>4, <1>6 DEF RunInv, SeenInv
<1>8. TypeOK'
  BY <1>1, <1>2, <1>5, DeliveryAssumption DEF IInv, TypeOK, Statuses
<1>9. MessageInv'
  BY <1>1, <1>5 DEF IInv, MessageInv
<1>10. AttemptInv'
  <2>1. \A k \in AttemptKeys : k[1] \in Nat
    BY <1>2 DEF AttemptKeys
  <2>2. ASSUME NEW k \in AttemptKeys, provider[k] # NoAnswer
        PROVE  k[1] < generation'
    BY <1>1, <1>2, <2>1, <2>2 DEF IInv, AttemptInv
  <2>3. ASSUME NEW k \in AttemptKeys, attempts[k] \in {"SUCCEEDED", "FAILED"}, Final(k)
        PROVE  k[1] < generation'
    BY <2>2, <2>3, RetriedAnswered DEF IInv
  <2> QED BY <1>1, <1>2, <2>1, <2>2, <2>3
          DEF IInv, AttemptInv, Retried, Final, Closed
<1>11. DecisionInv'
  <2>1. \A g \in Generations : (g < generation \/ g = generation) <=> g < generation'
    BY <1>1, <1>2
  <2> QED BY <1>1, <2>1 DEF IInv, DecisionInv, Final
<1>12. SuccessIsDelivered'
  BY <1>1 DEF IInv, SuccessIsDelivered
<1>13. LifeStep
  BY <1>1 DEF LifeStep, Lifecycle!Next, Lifecycle!Retry
<1> QED BY <1>7, <1>8, <1>9, <1>10, <1>11, <1>12, <1>13 DEF IInv

-------------------------------------------------------------------------------
(* The attempt and the request.                                             *)

LEMMA EnsureWriteStep ==
    ASSUME IInv, NEW r \in Runs, EnsureWrite(r) PROVE IInv' /\ LifeStep
<1>1. /\ wf[r].phase = "ensuring" /\ RunSound(r)
      /\ attempts' = [attempts EXCEPT ![Key(r)] = IF @ = "NONE" THEN "PENDING" ELSE @]
      /\ wf' = [wf EXCEPT ![r] = At("deliver", wf[r].number)]
      /\ UNCHANGED <<status, generation, failureRetryable, callbacks, outbox,
                     provider, throws, ready, starting, runtime, crashes>>
  BY DEF EnsureWrite, Go, IInv, RunInv
<1>2. /\ wf[r].number \in Numbers /\ Key(r) \in AttemptKeys
      /\ Key(r) = <<r[2], wf[r].number>> /\ generation \in Nat
  BY KeyOf DEF IInv
<1>3. /\ At("deliver", wf[r].number) \in RunStates
      /\ At("deliver", wf[r].number).phase = "deliver"
      /\ At("deliver", wf[r].number).number = wf[r].number
  BY <1>2, Places DEF RunPhases, At
<1>4. wf' \in [Runs -> RunStates] /\ wf'[r] = At("deliver", wf[r].number)
  BY <1>1, <1>3 DEF IInv, TypeOK
<1>5. /\ attempts' \in [AttemptKeys -> {"NONE", "PENDING", "SUCCEEDED", "FAILED"}]
      /\ attempts'[Key(r)] # "NONE"
      /\ \A k \in AttemptKeys : attempts'[k] = attempts[k]
                                \/ (attempts[k] = "NONE" /\ attempts'[k] = "PENDING")
  BY <1>1, <1>2 DEF IInv, TypeOK
<1>6. Grows
  BY <1>1, <1>2, <1>5 DEF Grows, Begun, Closed
<1>7. Key(r)' = Key(r)
  BY <1>3, <1>4 DEF Key
<1>8. RunSound(r)' /\ SeenSound(r)'
  BY <1>1, <1>3, <1>4, <1>5, <1>7 DEF RunSound, SeenSound, Begun, Retried
<1>9. RunInv' /\ SeenInv'
  BY <1>1, <1>2, <1>6, <1>8, OneRunMoves
<1>10. TypeOK'
  <2>1. currentAttempt' \in 0..MaxAttempts
    BY <1>2, DeliveryAssumption DEF EnsureWrite, IInv, TypeOK, Numbers
  <2> QED BY <1>1, <1>4, <1>5, <2>1 DEF IInv, TypeOK
<1>11. MessageInv'
  BY <1>1 DEF IInv, MessageInv
<1>12. AttemptInv'
  <2>1. \A c \in callbacks : c.id[1] \in AttemptKeys
    BY DEF IInv, TypeOK, CallbackRows, CallbackIds
  <2> QED BY <1>1, <1>5, <2>1 DEF IInv, AttemptInv, Retried, Final, Closed
<1>13. DecisionInv'
  BY <1>1 DEF IInv, DecisionInv, Final
<1>14. SuccessIsDelivered'
  BY <1>1, <1>5 DEF IInv, SuccessIsDelivered
<1>15. LifeStep
  BY <1>1 DEF LifeStep
<1> QED BY <1>9, <1>10, <1>11, <1>12, <1>13, <1>14, <1>15 DEF IInv

LEMMA RequestKeeps ==
    ASSUME IInv, UNCHANGED rows, NEW r \in Runs, wf[r].phase = "deliver",
           Request(Key(r))
    PROVE  /\ Grows /\ generation' \in Nat
           /\ provider' \in [AttemptKeys -> Answers \cup {NoAnswer}]
           /\ provider'[Key(r)] # NoAnswer
           /\ AttemptInv' /\ DecisionInv' /\ SuccessIsDelivered'
<1>1. /\ Key(r) \in AttemptKeys /\ Key(r)[1] = r[2] /\ Key(r)[2] = wf[r].number
      /\ generation \in Nat /\ RunSound(r)
  BY KeyOf DEF IInv, RunInv
<1>2. NoAnswer \notin Answers
  BY DeliveryAssumption DEF NoAnswer, Outcomes
<1>3. /\ provider' \in [AttemptKeys -> Answers \cup {NoAnswer}]
      /\ provider'[Key(r)] # NoAnswer
      /\ \A k \in AttemptKeys : k # Key(r) \/ provider[k] # NoAnswer =>
           provider'[k] = provider[k]
  BY <1>1, <1>2 DEF Request, IInv, TypeOK
<1>4. Grows
  BY <1>1, <1>3 DEF Grows, rows, Begun, Closed
<1>5. ASSUME NEW k \in AttemptKeys, Retried(k) PROVE Retried(k)'
  BY <1>3, <1>5, RetriedAnswered DEF IInv, Retried
<1>6. ASSUME NEW k \in AttemptKeys, attempts[k] \in {"SUCCEEDED", "FAILED"}
      PROVE  provider'[k] = provider[k]
  <2>1. provider[k].kind \in {"SUCCEEDED", "FAILED"}
    BY <1>6 DEF IInv, AttemptInv
  <2> QED BY <1>3, <2>1, AnswerKinds DEF IInv
<1>7. AttemptInv'
  <2>1. ASSUME NEW k \in AttemptKeys, provider'[k] # NoAnswer
        PROVE  /\ k[1] <= generation
               /\ \A m \in Numbers : m < k[2] => Retried(<<k[1], m>>)'
    <3>1. /\ k[1] <= generation
          /\ \A m \in Numbers : m < k[2] => Retried(<<k[1], m>>)
      BY <1>1, <1>3, <2>1 DEF IInv, AttemptInv, RunSound
    <3>2. \A m \in Numbers : <<k[1], m>> \in AttemptKeys
      BY DEF AttemptKeys
    <3> QED BY <3>1, <3>2, <1>5
  <2>2. \A c \in callbacks : c.id[1] \in AttemptKeys
    BY DEF IInv, TypeOK, CallbackRows, CallbackIds
  <2> QED BY <1>6, <2>1, <2>2 DEF IInv, AttemptInv, rows, Final, Closed
<1>8. DecisionInv'
  <2>1. ASSUME NEW g \in Generations, <<"DeliveryFailed", g>> \in outbox
        PROVE  \E n \in Numbers : provider'[<<g, n>>].kind = "FAILED" /\ Final(<<g, n>>)'
    <3>1. PICK n \in Numbers : provider[<<g, n>>].kind = "FAILED" /\ Final(<<g, n>>)
      BY <2>1 DEF IInv, DecisionInv
    <3>2. <<g, n>> \in AttemptKeys
      BY DEF AttemptKeys
    <3>3. provider'[<<g, n>>] = provider[<<g, n>>]
      BY <1>3, <3>1, <3>2, RetriedAnswered DEF IInv
    <3> QED BY <3>1, <3>3 DEF Final
  <2> QED BY <2>1 DEF IInv, DecisionInv, rows
<1>9. SuccessIsDelivered'
  BY DEF IInv, SuccessIsDelivered, rows
<1> QED BY <1>1, <1>3, <1>4, <1>7, <1>8, <1>9 DEF rows

LEMMA DeliverStep ==
    ASSUME IInv, NEW r \in Runs, Deliver(r) PROVE IInv' /\ LifeStep
<1>1. PICK tag \in Tags : Go(r, [At("apply", wf[r].number) EXCEPT !.tag = tag])
  BY DEF Deliver
<1> DEFINE x == [At("apply", wf[r].number) EXCEPT !.tag = tag]
<1>2. /\ wf[r].phase = "deliver" /\ RunSound(r) /\ Request(Key(r))
      /\ UNCHANGED <<rows, throws>>
  BY DEF Deliver, IInv, RunInv
<1>3. wf[r].number \in Numbers /\ Key(r) \in AttemptKeys
  BY KeyOf DEF IInv
<1>4. /\ x \in RunStates /\ x.phase = "apply" /\ x.number = wf[r].number
      /\ x.tag = tag
  BY <1>3, Places DEF At
<1>5. /\ wf' = [wf EXCEPT ![r] = x] /\ UNCHANGED <<ready, starting, runtime, crashes>>
  BY <1>1 DEF Go
<1> HIDE DEF x
<1>6. wf' \in [Runs -> RunStates] /\ wf'[r] = x
  BY <1>4, <1>5 DEF IInv, TypeOK
<1>7. /\ Grows /\ generation' \in Nat
      /\ provider' \in [AttemptKeys -> Answers \cup {NoAnswer}]
      /\ provider'[Key(r)] # NoAnswer
      /\ AttemptInv' /\ DecisionInv' /\ SuccessIsDelivered'
  BY <1>2, RequestKeeps
<1>8. Key(r)' = Key(r)
  BY <1>4, <1>6 DEF Key
<1>9. RunSound(r)' /\ SeenSound(r)'
  <2>1. \A m \in Numbers : m < wf[r].number => Retried(<<r[2], m>>)'
    <3>1. provider'[Key(r)] # NoAnswer /\ Key(r)[1] = r[2] /\ Key(r)[2] = wf[r].number
      BY <1>7, KeyOf DEF IInv
    <3> QED BY <1>3, <1>7, <3>1 DEF AttemptInv
  <2>2. r[2] <= generation' /\ Begun' /\ attempts'[Key(r)] # "NONE"
    BY <1>2 DEF RunSound, Begun, rows
  <2> QED BY <1>4, <1>6, <1>7, <1>8, <2>1, <2>2 DEF RunSound, SeenSound
<1>10. RunInv' /\ SeenInv'
  BY <1>5, <1>7, <1>9, OneRunMoves
<1>11. TypeOK'
  BY <1>2, <1>5, <1>6, <1>7 DEF IInv, TypeOK, rows
<1>12. MessageInv'
  BY <1>5 DEF IInv, MessageInv
<1> QED BY <1>2, <1>7, <1>10, <1>11, <1>12 DEF IInv, LifeStep, rows

LEMMA ReplyLostStep ==
    ASSUME IInv, NEW r \in Runs, ReplyLost(r) PROVE IInv' /\ LifeStep
<1>1. /\ wf[r].phase = "deliver" /\ Request(Key(r)) /\ UNCHANGED rows
      /\ UNCHANGED <<starting, runtime, crashes>>
  BY DEF ReplyLost
<1>2. /\ Grows /\ generation' \in Nat
      /\ provider' \in [AttemptKeys -> Answers \cup {NoAnswer}]
      /\ AttemptInv' /\ DecisionInv' /\ SuccessIsDelivered'
  BY <1>1, RequestKeeps
<1>3. /\ MessageInv' /\ ready' \in Messages
      /\ RunInv' /\ SeenInv' /\ wf' \in [Runs -> RunStates]
  <2>1. CASE Failing(r)
    BY <1>1, <1>2, <2>1, FailingKeeps
  <2>2. CASE UNCHANGED <<wf, ready>>
    <3>1. RunInv' /\ SeenInv'
      BY <1>1, <1>2, <2>2, RunsMove
    <3>2. MessageInv' /\ ready' \in Messages
      BY <1>1, <2>2 DEF IInv, TypeOK, MessageInv, Messages
    <3> QED BY <2>2, <3>1, <3>2 DEF IInv, TypeOK
  <2> QED BY <2>1, <2>2 DEF ReplyLost
<1>4. throws' \in 0..MaxThrows
  BY DeliveryAssumption DEF ReplyLost, IInv, TypeOK
<1>5. TypeOK'
  BY <1>1, <1>2, <1>3, <1>4 DEF IInv, TypeOK, rows, Messages
<1> QED BY <1>1, <1>2, <1>3, <1>5 DEF IInv, LifeStep, rows

-------------------------------------------------------------------------------
(* applyProviderOutcome.                                                    *)

\* The commit moves the message, the run and nothing else, however its reply
\* fares.
LEMMA CommitKeeps ==
    ASSUME IInv, NEW r \in Runs, wf[r].phase = "applying", Grows,
           NEW phase \in {"done", "ignored", "reload", "failed"},
           Commit(r, phase), UNCHANGED provider,
           phase = "reload" => Retried(Key(r)),
           phase = "done" => Closed(r[2])'
    PROVE  /\ MessageInv' /\ RunInv' /\ SeenInv'
           /\ ready' \in Messages /\ wf' \in [Runs -> RunStates]
           /\ throws' \in 0..MaxThrows
           /\ UNCHANGED <<generation, currentAttempt, starting, runtime, crashes>>
<1>1. /\ RunSound(r) /\ wf[r].number \in Numbers /\ Key(r) \in AttemptKeys
      /\ generation \in Nat /\ UNCHANGED <<generation, currentAttempt, starting,
                                           runtime, crashes>>
  BY KeyOf DEF Commit, IInv, RunInv
<1>2. throws' \in 0..MaxThrows
  BY DeliveryAssumption DEF Commit, IInv, TypeOK
<1>3. CASE Failing(r)
  BY <1>1, <1>2, <1>3, FailingKeeps
<1>4. ASSUME NEW x \in RunStates, wf' = [wf EXCEPT ![r] = x], UNCHANGED ready,
             x.number = wf[r].number,
             x.phase = phase \/ (x.phase = "apply" /\ x.tag = wf[r].tag)
      PROVE  /\ MessageInv' /\ RunInv' /\ SeenInv'
             /\ ready' \in Messages /\ wf' \in [Runs -> RunStates]
  <2>1. wf' \in [Runs -> RunStates] /\ wf'[r] = x
    BY <1>4 DEF IInv, TypeOK
  <2>2. Key(r)' = Key(r)
    BY <1>4, <2>1 DEF Key
  <2>3. r[2] <= generation' /\ Begun'
    BY <1>1 DEF RunSound, Grows
  <2>4. provider'[Key(r)] # NoAnswer /\ attempts'[Key(r)] # "NONE" /\ wf[r].tag \in Tags
    BY <1>1 DEF RunSound, Grows
  <2>5. \A m \in Numbers : m < x.number => Retried(<<r[2], m>>)'
    BY <1>1, <1>4 DEF RunSound, Retried
  <2>6. phase = "reload" => Retried(Key(r))'
    BY <2>2 DEF Retried
  <2>7. RunSound(r)'
    BY <1>4, <2>1, <2>2, <2>3, <2>4, <2>5, <2>6 DEF RunSound
  <2>8. SeenSound(r)'
    BY <1>4, <2>1 DEF SeenSound
  <2>9. RunInv' /\ SeenInv'
    BY <1>1, <1>4, <2>7, <2>8, OneRunMoves
  <2> QED BY <1>1, <1>4, <2>1, <2>9 DEF IInv, TypeOK, MessageInv, Messages
<1>5. CASE wf' = [wf EXCEPT ![r] = At(phase, wf[r].number)] /\ UNCHANGED ready
  <2>1. /\ At(phase, wf[r].number) \in RunStates
        /\ At(phase, wf[r].number).number = wf[r].number
        /\ At(phase, wf[r].number).phase = phase
    BY <1>1, Places DEF RunPhases, At
  <2> QED BY <1>1, <1>2, <1>4, <1>5, <2>1
<1>6. CASE /\ wf' = [wf EXCEPT ![r] = [At("apply", wf[r].number)
                                         EXCEPT !.tag = wf[r].tag]]
           /\ UNCHANGED ready
  <2> DEFINE y == [At("apply", wf[r].number) EXCEPT !.tag = wf[r].tag]
  <2>1. /\ y \in RunStates /\ y.number = wf[r].number /\ y.phase = "apply"
        /\ y.tag = wf[r].tag
    BY <1>1, Places DEF At, RunSound
  <2> HIDE DEF y
  <2>2. wf' = [wf EXCEPT ![r] = y]
    BY <1>6 DEF y
  <2> QED BY <1>1, <1>2, <1>4, <1>6, <2>1, <2>2
<1> QED BY <1>3, <1>5, <1>6 DEF Commit

\* What a run in applyProviderOutcome knows.
LEMMA ApplyingRun ==
    ASSUME IInv, NEW r \in Runs, wf[r].phase = "applying"
    PROVE  /\ RunSound(r) /\ SeenSound(r) /\ r[2] \in Generations
           /\ r[2] \in Nat /\ generation \in Nat /\ generation \in Generations
           /\ Key(r) \in AttemptKeys /\ Key(r) = <<r[2], wf[r].number>>
           /\ Key(r)[1] = r[2] /\ Key(r)[2] = wf[r].number
           /\ wf[r].number \in Numbers
           /\ Outcome(r) \in Outcomes /\ Outcome(r) \in Answers
           /\ Outcome(r) = provider[Key(r)]
           /\ Outcome(r).kind \in {"SUCCEEDED", "FAILED"}
           /\ Outcome(r).retryable \in BOOLEAN
           /\ CallbackId(r) \in CallbackIds
<1>1. RunSound(r) /\ SeenSound(r)
  BY DEF IInv, RunInv, SeenInv
<1>2. /\ r[2] \in Generations /\ r[2] \in Nat /\ generation \in Nat
      /\ generation \in Generations
      /\ Key(r) \in AttemptKeys /\ Key(r) = <<r[2], wf[r].number>>
      /\ Key(r)[1] = r[2] /\ Key(r)[2] = wf[r].number /\ wf[r].number \in Numbers
  BY KeyOf DEF IInv
<1>3. provider[Key(r)] # NoAnswer /\ wf[r].tag \in Tags
  BY <1>1 DEF RunSound
<1>4. provider[Key(r)] \in Outcomes /\ provider[Key(r)] \in Answers
  BY <1>2, <1>3, AnswerKinds DEF IInv, TypeOK
<1>5. \A x \in Outcomes : x.kind \in {"SUCCEEDED", "FAILED"} /\ x.retryable \in BOOLEAN
  BY DEF Outcomes
<1> QED BY <1>1, <1>2, <1>3, <1>4, <1>5 DEF Outcome, CallbackId, CallbackIds

\* A decision that was seen still closes the generation of the run.
LEMMA SeenDecision ==
    ASSUME IInv, NEW r \in Runs, wf[r].phase = "applying",
           wf[r].seenStatus \in Terminal
    PROVE  Closed(r[2])
<1>1. SeenSound(r) /\ r[2] \in Generations
  BY ApplyingRun
<1>2. CASE wf[r].seenStatus = "DELIVERED"
  BY <1>1, <1>2 DEF SeenSound, Closed, Terminal
<1>3. CASE wf[r].seenStatus = "FAILED"
  <2>1. <<"DeliveryFailed", r[2]>> \in outbox
    BY <1>1, <1>3 DEF SeenSound, FailedEvent
  <2> QED BY <1>1, <2>1 DEF IInv, DecisionInv, Closed, Terminal
<1> QED BY <1>2, <1>3 DEF Terminal

\* Recording the provider's answer for the attempt and the callback, in a step
\* that leaves the generation and the provider alone and undoes no decision.
LEMMA Recording ==
    ASSUME IInv, NEW r \in Runs, wf[r].phase = "applying", RecordCallback(r),
           \/ attempts' = attempts /\ attempts[Key(r)] \in {"SUCCEEDED", "FAILED"}
           \/ RecordAttempt(r),
           UNCHANGED <<generation, provider>>, status' \in Statuses,
           Begun', status \in Terminal => status' = status,
           outbox \subseteq outbox',
           Final(Key(r)) => Closed(r[2])',
           Outcome(r).kind = "SUCCEEDED" => status' = "DELIVERED",
           status' = "DELIVERED" => status = "DELIVERED" \/ Outcome(r).kind = "SUCCEEDED"
    PROVE  /\ Grows /\ AttemptInv' /\ SuccessIsDelivered'
           /\ attempts' \in [AttemptKeys -> {"NONE", "PENDING", "SUCCEEDED", "FAILED"}]
           /\ callbacks' \subseteq CallbackRows
<1>1. /\ Key(r) \in AttemptKeys /\ Outcome(r) = provider[Key(r)]
      /\ Outcome(r) \in Outcomes /\ Outcome(r).kind \in {"SUCCEEDED", "FAILED"}
      /\ CallbackId(r) \in CallbackIds /\ generation \in Nat /\ Key(r)[1] = r[2]
  BY ApplyingRun
<1>2. /\ attempts' \in [AttemptKeys -> {"NONE", "PENDING", "SUCCEEDED", "FAILED"}]
      /\ attempts'[Key(r)] = provider[Key(r)].kind
      /\ \A k \in AttemptKeys : k # Key(r) => attempts'[k] = attempts[k]
  BY <1>1 DEF RecordAttempt, IInv, TypeOK, AttemptInv
<1>3. \A k \in AttemptKeys :
        attempts[k] \in {"SUCCEEDED", "FAILED"} => attempts'[k] = attempts[k]
  BY <1>1, <1>2 DEF IInv, AttemptInv
<1>4. Grows
  <2>1. \A k \in AttemptKeys : attempts[k] # "NONE" => attempts'[k] # "NONE"
    BY <1>1, <1>2
  <2>2. \A g \in Generations : Closed(g) => Closed(g)'
    BY DEF Closed
  <2> QED BY <1>1, <1>3, <2>1, <2>2 DEF Grows, Terminal
<1>5. callbacks' = callbacks \cup {[id |-> CallbackId(r), outcome |-> Outcome(r)]}
      /\ CallbackId(r)[1] = Key(r)
  BY DEF RecordCallback, CallbackId
<1>6. callbacks' \subseteq CallbackRows
  BY <1>1, <1>5 DEF IInv, TypeOK, CallbackRows
<1>7. AttemptInv'
  <2>1. \A c \in callbacks : c.id[1] \in AttemptKeys
    BY DEF IInv, TypeOK, CallbackRows, CallbackIds
  <2>2. \A c \in callbacks' :
          /\ c.outcome = provider[c.id[1]]
          /\ attempts'[c.id[1]] \in {"SUCCEEDED", "FAILED"}
    BY <1>1, <1>2, <1>3, <1>5, <2>1 DEF IInv, AttemptInv
  <2>3. \A k \in AttemptKeys : attempts'[k] \in {"SUCCEEDED", "FAILED"} =>
          attempts'[k] = provider[k].kind /\ (Final(k) => Closed(k[1])')
    <3>1. \A k \in AttemptKeys : Closed(k[1]) => Closed(k[1])'
      BY DEF Closed
    <3> QED BY <1>1, <1>2, <3>1 DEF IInv, AttemptInv
  <2>4. \A k \in AttemptKeys : Retried(k)' = Retried(k) /\ Final(k)' = Final(k)
    BY DEF Retried, Final
  <2>5. \A k \in AttemptKeys, m \in Numbers : <<k[1], m>> \in AttemptKeys
    BY DEF AttemptKeys
  <2> QED BY <2>2, <2>3, <2>4, <2>5 DEF IInv, AttemptInv
<1>8. SuccessIsDelivered'
  <2>1. ASSUME status' = "DELIVERED" PROVE \E a \in AttemptKeys : attempts'[a] = "SUCCEEDED"
    BY <1>1, <1>2, <1>3, <2>1 DEF IInv, SuccessIsDelivered
  <2>2. ASSUME NEW a \in AttemptKeys, attempts'[a] = "SUCCEEDED" PROVE status' = "DELIVERED"
    BY <1>1, <1>2, <2>2 DEF IInv, SuccessIsDelivered, Terminal
  <2> QED BY <2>1, <2>2 DEF SuccessIsDelivered
<1> QED BY <1>2, <1>4, <1>6, <1>7, <1>8

LEMMA ApplyKnownStep ==
    ASSUME IInv, NEW r \in Runs, wf[r].phase = "applying", ApplyKnown(r)
    PROVE  IInv' /\ LifeStep
<1> DEFINE c == CHOOSE x \in callbacks : x.id = CallbackId(r)
           phase == IF c.outcome # Outcome(r) THEN "failed"
                    ELSE IF RetriesLeft(r) /\ wf[r].seenStatus \notin Terminal
                    THEN "reload" ELSE "done"
<1>1. /\ Key(r) \in AttemptKeys /\ Outcome(r) = provider[Key(r)] /\ Key(r)[1] = r[2]
      /\ Outcome(r).kind \in {"SUCCEEDED", "FAILED"} /\ Outcome(r).retryable \in BOOLEAN
      /\ Key(r)[2] = wf[r].number /\ wf[r].number \in Numbers
  BY ApplyingRun
<1>2. Commit(r, phase) /\ UNCHANGED <<rows, provider>> /\ Known(r)
  BY DEF ApplyKnown, Commit, rows
<1>3. phase \in {"done", "ignored", "reload", "failed"}
  OBVIOUS
<1>4. phase = "reload" => Retried(Key(r))
  BY <1>1 DEF RetriesLeft, Retried
<1>5. phase = "done" => Closed(r[2])
  <2>1. CASE wf[r].seenStatus \in Terminal
    BY <2>1, SeenDecision
  <2>2. CASE RetriesLeft(r) /\ wf[r].seenStatus \notin Terminal
    BY <2>2
  <2>3. CASE ~RetriesLeft(r)
    <3>1. attempts[Key(r)] \in {"SUCCEEDED", "FAILED"}
      BY <1>2 DEF Known, CallbackId, IInv, AttemptInv
    <3>2. Final(Key(r))
      BY <1>1, <2>3, DeliveryAssumption DEF RetriesLeft, Final, Numbers
    <3> QED BY <1>1, <3>1, <3>2 DEF IInv, AttemptInv
  <2> QED BY <2>1, <2>2, <2>3
<1>6. Grows /\ generation' \in Nat /\ AttemptInv' /\ DecisionInv' /\ SuccessIsDelivered'
  BY <1>2, CalmStep
<1>7. phase = "done" => Closed(r[2])'
  BY <1>2, <1>5 DEF Closed, rows
<1> HIDE DEF phase
<1>8. /\ MessageInv' /\ RunInv' /\ SeenInv'
      /\ ready' \in Messages /\ wf' \in [Runs -> RunStates]
      /\ throws' \in 0..MaxThrows
      /\ UNCHANGED <<generation, currentAttempt, starting, runtime, crashes>>
  BY <1>2, <1>3, <1>4, <1>6, <1>7, CommitKeeps
<1>9. TypeOK'
  BY <1>2, <1>8 DEF IInv, TypeOK, rows, Messages
<1> QED BY <1>2, <1>6, <1>8, <1>9 DEF IInv, LifeStep, rows

\* A commit that records the answer keeps the invariant if what it decides
\* keeps the decisions.
LEMMA RecordingStep ==
    ASSUME IInv, NEW r \in Runs, wf[r].phase = "applying",
           NEW phase \in {"done", "ignored", "reload", "failed"},
           Commit(r, phase), phase = "reload" => Retried(Key(r)),
           phase = "done" => Closed(r[2])',
           Grows, AttemptInv', SuccessIsDelivered', DecisionInv',
           attempts' \in [AttemptKeys -> {"NONE", "PENDING", "SUCCEEDED", "FAILED"}],
           callbacks' \subseteq CallbackRows, status' \in Statuses,
           failureRetryable' \in BOOLEAN, outbox' \subseteq Events
    PROVE  IInv'
<1>1. UNCHANGED provider
  BY DEF Commit
<1>2. /\ MessageInv' /\ RunInv' /\ SeenInv'
      /\ ready' \in Messages /\ wf' \in [Runs -> RunStates]
      /\ throws' \in 0..MaxThrows
      /\ UNCHANGED <<generation, currentAttempt, starting, runtime, crashes>>
  BY <1>1, CommitKeeps
<1>3. TypeOK'
  BY <1>1, <1>2 DEF IInv, TypeOK, Messages
<1> QED BY <1>2, <1>3 DEF IInv

LEMMA ApplyLateStep ==
    ASSUME IInv, NEW r \in Runs, wf[r].phase = "applying", ApplyLate(r)
    PROVE  IInv' /\ LifeStep
<1> DEFINE phase == IF wf[r].seenStatus \in Terminal THEN "done" ELSE "ignored"
<1>1. /\ RunSound(r) /\ SeenSound(r) /\ Key(r) \in AttemptKeys
      /\ Outcome(r) = provider[Key(r)] /\ Key(r) = <<r[2], wf[r].number>>
      /\ r[2] \in Generations /\ wf[r].number \in Numbers /\ Key(r)[1] = r[2]
      /\ Outcome(r).kind \in {"SUCCEEDED", "FAILED"}
  BY ApplyingRun
<1>2. /\ RecordCallback(r) /\ ~SeenOpen(r) /\ Commit(r, phase)
      /\ IF wf[r].seenAttempt = "PENDING" THEN RecordAttempt(r) ELSE UNCHANGED attempts
      /\ UNCHANGED <<status, generation, provider, failureRetryable, outbox>>
  BY DEF ApplyLate, Commit
<1>3. wf[r].seenStatus \in Terminal => Closed(r[2])
  BY SeenDecision
<1>4. wf[r].seenAttempt # "PENDING" =>
        attempts[Key(r)] \in {"SUCCEEDED", "FAILED"} /\ UNCHANGED attempts
  <2>1. wf[r].seenAttempt \in {"NONE", "PENDING", "SUCCEEDED", "FAILED"}
    BY KeyOf DEF IInv, RunStates
  <2> QED BY <1>1, <1>2, <2>1 DEF SeenSound
<1>5. wf[r].seenAttempt = "PENDING" => wf[r].seenStatus \in Terminal /\ RecordAttempt(r)
  BY <1>2 DEF SeenOpen
<1>6. Final(Key(r)) => Closed(r[2])
  BY <1>1, <1>3, <1>4, <1>5 DEF IInv, AttemptInv
<1>7. Outcome(r).kind = "SUCCEEDED" => status = "DELIVERED"
  <2>1. CASE wf[r].seenAttempt # "PENDING"
    BY <1>1, <1>4, <2>1 DEF IInv, AttemptInv, SuccessIsDelivered
  <2>2. CASE wf[r].seenAttempt = "PENDING"
    <3>1. CASE wf[r].seenStatus = "DELIVERED"
      BY <1>1, <3>1 DEF SeenSound
    <3>2. CASE wf[r].seenStatus = "FAILED"
      <4>1. <<"DeliveryFailed", r[2]>> \in outbox
        BY <1>1, <3>2 DEF SeenSound, FailedEvent
      <4> QED BY <1>1, <4>1, NoArrival
    <3> QED BY <1>5, <2>2, <3>1, <3>2 DEF Terminal
  <2> QED BY <2>1, <2>2
<1>8. Begun' /\ status' \in Statuses /\ failureRetryable' \in BOOLEAN
      /\ outbox' \subseteq Events /\ (Closed(r[2]) => Closed(r[2])')
  BY <1>1, <1>2 DEF RunSound, Begun, IInv, TypeOK, Closed
<1>9. /\ Grows /\ AttemptInv' /\ SuccessIsDelivered'
      /\ attempts' \in [AttemptKeys -> {"NONE", "PENDING", "SUCCEEDED", "FAILED"}]
      /\ callbacks' \subseteq CallbackRows
  BY <1>1, <1>2, <1>4, <1>5, <1>6, <1>7, <1>8, Recording
<1>10. DecisionInv'
  BY <1>2 DEF IInv, DecisionInv, Final
<1>11. phase \in {"done", "ignored", "reload", "failed"}
       /\ (phase = "reload" => Retried(Key(r))) /\ (phase = "done" => Closed(r[2])')
  BY <1>3, <1>8
<1> HIDE DEF phase
<1>12. IInv'
  BY <1>2, <1>8, <1>9, <1>10, <1>11, RecordingStep
<1> QED BY <1>2, <1>12 DEF LifeStep

LEMMA ApplySuccessStep ==
    ASSUME IInv, NEW r \in Runs, wf[r].phase = "applying", ApplySuccess(r)
    PROVE  IInv' /\ LifeStep
<1>1. /\ RunSound(r) /\ SeenSound(r) /\ Key(r) \in AttemptKeys
      /\ Outcome(r) = provider[Key(r)] /\ Key(r) = <<r[2], wf[r].number>>
      /\ r[2] \in Generations /\ wf[r].number \in Numbers /\ Key(r)[1] = r[2]
      /\ generation \in Nat /\ r[2] \in Nat
  BY ApplyingRun
<1>2. /\ SeenOpen(r) /\ Outcome(r).kind = "SUCCEEDED" /\ Arrival(r) \cap outbox = {}
      /\ RecordCallback(r) /\ RecordAttempt(r) /\ Commit(r, "done")
      /\ outbox' = outbox \cup Arrival(r)
      /\ status' = (IF status \in Deliverable THEN "DELIVERED" ELSE status)
      /\ failureRetryable' = (IF status \in Deliverable THEN FALSE
                              ELSE failureRetryable)
      /\ UNCHANGED <<generation, provider>>
  BY DEF ApplySuccess, Commit
<1>3. wf[r].seenStatus = "READY"
  BY <1>1, <1>2 DEF SeenOpen, SeenSound, Terminal
<1>4. Arrival(r) = {<<"DeliveryCompleted", 0>>, <<"DeliveryStarted", 0>>}
  BY <1>3 DEF Arrival
<1>5. status # "DELIVERED"
  BY <1>2, <1>4 DEF IInv, DecisionInv
<1>6. r[2] = generation
  BY <1>1, <1>2, ArrivalIsCurrent
<1>7. status # "FAILED"
  <2>1. SUFFICES ASSUME status = "FAILED" PROVE FALSE
    OBVIOUS
  <2>2. <<"DeliveryFailed", r[2]>> \in outbox
    BY <1>1, <1>6, <2>1 DEF IInv, DecisionInv
  <2> QED BY <1>1, <1>2, <2>2, NoArrival
<1>8. status = "READY"
  BY <1>1, <1>5, <1>7 DEF RunSound, Begun, IInv, TypeOK, Statuses, DecisionInv
<1>9. status' = "DELIVERED" /\ failureRetryable' = FALSE
  BY <1>2, <1>8 DEF Deliverable
<1>10. Begun' /\ status' \in Statuses /\ Closed(r[2])' /\ outbox' \subseteq Events
  BY <1>2, <1>4, <1>9 DEF Begun, Statuses, Closed, Terminal, Events, IInv, TypeOK
<1>11. /\ Grows /\ AttemptInv' /\ SuccessIsDelivered'
       /\ attempts' \in [AttemptKeys -> {"NONE", "PENDING", "SUCCEEDED", "FAILED"}]
       /\ callbacks' \subseteq CallbackRows
  BY <1>2, <1>8, <1>9, <1>10, Recording DEF Terminal
<1>12. DecisionInv'
  <2>1. \A g \in Generations :
          <<"DeliveryFailed", g>> \notin Arrival(r)
    BY <1>4
  <2>2. <<"DeliveryCreated", 0>> \in outbox' /\ <<"DeliveryCompleted", 0>> \in outbox'
        /\ <<"DeliveryStarted", 0>> \in outbox'
    BY <1>2, <1>4, <1>8 DEF IInv, DecisionInv
  <2> QED BY <1>2, <1>8, <1>9, <2>1, <2>2 DEF IInv, DecisionInv, Final
<1>13. IInv'
  BY <1>2, <1>9, <1>10, <1>11, <1>12, RecordingStep
<1>14. Lifecycle!Arrive
  BY <1>2, <1>4, <1>8, <1>9 DEF Lifecycle!Arrive, Lifecycle!Announce
<1> QED BY <1>13, <1>14 DEF LifeStep, Lifecycle!Next

LEMMA ApplyRetryStep ==
    ASSUME IInv, NEW r \in Runs, wf[r].phase = "applying", ApplyRetry(r)
    PROVE  IInv' /\ LifeStep
<1>1. /\ RunSound(r) /\ Key(r) \in AttemptKeys /\ Outcome(r) = provider[Key(r)]
      /\ Key(r)[2] = wf[r].number
  BY ApplyingRun
<1>2. /\ RetriesLeft(r) /\ RecordCallback(r) /\ RecordAttempt(r) /\ Commit(r, "reload")
      /\ status' = (IF status \in Underway THEN "READY" ELSE status)
      /\ failureRetryable' = (IF status \in Underway THEN TRUE ELSE failureRetryable)
      /\ UNCHANGED <<generation, provider, outbox>>
  BY DEF ApplyRetry, Commit
<1>3. status # "IN_TRANSIT"
  BY DEF IInv, DecisionInv
<1>4. status' = status /\ failureRetryable' \in BOOLEAN
  BY <1>2, <1>3 DEF Underway, IInv, TypeOK
<1>5. Retried(Key(r)) /\ Outcome(r).kind = "FAILED" /\ ~Final(Key(r))
  BY <1>1, <1>2, DeliveryAssumption DEF RetriesLeft, Retried, Final
<1>6. Begun' /\ status' \in Statuses /\ outbox' \subseteq Events
  BY <1>1, <1>2, <1>4 DEF RunSound, Begun, IInv, TypeOK
<1>7. /\ Grows /\ AttemptInv' /\ SuccessIsDelivered'
      /\ attempts' \in [AttemptKeys -> {"NONE", "PENDING", "SUCCEEDED", "FAILED"}]
      /\ callbacks' \subseteq CallbackRows
  BY <1>2, <1>4, <1>5, <1>6, Recording
<1>8. DecisionInv'
  BY <1>2, <1>4 DEF IInv, DecisionInv, Final
<1>9. IInv'
  BY <1>2, <1>4, <1>5, <1>6, <1>7, <1>8, RecordingStep
<1>10. LifeStep
  BY <1>2, <1>3, <1>4 DEF LifeStep, Lifecycle!Next, Lifecycle!Refuse, Underway
<1> QED BY <1>9, <1>10

LEMMA ApplyFailureStep ==
    ASSUME IInv, NEW r \in Runs, wf[r].phase = "applying", ApplyFailure(r)
    PROVE  IInv' /\ LifeStep
<1>1. /\ RunSound(r) /\ Key(r) \in AttemptKeys /\ Outcome(r) = provider[Key(r)]
      /\ Key(r)[2] = wf[r].number /\ Key(r) = <<r[2], wf[r].number>>
      /\ r[2] \in Generations /\ wf[r].number \in Numbers /\ Key(r)[1] = r[2]
      /\ generation \in Nat /\ r[2] \in Nat /\ Outcome(r).retryable \in BOOLEAN
  BY ApplyingRun
<1>2. /\ FinalRefusal(r) /\ FailedEvent(r) \notin outbox
      /\ RecordCallback(r) /\ RecordAttempt(r) /\ Commit(r, "done")
      /\ outbox' = outbox \cup {FailedEvent(r)}
      /\ status' = (IF status \in Underway THEN "FAILED" ELSE status)
      /\ failureRetryable' = (IF status \in Underway THEN Outcome(r).retryable
                              ELSE failureRetryable)
      /\ UNCHANGED <<generation, provider>>
  BY DEF ApplyFailure, Commit
<1>3. Outcome(r).kind = "FAILED" /\ Final(Key(r))
  BY <1>1, <1>2, DeliveryAssumption DEF FinalRefusal, RetriesLeft, Final, Numbers
<1>4. r[2] = generation /\ status # "FAILED"
  <2>1. r[2] <= generation
    BY <1>1 DEF RunSound
  <2>2. ~(r[2] < generation \/ (r[2] = generation /\ status = "FAILED"))
    BY <1>1, <1>2 DEF FailedEvent, IInv, DecisionInv
  <2> QED BY <1>1, <2>1, <2>2
<1>5. status # "DELIVERED"
  <2>1. SUFFICES ASSUME status = "DELIVERED" PROVE FALSE
    OBVIOUS
  <2>2. PICK a \in AttemptKeys : attempts[a] = "SUCCEEDED"
    BY <2>1 DEF IInv, SuccessIsDelivered
  <2>3. provider[a].kind = "SUCCEEDED"
    BY <2>2 DEF IInv, AttemptInv
  <2>4. a[1] = r[2] /\ a = <<a[1], a[2]>> /\ a[2] \in Numbers
    BY <1>4, <2>3, ArrivalIsCurrent DEF AttemptKeys
  <2> QED BY <1>1, <1>3, <2>3, <2>4, OneAnswer
<1>6. status = "READY"
  BY <1>1, <1>4, <1>5 DEF RunSound, Begun, IInv, TypeOK, Statuses, DecisionInv
<1>7. status' = "FAILED" /\ failureRetryable' \in BOOLEAN
  BY <1>1, <1>2, <1>6 DEF Underway
<1>8. Begun' /\ status' \in Statuses /\ Closed(r[2])' /\ outbox' \subseteq Events
  BY <1>1, <1>2, <1>7
     DEF Begun, Statuses, Closed, Terminal, Events, FailedEvent, IInv, TypeOK
<1>9. /\ Grows /\ AttemptInv' /\ SuccessIsDelivered'
      /\ attempts' \in [AttemptKeys -> {"NONE", "PENDING", "SUCCEEDED", "FAILED"}]
      /\ callbacks' \subseteq CallbackRows
  BY <1>2, <1>3, <1>6, <1>7, <1>8, Recording DEF Terminal
<1>10. DecisionInv'
  <2>1. outbox' = outbox \cup {<<"DeliveryFailed", generation>>}
    BY <1>2, <1>4 DEF FailedEvent
  <2>2. ASSUME NEW g \in Generations
        PROVE  <<"DeliveryFailed", g>> \in outbox' <=> g < generation \/ g = generation
    <3>1. g = generation => <<"DeliveryFailed", g>> \in outbox'
      BY <2>1
    <3>2. g # generation => (<<"DeliveryFailed", g>> \in outbox'
                             <=> <<"DeliveryFailed", g>> \in outbox)
      BY <2>1
    <3> QED BY <3>1, <3>2, <1>1, <1>6 DEF IInv, DecisionInv
  <2>3. ASSUME NEW g \in Generations, <<"DeliveryFailed", g>> \in outbox'
        PROVE  \E n \in Numbers : provider'[<<g, n>>].kind = "FAILED" /\ Final(<<g, n>>)'
    <3>1. CASE g = generation
      BY <1>1, <1>2, <1>3, <1>4, <3>1 DEF Final
    <3>2. CASE g # generation
      BY <1>2, <2>1, <2>3, <3>2 DEF IInv, DecisionInv, Final
    <3> QED BY <3>1, <3>2
  <2>4. /\ <<"DeliveryCreated", 0>> \in outbox'
        /\ <<"DeliveryStarted", 0>> \notin outbox'
        /\ <<"DeliveryCompleted", 0>> \notin outbox'
    BY <1>6, <2>1 DEF IInv, DecisionInv
  <2> QED BY <1>2, <1>7, <2>2, <2>3, <2>4 DEF DecisionInv
<1>11. IInv'
  BY <1>2, <1>7, <1>8, <1>9, <1>10, RecordingStep
<1>12. Lifecycle!Fail
  BY <1>2, <1>4, <1>6, <1>7 DEF Lifecycle!Fail, Lifecycle!Announce, FailedEvent
<1> QED BY <1>11, <1>12 DEF LifeStep, Lifecycle!Next

LEMMA ApplyRefusedStep ==
    ASSUME IInv, NEW r \in Runs, wf[r].phase = "applying", ApplyRefused(r)
    PROVE  IInv' /\ LifeStep
<1>1. UNCHANGED <<rows, provider, starting, runtime, throws, crashes>> /\ Failing(r)
  BY DEF ApplyRefused
<1>2. Grows /\ generation' \in Nat /\ AttemptInv' /\ DecisionInv' /\ SuccessIsDelivered'
  BY <1>1, CalmStep
<1>3. MessageInv' /\ ready' \in Messages /\ RunInv' /\ SeenInv'
      /\ wf' \in [Runs -> RunStates]
  BY <1>1, <1>2, FailingKeeps
<1>4. TypeOK'
  BY <1>1, <1>3 DEF IInv, TypeOK, rows, Messages
<1> QED BY <1>1, <1>2, <1>3, <1>4 DEF IInv, LifeStep, rows

LEMMA ApplyStep == ASSUME IInv, NEW r \in Runs, Apply(r) PROVE IInv' /\ LifeStep
BY ApplyKnownStep, ApplyLateStep, ApplySuccessStep, ApplyRetryStep,
   ApplyFailureStep, ApplyRefusedStep DEF Apply

-------------------------------------------------------------------------------
(* The specification.                                                       *)

LEMMA DeliveryStep == IInv /\ [Next]_vars => IInv' /\ LifeStep
<1> SUFFICES ASSUME IInv, [Next]_vars PROVE IInv' /\ LifeStep
  OBVIOUS
<1>1. CASE HandleOrderConfirmed BY <1>1, HandleOrderConfirmedStep
<1>2. CASE ReadyTooEarly BY <1>2, ReadyTooEarlyStep
<1>3. CASE \E p \in Replicas : HandleOrderReady(p) \/ RetryForUser(p) \/ Crash(p)
  BY <1>3, HandleOrderReadyStep, RetryForUserStep, CrashStep
<1>4. CASE \E s \in starting : Start(s)
  BY <1>4, StartStep
<1>5. CASE \E r \in Runs : WorkflowStep(r) \/ StepThrows(r) \/ ReplyLost(r)
  <2> SUFFICES ASSUME NEW r \in Runs, WorkflowStep(r) \/ StepThrows(r) \/ ReplyLost(r)
               PROVE  IInv' /\ LifeStep
    BY <1>5
  <2>1. CASE WorkflowStep(r)
    BY <2>1, LoadStep, EnsureReadStep, EnsureWriteStep, DeliverStep,
       BeginApplyStep, ApplyStep, ReloadStep DEF WorkflowStep
  <2> QED BY <2>1, StepThrowsStep, ReplyLostStep
<1>6. CASE UNCHANGED vars
  <2>1. UNCHANGED <<rows, provider>> /\ starting' = starting /\ wf' = wf
        /\ UNCHANGED <<ready, runtime, throws, crashes>>
    BY <1>6 DEF vars, rows
  <2>2. Grows /\ generation' \in Nat /\ AttemptInv' /\ DecisionInv'
        /\ SuccessIsDelivered'
    BY <2>1, CalmStep
  <2>3. RunInv' /\ SeenInv'
    BY <2>1, <2>2, RunsMove
  <2>4. TypeOK' /\ MessageInv'
    BY <2>1 DEF IInv, TypeOK, MessageInv, rows
  <2> QED BY <2>1, <2>2, <2>3, <2>4 DEF IInv, LifeStep, rows
<1> QED BY <1>1, <1>2, <1>3, <1>4, <1>5, <1>6 DEF Next

LEMMA DeliveryInvariant == Spec => []IInv
<1>1. Init => IInv
  BY DeliveryInitInv
<1>2. IInv /\ [Next]_vars => IInv'
  BY DeliveryStep
<1> QED BY <1>1, <1>2, PTL DEF Spec

\* The rows, the message, the starts and the runs keep their types.
THEOREM TypeCorrect == Spec => []TypeOK
<1>1. IInv => TypeOK
  BY DEF IInv
<1> QED BY <1>1, DeliveryInvariant, PTL

\* The provider delivers the Order at most once, over every attempt of every
\* generation, whatever runs overlap and whatever replies are lost.
THEOREM ArrivesOnce == Spec => []DeliveredOnce
<1> QED BY Unanimous, DeliveryInvariant, PTL

\* An attempt is recorded as successful exactly when the delivery is DELIVERED.
THEOREM SuccessDelivered == Spec => []SuccessIsDelivered
<1>1. IInv => SuccessIsDelivered
  BY DEF IInv
<1> QED BY <1>1, DeliveryInvariant, PTL

\* A run that ends normally leaves its generation over or decided.
THEOREM DoneDecided == Spec => []DoneRunDecided
<1>1. IInv => DoneRunDecided
  BY DEF IInv, RunInv, RunSound, DoneRunDecided, Closed
<1> QED BY <1>1, DeliveryInvariant, PTL

\* The transactions of the runs, the consumer and the operator implement the
\* lifecycle of one delivery: every decision is announced in its step, once.
THEOREM ImplementsLifecycle == Spec => LifecycleKept
<1>1. Init => Lifecycle!Init
  BY DEF Init, Lifecycle!Init
<1>2. IInv /\ [Next]_vars
        => [Lifecycle!Next]_<<status, generation, failureRetryable, outbox>>
  BY DeliveryStep DEF LifeStep
<1> QED BY <1>1, <1>2, DeliveryInvariant, PTL DEF Spec, LifecycleKept, Lifecycle!Spec
=============================================================================
