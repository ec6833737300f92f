---------------------------- MODULE MessagingProofs ----------------------------
(***************************************************************************)
(* The safety properties of Messaging, for any number of events, replicas,  *)
(* copies, overlapping dispatchers, attempts and faults: first the          *)
(* invariant of the Inbox, then that of the Outbox, then both side by side  *)
(* with InFlight, which follows an event that was handed over to its end.   *)
(*                                                                         *)
(* The steps of the Inbox are taken with copies that arrive without its     *)
(* bound (InboxStep), so that its lemmas serve the composition.  In the     *)
(* Outbox an attempt that is counted was tried before, but overlapping      *)
(* dispatchers count in any order and overwrite each other's count: the     *)
(* invariant reserves a publication for every dispatcher that tried one and *)
(* did not count it yet (Backed).                                           *)
(***************************************************************************)
EXTENDS Messaging, FiniteSetTheorems, WellFoundedInduction, TLAPS

-------------------------------------------------------------------------------
(* The Inbox.                                                              *)

InboxStep == InboxNext \/ Accept

\* A delivery sends its message to the dead letter queue only once the record
\* is kept.
DeadBacked ==
    \A d \in Deliveries :
        proc[d].phase = "dead" => deadLetter

\* Without failures the row is inserted once and never touched again.
CleanRun ==
    failures = 0 /\ hookFailures = 0 =>
        /\ inbox.status \in {"NONE", "PROCESSED"}
        /\ inbox.status = "NONE" => effects = 0
        /\ inbox.status = "PROCESSED" => effects = 1
        /\ \A d \in Deliveries :
             /\ proc[d].phase \notin {"hookfail", "record", "retry", "dead", "unacked"}
             /\ proc[d].phase = "effect" => proc[d].seen.status = "NONE"
             /\ proc[d].phase = "fail" => inbox.status = "PROCESSED"

\* A processed row whose callback did not run yet belongs to a delivery that
\* still has it to run, or its failure to record.
HookPending ==
    crashes = 0 /\ inbox.status = "PROCESSED" =>
        \/ hooks >= 1
        \/ \E d \in Deliveries :
             \/ proc[d].phase \in {"hook", "hookfail"}
             \/ proc[d].phase = "record" /\ proc[d].seen.status # "NONE"

InboxInv == InboxTypeOK /\ DeadLetterKept /\ DeadBacked /\ CleanRun /\ HookPending

-------------------------------------------------------------------------------
LEMMA InboxInitInv == InboxInit => InboxInv
<1> SUFFICES ASSUME InboxInit PROVE InboxInv
  OBVIOUS
<1>1. InboxTypeOK
  <2>1. NoInboxRow \in InboxRows
    BY DEF NoInboxRow, InboxRows, InboxStatuses
  <2>2. proc \in [Deliveries -> [phase : HandlerPhases, seen : InboxRows]]
    BY <2>1 DEF InboxInit, HandlerPhases
  <2>3. 0 + 0 + 0 <= MaxFaults
    BY InboxAssumption
  <2> QED BY <2>1, <2>2, <2>3 DEF InboxInit, InboxTypeOK
<1>2. DeadLetterKept /\ DeadBacked /\ CleanRun /\ HookPending
  BY DEF InboxInit, DeadLetterKept, DeadBacked, CleanRun, HookPending, NoInboxRow
<1> QED BY <1>1, <1>2 DEF InboxInv

LEMMA InboxStepType == InboxTypeOK /\ [InboxStep]_inboxVars => InboxTypeOK'
<1> SUFFICES ASSUME InboxTypeOK, [InboxStep]_inboxVars PROVE InboxTypeOK'
  OBVIOUS
<1> USE InboxAssumption
    DEF InboxTypeOK, InboxRows, InboxStatuses, HandlerPhases, db, broker, channel,
        bounds
<1>1. ASSUME NEW d \in Deliveries, Handle(d) PROVE InboxTypeOK'
  <2>1. CASE Receive(d) BY <2>1 DEF Receive, Goes
  <2>2. CASE Select(d) BY <2>2 DEF Select, SelectSkipping, Read
  <2>3. CASE Commit(d) BY <2>3 DEF Commit, CommitThen, Goes
  <2>4. CASE InsertConflicts(d) BY <2>4 DEF InsertConflicts, Goes
  <2>5. CASE Hook(d) BY <2>5 DEF Hook, Goes
  <2>6. CASE FailureRead(d) BY <2>6 DEF FailureRead, Read
  <2>7. CASE FailureWrite(d) BY <2>7 DEF FailureWrite, RecordThen, Goes
  <2>8. CASE FailureConflicts(d) BY <2>8 DEF FailureConflicts, Goes
  <2>9. CASE Report(d) BY <2>9 DEF Report, Goes
  <2>10. CASE SendToRetry(d) BY <2>10 DEF SendToRetry, Goes
  <2>11. CASE SendToDeadLetter(d) BY <2>11 DEF SendToDeadLetter, Goes
  <2>12. CASE Acknowledge(d) BY <2>12 DEF Acknowledge, Goes
  <2>13. CASE Forget(d) BY <2>13 DEF Forget, Goes
  <2> QED
    BY <1>1, <2>1, <2>2, <2>3, <2>4, <2>5, <2>6, <2>7, <2>8, <2>9, <2>10, <2>11,
       <2>12, <2>13 DEF Handle
<1>2. ASSUME NEW d \in Deliveries, EffectThrows(d) PROVE InboxTypeOK'
  BY <1>2 DEF EffectThrows, MayFail, Goes
<1>3. ASSUME NEW d \in Deliveries, HookThrows(d) PROVE InboxTypeOK'
  BY <1>3 DEF HookThrows, MayFail, Goes
<1>4. ASSUME NEW d \in Deliveries, Crash(d) PROVE InboxTypeOK'
  BY <1>4 DEF Crash, MayFail, Goes
<1>5. CASE RetryExpires
  BY <1>5 DEF RetryExpires, Redelivered
<1>6. CASE Accept
  BY <1>6 DEF Accept
<1>7. CASE UNCHANGED inboxVars
  BY <1>7 DEF inboxVars
<1> QED
  BY <1>1, <1>2, <1>3, <1>4, <1>5, <1>6, <1>7 DEF InboxStep, InboxNext, Arrive

LEMMA InboxStepDead ==
    InboxTypeOK /\ DeadLetterKept /\ DeadBacked /\ [InboxStep]_inboxVars
      => DeadLetterKept' /\ DeadBacked'
<1> SUFFICES ASSUME InboxTypeOK, DeadLetterKept, DeadBacked, [InboxStep]_inboxVars
             PROVE  DeadLetterKept' /\ DeadBacked'
  OBVIOUS
<1> USE DEF InboxTypeOK, InboxRows, DeadLetterKept, DeadBacked, db, broker, channel,
            bounds
<1>1. ASSUME NEW d \in Deliveries, Handle(d) PROVE DeadLetterKept' /\ DeadBacked'
  <2>1. CASE Receive(d) BY <2>1 DEF Receive, Goes
  <2>2. CASE Select(d) BY <2>2 DEF Select, SelectSkipping, Read
  <2>3. CASE Commit(d) BY <2>3 DEF Commit, CommitThen, Goes
  <2>4. CASE InsertConflicts(d) BY <2>4 DEF InsertConflicts, Goes
  <2>5. CASE Hook(d) BY <2>5 DEF Hook, Goes
  <2>6. CASE FailureRead(d) BY <2>6 DEF FailureRead, Read
  <2>7. CASE FailureWrite(d) BY <2>7 DEF FailureWrite, RecordThen, Goes
  <2>8. CASE FailureConflicts(d) BY <2>8 DEF FailureConflicts, Goes
  <2>9. CASE Report(d) BY <2>9 DEF Report, Goes
  <2>10. CASE SendToRetry(d) BY <2>10 DEF SendToRetry, Goes
  <2>11. CASE SendToDeadLetter(d) BY <2>11 DEF SendToDeadLetter, Goes
  <2>12. CASE Acknowledge(d) BY <2>12 DEF Acknowledge, Goes
  <2>13. CASE Forget(d) BY <2>13 DEF Forget, Goes
  <2> QED
    BY <1>1, <2>1, <2>2, <2>3, <2>4, <2>5, <2>6, <2>7, <2>8, <2>9, <2>10, <2>11,
       <2>12, <2>13 DEF Handle
<1>2. ASSUME NEW d \in Deliveries, EffectThrows(d) PROVE DeadLetterKept' /\ DeadBacked'
  BY <1>2 DEF EffectThrows, Goes
<1>3. ASSUME NEW d \in Deliveries, HookThrows(d) PROVE DeadLetterKept' /\ DeadBacked'
  BY <1>3 DEF HookThrows, Goes
<1>4. ASSUME NEW d \in Deliveries, Crash(d) PROVE DeadLetterKept' /\ DeadBacked'
  BY <1>4 DEF Crash, Goes
<1>5. CASE RetryExpires
  BY <1>5 DEF RetryExpires
<1>6. CASE Accept
  BY <1>6 DEF Accept
<1>7. CASE UNCHANGED inboxVars
  BY <1>7 DEF inboxVars
<1> QED
  BY <1>1, <1>2, <1>3, <1>4, <1>5, <1>6, <1>7 DEF InboxStep, InboxNext, Arrive

LEMMA InboxStepCleanRun == InboxTypeOK /\ CleanRun /\ [InboxStep]_inboxVars => CleanRun'
<1> SUFFICES ASSUME InboxTypeOK, CleanRun, [InboxStep]_inboxVars PROVE CleanRun'
  OBVIOUS
<1> USE DEF InboxTypeOK, InboxRows, CleanRun, db, broker, channel, bounds
<1>1. ASSUME NEW d \in Deliveries, Handle(d) PROVE CleanRun'
  <2>1. CASE Receive(d) BY <2>1 DEF Receive, Goes
  <2>2. CASE Select(d) BY <2>2 DEF Select, SelectSkipping, Read
  <2>3. CASE Commit(d) BY <2>3 DEF Commit, CommitThen, Goes, Conflict
  <2>4. CASE InsertConflicts(d) BY <2>4 DEF InsertConflicts, Goes, Conflict
  <2>5. CASE Hook(d) BY <2>5 DEF Hook, Goes
  <2>6. CASE FailureRead(d) BY <2>6 DEF FailureRead, Read
  <2>7. CASE FailureWrite(d) BY <2>7 DEF FailureWrite, RecordThen, Goes, Conflict
  <2>8. CASE FailureConflicts(d) BY <2>8 DEF FailureConflicts, Goes, Conflict
  <2>9. CASE Report(d) BY <2>9 DEF Report, Goes
  <2>10. CASE SendToRetry(d) BY <2>10 DEF SendToRetry, Goes
  <2>11. CASE SendToDeadLetter(d) BY <2>11 DEF SendToDeadLetter, Goes
  <2>12. CASE Acknowledge(d) BY <2>12 DEF Acknowledge, Goes
  <2>13. CASE Forget(d) BY <2>13 DEF Forget, Goes
  <2> QED
    BY <1>1, <2>1, <2>2, <2>3, <2>4, <2>5, <2>6, <2>7, <2>8, <2>9, <2>10, <2>11,
       <2>12, <2>13 DEF Handle
<1>2. ASSUME NEW d \in Deliveries, EffectThrows(d) PROVE CleanRun'
  BY <1>2 DEF EffectThrows, Goes
<1>3. ASSUME NEW d \in Deliveries, HookThrows(d) PROVE CleanRun'
  BY <1>3 DEF HookThrows, Goes
<1>4. ASSUME NEW d \in Deliveries, Crash(d) PROVE CleanRun'
  BY <1>4 DEF Crash, Goes
<1>5. CASE RetryExpires
  BY <1>5 DEF RetryExpires
<1>6. CASE Accept
  BY <1>6 DEF Accept
<1>7. CASE UNCHANGED inboxVars
  BY <1>7 DEF inboxVars
<1> QED
  BY <1>1, <1>2, <1>3, <1>4, <1>5, <1>6, <1>7 DEF InboxStep, InboxNext, Arrive

LEMMA InboxStepHookPending == InboxTypeOK /\ HookPending /\ [InboxStep]_inboxVars => HookPending'
<1> SUFFICES ASSUME InboxTypeOK, HookPending, [InboxStep]_inboxVars PROVE HookPending'
  OBVIOUS
<1> USE DEF InboxTypeOK, InboxRows, HookPending, db, broker, channel, bounds
<1>1. ASSUME NEW d \in Deliveries, Handle(d) PROVE HookPending'
  <2>1. CASE Receive(d) BY <2>1 DEF Receive, Goes
  <2>2. CASE Select(d) BY <2>2 DEF Select, SelectSkipping, Read
  <2>3. CASE Commit(d) BY <2>3 DEF Commit, CommitThen, Goes, Conflict
  <2>4. CASE InsertConflicts(d) BY <2>4 DEF InsertConflicts, Goes, Conflict
  <2>5. CASE Hook(d) BY <2>5 DEF Hook, Goes
  <2>6. CASE FailureRead(d) BY <2>6 DEF FailureRead, Read
  <2>7. CASE FailureWrite(d) BY <2>7 DEF FailureWrite, RecordThen, Goes, Conflict
  <2>8. CASE FailureConflicts(d) BY <2>8 DEF FailureConflicts, Goes, Conflict
  <2>9. CASE Report(d) BY <2>9 DEF Report, Goes
  <2>10. CASE SendToRetry(d) BY <2>10 DEF SendToRetry, Goes
  <2>11. CASE SendToDeadLetter(d) BY <2>11 DEF SendToDeadLetter, Goes
  <2>12. CASE Acknowledge(d) BY <2>12 DEF Acknowledge, Goes
  <2>13. CASE Forget(d) BY <2>13 DEF Forget, Goes
  <2> QED
    BY <1>1, <2>1, <2>2, <2>3, <2>4, <2>5, <2>6, <2>7, <2>8, <2>9, <2>10, <2>11,
       <2>12, <2>13 DEF Handle
<1>2. ASSUME NEW d \in Deliveries, EffectThrows(d) PROVE HookPending'
  BY <1>2 DEF EffectThrows, Goes
<1>3. ASSUME NEW d \in Deliveries, HookThrows(d) PROVE HookPending'
  BY <1>3 DEF HookThrows, Goes
<1>4. ASSUME NEW d \in Deliveries, Crash(d) PROVE HookPending'
  BY <1>4 DEF Crash, Goes
<1>5. CASE RetryExpires
  BY <1>5 DEF RetryExpires
<1>6. CASE Accept
  BY <1>6 DEF Accept
<1>7. CASE UNCHANGED inboxVars
  BY <1>7 DEF inboxVars
<1> QED
  BY <1>1, <1>2, <1>3, <1>4, <1>5, <1>6, <1>7 DEF InboxStep, InboxNext, Arrive

LEMMA InboxStepInv == InboxInv /\ [InboxStep]_inboxVars => InboxInv'
BY InboxStepType, InboxStepDead, InboxStepCleanRun, InboxStepHookPending DEF InboxInv

LEMMA InboxInvMeans ==
    InboxInv => InboxTypeOK /\ EffectOnce /\ DeadLetterKept /\ HookNotForgotten
<1> SUFFICES ASSUME InboxInv PROVE EffectOnce /\ HookNotForgotten
  BY DEF InboxInv
<1>1. EffectOnce
  BY DEF InboxInv, InboxTypeOK, CleanRun, EffectOnce
<1>2. HookNotForgotten
  BY DEF InboxInv, HookPending, HookNotForgotten, Quiet
<1> QED BY <1>1, <1>2

\* A settled row that no open delivery can still write is not written.
LEMMA SettledRowKept ==
    InboxTypeOK /\ [InboxStep]_inboxVars /\ Settled /\ NothingOpen
      => UNCHANGED <<inbox, effects>> /\ NothingOpen'
<1> SUFFICES ASSUME InboxTypeOK, [InboxStep]_inboxVars, Settled, NothingOpen
             PROVE  UNCHANGED <<inbox, effects>> /\ NothingOpen'
  OBVIOUS
<1> USE DEF InboxTypeOK, InboxRows, Settled, NothingOpen, db, broker, channel, bounds
<1>1. ASSUME NEW d \in Deliveries, Handle(d) PROVE UNCHANGED <<inbox, effects>> /\ NothingOpen'
  <2>1. CASE Receive(d) BY <2>1 DEF Receive, Goes
  <2>2. CASE Select(d) BY <2>2 DEF Select, SelectSkipping, Read
  <2>3. CASE Commit(d) BY <2>3 DEF Commit, CommitThen, Goes
  <2>4. CASE InsertConflicts(d) BY <2>4 DEF InsertConflicts, Goes
  <2>5. CASE Hook(d) BY <2>5 DEF Hook, Goes
  <2>6. CASE FailureRead(d) BY <2>6 DEF FailureRead, Read
  <2>7. CASE FailureWrite(d) BY <2>7 DEF FailureWrite, RecordThen, Goes
  <2>8. CASE FailureConflicts(d) BY <2>8 DEF FailureConflicts, Goes
  <2>9. CASE Report(d) BY <2>9 DEF Report, Goes
  <2>10. CASE SendToRetry(d) BY <2>10 DEF SendToRetry, Goes
  <2>11. CASE SendToDeadLetter(d) BY <2>11 DEF SendToDeadLetter, Goes
  <2>12. CASE Acknowledge(d) BY <2>12 DEF Acknowledge, Goes
  <2>13. CASE Forget(d) BY <2>13 DEF Forget, Goes
  <2> QED
    BY <1>1, <2>1, <2>2, <2>3, <2>4, <2>5, <2>6, <2>7, <2>8, <2>9, <2>10, <2>11,
       <2>12, <2>13 DEF Handle
<1>2. ASSUME NEW d \in Deliveries, EffectThrows(d) PROVE UNCHANGED <<inbox, effects>> /\ NothingOpen'
  BY <1>2 DEF EffectThrows, Goes
<1>3. ASSUME NEW d \in Deliveries, HookThrows(d) PROVE UNCHANGED <<inbox, effects>> /\ NothingOpen'
  BY <1>3 DEF HookThrows, Goes
<1>4. ASSUME NEW d \in Deliveries, Crash(d) PROVE UNCHANGED <<inbox, effects>> /\ NothingOpen'
  BY <1>4 DEF Crash, Goes
<1>5. CASE RetryExpires
  BY <1>5 DEF RetryExpires
<1>6. CASE Accept
  BY <1>6 DEF Accept
<1>7. CASE UNCHANGED inboxVars
  BY <1>7 DEF inboxVars
<1> QED
  BY <1>1, <1>2, <1>3, <1>4, <1>5, <1>6, <1>7 DEF InboxStep, InboxNext, Arrive

-------------------------------------------------------------------------------
(* Inbox on its own, with its bound on the copies that arrive.             *)

LEMMA InboxAlways == InboxSpec => []InboxInv
<1>1. InboxInv /\ [InboxNext]_inboxVars => InboxInv'
  BY InboxStepInv DEF InboxStep
<1> QED BY InboxInitInv, <1>1, PTL DEF InboxSpec

\* The rows, counters and phases keep their types.
THEOREM InboxTyped == InboxSpec => []InboxTypeOK
BY InboxAlways, InboxInvMeans, PTL

-------------------------------------------------------------------------------
(* The Outbox.                                                             *)

\* The dispatchers that tried to publish e and did not count it yet.
Uncounted(e) ==
    {d \in Dispatchers : /\ disp[d].phase \in {"mark", "record", "write"}
                         /\ Current(d) = e}

Backed ==
    /\ \A e \in Events : outbox[e].attempts + Cardinality(Uncounted(e)) <= tried[e]
    /\ \A d \in Dispatchers : \A e \in Events :
         disp[d].phase = "write" /\ Current(d) = e =>
             disp[d].seen + Cardinality(Uncounted(e)) <= tried[e]

GivenUpAfterTries ==
    \A e \in Events : /\ outbox[e].status = "DEAD_LETTERED" => e \in deadLetters
                      /\ e \in deadLetters => tried[e] >= PublishAttempts

\* A row that is settled waits for no further attempt.
NothingAhead ==
    \A e \in Events :
        outbox[e].status \in {"PUBLISHED", "DEAD_LETTERED"} => ~outbox[e].waiting

\* What is marked PUBLISHED was sent.
Sent ==
    /\ \A e \in Events : outbox[e].status = "PUBLISHED" => sent[e] > 0
    /\ \A d \in Dispatchers : \A e \in Events :
         disp[d].phase = "mark" /\ Current(d) = e => sent[e] > 0

OutboxInv == OutboxTypeOK /\ Backed /\ GivenUpAfterTries /\ NothingAhead /\ Sent

-------------------------------------------------------------------------------
(* The oldest event of a batch, and counting dispatchers.                   *)

\* The intervals 0..n are ordered by inclusion as the numbers n are.
LEMMA Smallest ==
    ASSUME NEW S \in SUBSET Nat, S # {}
    PROVE  \E n \in S : \A m \in S : n <= m
<1> DEFINE Below == {0..n : n \in S}
<1>1. \A n \in Nat : 0..n \in FiniteSubsetsOf(Nat)
  BY FS_Interval DEF FiniteSubsetsOf
<1>2. Below \subseteq FiniteSubsetsOf(Nat) /\ Below # {}
  BY <1>1
<1>3. PICK B \in Below : \A C \in Below : ~(<<C, B>> \in StrictSubsetOrdering(Nat))
  <2> HIDE DEF Below
  <2> QED BY <1>2, FS_StrictSubsetOrderingWellFounded, WFMin
<1>4. PICK n \in S : B = 0..n
  BY <1>3
<1>5. ASSUME NEW m \in S, m < n PROVE FALSE
  <2>1. 0..m \in Below /\ 0..m \in SUBSET Nat /\ 0..n \in SUBSET Nat
    BY <1>5
  <2>2. 0..m \subseteq 0..n /\ n \in 0..n /\ n \notin 0..m
    BY <1>5
  <2>3. 0..m # 0..n
    BY <2>2
  <2>4. <<0..m, 0..n>> \in StrictSubsetOrdering(Nat)
    BY <2>1, <2>2, <2>3 DEF StrictSubsetOrdering
  <2> QED BY <1>3, <1>4, <2>1, <2>4
<1> QED BY <1>5

LEMMA OldestInBatch ==
    ASSUME NEW S, S \subseteq Events, S # {}
    PROVE  Min(S) \in S /\ \A e \in S : Min(S) <= e
<1>1. S \in SUBSET Nat /\ S # {}
  BY DEF Events
<1>2. \E n \in S : \A m \in S : n <= m
  BY <1>1, Smallest
<1> QED BY <1>2 DEF Min

LEMMA CurrentHeld ==
    ASSUME OutboxTypeOK, NEW d \in Dispatchers, disp[d].phase # "idle"
    PROVE  Current(d) \in disp[d].batch /\ Current(d) \in Events
<1>1. disp[d].batch \subseteq Events /\ disp[d].batch # {}
  BY DEF OutboxTypeOK
<1> QED BY <1>1, OldestInBatch DEF Current

LEMMA BatchNotEmpty == Pending # {} => Batch # {}
<1> SUFFICES ASSUME Pending # {} PROVE Batch # {}
  OBVIOUS
<1>1. Pending \subseteq Events
  BY DEF Pending
<1>2. Min(Pending) \in Pending /\ \A f \in Pending : Min(Pending) <= f
  BY <1>1, OldestInBatch
<1>3. {f \in Pending : f < Min(Pending)} = {}
  <2>1. ASSUME NEW f \in Pending, f < Min(Pending) PROVE FALSE
    <3>1. f \in Events /\ Min(Pending) \in Events
      BY <1>1, <1>2
    <3>2. Min(Pending) <= f
      BY <1>2
    <3> QED BY <2>1, <3>1, <3>2, OutboxAssumption DEF Events
  <2> QED BY <2>1
<1>4. Cardinality({f \in Pending : f < Min(Pending)}) < Limit
  BY <1>3, FS_EmptySet, OutboxAssumption
<1> QED BY <1>2, <1>4 DEF Batch

LEMMA UncountedFinite ==
    ASSUME NEW e
    PROVE  IsFiniteSet(Uncounted(e)) /\ Cardinality(Uncounted(e)) \in Nat
<1>1. IsFiniteSet(Dispatchers)
  BY OutboxAssumption, FS_Interval DEF Dispatchers
<1>2. Uncounted(e) \in SUBSET Dispatchers
  BY DEF Uncounted
<1> QED BY <1>1, <1>2, FS_Subset, FS_CardinalityType

\* A step that moves one dispatcher changes what is uncounted by that one.
LEMMA UncountedOfOne ==
    ASSUME OutboxTypeOK, NEW d \in Dispatchers, NEW e \in Events,
           \A p \in Dispatchers \ {d} : disp'[p] = disp[p]
    PROVE  /\ Cardinality(Uncounted(e)) \in Nat
           /\ Cardinality(Uncounted(e)') \in Nat
           /\ (d \in Uncounted(e)) = (d \in Uncounted(e)')
                => Cardinality(Uncounted(e)') = Cardinality(Uncounted(e))
           /\ d \in Uncounted(e) /\ d \notin Uncounted(e)'
                => Cardinality(Uncounted(e)') = Cardinality(Uncounted(e)) - 1
           /\ d \notin Uncounted(e) /\ d \in Uncounted(e)'
                => Cardinality(Uncounted(e)') = Cardinality(Uncounted(e)) + 1
<1> DEFINE U == Uncounted(e)
           V == Uncounted(e)'
<1>1. U \ {d} = V \ {d}
  BY DEF Uncounted, Current
<1>2. IsFiniteSet(U) /\ Cardinality(U) \in Nat
  BY UncountedFinite
<1> HIDE DEF U, V
<1>3. IsFiniteSet(V)
  <2>1. IsFiniteSet(U \cup {d}) /\ V \in SUBSET (U \cup {d})
    BY <1>1, <1>2, FS_AddElement
  <2> QED BY <2>1, FS_Subset
<1>4. Cardinality(V) \in Nat
  BY <1>3, FS_CardinalityType
<1>5. (d \in U) = (d \in V) => V = U
  BY <1>1
<1>6. d \in U /\ d \notin V => V = U \ {d}
  BY <1>1
<1>7. d \notin U /\ d \in V => V = U \cup {d}
  BY <1>1
<1>8. /\ Cardinality(U \ {d}) = IF d \in U THEN Cardinality(U) - 1 ELSE Cardinality(U)
      /\ Cardinality(U \cup {d}) = IF d \in U THEN Cardinality(U) ELSE Cardinality(U) + 1
  BY <1>2, FS_AddElement, FS_RemoveElement
<1>9. /\ (d \in U) = (d \in V) => Cardinality(V) = Cardinality(U)
      /\ d \in U /\ d \notin V => Cardinality(V) = Cardinality(U) - 1
      /\ d \notin U /\ d \in V => Cardinality(V) = Cardinality(U) + 1
  BY <1>5, <1>6, <1>7, <1>8
<1> QED BY <1>2, <1>4, <1>9 DEF U, V

LEMMA OutboxInitInv == OutboxInit => OutboxInv
<1> SUFFICES ASSUME OutboxInit PROVE OutboxInv
  OBVIOUS
<1>1. OutboxTypeOK
  BY OutboxAssumption
  DEF OutboxInit, OutboxTypeOK, NoOutboxRow, OutboxRows, OutboxStatuses,
      DispatchPhases, Idle
<1>2. \A e \in Events : Cardinality(Uncounted(e)) = 0
  <2>1. \A e \in Events : Uncounted(e) = {}
    BY DEF OutboxInit, Uncounted, Idle
  <2> QED BY <2>1, FS_EmptySet
<1>3. Backed /\ GivenUpAfterTries /\ NothingAhead /\ Sent
  BY <1>2, OutboxAssumption DEF OutboxInit, NothingAhead, Sent, Backed, GivenUpAfterTries, NoOutboxRow, Idle
<1> QED BY <1>1, <1>3 DEF OutboxInv

LEMMA OutboxStepType == OutboxTypeOK /\ [OutboxNext]_outboxVars => OutboxTypeOK'
<1> SUFFICES ASSUME OutboxTypeOK, [OutboxNext]_outboxVars PROVE OutboxTypeOK'
  OBVIOUS
<1> DEFINE Calls == [phase : DispatchPhases, batch : SUBSET Events, seen : Nat]
<1>1. ASSUME NEW e \in Events, Enqueue(e) PROVE OutboxTypeOK'
  BY <1>1 DEF Enqueue, OutboxTypeOK, OutboxRows, OutboxStatuses
<1>2. ASSUME NEW e \in Events, BackoffPasses(e) PROVE OutboxTypeOK'
  BY <1>2 DEF BackoffPasses, OutboxTypeOK, OutboxRows
<1>3. ASSUME NEW d \in Dispatchers, Dispatch(d) PROVE OutboxTypeOK'
  <2>1. Batch \subseteq Events /\ Batch # {}
    BY <1>3, BatchNotEmpty DEF Dispatch, Batch, Pending
  <2>2. [phase |-> "publish", batch |-> Batch, seen |-> 0] \in Calls
    BY <2>1 DEF DispatchPhases
  <2>3. dispatches' \in 0..MaxDispatches
    BY <1>3, OutboxAssumption DEF Dispatch, Dispatchers
  <2> QED BY <1>3, <2>1, <2>2, <2>3 DEF Dispatch, OutboxTypeOK
<1>4. ASSUME NEW d \in Dispatchers, NextEvent(d), UNCHANGED <<sent, tried, dispatches>>,
             outbox' \in [Events -> OutboxRows], deadLetters' \subseteq Events
      PROVE  OutboxTypeOK'
  <2>1. Others(d) \subseteq Events
    BY DEF Others, OutboxTypeOK
  <2>2. /\ Idle \in Calls
        /\ [phase |-> "publish", batch |-> Others(d), seen |-> 0] \in Calls
    BY <2>1 DEF DispatchPhases, Idle
  <2> QED BY <1>4, <2>1, <2>2 DEF NextEvent, OutboxTypeOK, Idle
<1>5. ASSUME NEW d \in Dispatchers, DispatchStep(d) PROVE OutboxTypeOK'
  <2>1. CASE Publish(d)
    BY <2>1, CurrentHeld DEF Publish, Turns, OutboxTypeOK, DispatchPhases
  <2>2. CASE Mark(d)
    <3>1. outbox' \in [Events -> OutboxRows]
      BY <2>2, CurrentHeld DEF Mark, OutboxTypeOK, OutboxRows, OutboxStatuses
    <3> QED BY <1>4, <2>2, <3>1 DEF Mark, OutboxTypeOK
  <2>3. CASE RecordRead(d)
    BY <2>3, CurrentHeld DEF RecordRead, OutboxTypeOK, OutboxRows, DispatchPhases
  <2>4. CASE RecordWrite(d)
    <3>1. outbox' \in [Events -> OutboxRows]
      BY <2>4, CurrentHeld DEF RecordWrite, OutboxTypeOK, OutboxRows, OutboxStatuses
    <3>2. deadLetters' \subseteq Events
      BY <2>4, CurrentHeld DEF RecordWrite, OutboxTypeOK
    <3> QED BY <1>4, <2>4, <3>1, <3>2 DEF RecordWrite
  <2> QED BY <1>5, <2>1, <2>2, <2>3, <2>4 DEF DispatchStep
<1>6. ASSUME NEW d \in Dispatchers, DispatchFails(d) PROVE OutboxTypeOK'
  <2>1. CASE PublishThrows(d)
    BY <2>1, CurrentHeld DEF PublishThrows, Turns, OutboxTypeOK, DispatchPhases
  <2>2. CASE MarkThrows(d)
    BY <2>2 DEF MarkThrows, Turns, OutboxTypeOK, DispatchPhases
  <2>3. CASE Abort(d)
    BY <2>3 DEF Abort, Idle, OutboxTypeOK, DispatchPhases
  <2> QED BY <1>6, <2>1, <2>2, <2>3 DEF DispatchFails
<1>7. CASE UNCHANGED outboxVars
  BY <1>7 DEF outboxVars, OutboxTypeOK
<1> QED BY <1>1, <1>2, <1>3, <1>5, <1>6, <1>7 DEF OutboxNext

\* The reservations of the other dispatchers stay good as long as the
\* publications tried grow with what is uncounted.
LEMMA BackedOfOne ==
    ASSUME OutboxTypeOK, OutboxTypeOK', Backed, NEW d \in Dispatchers,
           \A p \in Dispatchers \ {d} : disp'[p] = disp[p],
           \A e \in Events :
             /\ Cardinality(Uncounted(e)') + tried[e]
                   <= Cardinality(Uncounted(e)) + tried'[e]
             /\ outbox'[e].attempts + Cardinality(Uncounted(e)') <= tried'[e]
             /\ disp'[d].phase = "write" /\ Current(d)' = e =>
                   disp'[d].seen + Cardinality(Uncounted(e)') <= tried'[e]
    PROVE  Backed'
<1>1. ASSUME NEW p \in Dispatchers, NEW e \in Events, p # d,
             disp'[p].phase = "write", Current(p)' = e
      PROVE  disp'[p].seen + Cardinality(Uncounted(e)') <= tried'[e]
  <2>1. disp[p].phase = "write" /\ disp'[p] = disp[p] /\ Current(p) = e
    BY <1>1 DEF Current
  <2>2. disp[p].seen + Cardinality(Uncounted(e)) <= tried[e]
    BY <2>1 DEF Backed
  <2>3. Cardinality(Uncounted(e)) \in Nat /\ Cardinality(Uncounted(e)') \in Nat
    BY UncountedOfOne
  <2>4. /\ tried[e] \in Nat /\ tried'[e] \in Nat /\ disp[p].seen \in Nat
        /\ Cardinality(Uncounted(e)') + tried[e]
              <= Cardinality(Uncounted(e)) + tried'[e]
    BY DEF OutboxTypeOK
  <2> QED BY <2>1, <2>2, <2>3, <2>4
<1> QED BY <1>1 DEF Backed

\* A step that counts, or gives up, a publication.
LEMMA CountedOfOne ==
    ASSUME OutboxTypeOK, NEW d \in Dispatchers, Mark(d) \/ RecordWrite(d)
    PROVE  /\ \A p \in Dispatchers \ {d} : disp'[p] = disp[p]
           /\ disp'[d].phase \in {"idle", "publish"}
           /\ tried' = tried
           /\ Current(d) \in Events
           /\ \A e \in Events \ {Current(d)} : outbox'[e] = outbox[e]
           /\ \A e \in Events :
                Cardinality(Uncounted(e)') =
                  IF e = Current(d) THEN Cardinality(Uncounted(e)) - 1
                  ELSE Cardinality(Uncounted(e))
<1>1. /\ \A p \in Dispatchers \ {d} : disp'[p] = disp[p]
      /\ disp'[d].phase \in {"idle", "publish"}
      /\ disp[d].phase \in {"mark", "write"}
      /\ tried' = tried
      /\ \A e \in Events \ {Current(d)} : outbox'[e] = outbox[e]
  BY DEF Mark, RecordWrite, NextEvent, Idle, OutboxTypeOK
<1>2. Current(d) \in Events
  BY <1>1, CurrentHeld
<1>3. ASSUME NEW e \in Events
      PROVE  Cardinality(Uncounted(e)') =
               IF e = Current(d) THEN Cardinality(Uncounted(e)) - 1
               ELSE Cardinality(Uncounted(e))
  <2>1. (d \in Uncounted(e) <=> e = Current(d)) /\ d \notin Uncounted(e)'
    BY <1>1 DEF Uncounted
  <2> QED BY <1>1, <2>1, UncountedOfOne
<1> QED BY <1>1, <1>2, <1>3

LEMMA OutboxStepBacked == OutboxInv /\ [OutboxNext]_outboxVars => Backed'
<1> SUFFICES ASSUME OutboxInv, [OutboxNext]_outboxVars PROVE Backed'
  OBVIOUS
<1> USE DEF OutboxInv
<1> DEFINE N(e) == Cardinality(Uncounted(e))
<1>1. OutboxTypeOK'
  BY OutboxStepType
<1>2. \A e \in Events : /\ N(e) \in Nat /\ tried[e] \in Nat
                        /\ outbox[e].attempts \in Nat
                        /\ outbox[e].attempts + N(e) <= tried[e]
  BY UncountedFinite DEF OutboxTypeOK, OutboxRows, Backed
<1>3. ASSUME NEW e \in Events, Enqueue(e) \/ BackoffPasses(e) PROVE Backed'
  <2>1. /\ disp' = disp /\ tried' = tried
        /\ \A f \in Events : outbox'[f].attempts = outbox[f].attempts
    <3>1. CASE Enqueue(e) BY <3>1 DEF Enqueue, OutboxTypeOK, OutboxRows
    <3>2. CASE BackoffPasses(e) BY <3>2 DEF BackoffPasses, OutboxTypeOK, OutboxRows
    <3> QED BY <1>3, <3>1, <3>2
  <2>2. /\ \A f : Uncounted(f)' = Uncounted(f)
        /\ \A d \in Dispatchers : Current(d)' = Current(d)
    BY <2>1 DEF Uncounted, Current
  <2> QED BY <2>1, <2>2 DEF Backed
<1>4. ASSUME NEW d \in Dispatchers, Dispatch(d) \/ Abort(d) PROVE Backed'
  <2>1. /\ \A p \in Dispatchers \ {d} : disp'[p] = disp[p]
        /\ disp'[d].phase \in {"idle", "publish"}
        /\ outbox' = outbox /\ tried' = tried
    BY <1>4 DEF Dispatch, Abort, Idle, OutboxTypeOK
  <2>2. ASSUME NEW e \in Events PROVE N(e)' \in Nat /\ N(e)' <= N(e)
    <3>1. d \notin Uncounted(e)'
      BY <2>1 DEF Uncounted
    <3> QED BY <1>2, <2>1, <3>1, UncountedOfOne
  <2>3. ASSUME NEW e \in Events
        PROVE  /\ N(e)' + tried[e] <= N(e) + tried'[e]
               /\ outbox'[e].attempts + N(e)' <= tried'[e]
    BY <1>2, <2>1, <2>2
  <2> QED BY <1>1, <2>1, <2>3, BackedOfOne
<1>5. ASSUME NEW d \in Dispatchers, Publish(d) \/ PublishThrows(d) PROVE Backed'
  <2>1. /\ \A p \in Dispatchers \ {d} : disp'[p] = disp[p]
        /\ disp'[d].phase \in {"mark", "record"} /\ disp'[d].batch = disp[d].batch
        /\ disp[d].phase = "publish"
        /\ outbox' = outbox
    BY <1>5 DEF Publish, PublishThrows, Turns, OutboxTypeOK
  <2>2. \A e \in Events : tried'[e] = IF e = Current(d) THEN tried[e] + 1 ELSE tried[e]
    BY <1>5 DEF Publish, PublishThrows, OutboxTypeOK
  <2>3. ASSUME NEW e \in Events
        PROVE  N(e)' = IF e = Current(d) THEN N(e) + 1 ELSE N(e)
    <3>1. d \notin Uncounted(e) /\ (d \in Uncounted(e)' <=> e = Current(d))
      BY <2>1 DEF Uncounted, Current
    <3> QED BY <2>1, <3>1, UncountedOfOne
  <2>4. ASSUME NEW e \in Events
        PROVE  /\ N(e)' + tried[e] <= N(e) + tried'[e]
               /\ outbox'[e].attempts + N(e)' <= tried'[e]
    BY <1>2, <2>1, <2>2, <2>3
  <2> QED BY <1>1, <2>1, <2>4, BackedOfOne
<1>6. ASSUME NEW d \in Dispatchers, Mark(d) \/ RecordWrite(d) PROVE Backed'
  <2>1. disp[d].phase \in {"mark", "write"} /\ disp[d].seen \in Nat
    BY <1>6 DEF Mark, RecordWrite, OutboxTypeOK
  <2>2. outbox'[Current(d)].attempts =
          IF Mark(d) THEN outbox[Current(d)].attempts + 1 ELSE disp[d].seen + 1
    BY <1>6, CountedOfOne DEF Mark, RecordWrite, OutboxTypeOK
  <2>3. RecordWrite(d) => disp[d].seen + N(Current(d)) <= tried[Current(d)]
    BY CountedOfOne DEF RecordWrite, Backed
  <2>4. ASSUME NEW e \in Events
        PROVE  /\ N(e)' + tried[e] <= N(e) + tried'[e]
               /\ outbox'[e].attempts + N(e)' <= tried'[e]
    BY <1>2, <1>6, <2>1, <2>2, <2>3, CountedOfOne
  <2> QED BY <1>1, <1>6, <2>4, CountedOfOne, BackedOfOne
<1>7. ASSUME NEW d \in Dispatchers, MarkThrows(d) \/ RecordRead(d) PROVE Backed'
  <2>1. /\ \A p \in Dispatchers \ {d} : disp'[p] = disp[p]
        /\ disp'[d].phase \in {"record", "write"} /\ disp'[d].batch = disp[d].batch
        /\ disp[d].phase \in {"mark", "record"}
        /\ disp'[d].phase = "write" => disp'[d].seen = outbox[Current(d)].attempts
        /\ outbox' = outbox /\ tried' = tried
    BY <1>7 DEF MarkThrows, RecordRead, Turns, OutboxTypeOK
  <2>2. Current(d)' = Current(d)
    BY <2>1 DEF Current
  <2>3. ASSUME NEW e \in Events PROVE N(e)' = N(e)
    <3>1. (d \in Uncounted(e)) = (d \in Uncounted(e)')
      BY <2>1, <2>2 DEF Uncounted
    <3> QED BY <2>1, <3>1, UncountedOfOne
  <2>4. ASSUME NEW e \in Events
        PROVE  /\ N(e)' + tried[e] <= N(e) + tried'[e]
               /\ outbox'[e].attempts + N(e)' <= tried'[e]
               /\ disp'[d].phase = "write" /\ Current(d)' = e =>
                     disp'[d].seen + N(e)' <= tried'[e]
    BY <1>2, <2>1, <2>2, <2>3
  <2> QED BY <1>1, <2>1, <2>4, BackedOfOne
<1>8. CASE UNCHANGED outboxVars
  <2>1. /\ \A f : Uncounted(f)' = Uncounted(f)
        /\ \A d \in Dispatchers : Current(d)' = Current(d)
    BY <1>8 DEF Uncounted, Current, outboxVars
  <2> QED BY <1>8, <2>1 DEF Backed, outboxVars
<1> QED
  BY <1>3, <1>4, <1>5, <1>6, <1>7, <1>8 DEF OutboxNext, DispatchStep, DispatchFails

LEMMA OutboxStepGivenUp == OutboxInv /\ [OutboxNext]_outboxVars => GivenUpAfterTries'
<1> SUFFICES ASSUME OutboxInv, [OutboxNext]_outboxVars PROVE GivenUpAfterTries'
  OBVIOUS
<1> USE DEF OutboxInv, OutboxTypeOK, OutboxRows, GivenUpAfterTries
<1>1. ASSUME NEW e \in Events, Enqueue(e) PROVE GivenUpAfterTries'
  BY <1>1 DEF Enqueue
<1>2. ASSUME NEW e \in Events, BackoffPasses(e) PROVE GivenUpAfterTries'
  BY <1>2 DEF BackoffPasses
<1>3. ASSUME NEW d \in Dispatchers,
             Dispatch(d) \/ RecordRead(d) \/ MarkThrows(d) \/ Abort(d)
      PROVE  GivenUpAfterTries'
  BY <1>3 DEF Dispatch, RecordRead, MarkThrows, Abort
<1>4. ASSUME NEW d \in Dispatchers, Publish(d) \/ PublishThrows(d)
      PROVE  GivenUpAfterTries'
  BY <1>4, OutboxAssumption DEF Publish, PublishThrows
<1>5. ASSUME NEW d \in Dispatchers, Mark(d) PROVE GivenUpAfterTries'
  BY <1>5 DEF Mark
<1>6. ASSUME NEW d \in Dispatchers, RecordWrite(d) PROVE GivenUpAfterTries'
  <2>1. Current(d) \in Events /\ tried' = tried
    BY <1>6, CountedOfOne
  <2>2. Cardinality(Uncounted(Current(d))) >= 1
    <3>1. /\ d \in Uncounted(Current(d))
          /\ IsFiniteSet(Uncounted(Current(d)))
          /\ Cardinality(Uncounted(Current(d))) \in Nat
      BY <1>6, UncountedFinite DEF RecordWrite, Uncounted
    <3>2. Cardinality(Uncounted(Current(d))) # 0
      BY <3>1, FS_EmptySet
    <3> QED BY <3>1, <3>2
  <2>3. disp[d].seen + Cardinality(Uncounted(Current(d))) <= tried[Current(d)]
    BY <1>6, <2>1 DEF RecordWrite, Backed
  <2>4. GivesUp(d) => tried[Current(d)] >= PublishAttempts
    <3>1. Cardinality(Uncounted(Current(d))) \in Nat
      BY UncountedFinite
    <3> QED BY <2>1, <2>2, <2>3, <3>1, OutboxAssumption DEF GivesUp
  <2> QED BY <1>6, <2>1, <2>4 DEF RecordWrite
<1>7. CASE UNCHANGED outboxVars
  BY <1>7 DEF outboxVars
<1> QED
  BY <1>1, <1>2, <1>3, <1>4, <1>5, <1>6, <1>7 DEF OutboxNext, DispatchStep, DispatchFails

LEMMA OutboxStepNothingAhead == OutboxInv /\ [OutboxNext]_outboxVars => NothingAhead'
<1> SUFFICES ASSUME OutboxInv, [OutboxNext]_outboxVars PROVE NothingAhead'
  OBVIOUS
<1> USE DEF OutboxInv, OutboxTypeOK, OutboxRows, NothingAhead
<1>1. ASSUME NEW e \in Events, Enqueue(e) PROVE NothingAhead'
  BY <1>1 DEF Enqueue
<1>2. ASSUME NEW e \in Events, BackoffPasses(e) PROVE NothingAhead'
  BY <1>2 DEF BackoffPasses
<1>3. ASSUME NEW d \in Dispatchers, Mark(d) PROVE NothingAhead'
  BY <1>3 DEF Mark
<1>4. ASSUME NEW d \in Dispatchers, RecordWrite(d) PROVE NothingAhead'
  BY <1>4 DEF RecordWrite
<1>5. CASE outbox' = outbox
  BY <1>5
<1> QED
  BY <1>1, <1>2, <1>3, <1>4, <1>5
  DEF OutboxNext, DispatchStep, DispatchFails, Dispatch, Publish, RecordRead,
      PublishThrows, MarkThrows, Abort, outboxVars

LEMMA OutboxStepSent == OutboxInv /\ [OutboxNext]_outboxVars => Sent'
<1> SUFFICES ASSUME OutboxInv, [OutboxNext]_outboxVars PROVE Sent'
  OBVIOUS
<1> USE DEF OutboxInv, OutboxTypeOK, OutboxRows, Sent
<1>1. ASSUME NEW e \in Events, Enqueue(e) PROVE Sent'
  BY <1>1 DEF Enqueue, Current
<1>2. ASSUME NEW e \in Events, BackoffPasses(e) PROVE Sent'
  BY <1>2 DEF BackoffPasses, Current
<1>3. ASSUME NEW d \in Dispatchers, Dispatch(d) \/ Abort(d) PROVE Sent'
  <2>1. /\ \A p \in Dispatchers \ {d} : disp'[p] = disp[p]
        /\ disp'[d].phase # "mark" /\ outbox' = outbox /\ sent' = sent
    BY <1>3 DEF Dispatch, Abort, Idle
  <2> QED BY <2>1 DEF Current
<1>4. ASSUME NEW d \in Dispatchers, RecordRead(d) \/ MarkThrows(d) PROVE Sent'
  <2>1. /\ \A p \in Dispatchers \ {d} : disp'[p] = disp[p]
        /\ disp'[d].phase # "mark" /\ outbox' = outbox /\ sent' = sent
    BY <1>4 DEF RecordRead, MarkThrows, Turns
  <2> QED BY <2>1 DEF Current
<1>5. ASSUME NEW d \in Dispatchers, Publish(d) \/ PublishThrows(d) PROVE Sent'
  <2>1. /\ \A p \in Dispatchers \ {d} : disp'[p] = disp[p]
        /\ disp'[d].batch = disp[d].batch
        /\ disp'[d].phase \in {"mark", "record"}
        /\ disp'[d].phase = "mark" => Publish(d)
        /\ outbox' = outbox
    BY <1>5 DEF Publish, PublishThrows, Turns
  <2>2. \A e \in Events :
          sent[e] \in Nat /\ sent'[e] \in Nat /\ sent'[e] >= sent[e]
    BY <1>5 DEF Publish, PublishThrows
  <2>3. \A e \in Events : Publish(d) /\ Current(d) = e => sent'[e] > 0
    BY DEF Publish
  <2>4. \A p \in Dispatchers : Current(p)' = Current(p)
    BY <2>1 DEF Current
  <2>5. \A e \in Events : outbox'[e].status = "PUBLISHED" => sent'[e] > 0
    BY <2>1, <2>2
  <2>6. ASSUME NEW p \in Dispatchers, NEW e \in Events,
               disp'[p].phase = "mark", Current(p)' = e
        PROVE  sent'[e] > 0
    BY <2>1, <2>2, <2>3, <2>4, <2>6
  <2> QED BY <2>5, <2>6
<1>6. ASSUME NEW d \in Dispatchers, Mark(d) PROVE Sent'
  <2>1. sent' = sent /\ \A e \in Events : Current(d) = e => sent[e] > 0
    BY <1>6 DEF Mark
  <2>2. \A e \in Events \ {Current(d)} : outbox'[e] = outbox[e]
    BY <1>6 DEF Mark
  <2>3. \A e \in Events : outbox'[e].status = "PUBLISHED" => sent'[e] > 0
    BY <2>1, <2>2
  <2>4. ASSUME NEW p \in Dispatchers, disp'[p].phase = "mark"
        PROVE  disp[p].phase = "mark" /\ Current(p)' = Current(p)
    <3>1. disp'[p] = disp[p]
      BY <1>6, <2>4, CountedOfOne
    <3> QED BY <2>4, <3>1 DEF Current
  <2> QED BY <2>1, <2>3, <2>4
<1>7. ASSUME NEW d \in Dispatchers, RecordWrite(d) PROVE Sent'
  <2>1. sent' = sent /\ outbox'[Current(d)].status # "PUBLISHED"
    BY <1>7, CountedOfOne DEF RecordWrite
  <2>2. \A e \in Events : outbox'[e].status = "PUBLISHED" => sent'[e] > 0
    BY <1>7, <2>1, CountedOfOne
  <2>3. ASSUME NEW p \in Dispatchers, disp'[p].phase = "mark"
        PROVE  disp[p].phase = "mark" /\ Current(p)' = Current(p)
    <3>1. disp'[p] = disp[p]
      BY <1>7, <2>3, CountedOfOne
    <3> QED BY <2>3, <3>1 DEF Current
  <2> QED BY <2>1, <2>2, <2>3
<1>8. CASE UNCHANGED outboxVars
  BY <1>8 DEF outboxVars, Current
<1> QED
  BY <1>1, <1>2, <1>3, <1>4, <1>5, <1>6, <1>7, <1>8 DEF OutboxNext, DispatchStep, DispatchFails

LEMMA OutboxStepInv == OutboxInv /\ [OutboxNext]_outboxVars => OutboxInv'
BY OutboxStepType, OutboxStepBacked, OutboxStepGivenUp, OutboxStepNothingAhead,
   OutboxStepSent
DEF OutboxInv

LEMMA OutboxInvMeans == OutboxInv => OutboxTypeOK /\ AttemptsBackedByTries
<1> SUFFICES ASSUME OutboxInv, NEW e \in Events PROVE outbox[e].attempts <= tried[e]
  BY DEF OutboxInv, GivenUpAfterTries, AttemptsBackedByTries
<1>1. /\ outbox[e].attempts + Cardinality(Uncounted(e)) <= tried[e]
      /\ Cardinality(Uncounted(e)) \in Nat
      /\ outbox[e].attempts \in Nat /\ tried[e] \in Nat
  BY UncountedFinite DEF OutboxInv, Backed, OutboxTypeOK, OutboxRows
<1> QED BY <1>1

\* An event that is settled and held by no dispatcher is not touched.
LEMMA SettledEventKept ==
    ASSUME OutboxInv, [OutboxNext]_outboxVars, NEW e \in Events,
           outbox[e].status \in {"PUBLISHED", "DEAD_LETTERED"}, ~Held(e)
    PROVE  outbox'[e] = outbox[e] /\ sent'[e] = sent[e] /\ ~Held(e)'
<1> DEFINE Kept == outbox'[e] = outbox[e] /\ sent'[e] = sent[e] /\ ~Held(e)'
<1> USE DEF OutboxInv, OutboxTypeOK, OutboxRows, Held
<1>1. ASSUME NEW f \in Events, Enqueue(f) \/ BackoffPasses(f) PROVE Kept
  BY <1>1 DEF Enqueue, BackoffPasses, NothingAhead
<1>2. ASSUME NEW d \in Dispatchers, Dispatch(d) PROVE Kept
  BY <1>2 DEF Dispatch, Batch, Pending
<1>3. ASSUME NEW d \in Dispatchers, DispatchStep(d) \/ DispatchFails(d) PROVE Kept
  <2>1. Current(d) # e
    BY <1>3, CurrentHeld
    DEF DispatchStep, DispatchFails, Publish, Mark, RecordRead, RecordWrite,
        PublishThrows, MarkThrows, Abort
  <2>2. CASE Publish(d) BY <2>1, <2>2 DEF Publish, Turns
  <2>3. CASE Mark(d) BY <2>1, <2>3 DEF Mark, NextEvent, Others, Idle
  <2>4. CASE RecordRead(d) BY <2>4 DEF RecordRead
  <2>5. CASE RecordWrite(d) BY <2>1, <2>5 DEF RecordWrite, NextEvent, Others, Idle
  <2>6. CASE PublishThrows(d) BY <2>1, <2>6 DEF PublishThrows, Turns
  <2>7. CASE MarkThrows(d) BY <2>7 DEF MarkThrows, Turns
  <2>8. CASE Abort(d) BY <2>8 DEF Abort, Idle
  <2> QED
    BY <1>3, <2>2, <2>3, <2>4, <2>5, <2>6, <2>7, <2>8 DEF DispatchStep, DispatchFails
<1>4. CASE UNCHANGED outboxVars
  BY <1>4 DEF outboxVars
<1> QED BY <1>1, <1>2, <1>3, <1>4 DEF OutboxNext

\* All dispatchers may die at once, with the process they share.
AllDie ==
    /\ disp' = [p \in Dispatchers |-> Idle]
    /\ UNCHANGED <<outbox, deadLetters, sent, tried, dispatches>>

LEMMA AllDieInv == OutboxInv /\ AllDie => OutboxInv'
<1> SUFFICES ASSUME OutboxInv, AllDie PROVE OutboxInv'
  OBVIOUS
<1> USE DEF OutboxInv, AllDie
<1>1. OutboxTypeOK'
  BY DEF OutboxTypeOK, Idle, DispatchPhases
<1>2. \A e : Uncounted(e)' = {}
  BY DEF Uncounted, Idle
<1>3. \A e \in Events : /\ outbox[e].attempts \in Nat /\ tried[e] \in Nat
                        /\ outbox[e].attempts <= tried[e]
  BY OutboxInvMeans DEF OutboxTypeOK, OutboxRows, AttemptsBackedByTries
<1>4. Backed'
  <2>1. \A d \in Dispatchers : disp'[d].phase = "idle"
    BY DEF Idle
  <2>2. \A e : Cardinality(Uncounted(e)') = 0
    BY <1>2, FS_EmptySet
  <2> QED BY <1>3, <2>1, <2>2 DEF Backed
<1>5. GivenUpAfterTries' /\ NothingAhead' /\ Sent'
  BY DEF GivenUpAfterTries, NothingAhead, Sent, Idle
<1> QED BY <1>1, <1>4, <1>5

-------------------------------------------------------------------------------
(* Outbox on its own.                                                      *)

\* The rows, batches and counters keep their types.
THEOREM OutboxTyped == OutboxSpec => []OutboxTypeOK
<1>1. OutboxInv => OutboxTypeOK BY DEF OutboxInv
<1> QED BY OutboxInitInv, OutboxStepInv, <1>1, PTL DEF OutboxSpec

-------------------------------------------------------------------------------
(* The composition.                                                        *)

\* A copy that was accepted is queued, or waits where the transport brings it
\* back, or a delivery is at work that will settle the event or ask for a retry
\* (a delivery whose INSERT conflicts will not).
Working(d) ==
    \/ proc[d].phase \in {"select", "effect", "fail", "hookfail", "retry"}
    \/ /\ proc[d].phase = "record"
       /\ proc[d].seen.status # "NONE" \/ inbox.status = "NONE"

InFlight ==
    copies > 0 /\ Survivable =>
        \/ Settled
        \/ ready > 0
        \/ transport = "in-memory" /\ retrying > 0
        \/ \E d \in Deliveries : Working(d)

MessagingInv ==
    InboxInv /\ OutboxInv /\ copies = sent[Traced] /\ InFlight

-------------------------------------------------------------------------------
LEMMA MessagingInitInv == Init => MessagingInv
<1> SUFFICES ASSUME Init PROVE MessagingInv
  OBVIOUS
<1>1. InboxInv /\ OutboxInv
  BY InboxInitInv, OutboxInitInv DEF Init
<1>2. copies = 0 /\ sent[Traced] = 0
  BY TracedAssumption DEF Init, InboxInit, OutboxInit
<1> QED BY <1>1, <1>2 DEF MessagingInv, InFlight

\* A step of the composition is a step, or a stutter, of each side.
LEMMA StepOfEach ==
    ASSUME MessagingInv, [Next]_messagingVars
    PROVE  /\ [InboxStep]_inboxVars
           /\ [OutboxNext]_outboxVars \/ AllDie
           /\ copies' = sent'[Traced]
<1> USE DEF MessagingInv
<1>1. CASE OutboxNext /\ HandedOver
  <2>1. sent'[Traced] = sent[Traced] \/ sent'[Traced] = sent[Traced] + 1
    <3>1. sent \in [Events -> Nat] /\ Traced \in Events
      BY TracedAssumption DEF OutboxInv, OutboxTypeOK
    <3>2. ASSUME NEW d \in Dispatchers, Publish(d) \/ PublishThrows(d)
          PROVE  sent'[Traced] \in {sent[Traced], sent[Traced] + 1}
      BY <3>1, <3>2 DEF Publish, PublishThrows
    <3>3. CASE UNCHANGED sent
      BY <3>3
    <3> QED
      BY <1>1, <3>2, <3>3
      DEF OutboxNext, Enqueue, BackoffPasses, Dispatch, DispatchStep, DispatchFails,
          Mark, MarkThrows, RecordRead, RecordWrite, Abort
  <2>2. sent[Traced] \in Nat
    BY TracedAssumption DEF OutboxInv, OutboxTypeOK
  <2>3. CASE sent'[Traced] > sent[Traced]
    BY <1>1, <2>1, <2>2, <2>3 DEF HandedOver, Accept, InboxStep
  <2>4. CASE ~(sent'[Traced] > sent[Traced])
    BY <1>1, <2>1, <2>2, <2>4 DEF HandedOver, inboxVars
  <2> QED BY <2>3, <2>4
<1>2. CASE /\ \/ \E d \in Deliveries : Handle(d) \/ EffectThrows(d) \/ HookThrows(d)
              \/ RetryExpires
           /\ UNCHANGED outboxVars
  <2>1. copies' = copies
    BY <1>2
    DEF Handle, Receive, Select, SelectSkipping, Commit, CommitThen, InsertConflicts,
        Hook, FailureRead, FailureWrite, RecordThen, FailureConflicts, Report,
        SendToRetry, SendToDeadLetter, Acknowledge, Forget, EffectThrows, HookThrows,
        RetryExpires, broker, channel
  <2> QED BY <1>2, <2>1 DEF InboxStep, InboxNext, outboxVars
<1>3. CASE \E d \in Deliveries : ProcessDies(d)
  BY <1>3 DEF ProcessDies, Crash, channel, InboxStep, InboxNext, AllDie, outboxVars
<1>4. CASE UNCHANGED messagingVars
  BY <1>4 DEF messagingVars, inboxVars, outboxVars
<1> QED BY <1>1, <1>2, <1>3, <1>4 DEF Next

LEMMA InFlightStep ==
    ASSUME InboxTypeOK, CleanRun, InFlight, [InboxStep]_inboxVars
    PROVE  InFlight'
<1> USE DEF InboxTypeOK, InboxRows, CleanRun, InFlight, Survivable, Settled, Working,
            db, broker, channel, bounds
<1>1. ASSUME NEW d \in Deliveries, Handle(d) PROVE InFlight'
  <2>1. CASE Receive(d) BY <2>1 DEF Receive, Goes
  <2>2. CASE Select(d) BY <2>2 DEF Select, SelectSkipping, Read
  <2>3. CASE Commit(d) BY <2>3 DEF Commit, CommitThen, Goes, Conflict
  <2>4. CASE InsertConflicts(d) BY <2>4 DEF InsertConflicts, Goes, Conflict
  <2>5. CASE Hook(d) BY <2>5 DEF Hook, Goes
  <2>6. CASE FailureRead(d) BY <2>6 DEF FailureRead, Read
  <2>7. CASE FailureWrite(d) BY <2>7 DEF FailureWrite, RecordThen, Goes, Conflict
  <2>8. CASE FailureConflicts(d) BY <2>8 DEF FailureConflicts, Goes, Conflict
  <2>9. CASE Report(d) BY <2>9 DEF Report, Goes
  <2>10. CASE SendToRetry(d) BY <2>10, InboxAssumption DEF SendToRetry, Goes
  <2>11. CASE SendToDeadLetter(d) BY <2>11 DEF SendToDeadLetter, Goes
  <2>12. CASE Acknowledge(d) BY <2>12 DEF Acknowledge, Goes
  <2>13. CASE Forget(d) BY <2>13 DEF Forget, Goes
  <2> QED
    BY <1>1, <2>1, <2>2, <2>3, <2>4, <2>5, <2>6, <2>7, <2>8, <2>9, <2>10, <2>11,
       <2>12, <2>13 DEF Handle
<1>2. ASSUME NEW d \in Deliveries, EffectThrows(d) PROVE InFlight'
  BY <1>2 DEF EffectThrows, Goes
<1>3. ASSUME NEW d \in Deliveries, HookThrows(d) PROVE InFlight'
  BY <1>3 DEF HookThrows, Goes
<1>4. ASSUME NEW d \in Deliveries, Crash(d) PROVE InFlight'
  BY <1>4 DEF Crash, Goes
<1>5. CASE RetryExpires
  BY <1>5 DEF RetryExpires, Redelivered
<1>6. CASE Accept
  BY <1>6 DEF Accept
<1>7. CASE UNCHANGED inboxVars
  BY <1>7 DEF inboxVars
<1> QED
  BY <1>1, <1>2, <1>3, <1>4, <1>5, <1>6, <1>7 DEF InboxStep, InboxNext, Arrive

LEMMA MessagingStepInv == MessagingInv /\ [Next]_messagingVars => MessagingInv'
<1> SUFFICES ASSUME MessagingInv, [Next]_messagingVars PROVE MessagingInv'
  OBVIOUS
<1>1. InboxInv'
  BY StepOfEach, InboxStepInv DEF MessagingInv
<1>2. OutboxInv'
  BY StepOfEach, OutboxStepInv, AllDieInv DEF MessagingInv
<1>3. InFlight'
  BY StepOfEach, InFlightStep DEF MessagingInv, InboxInv
<1> QED BY <1>1, <1>2, <1>3, StepOfEach DEF MessagingInv

LEMMA MessagingAlways == Spec => []MessagingInv
BY MessagingInitInv, MessagingStepInv, PTL DEF Spec

-------------------------------------------------------------------------------
(* Theorems.                                                               *)

\* Rows, queues and calls keep their types, and no copy is lost or invented
\* between a dispatcher and the transport.
THEOREM MessagingTyped == Spec => []TypeOK
<1>1. MessagingInv => TypeOK
  BY DEF MessagingInv, TypeOK, InboxInv, OutboxInv
<1> QED BY MessagingAlways, <1>1, PTL

\* Overlapping copies commit the effect once while nothing throws.
THEOREM EffectCommittedOnce == Spec => []EffectOnce
<1>1. MessagingInv => EffectOnce
  BY InboxInvMeans DEF MessagingInv
<1> QED BY MessagingAlways, <1>1, PTL

\* A dead letter is always recorded.
THEOREM DeadLettersRecorded == Spec => []DeadLetterKept
<1>1. MessagingInv => DeadLetterKept
  BY DEF MessagingInv, InboxInv
<1> QED BY MessagingAlways, <1>1, PTL

\* A committed effect's callback ran, or is still to be run or retried.
THEOREM HookRuns == Spec => []HookNotForgotten
<1>1. MessagingInv => HookNotForgotten
  BY InboxInvMeans DEF MessagingInv
<1> QED BY MessagingAlways, <1>1, PTL

\* No attempt is invented, and nothing is given up early.
THEOREM AttemptsTried == Spec => []AttemptsBackedByTries
<1>1. MessagingInv => AttemptsBackedByTries
  BY OutboxInvMeans DEF MessagingInv
<1> QED BY MessagingAlways, <1>1, PTL

\* A PUBLISHED row means a message settled or on its way.
THEOREM PublishedReachesConsumer == Spec => []PublishedIsNotLost
<1>1. MessagingInv => PublishedIsNotLost
  <2> SUFFICES ASSUME MessagingInv, outbox[Traced].status = "PUBLISHED", Survivable,
                      Quiet, ~Settled
               PROVE  FALSE
    BY DEF PublishedIsNotLost
  <2>1. copies > 0
    BY TracedAssumption DEF MessagingInv, OutboxInv, Sent
  <2>2. \E d \in Deliveries : Working(d)
    BY <2>1 DEF MessagingInv, InFlight, Quiet
  <2> QED BY <2>2 DEF Quiet, Working
<1> QED BY MessagingAlways, <1>1, PTL

\* A settled event stays settled.
THEOREM HandledStays == Spec => HandledForGood
<1>1. MessagingInv /\ [Next]_messagingVars
        => [Settled /\ NothingOpen
              => UNCHANGED <<inbox, effects>> /\ NothingOpen']_inboxVars
  BY StepOfEach, SettledRowKept DEF MessagingInv, InboxInv
<1> QED BY MessagingAlways, <1>1, PTL DEF Spec, HandledForGood

\* A published or given up event that no dispatcher holds is left alone.
THEOREM PublishedStays == Spec => PublishedForGood
<1> DEFINE Kept ==
      \A e \in Events :
         outbox[e].status \in {"PUBLISHED", "DEAD_LETTERED"} /\ ~Held(e)
           => outbox'[e] = outbox[e] /\ sent'[e] = sent[e] /\ ~Held(e)'
<1>1. ASSUME MessagingInv, [Next]_messagingVars PROVE Kept
  <2>1. CASE [OutboxNext]_outboxVars
    BY <1>1, <2>1, SettledEventKept DEF MessagingInv
  <2>2. CASE AllDie
    BY <2>2 DEF AllDie, Held, Idle
  <2> QED BY <1>1, <2>1, <2>2, StepOfEach
<1>2. MessagingInv /\ [Next]_messagingVars => [Kept]_outboxVars
  BY <1>1
<1> QED BY MessagingAlways, <1>2, PTL DEF Spec, PublishedForGood
=============================================================================
