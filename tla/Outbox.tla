--------------------------------- MODULE Outbox ---------------------------------
(***************************************************************************)
(* The Outbox table and the dispatchers that publish its rows:             *)
(* OutboxService and OutboxDispatcher.dispatch.  Several calls of dispatch *)
(* may overlap, one per API replica; no row is claimed before it is        *)
(* published.                                                              *)
(*                                                                         *)
(* recordPublishFailure is two steps, its SELECT and its writes with the   *)
(* commit; every other statement that writes is a step of its own.         *)
(***************************************************************************)
EXTENDS Naturals, FiniteSets, FiniteSetsExt

CONSTANTS
    NumEvents,       \* integration events, numbered in the order of createdAt
    Limit,           \* dispatch's limit
    PublishAttempts, \* RetryPolicy.maxAttempts
    MaxDispatches    \* bound on calls of dispatch

Events == 1..NumEvents
Dispatchers == 1..MaxDispatches   \* the calls, in the order they begin

ASSUME OutboxAssumption ==
    /\ NumEvents \in Nat \ {0}
    /\ Limit \in Nat \ {0}
    /\ PublishAttempts \in Nat \ {0}
    /\ MaxDispatches \in Nat

VARIABLES
    outbox,      \* outbox_events: status, attempts, next_attempt_at ahead
    deadLetters, \* events with an OUTBOX row in dead_letter_events
    sent,        \* copies of each event the transport accepted
    tried,       \* publications of each event that were tried
    disp,        \* what each call of dispatch is doing
    dispatches

outboxVars == <<outbox, deadLetters, sent, tried, disp, dispatches>>

-------------------------------------------------------------------------------
OutboxStatuses == {"NONE", "PENDING", "PUBLISHED", "FAILED", "DEAD_LETTERED"}
OutboxRows == [status : OutboxStatuses, attempts : Nat, waiting : BOOLEAN]
NoOutboxRow == [status |-> "NONE", attempts |-> 0, waiting |-> FALSE]
DispatchPhases == {"idle", "publish", "mark", "record", "write"}
Idle == [phase |-> "idle", batch |-> {}, seen |-> 0]

OutboxTypeOK ==
    /\ outbox \in [Events -> OutboxRows]
    /\ deadLetters \subseteq Events
    /\ sent \in [Events -> Nat] /\ tried \in [Events -> Nat]
    /\ disp \in [Dispatchers ->
                   [phase : DispatchPhases, batch : SUBSET Events, seen : Nat]]
    /\ \A d \in Dispatchers : disp[d].phase = "idle" <=> disp[d].batch = {}
    /\ dispatches \in 0..MaxDispatches

OutboxInit ==
    /\ outbox = [e \in Events |-> NoOutboxRow]
    /\ deadLetters = {}
    /\ sent = [e \in Events |-> 0] /\ tried = [e \in Events |-> 0]
    /\ disp = [d \in Dispatchers |-> Idle]
    /\ dispatches = 0

-------------------------------------------------------------------------------
\* The transaction that changes an aggregate inserts its event.  Transactions
\* need not commit in the order of createdAt.
Enqueue(e) ==
    /\ outbox[e].status = "NONE"
    /\ outbox' = [outbox EXCEPT ![e].status = "PENDING"]
    /\ UNCHANGED <<deadLetters, sent, tried, disp, dispatches>>

\* nextAttemptAt passes.
BackoffPasses(e) ==
    /\ outbox[e].waiting
    /\ outbox' = [outbox EXCEPT ![e].waiting = FALSE]
    /\ UNCHANGED <<deadLetters, sent, tried, disp, dispatches>>

\* Slip: dead letters, whose nextAttemptAt is null, are selected as well.
PendingUnlessPublished ==
    {e \in Events : /\ outbox[e].status \notin {"NONE", "PUBLISHED"}
                    /\ ~outbox[e].waiting}

Pending ==
    {e \in Events : \/ outbox[e].status = "PENDING"
                    \/ outbox[e].status = "FAILED" /\ ~outbox[e].waiting}

\* The oldest of them, up to the limit.
Batch == {e \in Pending : Cardinality({f \in Pending : f < e}) < Limit}

Dispatch(d) ==
    /\ d = dispatches + 1
    /\ Pending # {}
    /\ dispatches' = d
    /\ disp' = [disp EXCEPT ![d] =
                  [phase |-> "publish", batch |-> Batch, seen |-> 0]]
    /\ UNCHANGED <<outbox, deadLetters, sent, tried>>

\* The event a dispatcher works on is the oldest left of its batch.
Current(d) == Min(disp[d].batch)
Others(d) == disp[d].batch \ {Current(d)}

Turns(d, phase) == disp' = [disp EXCEPT ![d].phase = phase]

\* Slip: the loop goes on after the last event.
NextEventUnchecked(d) ==
    disp' = [disp EXCEPT ![d] =
               [phase |-> "publish", batch |-> Others(d), seen |-> 0]]

NextEvent(d) ==
    disp' = [disp EXCEPT ![d] =
               IF Others(d) = {} THEN Idle
               ELSE [phase |-> "publish", batch |-> Others(d), seen |-> 0]]

Publish(d) ==
    /\ disp[d].phase = "publish"
    /\ sent' = [sent EXCEPT ![Current(d)] = @ + 1]
    /\ tried' = [tried EXCEPT ![Current(d)] = @ + 1]
    /\ Turns(d, "mark")
    /\ UNCHANGED <<outbox, deadLetters, dispatches>>

\* The transport throws, or the connection is lost after it took the copy.
PublishThrows(d) ==
    /\ disp[d].phase = "publish"
    /\ \/ UNCHANGED sent
       \/ sent' = [sent EXCEPT ![Current(d)] = @ + 1]
    /\ tried' = [tried EXCEPT ![Current(d)] = @ + 1]
    /\ Turns(d, "record")
    /\ UNCHANGED <<outbox, deadLetters, dispatches>>

\* markPublished: one UPDATE that no status guards.
Mark(d) ==
    /\ disp[d].phase = "mark"
    /\ outbox' = [outbox EXCEPT ![Current(d)] =
                    [status |-> "PUBLISHED", attempts |-> @.attempts + 1,
                     waiting |-> FALSE]]
    /\ NextEvent(d)
    /\ UNCHANGED <<deadLetters, sent, tried, dispatches>>

\* Slip: the attempt is counted before the status is set.
MarkThrowsCounted(d) ==
    /\ disp[d].phase = "mark"
    /\ outbox' = [outbox EXCEPT ![Current(d)].attempts = @ + 1]
    /\ Turns(d, "record")
    /\ UNCHANGED <<deadLetters, sent, tried, dispatches>>

\* The UPDATE throws: the message, already sent, counts as failed.
MarkThrows(d) ==
    /\ disp[d].phase = "mark"
    /\ Turns(d, "record")
    /\ UNCHANGED <<outbox, deadLetters, sent, tried, dispatches>>

\* recordPublishFailure reads the row ...
RecordRead(d) ==
    /\ disp[d].phase = "record"
    /\ disp' = [disp EXCEPT ![d].phase = "write",
                            ![d].seen = outbox[Current(d)].attempts]
    /\ UNCHANGED <<outbox, deadLetters, sent, tried, dispatches>>

GivesUp(d) == disp[d].seen + 1 >= PublishAttempts

\* ... and overwrites it, from the attempts it read and whatever its status.
RecordWrite(d) ==
    /\ disp[d].phase = "write"
    /\ outbox' = [outbox EXCEPT ![Current(d)] =
                    [status |-> IF GivesUp(d) THEN "DEAD_LETTERED"
                                ELSE "FAILED",
                     attempts |-> disp[d].seen + 1, waiting |-> ~GivesUp(d)]]
    /\ deadLetters' = IF GivesUp(d) THEN deadLetters \cup {Current(d)}
                      ELSE deadLetters
    /\ NextEvent(d)
    /\ UNCHANGED <<sent, tried, dispatches>>

\* The process dies, or recordPublishFailure itself throws: the rest of the
\* batch is left as it is.
Abort(d) ==
    /\ disp[d].phase # "idle"
    /\ disp' = [disp EXCEPT ![d] = Idle]
    /\ UNCHANGED <<outbox, deadLetters, sent, tried, dispatches>>

-------------------------------------------------------------------------------
DispatchStep(d) == Publish(d) \/ Mark(d) \/ RecordRead(d) \/ RecordWrite(d)
DispatchFails(d) == PublishThrows(d) \/ MarkThrows(d) \/ Abort(d)

OutboxNext ==
    \/ \E e \in Events : Enqueue(e) \/ BackoffPasses(e)
    \/ \E d \in Dispatchers : Dispatch(d) \/ DispatchStep(d) \/ DispatchFails(d)

OutboxSpec == OutboxInit /\ [][OutboxNext]_outboxVars

-------------------------------------------------------------------------------
(* Properties.                                                             *)

\* The attempts of a row never exceed the publications that were tried, each
\* of which markPublished or recordPublishFailure counts: overlapping
\* dispatchers can lose an attempt but none is invented, and so no event is
\* given up before PublishAttempts publications were tried, nor without a record.
AttemptsBackedByTries ==
    \A e \in Events : /\ outbox[e].attempts <= tried[e]
                      /\ outbox[e].status = "DEAD_LETTERED" => e \in deadLetters
                      /\ e \in deadLetters => tried[e] >= PublishAttempts

\* An event that was published or given up, and that no dispatcher holds, is
\* settled for good: it is not selected, sent or written again (the statuses
\* that pending selects by stand in for a claim of the row).
Held(e) == \E d \in Dispatchers : e \in disp[d].batch
PublishedForGood ==
    [][\A e \in Events :
         outbox[e].status \in {"PUBLISHED", "DEAD_LETTERED"} /\ ~Held(e)
           => outbox'[e] = outbox[e] /\ sent'[e] = sent[e] /\ ~Held(e)']_outboxVars
=============================================================================
