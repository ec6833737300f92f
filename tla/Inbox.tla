--------------------------------- MODULE Inbox ---------------------------------
(***************************************************************************)
(* Inbox processing of one integration event by one consumer name: the     *)
(* Inbox row, the deliveries that process copies of the message at the     *)
(* same time (one per API replica: prefetch is 1), the transport's queue   *)
(* and retry queue, and the dead-letter record.  Different events and      *)
(* different consumers share no Inbox row.                                 *)
(*                                                                         *)
(* A transaction is two steps, the SELECT of the row and then the writes   *)
(* with the commit: the first write locks the row until the commit, so     *)
(* only the SELECT can be stale.                                           *)
(***************************************************************************)
EXTENDS Naturals, FiniteSets

CONSTANTS
    Deliveries,      \* handlers that may run at the same time
    Transports,      \* the transports the deployments run on
    MaxAttempts,     \* RetryPolicy.maxAttempts
    MaxCopies,       \* bound on copies of the message that arrive
    MaxFaults        \* bound on throwing effects, throwing callbacks, crashes

ASSUME InboxAssumption ==
    /\ IsFiniteSet(Deliveries)
    /\ Transports \subseteq {"rabbitmq", "in-memory"}
    /\ MaxCopies \in Nat
    /\ MaxAttempts \in Nat \ {0}
    /\ MaxFaults \in Nat

VARIABLES
    transport,  \* "rabbitmq" or "in-memory", configured once
    inbox,      \* the inbox_events row: status and attempts
    effects,    \* committed runs of the consumer's effect
    hooks,      \* afterCommit callbacks that returned
    deadLetter, \* TRUE once dead_letter_events holds the event
    copies,     \* copies of the message the transport ever accepted
    ready,      \* copies in the consumer's queue
    retrying,   \* copies in the retry queue, or waiting for a timer
    poisoned,   \* copies in the dead letter queue
    proc,       \* what each delivery is doing, and the row it read
    failures, hookFailures, crashes

db == <<inbox, effects, deadLetter>>
broker == <<transport, copies, ready, retrying, poisoned>>
channel == <<transport, copies>>
bounds == <<failures, hookFailures, crashes>>
inboxVars == <<transport, inbox, effects, hooks, deadLetter, copies, ready,
               retrying, poisoned, proc, failures, hookFailures, crashes>>

-------------------------------------------------------------------------------
InboxStatuses == {"NONE", "PROCESSED", "FAILED", "DEAD_LETTERED"}
InboxRows == [status : InboxStatuses, attempts : Nat]
NoInboxRow == [status |-> "NONE", attempts |-> 0]
HandlerPhases ==
    {"idle", "select", "effect", "hook", "fail", "hookfail", "record",
     "report", "retry", "dead", "ack", "unacked"}

InboxTypeOK ==
    /\ transport \in Transports
    /\ inbox \in InboxRows
    /\ effects \in Nat /\ hooks \in Nat
    /\ deadLetter \in BOOLEAN
    /\ copies \in Nat
    /\ ready \in Nat /\ retrying \in Nat /\ poisoned \in Nat
    /\ proc \in [Deliveries -> [phase : HandlerPhases, seen : InboxRows]]
    /\ failures \in Nat /\ hookFailures \in Nat /\ crashes \in Nat
    /\ failures + hookFailures + crashes <= MaxFaults

InboxInit ==
    /\ transport \in Transports
    /\ inbox = NoInboxRow
    /\ effects = 0 /\ hooks = 0
    /\ deadLetter = FALSE
    /\ copies = 0
    /\ ready = 0 /\ retrying = 0 /\ poisoned = 0
    /\ proc = [d \in Deliveries |-> [phase |-> "idle", seen |-> NoInboxRow]]
    /\ failures = 0 /\ hookFailures = 0 /\ crashes = 0

MayFail == failures + hookFailures + crashes < MaxFaults

Goes(d, phase) == proc' = [proc EXCEPT ![d].phase = phase]
Read(d, phase) == proc' = [proc EXCEPT ![d] = [phase |-> phase, seen |-> inbox]]

-------------------------------------------------------------------------------
(* The transport accepts a copy of the message.                            *)

Accept ==
    /\ copies' = copies + 1
    /\ ready' = ready + 1
    /\ UNCHANGED <<transport, db, hooks, retrying, poisoned, proc, bounds>>

Arrive == copies < MaxCopies /\ Accept

-------------------------------------------------------------------------------
(* processInContext: the transaction of the effect.                        *)

Receive(d) ==
    /\ proc[d].phase = "idle"
    /\ ready > 0
    /\ ready' = ready - 1
    /\ Goes(d, "select")
    /\ UNCHANGED <<db, hooks, channel, retrying, poisoned, bounds>>

SelectSkipping(d, settled) ==
    /\ proc[d].phase = "select"
    /\ Read(d, IF inbox.status \in settled THEN "report" ELSE "effect")
    /\ UNCHANGED <<db, hooks, broker, bounds>>

\* Slips: one of the two settled statuses is forgotten.
SelectOnlyDeadLettered(d) == SelectSkipping(d, {"DEAD_LETTERED"})
SelectOnlyProcessed(d) == SelectSkipping(d, {"PROCESSED"})

\* A row that is PROCESSED or DEAD_LETTERED makes the delivery a duplicate.
Select(d) == SelectSkipping(d, {"PROCESSED", "DEAD_LETTERED"})

\* The INSERT of a row that another delivery inserted since violates the
\* unique key; the UPDATE of a row found by the SELECT is not guarded by its
\* status.
Conflict(d) == proc[d].seen.status = "NONE" /\ inbox.status # "NONE"

CommitThen(d, phase) ==
    /\ proc[d].phase = "effect"
    /\ ~Conflict(d)
    /\ inbox' = [status |-> "PROCESSED", attempts |-> proc[d].seen.attempts + 1]
    /\ effects' = effects + 1
    /\ Goes(d, phase)
    /\ UNCHANGED <<hooks, deadLetter, broker, bounds>>

\* Slip: the callback belongs to the first try only.
CommitHookOfFirstTry(d) ==
    CommitThen(d, IF proc[d].seen.status = "NONE" THEN "hook" ELSE "report")

Commit(d) == CommitThen(d, "hook")

InsertConflicts(d) ==
    /\ proc[d].phase = "effect"
    /\ Conflict(d)
    /\ Goes(d, "fail")
    /\ UNCHANGED <<db, hooks, broker, bounds>>

EffectThrows(d) ==
    /\ proc[d].phase = "effect"
    /\ ~Conflict(d)
    /\ MayFail
    /\ failures' = failures + 1
    /\ Goes(d, "fail")
    /\ UNCHANGED <<db, hooks, broker, hookFailures, crashes>>

-------------------------------------------------------------------------------
(* The afterCommit callback, held in memory.                               *)

Hook(d) ==
    /\ proc[d].phase = "hook"
    /\ hooks' = hooks + 1
    /\ Goes(d, "report")
    /\ UNCHANGED <<db, broker, bounds>>

HookThrows(d) ==
    /\ proc[d].phase = "hook"
    /\ MayFail
    /\ hookFailures' = hookFailures + 1
    /\ Goes(d, "hookfail")
    /\ UNCHANGED <<db, hooks, broker, failures, crashes>>

-------------------------------------------------------------------------------
(* recordFailure.                                                          *)

\* Without retryProcessed a row that became PROCESSED answers DUPLICATE.
FailureRead(d) ==
    /\ proc[d].phase \in {"fail", "hookfail"}
    /\ Read(d, IF inbox.status = "PROCESSED" /\ proc[d].phase = "fail" THEN "ack"
               ELSE "record")
    /\ UNCHANGED <<db, hooks, broker, bounds>>

Exhausted(d) == proc[d].seen.attempts + 1 >= MaxAttempts

RecordThen(d, phase, keeps) ==
    /\ proc[d].phase = "record"
    /\ ~Conflict(d)
    /\ inbox' = [status |-> IF Exhausted(d) THEN "DEAD_LETTERED" ELSE "FAILED",
                 attempts |-> proc[d].seen.attempts + 1]
    /\ deadLetter' = (deadLetter \/ keeps)
    /\ Goes(d, phase)
    /\ UNCHANGED <<effects, hooks, broker, bounds>>

\* Slip: no dead letter is inserted.
FailureWriteForgetting(d) ==
    RecordThen(d, IF Exhausted(d) THEN "dead" ELSE "retry", FALSE)
\* Slip: the failed message is acknowledged.
FailureWriteWithoutRetry(d) ==
    RecordThen(d, IF Exhausted(d) THEN "dead" ELSE "ack", Exhausted(d))

\* The write uses the attempts it read, and overwrites any status; only an
\* INSERT can fail, and then the message is left unacknowledged.
FailureWrite(d) ==
    RecordThen(d, IF Exhausted(d) THEN "dead" ELSE "retry", Exhausted(d))

FailureConflicts(d) ==
    /\ proc[d].phase = "record"
    /\ Conflict(d)
    /\ Goes(d, "unacked")
    /\ UNCHANGED <<db, hooks, broker, bounds>>

-------------------------------------------------------------------------------
(* processDelivery: what becomes of the message.                           *)

\* The status is read once more for the result.
Report(d) ==
    /\ proc[d].phase = "report"
    /\ Goes(d, IF inbox.status = "DEAD_LETTERED" THEN "dead" ELSE "ack")
    /\ UNCHANGED <<db, hooks, broker, bounds>>

SendToRetry(d) ==
    /\ proc[d].phase = "retry"
    /\ retrying' = retrying + 1
    /\ Goes(d, "ack")
    /\ UNCHANGED <<db, hooks, channel, ready, poisoned, bounds>>

SendToDeadLetter(d) ==
    /\ proc[d].phase = "dead"
    /\ poisoned' = poisoned + 1
    /\ Goes(d, "ack")
    /\ UNCHANGED <<db, hooks, channel, ready, retrying, bounds>>

Acknowledge(d) ==
    /\ proc[d].phase = "ack"
    /\ Goes(d, "idle")
    /\ UNCHANGED <<db, hooks, broker, bounds>>

\* The in-memory transport swallows the error of the handler and forgets the
\* message; RabbitMQ keeps it for the connection that holds it.
Forget(d) ==
    /\ transport = "in-memory"
    /\ proc[d].phase = "unacked"
    /\ Goes(d, "idle")
    /\ UNCHANGED <<db, hooks, broker, bounds>>

-------------------------------------------------------------------------------
(* The transport.                                                          *)

\* A retry queue dead-letters to the topic exchange under the name of the
\* retry queue, which no binding matches: RabbitMQ drops the message.  The
\* in-memory transport's timer delivers it again.
Redelivered(n) == IF transport = "in-memory" THEN n + 1 ELSE n

RetryExpires ==
    /\ retrying > 0
    /\ retrying' = retrying - 1
    /\ ready' = Redelivered(ready)
    /\ UNCHANGED <<db, hooks, channel, poisoned, proc, bounds>>

\* Slip: the message is acknowledged when it is received.
CrashLosing(d) ==
    /\ MayFail
    /\ crashes' = crashes + 1
    /\ proc[d].phase # "idle"
    /\ Goes(d, "idle")
    /\ UNCHANGED <<db, hooks, broker, failures, hookFailures>>

\* RabbitMQ redelivers what the dead replica had not acknowledged.  The
\* in-memory transport lives in the process that dies, with its timers.
Crash(d) ==
    /\ MayFail
    /\ crashes' = crashes + 1
    /\ \/ /\ transport = "rabbitmq"
          /\ proc[d].phase # "idle"
          /\ ready' = ready + 1
          /\ Goes(d, "idle")
          /\ UNCHANGED retrying
       \/ /\ transport = "in-memory"
          /\ ready' = 0
          /\ retrying' = 0
          /\ proc' = [e \in Deliveries |-> [proc[e] EXCEPT !.phase = "idle"]]
    /\ UNCHANGED <<db, hooks, channel, poisoned, failures, hookFailures>>

-------------------------------------------------------------------------------
Handle(d) ==
    \/ Receive(d) \/ Select(d)
    \/ Commit(d) \/ InsertConflicts(d)
    \/ Hook(d)
    \/ FailureRead(d) \/ FailureWrite(d) \/ FailureConflicts(d)
    \/ Report(d) \/ SendToRetry(d) \/ SendToDeadLetter(d)
    \/ Acknowledge(d) \/ Forget(d)

InboxNext ==
    \/ \E d \in Deliveries :
         Handle(d) \/ EffectThrows(d) \/ HookThrows(d) \/ Crash(d)
    \/ RetryExpires
    \/ Arrive

InboxSpec == InboxInit /\ [][InboxNext]_inboxVars

-------------------------------------------------------------------------------
(* Properties.                                                             *)

Settled == inbox.status \in {"PROCESSED", "DEAD_LETTERED"}
Quiet == ready = 0 /\ retrying = 0 /\ \A d \in Deliveries : proc[d].phase = "idle"

\* As long as no effect or callback throws, the business effect of an event
\* is committed once, however many copies of the message overlap and whenever
\* a replica dies (processInContext's Inbox row).
EffectOnce == failures = 0 /\ hookFailures = 0 => effects <= 1

\* When no copy of the message is left anywhere in a process that lived, the
\* event was processed or is kept as a dead letter: nothing is acknowledged
\* away.
NoSilentLoss == Quiet /\ crashes = 0 /\ copies > 0 => Settled

\* A row is marked DEAD_LETTERED, and a copy sent to the dead letter queue,
\* only with a dead-letter record (recordFailure and insertDeadLetter share a
\* transaction, and the queue is fed after its commit).
DeadLetterKept ==
    /\ inbox.status = "DEAD_LETTERED" => deadLetter
    /\ poisoned > 0 => deadLetter

\* A processed event whose handlers all finished, in a process that lived, had
\* its afterCommit callback run, also when a callback or an effect threw.
HookNotForgotten ==
    Quiet /\ crashes = 0 /\ inbox.status = "PROCESSED" => hooks >= 1

\* No delivery is between its SELECT and its writes, or has a failure still to
\* record.
NothingOpen ==
    \A d \in Deliveries :
        proc[d].phase \notin {"effect", "hook", "fail", "hookfail", "record"}

\* An event that is settled while no delivery is half-way stays settled,
\* whatever copies, crashes and retries still come: its effect is not run
\* again and a dead letter is not revived (processInContext's early return).
HandledForGood ==
    [][Settled /\ NothingOpen
         => UNCHANGED <<inbox, effects>> /\ NothingOpen']_inboxVars
=============================================================================
