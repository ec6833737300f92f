------------------------------ MODULE Settlement ------------------------------
(***************************************************************************)
(* The Settlement context: the facts it projects for one Order, the        *)
(* settlement row, its ledger, and the actors that write them: the         *)
(* consumer of Payment's and Ordering's events on each API replica, and    *)
(* the SettlementWorkflow.  Orders share no row, so one is enough.         *)
(*                                                                         *)
(* PostgreSQL runs at READ COMMITTED.  A projection is three steps: it     *)
(* reads the settlement row; it inserts or adjusts the row, if it has to,  *)
(* and reads the facts; it writes and commits.  A row it inserted or       *)
(* updated stays locked until then, and an INSERT of the same Order waits. *)
(***************************************************************************)
EXTENDS Integers, FiniteSetsExt

CONSTANTS
    Replicas,       \* API processes: each handles one message at a time
    Durable,        \* where DBOS runs live: the database, not a replica
    Refunds,        \* PaymentRefunded events of the Order
    Amount,         \* the amount of each refund
    Gross,          \* the amount of the Order and of its payment
    FeeBasisPoints, \* SETTLEMENT_FEE_BASIS_POINTS
    Adjustment,     \* the adjustment OrderCompleted carries, 0 for none
    MaxAmount,      \* MAX_SETTLEMENT_MINOR_AMOUNT
    MaxDeliveries,  \* RetryPolicy.maxAttempts of the Inbox
    MaxThrows,      \* bound on workflow steps that throw
    MaxCrashes,     \* bound on process crashes
    Fates,          \* how the Order may end: "OrderCompleted", "OrderCancelled"
    Runtimes        \* the workflow runtimes the API may be configured with

Fixed == {"PaymentSucceeded", "OrderCompleted", "OrderCancelled"}
Events == Fixed \cup Refunds
Hosts == Replicas \cup {Durable}
Nobody == "nobody"
Free == "free"

ASSUME SettlementAssumption ==
    /\ Durable \notin Replicas /\ Nobody \notin Hosts
    /\ Refunds \cap Fixed = {} /\ Free \notin Events
    /\ MaxAmount \in Nat /\ Gross \in 1..MaxAmount
    /\ Amount \in [Refunds -> 1..MaxAmount]
    /\ FeeBasisPoints \in 0..10000
    /\ Adjustment \in -MaxAmount..MaxAmount
    /\ MaxDeliveries \in Nat \ {0}
    /\ MaxThrows \in Nat /\ MaxCrashes \in Nat
    /\ Fates \subseteq {"OrderCompleted", "OrderCancelled"}
    /\ Runtimes \subseteq {"dbos", "local"}

VARIABLES
    row,      \* the settlements row, status "ABSENT" before the insert
    facts,    \* events whose fact row is committed
    ledger,   \* settlement_ledger_entries
    outbox,   \* Outbox rows the Settlement context enqueued
    message,  \* each event's message: state, deliveries, replica, run awaited
    tx,       \* each event's open projection: the row and the facts it read
    lock,     \* the event whose projection holds the settlement row
    starting, \* runs to start, held in a replica's memory only
    runs,     \* the workflow run of each host, and what it read
    fate, runtime,
    throws, crashes

config == <<fate, runtime>>
db == <<row, facts, ledger, outbox>>
vars == <<row, facts, ledger, outbox, message, tx, lock, starting, runs, fate,
          runtime, throws, crashes>>

-------------------------------------------------------------------------------
(* calculateSettlement.                                                    *)

Fee == (Gross * FeeBasisPoints) \div 10000

\* What is left for the Store, and whether the calculation accepts it: it
\* throws on refunds above the gross amount and on a result below zero or
\* above the bound of an amount.
Payable(refunded, adjusted) == Gross - Fee - refunded + adjusted

\* Slip: the amount payable is not looked at.
CalculatesAnyPayable(refunded, adjusted) == refunded <= Gross

Calculates(refunded, adjusted) ==
    refunded <= Gross /\ Payable(refunded, adjusted) \in 0..MaxAmount

Refunded(events) == MapThenSumSet(LAMBDA r : Amount[r], events \cap Refunds)

-------------------------------------------------------------------------------
Statuses == {"ABSENT", "PENDING", "ELIGIBLE", "RECORDED"}
Unrecorded == {"PENDING", "ELIGIBLE"}
Amounts == -MaxAmount..MaxAmount
Rows == [status : Statuses, refund : 0..MaxAmount, adjustment : Amounts,
         payable : 0..MaxAmount]
NoRow == [status |-> "ABSENT", refund |-> 0, adjustment |-> 0, payable |-> 0]

Entry(type, event, amount) == [type |-> type, event |-> event, amount |-> amount]
RefundEntry(r) == Entry("REFUND", r, -Amount[r])
Entries == [type : {"GROSS", "FEE", "REFUND", "ADJUSTMENT"},
            event : Events \cup {"run"}, amount : Amounts]

Idle == [phase |-> "idle", row |-> NoRow, facts |-> {}]
RunPhases == {"idle", "load", "facts", "record", "recording", "done", "failed"}
Active == RunPhases \ {"idle", "done", "failed"}

TypeOK ==
    /\ row \in Rows
    /\ facts \subseteq Events
    /\ ledger \subseteq Entries
    /\ outbox \subseteq {"SettlementRecorded"}
    /\ message \in [Events -> [state : {"queued", "open", "handled", "dead"},
                               deliveries : 0..(MaxDeliveries + 1),
                               on : Replicas \cup {Nobody},
                               run : Hosts \cup {Nobody}]]
    /\ tx \in [Events -> [phase : {"idle", "found", "read"}, row : Rows,
                          facts : SUBSET Events]]
    /\ lock \in Events \cup {Free}
    /\ starting \subseteq (Replicas \X Events)
    /\ runs \in [Hosts -> [phase : RunPhases, row : Rows, facts : SUBSET Events]]
    /\ fate \in Fates
    /\ runtime \in Runtimes
    /\ throws \in 0..MaxThrows
    /\ crashes \in 0..MaxCrashes

Init ==
    /\ row = NoRow
    /\ facts = {} /\ ledger = {} /\ outbox = {}
    /\ message = [e \in Events |-> [state |-> "queued", deliveries |-> 0,
                                    on |-> Nobody, run |-> Nobody]]
    /\ tx = [e \in Events |-> Idle]
    /\ lock = Free
    /\ starting = {}
    /\ runs = [h \in Hosts |-> Idle]
    /\ fate \in Fates
    /\ runtime \in Runtimes
    /\ throws = 0
    /\ crashes = 0

-------------------------------------------------------------------------------
(* The projections: projectEvent in the Inbox transaction of the message.  *)

\* Which messages exist: Ordering completes an Order or cancels it.
Sent == {"PaymentSucceeded", fate} \cup Refunds

\* The projection inserts its fact and reads the settlement row.
BeginProjection(p, e) ==
    /\ e \in Sent /\ message[e].state = "queued"
    /\ \A f \in Events : message[f].state = "open" => message[f].on # p
    /\ message' = [message EXCEPT ![e].state = "open", ![e].on = p]
    /\ tx' = [tx EXCEPT ![e] = [phase |-> "found", row |-> row, facts |-> {}]]
    /\ UNCHANGED <<db, lock, starting, runs, config, throws, crashes>>

\* The facts a statement of e's transaction sees: the committed ones and its own.
FactsSeen(e) == facts \cup {e}

Found(e, seen) ==
    tx' = [tx EXCEPT ![e] = [phase |-> "read", row |-> seen, facts |-> FactsSeen(e)]]

Founder(e) == e \in {"PaymentSucceeded", "OrderCompleted"}
Adjusts(e) == e = "OrderCompleted" /\ Adjustment # 0

\* Slip: the facts are read before the row is inserted or waited for.
SkipInsert(e) ==
    /\ Founder(e) /\ tx[e].row.status = "ABSENT"
    /\ Found(e, [NoRow EXCEPT !.status = "PENDING"])
    /\ UNCHANGED lock

\* ensureSettlement without a row: INSERT ... ON CONFLICT DO NOTHING waits for
\* the transaction that inserts the row, and keeps that row as it is.
EnsureInsert(e) ==
    /\ Founder(e) /\ tx[e].row.status = "ABSENT"
    /\ IF row.status = "ABSENT"
       THEN /\ lock = Free
            /\ lock' = e
            /\ Found(e, [NoRow EXCEPT !.status = "PENDING",
                           !.adjustment = IF Adjusts(e) THEN Adjustment ELSE 0])
       ELSE Found(e, row) /\ UNCHANGED lock

\* ensureSettlement with a row that has no adjustment yet.
EnsureAdjust(e) ==
    /\ tx[e].row.status # "ABSENT"
    /\ Adjusts(e) /\ tx[e].row.adjustment = 0
    /\ lock = Free
    /\ lock' = e
    /\ Found(e, [row EXCEPT !.adjustment = Adjustment])

EnsureFound(e) ==
    /\ ~(Founder(e) /\ tx[e].row.status = "ABSENT")
    /\ ~(Adjusts(e) /\ tx[e].row.adjustment = 0)
    /\ Found(e, tx[e].row)
    /\ UNCHANGED lock

EnsureSettlement(e) ==
    /\ tx[e].phase = "found"
    /\ EnsureInsert(e) \/ EnsureAdjust(e) \/ EnsureFound(e)
    /\ UNCHANGED <<db, message, starting, runs, config, throws, crashes>>

-------------------------------------------------------------------------------
(* The end of a projection.                                                *)

\* The row as the writes of e's transaction find it.
Current(e) == IF lock = e THEN tx[e].row ELSE row
Released(e) == IF lock = e THEN Free ELSE lock

\* Commit with the fact, the row and the ledger given, and the run to start.
Commit(e, r, entries, starts) ==
    /\ facts' = facts \cup {e}
    /\ row' = r
    /\ ledger' = ledger \cup entries
    /\ starting' = IF starts THEN starting \cup {<<message[e].on, e>>} ELSE starting
    /\ message' = [message EXCEPT ![e].state = "handled", ![e].deliveries = @ + 1,
                                  ![e].on = Nobody]
    /\ tx' = [tx EXCEPT ![e] = Idle]
    /\ lock' = Released(e)
    /\ UNCHANGED outbox

\* recordFailure counts one more attempt, also for an effect that is committed
\* and counted already, and repeats the delivery until there were too many.
Redelivered(m) ==
    [state |-> IF m.deliveries + 1 >= MaxDeliveries THEN "dead" ELSE "queued",
     deliveries |-> m.deliveries + 1, on |-> Nobody, run |-> Nobody]

\* The effect throws: nothing of the projection stays.
Rollback(e) ==
    /\ message' = [message EXCEPT ![e] = Redelivered(@)]
    /\ tx' = [tx EXCEPT ![e] = Idle]
    /\ lock' = Released(e)
    /\ UNCHANGED <<db, starting>>

BothFacts(known) == {"PaymentSucceeded", "OrderCompleted"} \subseteq known
Cancelled(known) == "OrderCancelled" \in known
Evaluated(e) == e # "OrderCancelled" /\ tx[e].row.status \in Unrecorded
Evaluates(e) == Evaluated(e) /\ ~Cancelled(tx[e].facts) /\ BothFacts(tx[e].facts)
CanCalculate(e) == Calculates(Refunded(tx[e].facts), tx[e].row.adjustment)

\* The row is unlocked, or locked by e.
Writable(e) == lock \in {e, Free}

\* The row recordSettlement and evaluateEligibility write, from what they read.
Amended(r, status, seen) ==
    [r EXCEPT !.status = status, !.refund = Refunded(seen.facts),
              !.adjustment = seen.row.adjustment,
              !.payable = Payable(Refunded(seen.facts), seen.row.adjustment)]

\* Slip: nothing starts the workflow.
EligibleUnstarted(e) ==
    /\ Evaluates(e) /\ CanCalculate(e) /\ Writable(e)
    /\ Commit(e, Amended(Current(e), "ELIGIBLE", tx[e]), {}, FALSE)

\* evaluateEligibility: a guarded UPDATE unless the row it read says all of it
\* already, and a run to start in any case.
ProjectEligible(e) ==
    /\ Evaluates(e) /\ CanCalculate(e)
    /\ IF Amended(tx[e].row, "ELIGIBLE", tx[e]) = tx[e].row
       THEN Commit(e, Current(e), {}, TRUE)
       ELSE /\ Writable(e)
            /\ Commit(e, IF Current(e).status \in Unrecorded
                         THEN Amended(Current(e), "ELIGIBLE", tx[e]) ELSE Current(e),
                      {}, TRUE)

\* The calculation throws.
ProjectRefused(e) ==
    /\ Evaluates(e) /\ ~CanCalculate(e)
    /\ Rollback(e)

\* The fact is kept, and there is nothing to evaluate yet, or any more.
ProjectFact(e) ==
    /\ e \in Fixed \/ tx[e].row.status # "RECORDED"
    /\ ~Evaluates(e)
    /\ e = "OrderCancelled" => tx[e].row.status \notin Unrecorded
    /\ Commit(e, Current(e), {}, FALSE)

\* projectOrderCancelled puts an unrecorded settlement back.
ProjectCancelled(e) ==
    /\ e = "OrderCancelled" /\ tx[e].row.status \in Unrecorded /\ Writable(e)
    /\ Commit(e, IF Current(e).status \in Unrecorded
                 THEN [Current(e) EXCEPT !.status = "PENDING"] ELSE Current(e),
              {}, FALSE)

\* appendRecordedRefund adds to the amount it read; an entry that exists
\* already ends it.
LateRefund(e) == e \in Refunds /\ tx[e].row.status = "RECORDED"
RefundTotal(e) == tx[e].row.refund + Amount[e]

AppendRefund(e) ==
    /\ LateRefund(e) /\ Calculates(RefundTotal(e), tx[e].row.adjustment)
    /\ RefundEntry(e) \in ledger \/ Writable(e)
    /\ Commit(e, IF RefundEntry(e) \in ledger THEN row
                 ELSE [row EXCEPT !.refund = RefundTotal(e),
                         !.payable = Payable(RefundTotal(e), tx[e].row.adjustment)],
              {RefundEntry(e)}, FALSE)

AppendRefused(e) ==
    /\ LateRefund(e) /\ ~Calculates(RefundTotal(e), tx[e].row.adjustment)
    /\ Rollback(e)

Project(e) ==
    /\ tx[e].phase = "read"
    /\ \/ ProjectEligible(e)
       \/ ProjectRefused(e)
       \/ ProjectFact(e)
       \/ ProjectCancelled(e)
       \/ AppendRefund(e)
       \/ AppendRefused(e)
    /\ UNCHANGED <<runs, config, throws, crashes>>

-------------------------------------------------------------------------------
(* The workflow.                                                           *)

\* The local runtime returns the run its replica remembers, which forgets
\* runs that threw, and awaits it; DBOS returns the run that exists.
Start(p, e) ==
    LET h == IF runtime = "local" THEN p ELSE Durable IN
    /\ <<p, e>> \in starting
    /\ starting' = starting \ {<<p, e>>}
    /\ runs' = IF runs[h].phase = "idle"
                  \/ (runtime = "local" /\ runs[h].phase = "failed")
               THEN [runs EXCEPT ![h] = [Idle EXCEPT !.phase = "load"]] ELSE runs
    /\ message' = IF runtime = "local" THEN [message EXCEPT ![e].run = h] ELSE message
    /\ UNCHANGED <<db, tx, lock, config, throws, crashes>>

Go(h, state) ==
    /\ runs' = [runs EXCEPT ![h] = state]
    /\ UNCHANGED <<message, tx, lock, starting, config, throws, crashes>>
To(phase) == [Idle EXCEPT !.phase = phase]

\* A failed run fails the deliveries that await it.
Failing(h) ==
    /\ runs' = [runs EXCEPT ![h] = To("failed")]
    /\ message' = [e \in Events |->
                     IF message[e].run = h THEN Redelivered(message[e]) ELSE message[e]]
    /\ UNCHANGED <<tx, lock, starting, config, crashes>>

\* Slip: a settlement that is no longer PENDING counts as recorded.
LoadEligibleAsDone(h) ==
    /\ runs[h].phase = "load"
    /\ Go(h, To(IF row.status = "PENDING" THEN "facts" ELSE "done"))
    /\ UNCHANGED db

Load(h) ==
    /\ runs[h].phase = "load"
    /\ Go(h, To(IF row.status = "RECORDED" THEN "done" ELSE "facts"))
    /\ UNCHANGED db

\* getWorkflowFacts and the calculation of the engine.
LoadFacts(h) ==
    /\ runs[h].phase = "facts"
    /\ IF BothFacts(facts) /\ ~Calculates(Refunded(facts), row.adjustment)
       THEN Failing(h) /\ UNCHANGED throws
       ELSE Go(h, To(IF BothFacts(facts) THEN "record" ELSE "done"))
    /\ UNCHANGED db

\* recordSettlement reads the row and the facts ...
RecordRead(h) ==
    /\ runs[h].phase = "record"
    /\ IF row.status = "RECORDED" \/ Cancelled(facts) \/ ~BothFacts(facts)
       THEN Go(h, To("done"))
       ELSE IF ~Calculates(Refunded(facts), row.adjustment)
       THEN Failing(h) /\ UNCHANGED throws
       ELSE Go(h, [phase |-> "recording", row |-> row, facts |-> facts])
    /\ UNCHANGED db

LedgerOf(seen) ==
    {Entry("GROSS", "OrderCompleted", Gross), Entry("FEE", "run", -Fee)}
    \cup {RefundEntry(r) : r \in seen.facts \cap Refunds}
    \cup (IF seen.row.adjustment = 0 THEN {}
          ELSE {Entry("ADJUSTMENT", "run", seen.row.adjustment)})

\* Slip: the entries are written before the UPDATE is known to have found
\* the settlement unrecorded.
RecordAnyStatus(h) ==
    /\ runs[h].phase = "recording" /\ lock = Free
    /\ row' = Amended(row, "RECORDED", runs[h])
    /\ ledger' = ledger \cup LedgerOf(runs[h])
    /\ outbox' = outbox \cup {"SettlementRecorded"}
    /\ Go(h, To("done"))
    /\ UNCHANGED facts

\* ... and records them, unless the guarded UPDATE finds the row recorded.
RecordWrite(h) ==
    /\ runs[h].phase = "recording" /\ lock = Free
    /\ IF row.status \in Unrecorded
       THEN /\ row' = Amended(row, "RECORDED", runs[h])
            /\ ledger' = ledger \cup LedgerOf(runs[h])
            /\ outbox' = outbox \cup {"SettlementRecorded"}
       ELSE UNCHANGED <<row, ledger, outbox>>
    /\ Go(h, To("done"))
    /\ UNCHANGED facts

-------------------------------------------------------------------------------
(* Failures.                                                               *)

StepThrows(h) ==
    /\ throws < MaxThrows
    /\ runs[h].phase \in Active
    /\ throws' = throws + 1
    /\ Failing(h)
    /\ UNCHANGED db

\* DBOS repeats the step that was not recorded.
Resumed(run) == IF run.phase = "recording" THEN To("record") ELSE run

\* Replica p dies: its transaction rolls back and the message comes back; its
\* starts and its local run are gone, and what it handled is a duplicate now.
Crash(p) ==
    /\ crashes < MaxCrashes
    /\ crashes' = crashes + 1
    /\ message' = [e \in Events |->
                     IF message[e].state = "open" /\ message[e].on = p
                     THEN [message[e] EXCEPT !.state = "queued", !.on = Nobody]
                     ELSE IF message[e].run = p
                     THEN [message[e] EXCEPT !.run = Nobody]
                     ELSE message[e]]
    /\ tx' = [e \in Events |->
                IF message[e].state = "open" /\ message[e].on = p THEN Idle ELSE tx[e]]
    /\ lock' = IF lock # Free /\ message[lock].on = p THEN Free ELSE lock
    /\ starting' = {s \in starting : s[1] # p}
    /\ runs' = [h \in Hosts |-> IF h = p THEN Idle
                                ELSE IF h = Durable THEN Resumed(runs[h]) ELSE runs[h]]
    /\ UNCHANGED <<db, config, throws>>

-------------------------------------------------------------------------------
Next ==
    \/ \E p \in Replicas :
         \/ Crash(p)
         \/ \E e \in Events : BeginProjection(p, e) \/ Start(p, e)
    \/ \E e \in Events : EnsureSettlement(e) \/ Project(e)
    \/ \E h \in Hosts :
         \/ Load(h)
         \/ LoadFacts(h)
         \/ RecordRead(h)
         \/ RecordWrite(h)
         \/ StepThrows(h)

Spec == Init /\ [][Next]_vars

\* Consumers, transactions, callbacks and runs go on while their process lives.
Fairness ==
    /\ \A p \in Replicas, e \in Events : WF_vars(Start(p, e))
    /\ \A e \in Events : WF_vars(\E p \in Replicas : BeginProjection(p, e))
    /\ \A e \in Events : WF_vars(EnsureSettlement(e)) /\ WF_vars(Project(e))
    /\ \A h \in Hosts : /\ WF_vars(Load(h)) /\ WF_vars(LoadFacts(h))
                        /\ WF_vars(RecordRead(h)) /\ WF_vars(RecordWrite(h))

FairSpec == Spec /\ Fairness

-------------------------------------------------------------------------------
(* Properties.                                                             *)

\* Whichever of PaymentSucceeded and OrderCompleted comes second, or if both
\* are projected at once, the second one sees both facts: an Order with both
\* is never left PENDING, where nothing would look at it again
\* (ensureSettlement's INSERT, evaluateEligibility).
FactsMakeEligible ==
    BothFacts(facts) /\ ~Cancelled(facts) => row.status \in {"ELIGIBLE", "RECORDED"}

\* A run that ends normally leaves the settlement recorded.  DBOS never
\* starts the one run of a settlement again, so a run that came too early to
\* record would be the last (evaluateEligibility, runInternal).
DoneRunRecorded ==
    \A h \in Hosts : runs[h].phase = "done" => row.status = "RECORDED"

\* The rows implement the Store's ledger: recorded once although replicas run
\* the workflow at the same time and refunds arrive meanwhile, a payable
\* amount that is the sum of the entries recorded with it, and nothing but
\* refunds afterwards (recordSettlement, appendRecordedRefund).
Store == INSTANCE StoreLedger
             WITH status <- row.status, payable <- row.payable, announced <- outbox

LedgerKept == Store!Spec

\* An eligible settlement is recorded in the end, unless a process crashed, a
\* step threw or the refunds became more than the Order can bear: the start
\* of the workflow is kept in memory only.
EligibleRecorded ==
    row.status = "ELIGIBLE"
        ~> \/ row.status = "RECORDED"
           \/ crashes > 0 \/ throws > 0
           \/ ~Calculates(Refunded(facts), row.adjustment)

\* Every refund that was projected is in the ledger of a recorded settlement.
RefundRecorded ==
    row.status = "RECORDED"
        => \A r \in facts \cap Refunds : RefundEntry(r) \in ledger
=============================================================================
