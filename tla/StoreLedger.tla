------------------------------ MODULE StoreLedger ------------------------------
(***************************************************************************)
(* What Settlement promises the Store of one Order: the settlement is      *)
(* recorded once, from ELIGIBLE, with a gross and a fee entry, an amount   *)
(* payable that is the sum of its entries, and one announcement; ledger    *)
(* entries are never changed or removed, and a recorded ledger only takes  *)
(* further refunds.                                                        *)
(***************************************************************************)
EXTENDS Integers, FiniteSetsExt

VARIABLES status, payable, ledger, announced

\* An entry is its type, the event it comes from and its signed amount.
Balance(entries) == MapThenSumSet(LAMBDA e : e.amount, entries)
Identity(e) == <<e.type, e.event>>
OfType(entries, t) == {e \in entries : e.type = t}

Init ==
    /\ status = "ABSENT"
    /\ payable = 0
    /\ ledger = {}
    /\ announced = {}

\* Until it is recorded the settlement may be projected again and again.
Project ==
    /\ <<status, status'>> \in {"ABSENT", "PENDING", "ELIGIBLE"}
                                 \X {"PENDING", "ELIGIBLE"}
    /\ status = "ABSENT" => status' = "PENDING"
    /\ UNCHANGED <<ledger, announced>>

Record ==
    /\ status = "ELIGIBLE"
    /\ status' = "RECORDED"
    /\ Cardinality(OfType(ledger', "GROSS")) = 1
    /\ Cardinality(OfType(ledger', "FEE")) = 1
    /\ payable' = Balance(ledger')
    /\ payable' >= 0
    /\ announced = {}
    /\ announced' = {"SettlementRecorded"}

AppendRefund ==
    /\ status = "RECORDED"
    /\ \E e \in ledger' :
         /\ e.type = "REFUND" /\ e.amount < 0
         /\ \A f \in ledger : Identity(f) # Identity(e)
         /\ ledger' = ledger \cup {e}
    /\ UNCHANGED <<status, announced>>

Next == Project \/ Record \/ AppendRefund

Spec == Init /\ [][Next]_<<status, payable, ledger, announced>>
=============================================================================
