---------------------------- MODULE SettlementProofs ----------------------------
(***************************************************************************)
(* Proofs about Settlement for any number of refunds of any amounts, any    *)
(* number of replicas, deliveries, failures and crashes.                    *)
(*                                                                         *)
(* The two facts that make a settlement eligible are committed by two       *)
(* projections that may overlap.  Either finds the row that the other       *)
(* inserted, or waits for its lock and reads after it (FoundersSee,         *)
(* LockHeld): the later one makes the settlement eligible.  The ledger is   *)
(* empty until RecordWrite (LedgerFounded) and then holds the entries of    *)
(* one record, whose balance is a sum over a finite set.                    *)
(***************************************************************************)
EXTENDS Settlement, FiniteSetTheorems, WellFoundedInduction, TLAPS

-------------------------------------------------------------------------------
(* Sums over finite sets, as the folds of the model compute them.          *)

\* The folds take the elements of a set in the order CHOOSE gives them.
Pick(s) == CHOOSE x \in s : TRUE

\* Folding f over the subsets of S.
IsSum(g, f, S) ==
    g = [s \in SUBSET S |-> IF s = {} THEN 0 ELSE f[Pick(s)] + g[s \ {Pick(s)}]]
SumFcn(f, S) == CHOOSE g : IsSum(g, f, S)
Total(f, S) == SumFcn(f, S)[S]

\* Any set of subsets of a finite set has one that contains no other.
LEMMA MinimalSet ==
    ASSUME NEW S, IsFiniteSet(S), NEW Bad \in SUBSET SUBSET S, Bad # {}
    PROVE  \E T \in Bad : IsFiniteSet(T) /\ \A U \in Bad : U \subseteq T => U = T
<1>1. Bad \subseteq FiniteSubsetsOf(S)
  BY FS_Subset DEF FiniteSubsetsOf
<1>2. PICK T \in Bad : \A U \in Bad : ~(<<U, T>> \in StrictSubsetOrdering(S))
  BY <1>1, FS_StrictSubsetOrderingWellFounded, WFMin
<1>3. ASSUME NEW U \in Bad, U \subseteq T PROVE U = T
  <2>1. ~(<<U, T>> \in StrictSubsetOrdering(S))
    BY <1>2
  <2>2. U \in SUBSET S /\ T \in SUBSET S
    OBVIOUS
  <2> QED BY <2>1, <2>2, <1>3 DEF StrictSubsetOrdering
<1>4. IsFiniteSet(T)
  BY FS_Subset
<1> QED BY <1>3, <1>4

\* Two summations of terms that agree have the same value on a common set.
LEMMA Agree ==
    ASSUME NEW f, NEW h, NEW S, NEW T, NEW F, NEW H, IsFiniteSet(S),
           IsSum(F, f, S), IsSum(H, h, T), \A x \in S \cap T : f[x] = h[x]
    PROVE  \A s \in SUBSET S : s \in SUBSET T => F[s] = H[s]
<1> DEFINE Bad == {s \in SUBSET S : s \in SUBSET T /\ F[s] # H[s]}
<1>1. SUFFICES ASSUME Bad # {} PROVE FALSE
  OBVIOUS
<1>2. PICK s \in Bad : \A U \in Bad : U \subseteq s => U = s
  <2>1. Bad \in SUBSET SUBSET S
    OBVIOUS
  <2> HIDE DEF Bad
  <2> QED BY <1>1, <2>1, MinimalSet
<1>3. s \in SUBSET S /\ s \in SUBSET T /\ F[s] # H[s]
  OBVIOUS
<1>4. /\ F[s] = IF s = {} THEN 0 ELSE f[Pick(s)] + F[s \ {Pick(s)}]
      /\ H[s] = IF s = {} THEN 0 ELSE h[Pick(s)] + H[s \ {Pick(s)}]
  BY <1>3 DEF IsSum
<1>5. s # {}
  BY <1>3, <1>4
<1>6. Pick(s) \in s
  BY <1>5 DEF Pick
<1>7. F[s \ {Pick(s)}] = H[s \ {Pick(s)}]
  BY <1>2, <1>3, <1>6
<1>8. f[Pick(s)] = h[Pick(s)]
  BY <1>3, <1>6
<1> QED BY <1>3, <1>4, <1>7, <1>8

\* There is such a summation for every finite set.
LEMMA SumExists ==
    ASSUME NEW f, NEW S, IsFiniteSet(S)
    PROVE  IsSum(SumFcn(f, S), f, S)
<1> DEFINE Bad == {T \in SUBSET S : ~\E g : IsSum(g, f, T)}
<1>1. SUFFICES ASSUME Bad # {} PROVE FALSE
  <2>1. \E g : IsSum(g, f, S)
    BY <1>1
  <2> QED BY <2>1 DEF SumFcn
<1>2. PICK T \in Bad : IsFiniteSet(T) /\ \A U \in Bad : U \subseteq T => U = T
  <2>1. Bad \in SUBSET SUBSET S
    OBVIOUS
  <2> HIDE DEF Bad
  <2> QED BY <1>1, <2>1, MinimalSet
<1>3. \A U \in SUBSET T : U # T => IsFiniteSet(U) /\ IsSum(SumFcn(f, U), f, U)
  BY <1>2, FS_Subset DEF SumFcn
<1>4. \A U \in SUBSET T : U # T => 
         Total(f, U) = IF U = {} THEN 0 ELSE f[Pick(U)] + Total(f, U \ {Pick(U)})
  <2> TAKE U \in SUBSET T
  <2> HAVE U # T
  <2>1. SumFcn(f, U)[U] = IF U = {} THEN 0 
                          ELSE f[Pick(U)] + SumFcn(f, U)[U \ {Pick(U)}]
    BY <1>3 DEF IsSum
  <2>2. CASE U # {}
    <3> DEFINE V == U \ {Pick(U)}
    <3>1. V \in SUBSET T /\ V # T /\ V \in SUBSET U
      OBVIOUS
    <3>2. SumFcn(f, U)[V] = SumFcn(f, V)[V]
      BY <1>3, <3>1, Agree
    <3> QED BY <2>1, <3>2 DEF Total
  <2> QED BY <2>1, <2>2 DEF Total
<1> DEFINE G == [s \in SUBSET T |-> IF s = {} THEN 0
                                    ELSE f[Pick(s)] + Total(f, s \ {Pick(s)})]
           G2 == [s \in SUBSET T |-> IF s = {} THEN 0
                                    ELSE f[Pick(s)] + G[s \ {Pick(s)}]]
<1>5. ASSUME NEW s \in SUBSET T PROVE G[s] = G2[s]
  <2>1. CASE s # {}
    <3>1. Pick(s) \in s
      BY <2>1 DEF Pick
    <3>2. s \ {Pick(s)} \in SUBSET T /\ s \ {Pick(s)} # T
      BY <3>1
    <3>3. G[s \ {Pick(s)}] = Total(f, s \ {Pick(s)})
      BY <1>4, <3>2
    <3> QED BY <3>3
  <2> QED BY <2>1
<1>6. G = G2
  <2> HIDE DEF Total
  <2> QED BY <1>5
<1>7. IsSum(G, f, T)
  BY <1>6 DEF IsSum
<1> QED BY <1>2, <1>7

\* Every summation gives the total.
LEMMA SumOf ==
    ASSUME NEW f, NEW S, IsFiniteSet(S), NEW g, IsSum(g, f, S)
    PROVE  g[S] = Total(f, S)
BY SumExists, Agree DEF Total

\* The total of nothing is 0.
LEMMA SumEmpty == ASSUME NEW f PROVE Total(f, {}) = 0
<1>1. IsSum(SumFcn(f, {}), f, {})
  BY SumExists, FS_EmptySet
<1> QED BY <1>1 DEF IsSum, Total

\* The total is the chosen term and the total of the others.
LEMMA SumPick ==
    ASSUME NEW f, NEW S, IsFiniteSet(S), S # {}
    PROVE  Pick(S) \in S /\ Total(f, S) = f[Pick(S)] + Total(f, S \ {Pick(S)})
<1> DEFINE V == S \ {Pick(S)}
<1>1. IsFiniteSet(V) /\ V \in SUBSET S
  BY FS_Subset
<1>2. IsSum(SumFcn(f, S), f, S) /\ IsSum(SumFcn(f, V), f, V)
  BY <1>1, SumExists
<1>3. SumFcn(f, S)[V] = SumFcn(f, V)[V]
  BY <1>1, <1>2, Agree
<1>4. SumFcn(f, S)[S] = f[Pick(S)] + SumFcn(f, S)[V]
  BY <1>2 DEF IsSum
<1> QED BY <1>3, <1>4 DEF Total, Pick

\* A total of integers is an integer.
LEMMA SumInt ==
    ASSUME NEW f, NEW S, IsFiniteSet(S), NEW N, N \in {Nat, Int}, \A x \in S : f[x] \in N
    PROVE  Total(f, S) \in N
<1> DEFINE Bad == {T \in SUBSET S : Total(f, T) \notin N}
<1>1. SUFFICES ASSUME Bad # {} PROVE FALSE
  OBVIOUS
<1>2. PICK T \in Bad : IsFiniteSet(T) /\ \A U \in Bad : U \subseteq T => U = T
  <2>1. Bad \in SUBSET SUBSET S
    OBVIOUS
  <2> HIDE DEF Bad
  <2> QED BY <1>1, <2>1, MinimalSet
<1>3. T # {}
  BY SumEmpty
<1>4. Pick(T) \in T /\ Total(f, T) = f[Pick(T)] + Total(f, T \ {Pick(T)})
  BY <1>2, <1>3, SumPick
<1>5. Total(f, T \ {Pick(T)}) \in N
  BY <1>2, <1>4
<1>6. f[Pick(T)] \in N
  BY <1>4
<1>7. \A i, j \in N : i + j \in N
  OBVIOUS
<1> QED BY <1>2, <1>4, <1>5, <1>6, <1>7

\* The order in which the elements are taken does not matter.
LEMMA SumRemove ==
    ASSUME NEW f, NEW S, IsFiniteSet(S), \A x \in S : f[x] \in Int, NEW x \in S
    PROVE  Total(f, S) = f[x] + Total(f, S \ {x})
<1> DEFINE Right(T, y) == Total(f, T) = f[y] + Total(f, T \ {y})
           Bad == {T \in SUBSET S : \E y \in T : ~Right(T, y)}
<1>1. SUFFICES ASSUME Bad # {} PROVE FALSE
  OBVIOUS
<1>2. PICK T \in Bad : IsFiniteSet(T) /\ \A U \in Bad : U \subseteq T => U = T
  <2>1. Bad \in SUBSET SUBSET S
    OBVIOUS
  <2> HIDE DEF Bad
  <2> QED BY <1>1, <2>1, MinimalSet
<1>3. T \in SUBSET S
  OBVIOUS
<1>4. PICK y \in T : ~Right(T, y)
  OBVIOUS
<1>5. \A U \in SUBSET T : U # T => \A z \in U : Right(U, z)
  BY <1>2, <1>3
<1> DEFINE p == Pick(T)
<1>6. p \in T /\ Right(T, p)
  BY <1>2, <1>4, SumPick
<1>7. p # y
  BY <1>4, <1>6
<1>8. Right(T \ {p}, y) /\ Right(T \ {y}, p)
  <2> HIDE DEF Right, p
  <2>1. T \ {p} # T /\ T \ {y} # T /\ y \in T \ {p} /\ p \in T \ {y}
    BY <1>6, <1>7
  <2> QED BY <2>1, <1>5
<1>9. (T \ {p}) \ {y} = (T \ {y}) \ {p}
  OBVIOUS
<1>10. Total(f, (T \ {p}) \ {y}) \in Int
  <2>1. IsFiniteSet((T \ {p}) \ {y})
    BY <1>2, FS_Subset
  <2> QED BY <2>1, <1>3, SumInt
<1>11. f[p] \in Int /\ f[y] \in Int
  BY <1>6
<1> QED
  <2> HIDE DEF p
  <2>1. Total(f, T) = f[p] + (f[y] + Total(f, (T \ {p}) \ {y}))
    BY <1>6, <1>8
  <2>2. Total(f, T \ {y}) = f[p] + Total(f, (T \ {p}) \ {y})
    BY <1>8, <1>9
  <2>3. Total(f, T) = f[y] + Total(f, T \ {y})
    BY <2>1, <2>2, <1>10, <1>11
  <2> QED BY <1>4, <2>3

\* A new term is added to the total.
LEMMA SumAdd ==
    ASSUME NEW f, NEW S, IsFiniteSet(S), NEW x, x \notin S,
           \A y \in S \cup {x} : f[y] \in Int
    PROVE  Total(f, S \cup {x}) = f[x] + Total(f, S)
<1>1. IsFiniteSet(S \cup {x}) /\ (S \cup {x}) \ {x} = S
  BY FS_AddElement
<1> QED BY <1>1, SumRemove
-------------------------------------------------------------------------------
(* The amounts of a settlement.                                            *)

\* The amounts a settlement works with, and the fee is at most the gross.
LEMMA AmountFacts ==
    /\ MaxAmount \in Nat /\ Gross \in 1..MaxAmount
    /\ Amount \in [Refunds -> 1..MaxAmount]
    /\ Adjustment \in Amounts
    /\ Fee \in 0..Gross
<1>1. /\ MaxAmount \in Nat /\ Gross \in 1..MaxAmount
      /\ Amount \in [Refunds -> 1..MaxAmount] /\ FeeBasisPoints \in 0..10000
      /\ Adjustment \in Amounts
  BY SettlementAssumption DEF Amounts
<1>2. Gross * FeeBasisPoints \in 0..(Gross * 10000)
  <2>1. Gross \in Nat
    BY <1>1
  <2>2. \A g \in Nat, b \in 0..10000 : g * b \in Nat /\ g * b <= g * 10000
    OBVIOUS
  <2> QED BY <1>1, <2>1, <2>2
<1>3. \A g, n \in Nat : n <= g * 10000 => n \div 10000 \in 0..g
  OBVIOUS
<1>4. (Gross * FeeBasisPoints) \div 10000 \in 0..Gross
  <2>1. PICK n \in Nat : n = Gross * FeeBasisPoints
    BY <1>2
  <2>2. n <= Gross * 10000
    BY <1>1, <1>2, <2>1
  <2>3. n \div 10000 \in 0..Gross
    BY <1>1, <1>3, <2>2
  <2> QED BY <2>1, <2>3
<1> QED BY <1>1, <1>4 DEF Fee

\* The refunds of a set of events are summed by Refunded.
LEMMA RefundedTotal ==
    ASSUME NEW events, IsFiniteSet(events)
    PROVE  Refunded(events) = Total(Amount, events \cap Refunds)
<1>1. IsFiniteSet(events \cap Refunds)
  BY FS_Subset
<1> QED BY DEF Refunded, MapThenSumSet, MapThenFoldSet, Total, SumFcn, IsSum, Pick

\* What is refunded is a number.
LEMMA RefundedNat ==
    ASSUME NEW events, IsFiniteSet(events)
    PROVE  Refunded(events) \in Nat
<1>1. IsFiniteSet(events \cap Refunds)
  BY FS_Subset
<1>2. \A r \in events \cap Refunds : Amount[r] \in Nat
  BY AmountFacts
<1>3. Total(Amount, events \cap Refunds) \in Nat
  BY <1>1, <1>2, SumInt
<1> QED BY <1>3, RefundedTotal

\* The amount of each ledger entry.
AmountOf == [e \in Entries |-> e.amount]

\* The balance of a ledger is the sum of the amounts of its entries.
LEMMA BalanceTotal ==
    ASSUME NEW L \in SUBSET Entries, IsFiniteSet(L)
    PROVE  Store!Balance(L) = Total(AmountOf, L)
<1> DEFINE f == [e \in L |-> e.amount]
           P(g) == g = [s \in SUBSET L |-> IF s = {} THEN 0
                                     ELSE Pick(s).amount + g[s \ {Pick(s)}]]
<1>1. Store!Balance(L) = (CHOOSE g : P(g))[L]
  BY DEF Store!Balance, Store!MapThenSumSet, Store!MapThenFoldSet, Pick
<1>2. ASSUME NEW g PROVE
        [s \in SUBSET L |-> IF s = {} THEN 0 ELSE Pick(s).amount + g[s \ {Pick(s)}]]
        = [s \in SUBSET L |-> IF s = {} THEN 0
                                 ELSE AmountOf[Pick(s)] + g[s \ {Pick(s)}]]
  <2>1. \A s \in SUBSET L : s # {} => Pick(s).amount = AmountOf[Pick(s)]
    BY DEF Pick, AmountOf
  <2> QED BY <2>1
<1>3. \A g : P(g) <=> IsSum(g, AmountOf, L)
  BY <1>2 DEF IsSum
<1>4. \E g : P(g)
  BY <1>3, SumExists
<1>5. P(CHOOSE g : P(g))
  <2> HIDE DEF P
  <2> QED BY <1>4
<1>6. IsSum(CHOOSE g : P(g), AmountOf, L)
  <2> HIDE DEF P
  <2> QED BY <1>3, <1>5
<1> QED
  <2> HIDE DEF P
  <2> QED BY <1>1, <1>6, SumOf

\* The ledger entries of a set of refunds.
RefundEntries(R) == {RefundEntry(r) : r \in R}

\* They take from the balance what Refunded sums.
LEMMA RefundEntriesFacts ==
    ASSUME NEW R \in SUBSET Refunds, IsFiniteSet(R)
    PROVE  /\ RefundEntries(R) \in SUBSET Entries /\ IsFiniteSet(RefundEntries(R))
           /\ Total(AmountOf, RefundEntries(R)) + Total(Amount, R) = 0
<1>1. \A r \in Refunds : /\ RefundEntry(r) \in Entries
                         /\ AmountOf[RefundEntry(r)] = -Amount[r]
                         /\ Amount[r] \in Nat
  <2> TAKE r \in Refunds
  <2>1. Amount[r] \in Nat /\ -Amount[r] \in Amounts
    BY AmountFacts DEF Amounts
  <2>2. RefundEntry(r) \in Entries
    BY <2>1 DEF RefundEntry, Entry, Entries, Events
  <2> QED BY <2>1, <2>2 DEF RefundEntry, Entry, AmountOf
<1>2. \A T \in SUBSET R : /\ IsFiniteSet(T)
                         /\ RefundEntries(T) \in SUBSET Entries
                         /\ IsFiniteSet(RefundEntries(T))
  <2> TAKE T \in SUBSET R
  <2>1. IsFiniteSet(T)
    BY FS_Subset
  <2>2. IsFiniteSet(RefundEntries(T))
    <3> DEFINE f == [r \in T |-> RefundEntry(r)]
    <3>1. f \in Surjection(T, RefundEntries(T))
      BY DEF Surjection, RefundEntries
    <3> QED BY <2>1, <3>1, FS_Surjection
  <2> QED BY <1>1, <2>1, <2>2 DEF RefundEntries
<1> DEFINE Bad == {T \in SUBSET R : Total(AmountOf, RefundEntries(T)) + Total(Amount, T) # 0}
<1>3. SUFFICES ASSUME Bad # {} PROVE FALSE
  BY <1>2
<1>4. PICK T \in Bad : \A U \in Bad : U \subseteq T => U = T
  <2>1. Bad \in SUBSET SUBSET R
    OBVIOUS
  <2> HIDE DEF Bad
  <2> QED BY <1>3, <2>1, MinimalSet
<1>5. T # {}
  <2>1. RefundEntries({}) = {}
    BY DEF RefundEntries
  <2> QED BY <2>1, SumEmpty
<1> DEFINE r == Pick(T)
           U == T \ {r}
<1>6. r \in T /\ Total(Amount, T) = Amount[r] + Total(Amount, U)
  BY <1>2, <1>5, SumPick
<1>7. U \in SUBSET R /\ U # T /\ U \subseteq T
  BY <1>6
<1>8. Total(AmountOf, RefundEntries(U)) + Total(Amount, U) = 0
  BY <1>4, <1>7
<1>9. RefundEntries(T) = RefundEntries(U) \cup {RefundEntry(r)}
  BY <1>6 DEF RefundEntries
<1>10. RefundEntry(r) \notin RefundEntries(U)
  BY DEF RefundEntries, RefundEntry, Entry
<1>11. Total(AmountOf, RefundEntries(T))
        = AmountOf[RefundEntry(r)] + Total(AmountOf, RefundEntries(U))
  <2>1. \A y \in RefundEntries(U) \cup {RefundEntry(r)} : AmountOf[y] \in Int
    BY <1>1, <1>6, <1>7 DEF RefundEntries
  <2> HIDE DEF U, r
  <2> QED BY <1>2, <1>7, <1>9, <1>10, <2>1, SumAdd
<1>12. Total(Amount, U) \in Int /\ Amount[r] \in Int
  <2>1. \A x \in U : Amount[x] \in Int
    BY <1>1
  <2>2. Amount[r] \in Int
    BY <1>1, <1>6
  <2> HIDE DEF U, r
  <2>3. IsFiniteSet(U)
    BY <1>2, <1>7
  <2>4. Total(Amount, U) \in Int
    BY <2>1, <2>3, SumInt
  <2> QED BY <2>2, <2>4
<1>13. AmountOf[RefundEntry(r)] = -Amount[r]
  BY <1>1, <1>6
<1> QED
  <2> HIDE DEF U, r
  <2>1. Total(AmountOf, RefundEntries(U)) \in Int
    <3>1. \A y \in RefundEntries(U) : AmountOf[y] \in Int
      BY <1>1, <1>7 DEF RefundEntries
    <3> QED BY <1>2, <1>7, <3>1, SumInt
  <2>2. Total(AmountOf, RefundEntries(T)) + Total(Amount, T) = 0
    BY <1>6, <1>8, <1>11, <1>12, <1>13, <2>1
  <2> QED BY <2>2

\* The ledger of a record balances the payable amount.
LEMMA LedgerOfBalance ==
    ASSUME NEW seen, IsFiniteSet(seen.facts), seen.row.adjustment \in Amounts
    PROVE  /\ LedgerOf(seen) \in SUBSET Entries
           /\ Store!Balance(LedgerOf(seen))
                = Payable(Refunded(seen.facts), seen.row.adjustment)
<1> DEFINE R == seen.facts \cap Refunds
           a == seen.row.adjustment
           gross == Entry("GROSS", "OrderCompleted", Gross)
           fee == Entry("FEE", "run", -Fee)
           adjusted == Entry("ADJUSTMENT", "run", a)
           L1 == RefundEntries(R) \cup {gross}
           L2 == L1 \cup {fee}
           L3 == L2 \cup {adjusted}
<1>1. IsFiniteSet(R) /\ R \in SUBSET Refunds
  BY FS_Subset
<1>2. /\ RefundEntries(R) \in SUBSET Entries /\ IsFiniteSet(RefundEntries(R))
      /\ Total(AmountOf, RefundEntries(R)) + Total(Amount, R) = 0
  <2> HIDE DEF R
  <2> QED BY <1>1, RefundEntriesFacts
<1>3. Gross \in Amounts /\ -Fee \in Amounts /\ a \in Amounts
      /\ Amounts \subseteq Int /\ Fee \in Int
  BY AmountFacts DEF Amounts
<1>4. /\ gross \in Entries /\ AmountOf[gross] = Gross
      /\ fee \in Entries /\ AmountOf[fee] = -Fee
      /\ adjusted \in Entries /\ AmountOf[adjusted] = a
  <2> HIDE DEF a
  <2>1. gross \in Entries /\ fee \in Entries /\ adjusted \in Entries
    BY <1>3 DEF Entry, Entries, Events, Fixed
  <2> QED BY <2>1 DEF Entry, AmountOf
<1>5. /\ gross \notin RefundEntries(R) /\ fee \notin L1 /\ adjusted \notin L2
  BY DEF RefundEntries, RefundEntry, Entry
<1>6. \A e \in Entries : AmountOf[e] \in Int
  BY <1>3 DEF AmountOf, Entries
<1>7. Total(Amount, R) \in Int
  <2>1. \A r \in R : Amount[r] \in Int
    BY AmountFacts
  <2> HIDE DEF R
  <2> QED BY <1>1, <2>1, SumInt
<1>8. Total(AmountOf, RefundEntries(R)) \in Int
  <2> HIDE DEF R
  <2> QED BY <1>2, <1>6, SumInt
<1> HIDE DEF gross, fee, adjusted, a, R
<1>9. Total(AmountOf, L1) = Gross + Total(AmountOf, RefundEntries(R))
      /\ IsFiniteSet(L1) /\ L1 \in SUBSET Entries
  BY <1>2, <1>4, <1>5, <1>6, SumAdd, FS_AddElement
<1>10. Total(AmountOf, L2) = AmountOf[fee] + Total(AmountOf, L1)
       /\ IsFiniteSet(L2) /\ L2 \in SUBSET Entries
  BY <1>4, <1>5, <1>6, <1>9, SumAdd, FS_AddElement
<1>11. Total(AmountOf, L3) = a + Total(AmountOf, L2)
       /\ IsFiniteSet(L3) /\ L3 \in SUBSET Entries
  BY <1>4, <1>5, <1>6, <1>10, SumAdd, FS_AddElement
<1>12. LedgerOf(seen) = IF a = 0 THEN L2 ELSE L3
  BY DEF LedgerOf, a, R, gross, fee, adjusted, RefundEntries
<1>13. Payable(Refunded(seen.facts), seen.row.adjustment)
         = Gross - Fee - Total(Amount, R) + a
  BY RefundedTotal DEF Payable, R, a
<1>14. Gross - Fee - Total(Amount, R) + a = Total(AmountOf, LedgerOf(seen))
  <2>1. Total(AmountOf, L2) = Gross - Fee - Total(Amount, R)
    <3>1. \A g, f, n, r, t, l, m \in Int :
            /\ r + t = 0 /\ n + f = 0
            /\ l = g + r /\ m = n + l
            => m = g - f - t
      OBVIOUS
    <3>2. AmountOf[fee] \in Int /\ AmountOf[fee] + Fee = 0 /\ Gross \in Int
      BY <1>3, <1>4
    <3>3. Total(AmountOf, L1) \in Int
      BY <1>8, <1>9, <3>2
    <3>4. Total(AmountOf, L2) \in Int
      BY <1>10, <3>2, <3>3
    <3> HIDE DEF L1, L2
    <3> QED BY <1>2, <1>3, <1>7, <1>8, <1>9, <1>10, <3>1, <3>2, <3>3, <3>4
  <2>2. Gross - Fee - Total(Amount, R) \in Int
    BY <1>3, <1>7
  <2> HIDE DEF L2, L3
  <2>3. CASE a = 0
    BY <2>1, <2>2, <2>3, <1>12
  <2>4. CASE a # 0
    BY <2>1, <2>2, <2>4, <1>3, <1>11, <1>12
  <2> QED BY <2>3, <2>4
<1>15. LedgerOf(seen) \in SUBSET Entries /\ IsFiniteSet(LedgerOf(seen))
  BY <1>10, <1>11, <1>12
<1> QED BY <1>13, <1>14, <1>15, BalanceTotal

-------------------------------------------------------------------------------
(* The inductive invariant.                                                *)

\* The facts that both have to be known before a settlement is eligible.
Founders == {"PaymentSucceeded", "OrderCompleted"}

\* What is committed can be counted.
FiniteFacts ==
    /\ IsFiniteSet(facts)
    /\ \A e \in Events : IsFiniteSet(tx[e].facts)
    /\ \A h \in Hosts : IsFiniteSet(runs[h].facts)

\* No transaction and no run knows a fact that is not committed, its own
\* apart, and no Order is both completed and cancelled.
FactsKnown ==
    /\ facts \subseteq Sent
    /\ \A e \in Events : tx[e].facts \subseteq facts \cup {e}
    /\ \A h \in Hosts : runs[h].facts \subseteq facts

\* The projection of an event lives as long as its delivery; a start and an
\* awaited run belong to a delivery that is handled.
DeliveriesMatch ==
    /\ \A e \in Events :
         /\ tx[e].phase = "idle" <=> message[e].state # "open"
         /\ tx[e].phase = "idle" => tx[e] = Idle
         /\ message[e].state = "open" => message[e].on \in Replicas /\ e \in Sent
         /\ message[e].state \in {"queued", "open"} =>
              message[e].deliveries < MaxDeliveries
         /\ message[e].state = "handled" => message[e].deliveries <= MaxDeliveries
         /\ message[e].run # Nobody => message[e].state = "handled"
    /\ \A s \in starting :
         /\ message[s[2]].state = "handled" /\ message[s[2]].run = Nobody
         /\ \A t \in starting : t[2] = s[2] => t = s

\* The row exists once one of the two founding facts is committed, and a
\* projection that saw a row, or holds the lock, saw no other one.
RowFounded ==
    /\ row.status # "ABSENT" <=> facts \cap Founders # {}
    /\ row.status = "ABSENT" => row = NoRow
    /\ \A e \in Events :
         tx[e].row.status # "ABSENT" /\ lock # e => row.status # "ABSENT"

\* The transaction that holds the row has it as it will write it.
LockHeld ==
    lock # Free =>
        /\ Founder(lock) /\ tx[lock].phase = "read"
        /\ \/ /\ row.status = "ABSENT"
              /\ tx[lock].row = [NoRow EXCEPT !.status = "PENDING",
                                   !.adjustment = IF Adjusts(lock) THEN Adjustment ELSE 0]
           \/ /\ row.status # "ABSENT" /\ Adjusts(lock)
              /\ tx[lock].row = [row EXCEPT !.adjustment = Adjustment]

\* A founding projection that read has a row, and read after the other one
\* committed, unless it is the one that inserts.
FoundersSee ==
    \A e \in Founders :
        tx[e].phase = "read" =>
            /\ tx[e].row.status # "ABSENT" /\ e \in tx[e].facts
            /\ e \in facts \/ facts \cap Founders \subseteq tx[e].facts

\* Statuses that need both facts, wherever they were read.
EligibleFounded ==
    /\ row.status \in {"ELIGIBLE", "RECORDED"} => BothFacts(facts)
    /\ \A e \in Events :
         /\ tx[e].row.status \in {"ELIGIBLE", "RECORDED"} => BothFacts(facts)
         /\ tx[e].row.status = "RECORDED" => row.status = "RECORDED"

\* A workflow is started for both facts only, and what a run is about to
\* record was calculated.
RunsFounded ==
    /\ starting # {} => BothFacts(facts)
    /\ \A h \in Hosts :
         /\ runs[h].phase # "idle" => BothFacts(facts)
         /\ runs[h].phase = "recording" =>
              Calculates(Refunded(runs[h].facts), runs[h].row.adjustment)

\* Nothing is entered or announced before the settlement is recorded, and a
\* refund is entered for its own event only.
LedgerFounded ==
    /\ row.status # "RECORDED" => ledger = {} /\ outbox = {}
    /\ \A x \in ledger : x.type = "REFUND" => x.event \in Refunds /\ x = RefundEntry(x.event)

\* The inductive invariant.
SettlementInv ==
    /\ TypeOK
    /\ FiniteFacts
    /\ FactsKnown
    /\ DeliveriesMatch
    /\ RowFounded
    /\ LockHeld
    /\ FoundersSee
    /\ EligibleFounded
    /\ RunsFounded
    /\ LedgerFounded
    /\ FactsMakeEligible
    /\ DoneRunRecorded

\* No replica has the name of the durable host, and no host is nobody.
LEMMA Apart == /\ Durable \notin Replicas /\ Nobody \notin Hosts
               /\ Refunds \cap Fixed = {} /\ Free \notin Events
BY SettlementAssumption

\* An Order is completed or cancelled.
LEMMA OneFate ==
    ASSUME SettlementInv, NEW known, known \subseteq Sent
    PROVE  ~(BothFacts(known) /\ Cancelled(known))
<1>1. "OrderCompleted" \in Sent /\ "OrderCancelled" \in Sent => FALSE
  <2>1. "OrderCompleted" \notin Refunds /\ "OrderCancelled" \notin Refunds
    BY Apart DEF Fixed
  <2> QED BY <2>1 DEF Sent
<1> QED BY <1>1 DEF BothFacts, Cancelled

\* What a projection that read knows, and the row its writes find.
LEMMA CurrentFacts ==
    ASSUME SettlementInv, NEW e \in Events, tx[e].phase = "read"
    PROVE  /\ tx[e].row \in Rows /\ row \in Rows /\ Current(e) \in Rows
           /\ e \in Sent /\ IsFiniteSet(tx[e].facts)
           /\ Current(e).status = "ABSENT" => Current(e) = NoRow
           /\ Founder(e) => Current(e).status # "ABSENT"
           /\ row.status # "ABSENT" => /\ Current(e).status = row.status
                                       /\ Current(e).payable = row.payable
           /\ row.status = "ABSENT" =>
                /\ Current(e).status \in {"ABSENT", "PENDING"}
                /\ ~Founder(e) => Current(e) = NoRow
           /\ lock = e \/ Current(e) = row
<1>1. /\ tx[e].row \in Rows /\ row \in Rows /\ Current(e) \in Rows
  BY DEF SettlementInv, TypeOK, Current
<1>2. e \in Sent /\ IsFiniteSet(tx[e].facts) /\ e # Free
  BY Apart DEF SettlementInv, DeliveriesMatch, FiniteFacts
<1>3. CASE lock = e
  <2>1. Founder(e) /\ Current(e) = tx[e].row
    BY <1>2, <1>3 DEF SettlementInv, LockHeld, Current
  <2>2. CASE row.status = "ABSENT"
    <3>1. tx[e].row = [NoRow EXCEPT !.status = "PENDING",
                         !.adjustment = IF Adjusts(e) THEN Adjustment ELSE 0]
      BY <1>2, <1>3, <2>2 DEF SettlementInv, LockHeld
    <3>2. Current(e).status = "PENDING"
      BY <2>1, <3>1 DEF NoRow
    <3> QED BY <1>1, <1>2, <1>3, <2>1, <2>2, <3>2
  <2>3. CASE row.status # "ABSENT"
    <3>1. tx[e].row = [row EXCEPT !.adjustment = Adjustment]
      BY <1>2, <1>3, <2>3 DEF SettlementInv, LockHeld
    <3>2. Current(e).status = row.status /\ Current(e).payable = row.payable
      BY <1>1, <2>1, <3>1 DEF Rows
    <3> QED BY <1>1, <1>2, <1>3, <2>1, <2>3, <3>2
  <2> QED BY <2>2, <2>3
<1>4. CASE lock # e
  <2>1. Current(e) = row
    BY <1>4 DEF Current
  <2>2. row.status = "ABSENT" => row = NoRow
    BY DEF SettlementInv, RowFounded
  <2>3. Founder(e) => row.status # "ABSENT"
    BY <1>4 DEF SettlementInv, RowFounded, FoundersSee, Founder, Founders
  <2> QED BY <1>1, <1>2, <2>1, <2>2, <2>3 DEF NoRow
<1> QED BY <1>3, <1>4

\* What every projection that commits keeps.
Committable(e, r, entries, starts) ==
    /\ r \in Rows
    /\ Founder(e) => r.status # "ABSENT"
    /\ r.status = "ABSENT" => r = NoRow
    /\ row.status = "ABSENT" => /\ r.status \in {"ABSENT", "PENDING"}
                                /\ ~Founder(e) => r = NoRow
    /\ row.status # "ABSENT" => r.status # "ABSENT"
    /\ row.status = "RECORDED" <=> r.status = "RECORDED"
    /\ r.status \in {"ELIGIBLE", "RECORDED"} <=> BothFacts(facts \cup {e})
    /\ lock \in {e, Free} \/ r = row
    /\ starts => BothFacts(facts \cup {e})
    /\ \/ entries = {} /\ (row.status = "RECORDED" => r.payable = row.payable)
       \/ /\ e \in Refunds /\ row.status = "RECORDED"
          /\ entries = {RefundEntry(e)}
          /\ RefundEntry(e) \in ledger => r = row

\* A row amended with what was calculated is a row and has the payable amount.
LEMMA AmendedRow ==
    ASSUME NEW r \in Rows, NEW s \in Statuses, NEW seen,
           seen.row.adjustment \in Amounts, IsFiniteSet(seen.facts),
           Calculates(Refunded(seen.facts), seen.row.adjustment)
    PROVE  Amended(r, s, seen) \in Rows /\ Amended(r, s, seen).status = s
           /\ Amended(r, s, seen).payable
                = Payable(Refunded(seen.facts), seen.row.adjustment)
<1>1. Refunded(seen.facts) \in 0..MaxAmount
  BY RefundedNat, AmountFacts DEF Calculates
<1>2. Payable(Refunded(seen.facts), seen.row.adjustment) \in 0..MaxAmount
  BY DEF Calculates
<1> QED BY <1>1, <1>2 DEF Amended, Rows

\* The settlement of an Order with both facts is eligible or recorded.
LEMMA SettledByFacts ==
    ASSUME SettlementInv
    PROVE  /\ row.status \in {"ELIGIBLE", "RECORDED"} <=> BothFacts(facts)
           /\ row.status \in Statuses
<1>1. BothFacts(facts) => ~Cancelled(facts)
  BY OneFate DEF SettlementInv, FactsKnown
<1> QED BY <1>1 DEF SettlementInv, FactsMakeEligible, EligibleFounded, TypeOK, Rows

\* What a projection commits is one of the changes the invariant allows.
LEMMA ProjectCommits ==
    ASSUME SettlementInv, NEW e \in Events, Project(e)
    PROVE  \/ Rollback(e)
           \/ \E r, entries : \E starts \in BOOLEAN :
                Committable(e, r, entries, starts) /\ Commit(e, r, entries, starts)
<1> USE DEF Statuses
<1>1. tx[e].phase = "read"
  BY DEF Project
<1>2. /\ tx[e].row \in Rows /\ row \in Rows /\ Current(e) \in Rows
      /\ e \in Sent /\ IsFiniteSet(tx[e].facts)
      /\ Current(e).status = "ABSENT" => Current(e) = NoRow
      /\ Founder(e) => Current(e).status # "ABSENT"
      /\ row.status # "ABSENT" => /\ Current(e).status = row.status
                                  /\ Current(e).payable = row.payable
      /\ row.status = "ABSENT" =>
           /\ Current(e).status \in {"ABSENT", "PENDING"}
           /\ ~Founder(e) => Current(e) = NoRow
      /\ lock = e \/ Current(e) = row
  BY <1>1, CurrentFacts
<1>3. tx[e].facts \subseteq facts \cup {e} /\ facts \cup {e} \subseteq Sent
  BY <1>2 DEF SettlementInv, FactsKnown
<1>4. row.status \in {"ELIGIBLE", "RECORDED"} <=> BothFacts(facts)
  BY SettledByFacts
<1>5. row.status \in Statuses /\ Current(e).status \in Statuses /\ tx[e].row.status \in Statuses
      /\ tx[e].row.adjustment \in Amounts
  BY <1>2 DEF Rows
<1>6. BothFacts(facts) => BothFacts(facts \cup {e})
  BY DEF BothFacts
<1>7. tx[e].row.status = "RECORDED" => row.status = "RECORDED"
  BY DEF SettlementInv, EligibleFounded
<1>8. row.status # "ABSENT" <=> facts \cap Founders # {}
  BY DEF SettlementInv, RowFounded
<1>9. CASE ProjectEligible(e)
  <2>1. BothFacts(tx[e].facts) /\ BothFacts(facts \cup {e})
    BY <1>3, <1>9 DEF ProjectEligible, Evaluates, BothFacts
  <2>2. row.status # "ABSENT"
    <3>1. facts \cap Founders # {}
      BY <1>3, <2>1 DEF BothFacts, Founders
    <3> QED BY <3>1, <1>8
  <2>3. Calculates(Refunded(tx[e].facts), tx[e].row.adjustment)
    BY <1>9 DEF ProjectEligible, CanCalculate
  <2>4. CASE Amended(tx[e].row, "ELIGIBLE", tx[e]) = tx[e].row
    <3>1. Commit(e, Current(e), {}, TRUE)
      BY <1>9, <2>4 DEF ProjectEligible
    <3>2. tx[e].row.status = "ELIGIBLE"
      <4>1. Amended(tx[e].row, "ELIGIBLE", tx[e]).status = "ELIGIBLE"
        BY <1>2 DEF Amended, Rows
      <4> QED BY <2>4, <4>1
    <3>3. BothFacts(facts)
      BY <3>2 DEF SettlementInv, EligibleFounded
    <3>4. Committable(e, Current(e), {}, TRUE)
      BY <1>2, <1>4, <2>1, <2>2, <3>3 DEF Committable
    <3> QED BY <3>1, <3>4
  <2>5. CASE Amended(tx[e].row, "ELIGIBLE", tx[e]) # tx[e].row
    <3> DEFINE r == IF Current(e).status \in Unrecorded
                    THEN Amended(Current(e), "ELIGIBLE", tx[e]) ELSE Current(e)
    <3>1. Writable(e) /\ Commit(e, r, {}, TRUE)
      BY <1>9, <2>5 DEF ProjectEligible
    <3>2. r \in Rows /\ (Current(e).status \in Unrecorded => r.status = "ELIGIBLE")
      BY <1>2, <1>5, <2>3, AmendedRow
    <3>3. r.status \in {"ELIGIBLE", "RECORDED"} /\ (row.status = "RECORDED" <=> r.status = "RECORDED")
          /\ (row.status = "RECORDED" => r.payable = row.payable)
      BY <1>2, <1>5, <2>2, <3>2 DEF Unrecorded
    <3> HIDE DEF r
    <3>4. Committable(e, r, {}, TRUE)
      BY <2>1, <2>2, <3>1, <3>2, <3>3 DEF Committable, Writable
    <3> QED BY <3>1, <3>4
  <2> QED BY <2>4, <2>5
<1>10. CASE ProjectRefused(e)
  BY <1>10 DEF ProjectRefused
<1>11. CASE ProjectFact(e)
  <2>1. Commit(e, Current(e), {}, FALSE)
    BY <1>11 DEF ProjectFact
  <2>2. ASSUME BothFacts(facts \cup {e}) PROVE row.status \in {"ELIGIBLE", "RECORDED"}
    <3>1. CASE BothFacts(facts)
      BY <3>1, <1>4
    <3>2. CASE ~BothFacts(facts)
      <4>1. e \in Founders /\ e \notin facts /\ e # "OrderCancelled" /\ Founder(e)
        BY <3>2, <2>2 DEF BothFacts, Founders, Founder
      <4>2. facts \cap Founders \subseteq tx[e].facts /\ e \in tx[e].facts
            /\ tx[e].row.status # "ABSENT"
        BY <1>1, <4>1 DEF SettlementInv, FoundersSee
      <4>3. BothFacts(tx[e].facts)
        BY <4>1, <4>2, <2>2 DEF BothFacts, Founders
      <4>4. ~Cancelled(tx[e].facts)
        BY <4>3, <1>3, OneFate
      <4>5. tx[e].row.status = "RECORDED"
        BY <1>5, <1>11, <4>1, <4>2, <4>3, <4>4
        DEF ProjectFact, Evaluates, Evaluated, Unrecorded
      <4> QED BY <4>5, <1>7
    <3> QED BY <3>1, <3>2
  <2>3. Committable(e, Current(e), {}, FALSE)
    BY <1>2, <1>4, <1>6, <2>2 DEF Committable
  <2> QED BY <2>1, <2>3
<1>12. CASE ProjectCancelled(e)
  <2> DEFINE r == IF Current(e).status \in Unrecorded
                  THEN [Current(e) EXCEPT !.status = "PENDING"] ELSE Current(e)
  <2>1. Writable(e) /\ Commit(e, r, {}, FALSE) /\ e = "OrderCancelled"
    BY <1>12 DEF ProjectCancelled
  <2>2. ~BothFacts(facts \cup {e})
    <3>1. Cancelled(facts \cup {e})
      BY <2>1 DEF Cancelled
    <3> QED BY <1>3, <3>1, OneFate
  <2>3. r \in Rows /\ (Current(e).status \in Unrecorded => r.status = "PENDING")
        /\ r.payable = Current(e).payable
    BY <1>2 DEF Rows
  <2>4. ~Founder(e)
    BY <2>1 DEF Founder
  <2>5. r.status \notin {"ELIGIBLE", "RECORDED"} /\ row.status \notin {"ELIGIBLE", "RECORDED"}
    BY <1>2, <1>4, <1>5, <1>6, <2>2, <2>3 DEF Unrecorded
  <2>6. (row.status = "ABSENT" => r = NoRow) /\ (row.status # "ABSENT" => r.status = "PENDING")
    BY <1>2, <1>5, <2>3, <2>4, <2>5 DEF Unrecorded, NoRow
  <2> HIDE DEF r
  <2>7. Committable(e, r, {}, FALSE)
    BY <2>1, <2>2, <2>3, <2>4, <2>5, <2>6 DEF Committable, Writable, NoRow
  <2> QED BY <2>1, <2>7
<1>13. CASE AppendRefund(e)
  <2> DEFINE a == tx[e].row.adjustment
             r == IF RefundEntry(e) \in ledger THEN row
                  ELSE [row EXCEPT !.refund = RefundTotal(e),
                          !.payable = Payable(RefundTotal(e), tx[e].row.adjustment)]
  <2>1. /\ Commit(e, r, {RefundEntry(e)}, FALSE)
        /\ RefundEntry(e) \in ledger \/ Writable(e)
        /\ Calculates(RefundTotal(e), a)
        /\ e \in Refunds /\ row.status = "RECORDED"
    BY <1>7, <1>13 DEF AppendRefund, LateRefund
  <2>2. RefundTotal(e) \in 0..MaxAmount /\ Payable(RefundTotal(e), a) \in 0..MaxAmount
    <3>1. tx[e].row.refund \in Nat /\ Amount[e] \in Nat
      BY <1>2, <2>1, AmountFacts DEF Rows
    <3>2. RefundTotal(e) \in Nat /\ RefundTotal(e) <= Gross
      BY <2>1, <3>1 DEF RefundTotal, Calculates
    <3>3. RefundTotal(e) \in 0..MaxAmount
      BY <3>2, AmountFacts
    <3> QED BY <2>1, <3>3 DEF Calculates
  <2>3. r \in Rows /\ r.status = "RECORDED"
    BY <1>2, <2>1, <2>2 DEF Rows
  <2>4. RefundEntry(e) \in ledger => r = row
    OBVIOUS
  <2>5. BothFacts(facts \cup {e})
    BY <1>4, <1>6, <2>1
  <2> HIDE DEF r, a
  <2>6. Committable(e, r, {RefundEntry(e)}, FALSE)
    BY <2>1, <2>3, <2>4, <2>5 DEF Committable, Writable
  <2> QED BY <2>1, <2>6
<1>14. CASE AppendRefused(e)
  BY <1>14 DEF AppendRefused
<1> QED BY <1>9, <1>10, <1>11, <1>12, <1>13, <1>14 DEF Project

-------------------------------------------------------------------------------
(* The steps of the projections.                                           *)

\* Deliveries, projections and runs, by their types.
Messages == [state : {"queued", "open", "handled", "dead"},
             deliveries : 0..(MaxDeliveries + 1),
             on : Replicas \cup {Nobody}, run : Hosts \cup {Nobody}]
Projections == [phase : {"idle", "found", "read"}, row : Rows, facts : SUBSET Events]
Runs == [phase : RunPhases, row : Rows, facts : SUBSET Events]

\* The absent row is a row.
LEMMA NoRowTyped == NoRow \in Rows /\ NoRow.status = "ABSENT"
BY AmountFacts DEF NoRow, Rows, Statuses, Amounts

\* A projection at rest is a projection that read nothing.
LEMMA IdleTyped == /\ Idle \in Projections /\ Idle.phase = "idle"
                   /\ Idle.row = NoRow /\ Idle.facts = {}
BY NoRowTyped DEF Idle, Projections

\* A delivery may be counted.
LEMMA MaxDeliveriesNat == MaxDeliveries \in Nat /\ MaxDeliveries > 0
BY SettlementAssumption

\* A delivery that comes back is queued again or dead.
LEMMA RedeliveredTyped ==
    ASSUME NEW m \in Messages, m.deliveries <= MaxDeliveries
    PROVE  /\ Redelivered(m) \in Messages
           /\ Redelivered(m).state \in {"queued", "dead"}
           /\ Redelivered(m).state = "queued" =>
                Redelivered(m).deliveries < MaxDeliveries
           /\ Redelivered(m).run = Nobody
<1>1. m.deliveries + 1 \in 0..(MaxDeliveries + 1)
  BY MaxDeliveriesNat DEF Messages
<1>2. m.deliveries + 1 \in Int /\ MaxDeliveries \in Int
  BY <1>1, MaxDeliveriesNat
<1> QED BY <1>1, <1>2 DEF Redelivered, Messages

\* What the invariant says of the delivery of an open projection.
LEMMA OpenDelivery ==
    ASSUME SettlementInv, NEW e \in Events, tx[e].phase # "idle"
    PROVE  /\ message \in [Events -> Messages] /\ tx \in [Events -> Projections]
           /\ message[e].state = "open" /\ message[e].on \in Replicas /\ e \in Sent
           /\ message[e].deliveries < MaxDeliveries
           /\ message[e].run = Nobody
           /\ \A s \in starting : s[2] # e
<1>1. message \in [Events -> Messages] /\ tx \in [Events -> Projections]
  BY DEF SettlementInv, TypeOK, Messages, Projections
<1>2. message[e].state = "open"
  BY DEF SettlementInv, DeliveriesMatch
<1> QED BY <1>1, <1>2 DEF SettlementInv, DeliveriesMatch

\* A projection that commits such a change keeps the invariant.
LEMMA CommitStep ==
    ASSUME SettlementInv, NEW e \in Events, tx[e].phase = "read",
           NEW r, NEW entries, NEW starts \in BOOLEAN,
           Committable(e, r, entries, starts), Commit(e, r, entries, starts),
           UNCHANGED <<runs, config, throws, crashes>>
    PROVE  SettlementInv'
<1> DEFINE p == message[e].on
<1>1. /\ message \in [Events -> Messages] /\ tx \in [Events -> Projections]
      /\ message[e].state = "open" /\ p \in Replicas /\ e \in Sent
      /\ message[e].deliveries < MaxDeliveries
      /\ message[e].run = Nobody
      /\ \A s \in starting : s[2] # e
  BY OpenDelivery
<1>2. /\ message' = [message EXCEPT ![e].state = "handled", ![e].deliveries = @ + 1,
                                    ![e].on = Nobody]
      /\ tx' = [tx EXCEPT ![e] = Idle]
      /\ facts' = facts \cup {e} /\ row' = r /\ ledger' = ledger \cup entries
      /\ starting' = IF starts THEN starting \cup {<<p, e>>} ELSE starting
      /\ outbox' = outbox
      /\ lock' = IF lock = e THEN Free ELSE lock
  BY DEF Commit, Released
<1>3. /\ runs' = runs /\ fate' = fate /\ runtime' = runtime /\ throws' = throws
      /\ crashes' = crashes /\ Sent' = Sent
  BY DEF config, Sent
<1>4. message[e].deliveries + 1 \in 0..MaxDeliveries
  BY <1>1, MaxDeliveriesNat DEF Messages
<1>5. /\ message'[e] \in Messages
      /\ message'[e].state = "handled" /\ message'[e].deliveries <= MaxDeliveries
      /\ message'[e].run = Nobody
  <2>1. message[e].deliveries + 1 \in 0..(MaxDeliveries + 1)
    BY <1>4, MaxDeliveriesNat
  <2>2. message[e].deliveries + 1 <= MaxDeliveries
    BY <1>4, MaxDeliveriesNat
  <2> QED BY <1>1, <1>2, <2>1, <2>2 DEF Messages
<1>6. \A f \in Events : f # e => message'[f] = message[f] /\ tx'[f] = tx[f]
  BY <1>1, <1>2
<1>7. tx'[e] = Idle /\ tx' \in [Events -> Projections] /\ message' \in [Events -> Messages]
  <2>1. DOMAIN message' = Events /\ message' = [f \in Events |-> message'[f]]
    BY <1>1, <1>2
  <2> QED BY <1>1, <1>2, <1>5, <1>6, <2>1, IdleTyped
<1> HIDE DEF p
<1>8. e # Free /\ Fixed \cap Refunds = {}
  BY Apart
<1>9. TypeOK'
  <2>1. ledger' \subseteq Entries
    <3>1. e \in Refunds => RefundEntry(e) \in Entries
      <4>1. ASSUME e \in Refunds PROVE -Amount[e] \in Amounts
        BY <4>1, AmountFacts DEF Amounts
      <4> QED BY <4>1 DEF RefundEntry, Entry, Entries
    <3> QED BY <1>2, <3>1 DEF SettlementInv, TypeOK, Committable
  <2>2. starting' \subseteq Replicas \X Events
    BY <1>1, <1>2 DEF SettlementInv, TypeOK
  <2>3. row' \in Rows /\ facts' \subseteq Events /\ lock' \in Events \cup {Free}
    BY <1>2 DEF SettlementInv, TypeOK, Committable
  <2> QED BY <1>2, <1>3, <1>7, <2>1, <2>2, <2>3
      DEF SettlementInv, TypeOK, Messages, Projections
<1>10. FiniteFacts'
  <2>1. IsFiniteSet(facts') /\ IsFiniteSet(Idle.facts)
    BY <1>2, FS_AddElement, FS_EmptySet, IdleTyped DEF SettlementInv, FiniteFacts
  <2> QED BY <1>3, <1>6, <1>7, <2>1 DEF SettlementInv, FiniteFacts
<1>11. FactsKnown'
  BY <1>1, <1>2, <1>3, <1>6, <1>7, IdleTyped DEF SettlementInv, FactsKnown
<1>12. DeliveriesMatch'
  <2>1. ASSUME NEW f \in Events
        PROVE  /\ tx'[f].phase = "idle" <=> message'[f].state # "open"
               /\ tx'[f].phase = "idle" => tx'[f] = Idle
               /\ message'[f].state = "open" => message'[f].on \in Replicas /\ f \in Sent
               /\ message'[f].state \in {"queued", "open"} =>
                    message'[f].deliveries < MaxDeliveries
               /\ message'[f].state = "handled" => message'[f].deliveries <= MaxDeliveries
               /\ message'[f].run # Nobody => message'[f].state = "handled"
    <3>1. CASE f = e
      BY <1>5, <1>7, <3>1, IdleTyped
    <3>2. CASE f # e
      BY <1>6, <3>2 DEF SettlementInv, DeliveriesMatch
    <3> QED BY <3>1, <3>2
  <2>2. ASSUME NEW s \in starting'
        PROVE  /\ message'[s[2]].state = "handled" /\ message'[s[2]].run = Nobody
               /\ \A t \in starting' : t[2] = s[2] => t = s
    <3>1. \A u \in starting' : u \in starting \/ u = <<p, e>>
      BY <1>2
    <3>2. \A u \in starting : u[2] \in Events /\ u[2] # e
      BY <1>1 DEF SettlementInv, TypeOK
    <3>3. CASE s \in starting
      BY <1>6, <3>1, <3>2, <3>3 DEF SettlementInv, DeliveriesMatch
    <3>4. CASE s = <<p, e>>
      BY <1>5, <3>1, <3>2, <3>4
    <3> QED BY <3>1, <3>3, <3>4
  <2> QED BY <1>3, <2>1, <2>2 DEF DeliveriesMatch
<1>13. RowFounded'
  <2>1. row'.status # "ABSENT" <=> facts' \cap Founders # {}
    BY <1>2 DEF SettlementInv, RowFounded, Committable, Founder, Founders, NoRow
  <2>2. ASSUME NEW f \in Events, tx'[f].row.status # "ABSENT", lock' # f
        PROVE  row'.status # "ABSENT"
    <3>1. f # e
      BY <1>7, <2>2, IdleTyped, NoRowTyped
    <3>2. lock # f /\ tx[f].row.status # "ABSENT"
      BY <1>2, <1>6, <2>2, <3>1
    <3> QED BY <1>2, <3>2 DEF SettlementInv, RowFounded, Committable
  <2> QED BY <1>2, <2>1, <2>2 DEF RowFounded, Committable
<1>14. LockHeld'
  <2>1. SUFFICES ASSUME lock' # Free
                 PROVE  /\ lock' = lock /\ lock # Free /\ row' = row
                        /\ tx'[lock] = tx[lock]
    BY DEF SettlementInv, LockHeld, Founder, Adjusts
  <2>2. lock # e /\ lock' = lock /\ lock # Free
    BY <1>2, <2>1
  <2>3. lock \in Events
    BY <2>2 DEF SettlementInv, TypeOK
  <2> QED BY <1>2, <1>6, <2>2, <2>3 DEF Committable
<1>15. FoundersSee'
  <2>1. SUFFICES ASSUME NEW f \in Founders, tx'[f].phase = "read", f \notin facts'
                 PROVE  /\ tx'[f].row.status # "ABSENT" /\ f \in tx'[f].facts
                        /\ facts' \cap Founders \subseteq tx'[f].facts
    <3>1. ASSUME NEW f \in Founders, tx'[f].phase = "read", f \in facts'
          PROVE  tx'[f].row.status # "ABSENT" /\ f \in tx'[f].facts
      <4>1. f # e /\ f \in Events
        BY <1>7, <3>1, IdleTyped DEF Founders, Events, Fixed
      <4> QED BY <1>6, <3>1, <4>1 DEF SettlementInv, FoundersSee
    <3> QED BY <2>1, <3>1 DEF FoundersSee
  <2>2. f # e /\ f \in Events /\ f \notin facts /\ Founder(f)
    BY <1>2, <2>1 DEF Founders, Events, Fixed, Founder
  <2>3. /\ tx'[f] = tx[f] /\ tx[f].row.status # "ABSENT" /\ f \in tx[f].facts
        /\ facts \cap Founders \subseteq tx[f].facts
    BY <1>6, <2>1, <2>2 DEF SettlementInv, FoundersSee
  <2>4. ASSUME e \in Founders, e \notin facts PROVE FALSE
    <3>1. facts \cap Founders = {}
      BY <2>1, <2>2, <2>4 DEF Founders
    <3>2. row.status = "ABSENT"
      BY <3>1 DEF SettlementInv, RowFounded
    <3>3. tx[e].row.status # "ABSENT"
      BY <2>4 DEF SettlementInv, FoundersSee
    <3>4. lock = f /\ lock = e
      BY <2>2, <2>3, <3>2, <3>3 DEF SettlementInv, RowFounded
    <3> QED BY <2>2, <3>4
  <2> QED BY <1>2, <2>3, <2>4
<1>16. EligibleFounded'
  <2>1. row'.status \in {"ELIGIBLE", "RECORDED"} => BothFacts(facts')
    BY <1>2 DEF Committable
  <2>2. ASSUME NEW f \in Events
        PROVE  /\ tx'[f].row.status \in {"ELIGIBLE", "RECORDED"} => BothFacts(facts')
               /\ tx'[f].row.status = "RECORDED" => row'.status = "RECORDED"
    <3>1. CASE f = e
      BY <1>7, <3>1, IdleTyped, NoRowTyped
    <3>2. CASE f # e
      <4>1. tx'[f] = tx[f] /\ (BothFacts(facts) => BothFacts(facts'))
        BY <1>2, <1>6, <3>2 DEF BothFacts
      <4> QED BY <1>2, <4>1 DEF SettlementInv, EligibleFounded, Committable
    <3> QED BY <3>1, <3>2
  <2> QED BY <2>1, <2>2 DEF EligibleFounded
<1>17. RunsFounded'
  <2>1. BothFacts(facts) => BothFacts(facts')
    BY <1>2 DEF BothFacts
  <2>2. starts => BothFacts(facts')
    BY <1>2 DEF Committable
  <2> QED BY <1>2, <1>3, <2>1, <2>2 DEF SettlementInv, RunsFounded
<1>18. LedgerFounded'
  <2>1. ASSUME row'.status # "RECORDED" PROVE ledger' = {} /\ outbox' = {}
    BY <1>2, <2>1 DEF SettlementInv, LedgerFounded, Committable
  <2>2. ASSUME NEW x \in ledger', x.type = "REFUND"
        PROVE  x.event \in Refunds /\ x = RefundEntry(x.event)
    <3>1. CASE x \in ledger
      BY <2>2, <3>1 DEF SettlementInv, LedgerFounded
    <3>2. CASE x \notin ledger
      BY <1>2, <2>2, <3>2 DEF Committable, RefundEntry, Entry
    <3> QED BY <3>1, <3>2
  <2> QED BY <2>1, <2>2 DEF LedgerFounded
<1>19. FactsMakeEligible' /\ DoneRunRecorded'
  BY <1>2, <1>3 DEF SettlementInv, FactsMakeEligible, DoneRunRecorded, Committable
<1> QED BY <1>9, <1>10, <1>11, <1>12, <1>13, <1>14, <1>15, <1>16, <1>17, <1>18, <1>19
    DEF SettlementInv

\* A delivery m and a projection t that may stand for those of e, with the
\* lock as it is in the next state.
Fits(e, m, t) ==
    /\ m \in Messages /\ t \in Projections
    /\ IsFiniteSet(t.facts) /\ t.facts \subseteq facts \cup {e}
    /\ t.phase = "idle" <=> m.state # "open"
    /\ t.phase = "idle" => t = Idle
    /\ m.state = "open" => m.on \in Replicas /\ e \in Sent
    /\ m.state \in {"queued", "open"} => m.deliveries < MaxDeliveries
    /\ m.state # "handled" /\ m.run = Nobody
    /\ \A s \in starting : s[2] # e
    /\ e \in Founders /\ t.phase = "read" =>
         /\ t.row.status # "ABSENT" /\ e \in t.facts
         /\ e \in facts \/ facts \cap Founders \subseteq t.facts
    /\ t.row.status \in {"ELIGIBLE", "RECORDED"} => BothFacts(facts)
    /\ t.row.status = "RECORDED" => row.status = "RECORDED"

\* The lock stays, is taken, or is given back, and who takes it has the row as it
\* will write it.
FitsLock(e, t) ==
    /\ t.row.status # "ABSENT" /\ lock' # e => row.status # "ABSENT"
    /\ \/ lock' = lock \/ (lock = Free /\ lock' = e) \/ (lock = e /\ lock' = Free)
    /\ lock' = e =>
         /\ Founder(e) /\ t.phase = "read"
         /\ \/ /\ row.status = "ABSENT"
               /\ t.row = [NoRow EXCEPT !.status = "PENDING",
                             !.adjustment = IF Adjusts(e) THEN Adjustment ELSE 0]
            \/ /\ row.status # "ABSENT" /\ Adjusts(e)
               /\ t.row = [row EXCEPT !.adjustment = Adjustment]

\* A step of one projection that commits nothing.
LEMMA ProjectionStep ==
    ASSUME SettlementInv, NEW e \in Events, NEW m, NEW t, Fits(e, m, t), FitsLock(e, t),
           message' = [message EXCEPT ![e] = m], tx' = [tx EXCEPT ![e] = t],
           UNCHANGED <<db, starting, runs, config, throws, crashes>>
    PROVE  SettlementInv'
<1>1. /\ row' = row /\ facts' = facts /\ ledger' = ledger /\ outbox' = outbox
      /\ starting' = starting /\ runs' = runs /\ fate' = fate /\ runtime' = runtime
      /\ throws' = throws /\ crashes' = crashes /\ Sent' = Sent
  BY DEF db, config, Sent
<1>2. message \in [Events -> Messages] /\ tx \in [Events -> Projections] /\ e # Free
  BY Apart DEF SettlementInv, TypeOK, Messages, Projections
<1>3. /\ message'[e] = m /\ tx'[e] = t
      /\ \A f \in Events : f # e => message'[f] = message[f] /\ tx'[f] = tx[f]
  BY <1>2
<1>4. message' \in [Events -> Messages] /\ tx' \in [Events -> Projections]
  BY <1>2 DEF Fits
<1>5. TypeOK'
  <2>1. lock' \in Events \cup {Free}
    BY DEF SettlementInv, TypeOK, FitsLock
  <2> QED BY <1>1, <1>4, <2>1 DEF SettlementInv, TypeOK, Messages, Projections
<1>6. FiniteFacts' /\ FactsKnown'
  BY <1>1, <1>3 DEF SettlementInv, FiniteFacts, FactsKnown, Fits
<1>7. DeliveriesMatch'
  <2>1. ASSUME NEW f \in Events
        PROVE  /\ tx'[f].phase = "idle" <=> message'[f].state # "open"
               /\ tx'[f].phase = "idle" => tx'[f] = Idle
               /\ message'[f].state = "open" => message'[f].on \in Replicas /\ f \in Sent
               /\ message'[f].state \in {"queued", "open"} =>
                    message'[f].deliveries < MaxDeliveries
               /\ message'[f].state = "handled" => message'[f].deliveries <= MaxDeliveries
               /\ message'[f].run # Nobody => message'[f].state = "handled"
    <3>1. CASE f = e
      BY <1>3, <3>1 DEF Fits
    <3>2. CASE f # e
      BY <1>3, <3>2 DEF SettlementInv, DeliveriesMatch
    <3> QED BY <3>1, <3>2
  <2>2. \A s \in starting : s[2] # e /\ s[2] \in Events
    BY DEF Fits, SettlementInv, TypeOK
  <2> QED BY <1>1, <1>3, <2>1, <2>2 DEF SettlementInv, DeliveriesMatch
<1>8. RowFounded'
  <2>1. ASSUME NEW f \in Events, tx'[f].row.status # "ABSENT", lock' # f
        PROVE  row.status # "ABSENT"
    <3>1. CASE f = e
      BY <1>3, <2>1, <3>1 DEF FitsLock
    <3>2. CASE f # e
      <4>1. lock # f /\ tx[f].row.status # "ABSENT"
        BY <1>3, <2>1, <3>2, Apart DEF FitsLock
      <4> QED BY <4>1 DEF SettlementInv, RowFounded
    <3> QED BY <3>1, <3>2
  <2> QED BY <1>1, <2>1 DEF SettlementInv, RowFounded
<1>9. LockHeld'
  <2>1. CASE lock' = e
    BY <1>1, <1>3, <2>1 DEF FitsLock, LockHeld, Founder, Adjusts
  <2>2. CASE lock' # e /\ lock' # Free
    <3>1. lock' = lock /\ lock \in Events
      BY <2>2 DEF FitsLock, SettlementInv, TypeOK
    <3>2. tx'[lock] = tx[lock] /\ lock # Free
      BY <1>3, <2>2, <3>1
    <3> QED BY <1>1, <3>1, <3>2 DEF SettlementInv, LockHeld, Founder, Adjusts
  <2> QED BY <2>1, <2>2 DEF LockHeld
<1>10. FoundersSee'
  <2>1. ASSUME NEW f \in Founders, tx'[f].phase = "read"
        PROVE  /\ tx'[f].row.status # "ABSENT" /\ f \in tx'[f].facts
               /\ f \in facts \/ facts \cap Founders \subseteq tx'[f].facts
    <3>1. f \in Events
      BY DEF Founders, Events, Fixed
    <3> QED BY <1>3, <2>1, <3>1 DEF Fits, SettlementInv, FoundersSee
  <2> QED BY <1>1, <2>1 DEF FoundersSee
<1>11. EligibleFounded'
  BY <1>1, <1>3 DEF Fits, SettlementInv, EligibleFounded
<1>12. RunsFounded' /\ LedgerFounded' /\ FactsMakeEligible' /\ DoneRunRecorded'
  BY <1>1 DEF SettlementInv, RunsFounded, LedgerFounded, FactsMakeEligible, DoneRunRecorded
<1> QED BY <1>5, <1>6, <1>7, <1>8, <1>9, <1>10, <1>11, <1>12 DEF SettlementInv

\* A projection is rolled back.
LEMMA RollbackStep ==
    ASSUME SettlementInv, NEW e \in Events, tx[e].phase = "read", Rollback(e),
           UNCHANGED <<runs, config, throws, crashes>>
    PROVE  SettlementInv'
<1>1. /\ message \in [Events -> Messages]
      /\ message[e].deliveries < MaxDeliveries
      /\ \A s \in starting : s[2] # e
  BY OpenDelivery
<1>2. message[e].deliveries <= MaxDeliveries
  BY <1>1, MaxDeliveriesNat DEF Messages
<1>3. /\ Redelivered(message[e]) \in Messages
      /\ Redelivered(message[e]).state \in {"queued", "dead"}
      /\ Redelivered(message[e]).state = "queued" =>
           Redelivered(message[e]).deliveries < MaxDeliveries
      /\ Redelivered(message[e]).run = Nobody
  BY <1>1, <1>2, RedeliveredTyped
<1>4. Fits(e, Redelivered(message[e]), Idle)
  BY <1>1, <1>3, IdleTyped, NoRowTyped, FS_EmptySet DEF Fits
<1>5. FitsLock(e, Idle)
  BY IdleTyped, NoRowTyped, Apart DEF FitsLock, Rollback, Released
<1>6. /\ message' = [message EXCEPT ![e] = Redelivered(message[e])]
      /\ tx' = [tx EXCEPT ![e] = Idle]
      /\ UNCHANGED <<db, starting, runs, config, throws, crashes>>
  BY DEF Rollback
<1> QED BY <1>4, <1>5, <1>6, ProjectionStep

\* A projection begins with its first read.
LEMMA BeginStep ==
    ASSUME SettlementInv, NEW p \in Replicas, NEW e \in Events, BeginProjection(p, e)
    PROVE  SettlementInv'
<1> DEFINE m == [message[e] EXCEPT !.state = "open", !.on = p]
           t == [phase |-> "found", row |-> row, facts |-> {}]
<1>1. /\ message \in [Events -> Messages] /\ row \in Rows
      /\ message[e].state = "queued" /\ e \in Sent
      /\ message[e].deliveries < MaxDeliveries /\ message[e].run = Nobody
      /\ \A s \in starting : s[2] # e
  BY DEF SettlementInv, TypeOK, Messages, DeliveriesMatch, BeginProjection
<1>2. m \in Messages /\ m.state = "open" /\ m.on = p
      /\ m.deliveries = message[e].deliveries /\ m.run = Nobody
  BY <1>1 DEF Messages
<1>3. t \in Projections /\ t.phase = "found" /\ t.row = row /\ t.facts = {}
  BY <1>1 DEF Projections
<1>4. /\ message' = [message EXCEPT ![e] = m] /\ tx' = [tx EXCEPT ![e] = t]
      /\ UNCHANGED <<db, starting, runs, config, throws, crashes>> /\ lock' = lock
  BY <1>1 DEF BeginProjection
<1> HIDE DEF m, t
<1>5. lock # e
  BY <1>1, Apart DEF SettlementInv, LockHeld, DeliveriesMatch
<1>6. Fits(e, m, t)
  <2>1. row.status \in {"ELIGIBLE", "RECORDED"} => BothFacts(facts)
    BY DEF SettlementInv, EligibleFounded
  <2> QED BY <1>1, <1>2, <1>3, <2>1, FS_EmptySet DEF Fits
<1>7. FitsLock(e, t)
  BY <1>3, <1>4, <1>5 DEF FitsLock
<1> QED BY <1>4, <1>6, <1>7, ProjectionStep

\* A projection inserts the row, or locks the one there is.
LEMMA EnsureStep ==
    ASSUME SettlementInv, NEW e \in Events, EnsureSettlement(e)
    PROVE  SettlementInv'
<1> DEFINE inserted == [NoRow EXCEPT !.status = "PENDING",
                          !.adjustment = IF Adjusts(e) THEN Adjustment ELSE 0]
           adjusted == [row EXCEPT !.adjustment = Adjustment]
           t(seen) == [phase |-> "read", row |-> seen, facts |-> facts \cup {e}]
<1>1. tx[e].phase = "found" /\ UNCHANGED <<db, message, starting, runs, config, throws, crashes>>
  BY DEF EnsureSettlement
<1>2. /\ message \in [Events -> Messages] /\ tx \in [Events -> Projections]
      /\ message[e].state = "open" /\ message[e].on \in Replicas /\ e \in Sent
      /\ message[e].deliveries < MaxDeliveries
      /\ message[e].run = Nobody
      /\ \A s \in starting : s[2] # e
  BY <1>1, OpenDelivery
<1>3. /\ row \in Rows /\ tx[e].row \in Rows /\ facts \subseteq Events
      /\ IsFiniteSet(facts \cup {e}) /\ lock # e
  BY <1>1, Apart, FS_AddElement
  DEF SettlementInv, TypeOK, FiniteFacts, LockHeld
<1>4. message' = [message EXCEPT ![e] = message[e]]
  BY <1>1, <1>2
<1>5. ASSUME NEW seen \in Rows,
             e \in Founders => seen.status # "ABSENT",
             seen.status \in {"ELIGIBLE", "RECORDED"} => BothFacts(facts),
             seen.status = "RECORDED" => row.status = "RECORDED",
             tx' = [tx EXCEPT ![e] = t(seen)],
             FitsLock(e, t(seen))
      PROVE  SettlementInv'
  <2>1. /\ t(seen) \in Projections /\ t(seen).phase = "read"
        /\ t(seen).row = seen /\ t(seen).facts = facts \cup {e}
    BY <1>3, <1>5 DEF Projections
  <2> HIDE DEF t
  <2>2. Fits(e, message[e], t(seen))
    BY <1>2, <1>3, <1>5, <2>1 DEF Fits
  <2> QED BY <1>1, <1>4, <1>5, <2>2, ProjectionStep
<1>6. \A seen : Found(e, seen) => tx' = [tx EXCEPT ![e] = t(seen)]
  BY DEF Found, FactsSeen
<1>7. CASE EnsureInsert(e)
  <2>1. CASE row.status = "ABSENT"
    <3>1. lock = Free /\ lock' = e /\ Found(e, inserted) /\ Founder(e)
      BY <1>7, <2>1 DEF EnsureInsert
    <3>2. inserted \in Rows /\ inserted.status = "PENDING"
      BY NoRowTyped, AmountFacts DEF NoRow, Rows, Statuses, Amounts
    <3>3. FitsLock(e, t(inserted))
      BY <2>1, <3>1 DEF FitsLock
    <3> HIDE DEF inserted, t
    <3> QED BY <1>5, <1>6, <3>1, <3>2, <3>3
  <2>2. CASE row.status # "ABSENT"
    <3>1. lock' = lock /\ Found(e, row)
      BY <1>7, <2>2 DEF EnsureInsert
    <3>2. FitsLock(e, t(row))
      BY <1>3, <2>2, <3>1 DEF FitsLock
    <3>3. row.status \in {"ELIGIBLE", "RECORDED"} => BothFacts(facts)
      BY DEF SettlementInv, EligibleFounded
    <3> HIDE DEF t
    <3> QED BY <1>3, <1>5, <1>6, <2>2, <3>1, <3>2, <3>3
  <2> QED BY <2>1, <2>2
<1>8. CASE EnsureAdjust(e)
  <2>1. lock = Free /\ lock' = e /\ Found(e, adjusted) /\ Adjusts(e) /\ Founder(e)
    BY <1>8 DEF EnsureAdjust, Adjusts, Founder
  <2>2. row.status # "ABSENT"
    BY <1>3, <1>8 DEF EnsureAdjust, SettlementInv, RowFounded
  <2>3. adjusted \in Rows /\ adjusted.status = row.status
    BY <1>3, AmountFacts DEF Rows
  <2>4. FitsLock(e, t(adjusted))
    BY <2>1, <2>2 DEF FitsLock
  <2>5. row.status \in {"ELIGIBLE", "RECORDED"} => BothFacts(facts)
    BY DEF SettlementInv, EligibleFounded
  <2> HIDE DEF adjusted, t
  <2> QED BY <1>5, <1>6, <2>1, <2>2, <2>3, <2>4, <2>5
<1>9. CASE EnsureFound(e)
  <2>1. lock' = lock /\ Found(e, tx[e].row)
    BY <1>9 DEF EnsureFound
  <2>2. e \in Founders => tx[e].row.status # "ABSENT"
    BY <1>9 DEF EnsureFound, Founder, Founders
  <2>3. FitsLock(e, t(tx[e].row))
    BY <1>3, <2>1 DEF FitsLock, SettlementInv, RowFounded
  <2>4. /\ tx[e].row.status \in {"ELIGIBLE", "RECORDED"} => BothFacts(facts)
        /\ tx[e].row.status = "RECORDED" => row.status = "RECORDED"
    BY DEF SettlementInv, EligibleFounded
  <2> HIDE DEF t
  <2> QED BY <1>3, <1>5, <1>6, <2>1, <2>2, <2>3, <2>4
<1> QED BY <1>7, <1>8, <1>9 DEF EnsureSettlement

-------------------------------------------------------------------------------
(* The steps of the workflow and of failures.                              *)

\* A step of run h: state is what it becomes, m the deliveries, and the row
\* and what is entered with it stay or are recorded.
LEMMA RunsStep ==
    ASSUME SettlementInv, NEW h \in Hosts, NEW state \in Runs,
           runs' = [runs EXCEPT ![h] = state],
           IsFiniteSet(state.facts), state.facts \subseteq facts,
           state.phase # "idle" => BothFacts(facts),
           state.phase = "recording" =>
             Calculates(Refunded(state.facts), state.row.adjustment),
           state.phase = "done" => row.status = "RECORDED",
           message' \in [Events -> Messages], throws' \in 0..MaxThrows,
           starting' \subseteq starting,
           \A f \in Events :
              \/ message'[f] = message[f]
              \/ /\ message[f].run # Nobody
                 /\ message'[f] = Redelivered(message[f])
              \/ /\ message[f].state = "handled" /\ message[f].run = Nobody
                 /\ \A s \in starting' : s[2] # f
                 /\ \E q \in Hosts : message'[f] = [message[f] EXCEPT !.run = q],
           UNCHANGED <<db, tx, lock, config, crashes>>
    PROVE  SettlementInv'
<1>1. /\ row' = row /\ facts' = facts /\ ledger' = ledger /\ outbox' = outbox
      /\ tx' = tx /\ lock' = lock /\ fate' = fate /\ runtime' = runtime
      /\ crashes' = crashes /\ Sent' = Sent
  BY DEF db, config, Sent
<1>2. message \in [Events -> Messages] /\ runs \in [Hosts -> Runs]
  BY DEF SettlementInv, TypeOK, Messages, Runs
<1>3. /\ runs'[h] = state
      /\ \A k \in Hosts : k # h => runs'[k] = runs[k]
      /\ runs' \in [Hosts -> Runs]
  BY <1>2
<1>4. TypeOK'
  BY <1>1, <1>3 DEF SettlementInv, TypeOK, Messages, Runs
<1>5. FiniteFacts' /\ FactsKnown'
  BY <1>1, <1>3 DEF SettlementInv, FiniteFacts, FactsKnown
<1>6. DeliveriesMatch'
  <2>1. ASSUME NEW f \in Events
        PROVE  /\ tx[f].phase = "idle" <=> message'[f].state # "open"
               /\ message'[f].state = "open" => message'[f].on \in Replicas /\ f \in Sent
               /\ message'[f].state \in {"queued", "open"} =>
                    message'[f].deliveries < MaxDeliveries
               /\ message'[f].state = "handled" => message'[f].deliveries <= MaxDeliveries
               /\ message'[f].run # Nobody => message'[f].state = "handled"
               /\ \A s \in starting' :
                    s[2] = f => message'[f].state = "handled" /\ message'[f].run = Nobody
    <3>1. CASE message'[f] = message[f]
      BY <3>1 DEF SettlementInv, DeliveriesMatch
    <3>2. CASE /\ message[f].run # Nobody
               /\ message'[f] = Redelivered(message[f])
      <4>1. message[f].state = "handled" /\ message[f].deliveries <= MaxDeliveries
        BY <3>2 DEF SettlementInv, DeliveriesMatch
      <4>2. /\ message'[f].state \in {"queued", "dead"} /\ message'[f].run = Nobody
            /\ message'[f].state = "queued" => message'[f].deliveries < MaxDeliveries
        BY <1>2, <3>2, <4>1, RedeliveredTyped
      <4>3. tx[f].phase = "idle" /\ \A s \in starting' : s[2] # f
        BY <3>2, <4>1 DEF SettlementInv, DeliveriesMatch
      <4> QED BY <4>2, <4>3
    <3>3. CASE /\ message[f].state = "handled" /\ message[f].run = Nobody
               /\ \A s \in starting' : s[2] # f
               /\ \E q \in Hosts : message'[f] = [message[f] EXCEPT !.run = q]
      <4>1. message'[f].state = "handled" /\ message'[f].deliveries = message[f].deliveries
        BY <1>2, <3>3 DEF Messages
      <4> QED BY <3>3, <4>1 DEF SettlementInv, DeliveriesMatch
    <3> QED BY <3>1, <3>2, <3>3
  <2>2. \A s \in starting' : s[2] \in Events /\ s \in starting
    BY DEF SettlementInv, TypeOK
  <2>3. ASSUME NEW s \in starting'
        PROVE  /\ message'[s[2]].state = "handled" /\ message'[s[2]].run = Nobody
               /\ \A u \in starting' : u[2] = s[2] => u = s
    BY <2>1, <2>2 DEF SettlementInv, DeliveriesMatch
  <2>4. \A f \in Events : tx[f].phase = "idle" => tx[f] = Idle
    BY DEF SettlementInv, DeliveriesMatch
  <2> QED BY <1>1, <2>1, <2>3, <2>4 DEF DeliveriesMatch
<1>7. RowFounded' /\ LockHeld' /\ FoundersSee' /\ EligibleFounded' /\ LedgerFounded'
      /\ FactsMakeEligible'
  BY <1>1 DEF SettlementInv, RowFounded, LockHeld, FoundersSee, EligibleFounded,
              LedgerFounded, FactsMakeEligible, Founder, Adjusts
<1>8. RunsFounded' /\ DoneRunRecorded'
  BY <1>1, <1>3 DEF SettlementInv, RunsFounded, DoneRunRecorded
<1> QED BY <1>4, <1>5, <1>6, <1>7, <1>8 DEF SettlementInv

\* A run has its type, and what it read is finite.
LEMMA RunTypes ==
    ASSUME SettlementInv
    PROVE  /\ message \in [Events -> Messages] /\ runs \in [Hosts -> Runs]
           /\ throws \in 0..MaxThrows
           /\ \A phase \in RunPhases :
                /\ To(phase) \in Runs /\ To(phase).phase = phase
                /\ To(phase).row = NoRow /\ To(phase).facts = {}
                /\ IsFiniteSet(To(phase).facts)
<1>1. message \in [Events -> Messages] /\ runs \in [Hosts -> Runs] /\ throws \in 0..MaxThrows
  BY DEF SettlementInv, TypeOK, Messages, Runs
<1>2. \A phase \in RunPhases :
        /\ To(phase) \in Runs /\ To(phase).phase = phase
        /\ To(phase).row = NoRow /\ To(phase).facts = {}
  BY NoRowTyped DEF To, Idle, Runs
<1> QED BY <1>1, <1>2, FS_EmptySet

\* A run goes on to a phase in which it holds nothing it read.
LEMMA GoStep ==
    ASSUME SettlementInv, NEW h \in Hosts, NEW phase \in RunPhases \ {"idle", "recording"},
           runs[h].phase # "idle", phase = "done" => row.status = "RECORDED",
           Go(h, To(phase)), UNCHANGED db
    PROVE  SettlementInv'
<1>1. BothFacts(facts)
  BY DEF SettlementInv, RunsFounded
<1> QED BY <1>1, RunTypes, RunsStep DEF Go

\* A run fails: its workflow ends and its delivery comes back.
LEMMA FailingStep ==
    ASSUME SettlementInv, NEW h \in Hosts, runs[h].phase # "idle", Failing(h),
           throws' \in 0..MaxThrows, UNCHANGED db
    PROVE  SettlementInv'
<1>1. BothFacts(facts)
  BY DEF SettlementInv, RunsFounded
<1>2. /\ To("failed") \in Runs /\ To("failed").phase = "failed"
      /\ To("failed").facts = {} /\ IsFiniteSet(To("failed").facts)
  BY RunTypes DEF RunPhases
<1>3. h # Nobody /\ message \in [Events -> Messages]
  BY Apart, RunTypes
<1>4. ASSUME NEW f \in Events
      PROVE  \/ message'[f] = message[f]
             \/ message[f].run # Nobody /\ message'[f] = Redelivered(message[f])
  BY <1>3 DEF Failing
<1>5. message' \in [Events -> Messages]
  <2>1. ASSUME NEW f \in Events, message[f].run # Nobody
        PROVE  Redelivered(message[f]) \in Messages
    <3>1. message[f].deliveries <= MaxDeliveries
      BY <2>1 DEF SettlementInv, DeliveriesMatch
    <3> QED BY <1>3, <3>1, RedeliveredTyped
  <2> QED BY <1>3, <1>4, <2>1 DEF Failing
<1>6. /\ runs' = [runs EXCEPT ![h] = To("failed")] /\ starting' = starting
      /\ UNCHANGED <<db, tx, lock, config, crashes>>
  BY DEF Failing
<1> QED BY <1>1, <1>2, <1>4, <1>5, <1>6, RunsStep

\* A run starts, or joins the one that is there.
LEMMA StartStep ==
    ASSUME SettlementInv, NEW p \in Replicas, NEW e \in Events, Start(p, e)
    PROVE  SettlementInv'
<1> DEFINE h == IF runtime = "local" THEN p ELSE Durable
           again == runs[h].phase = "idle" \/ (runtime = "local" /\ runs[h].phase = "failed")
           state == IF again THEN To("load") ELSE runs[h]
<1>1. /\ h \in Hosts /\ <<p, e>> \in starting /\ starting' = starting \ {<<p, e>>}
      /\ UNCHANGED <<db, tx, lock, config, throws, crashes>>
      /\ runs' = IF again THEN [runs EXCEPT ![h] = To("load")] ELSE runs
      /\ message' = IF runtime = "local" THEN [message EXCEPT ![e].run = h] ELSE message
  BY DEF Start, Hosts, To
<1>2. /\ message \in [Events -> Messages] /\ runs \in [Hosts -> Runs]
      /\ throws \in 0..MaxThrows
      /\ To("load") \in Runs /\ To("load").phase = "load"
      /\ To("load").facts = {} /\ IsFiniteSet(To("load").facts)
  BY RunTypes DEF RunPhases
<1>3. BothFacts(facts)
  BY <1>1 DEF SettlementInv, RunsFounded
<1> HIDE DEF again, h
<1>4. runs' = [runs EXCEPT ![h] = state] /\ state \in Runs
  BY <1>1, <1>2
<1>5. /\ IsFiniteSet(state.facts) /\ state.facts \subseteq facts
      /\ state.phase = "recording" =>
           Calculates(Refunded(state.facts), state.row.adjustment)
      /\ state.phase = "done" => row.status = "RECORDED"
  <2>1. CASE again
    BY <1>2, <2>1
  <2>2. CASE ~again
    <3>1. state = runs[h]
      BY <2>2
    <3> QED BY <1>1, <3>1
        DEF SettlementInv, FiniteFacts, FactsKnown, RunsFounded, DoneRunRecorded
  <2> QED BY <2>1, <2>2
<1> HIDE DEF state
<1>6. /\ message[e].state = "handled" /\ message[e].run = Nobody
      /\ \A s \in starting' : s[2] # e
  <2>1. <<p, e>>[2] = e
    OBVIOUS
  <2> QED BY <1>1, <2>1 DEF SettlementInv, DeliveriesMatch
<1>7. message' \in [Events -> Messages]
  BY <1>1, <1>2 DEF Messages
<1>8. ASSUME NEW f \in Events
      PROVE  \/ message'[f] = message[f]
             \/ /\ message[f].state = "handled" /\ message[f].run = Nobody
                /\ \A s \in starting' : s[2] # f
                /\ \E q \in Hosts : message'[f] = [message[f] EXCEPT !.run = q]
  BY <1>1, <1>2, <1>6
<1>9. starting' \subseteq starting /\ throws' \in 0..MaxThrows
  BY <1>1, <1>2
<1> QED BY <1>1, <1>3, <1>4, <1>5, <1>7, <1>8, <1>9, RunsStep

\* A run loads the settlement, then the facts.
LEMMA LoadStep ==
    ASSUME SettlementInv, NEW h \in Hosts, Load(h) \/ LoadFacts(h)
    PROVE  SettlementInv'
<1>1. runs[h].phase # "idle" /\ BothFacts(facts) /\ throws \in 0..MaxThrows /\ UNCHANGED db
  BY RunTypes DEF Load, LoadFacts, SettlementInv, RunsFounded
<1>2. CASE Load(h)
  <2>1. PICK phase \in {"done", "facts"} :
          Go(h, To(phase)) /\ (phase = "done" => row.status = "RECORDED")
    BY <1>2 DEF Load
  <2> QED BY <1>1, <2>1, GoStep DEF RunPhases
<1>3. CASE LoadFacts(h)
  <2>1. \/ Failing(h) /\ throws' = throws
        \/ Go(h, To("record"))
    BY <1>1, <1>3 DEF LoadFacts
  <2> QED BY <1>1, <2>1, GoStep, FailingStep DEF RunPhases
<1> QED BY <1>2, <1>3

\* A run reads what it records.
LEMMA RecordReadStep ==
    ASSUME SettlementInv, NEW h \in Hosts, RecordRead(h)
    PROVE  SettlementInv'
<1>1. runs[h].phase # "idle" /\ BothFacts(facts) /\ throws \in 0..MaxThrows /\ UNCHANGED db
  BY RunTypes DEF RecordRead, SettlementInv, RunsFounded
<1>2. ~Cancelled(facts)
  BY <1>1, OneFate DEF SettlementInv, FactsKnown
<1>3. CASE row.status = "RECORDED"
  BY <1>1, <1>3, GoStep DEF RecordRead, RunPhases
<1>4. CASE row.status # "RECORDED" /\ ~Calculates(Refunded(facts), row.adjustment)
  BY <1>1, <1>2, <1>4, FailingStep DEF RecordRead
<1>5. CASE row.status # "RECORDED" /\ Calculates(Refunded(facts), row.adjustment)
  <2> DEFINE seen == [phase |-> "recording", row |-> row, facts |-> facts]
  <2>1. Go(h, seen)
    BY <1>1, <1>2, <1>5 DEF RecordRead
  <2>2. seen \in Runs /\ IsFiniteSet(seen.facts)
    BY DEF SettlementInv, TypeOK, Runs, RunPhases, FiniteFacts
  <2>3. seen.phase = "recording" /\ seen.facts = facts /\ seen.row = row
    OBVIOUS
  <2> HIDE DEF seen
  <2> QED BY <1>1, <1>5, <2>1, <2>2, <2>3, RunTypes, RunsStep DEF Go
<1> QED BY <1>3, <1>4, <1>5

\* What RecordWrite finds, and what it writes.
LEMMA RecordFacts ==
    ASSUME SettlementInv, NEW h \in Hosts, runs[h].phase = "recording"
    PROVE  LET r == Amended(row, "RECORDED", runs[h])
           IN  /\ BothFacts(facts) /\ row \in Rows
               /\ row.status \in {"ELIGIBLE", "RECORDED"}
               /\ IsFiniteSet(runs[h].facts) /\ runs[h].row.adjustment \in Amounts
               /\ r \in Rows /\ r.status = "RECORDED"
               /\ r.payable = Payable(Refunded(runs[h].facts), runs[h].row.adjustment)
               /\ LedgerOf(runs[h]) \in SUBSET Entries
               /\ Store!Balance(LedgerOf(runs[h])) = r.payable
<1> DEFINE seen == runs[h]
<1>1. BothFacts(facts) /\ row.status \in {"ELIGIBLE", "RECORDED"}
  BY SettledByFacts DEF SettlementInv, RunsFounded
<1>2. /\ row \in Rows /\ seen \in Runs /\ IsFiniteSet(seen.facts)
      /\ Calculates(Refunded(seen.facts), seen.row.adjustment)
  BY DEF SettlementInv, TypeOK, Runs, FiniteFacts, RunsFounded
<1>3. seen.row.adjustment \in Amounts
  BY <1>2 DEF Runs, Rows
<1> HIDE DEF seen
<1>4. /\ Amended(row, "RECORDED", seen) \in Rows
      /\ Amended(row, "RECORDED", seen).status = "RECORDED"
      /\ Amended(row, "RECORDED", seen).payable
           = Payable(Refunded(seen.facts), seen.row.adjustment)
  BY <1>2, <1>3, AmendedRow DEF Statuses
<1>5. /\ LedgerOf(seen) \in SUBSET Entries
      /\ Store!Balance(LedgerOf(seen))
           = Payable(Refunded(seen.facts), seen.row.adjustment)
  BY <1>2, <1>3, LedgerOfBalance
<1> QED BY <1>1, <1>2, <1>3, <1>4, <1>5 DEF seen

\* The row, the ledger and the announcement are written in one transaction.
LEMMA RecordWriteStep ==
    ASSUME SettlementInv, NEW h \in Hosts, RecordWrite(h)
    PROVE  SettlementInv'
<1> DEFINE r == Amended(row, "RECORDED", runs[h])
<1>1. /\ runs[h].phase = "recording" /\ lock = Free /\ Go(h, To("done"))
      /\ facts' = facts
  BY DEF RecordWrite
<1>2. /\ BothFacts(facts) /\ row \in Rows
      /\ row.status \in {"ELIGIBLE", "RECORDED"}
      /\ r \in Rows /\ r.status = "RECORDED"
      /\ LedgerOf(runs[h]) \in SUBSET Entries
  BY <1>1, RecordFacts
<1> HIDE DEF r
<1>3. CASE row.status = "RECORDED"
  <2>1. UNCHANGED db
    BY <1>1, <1>3 DEF RecordWrite, Unrecorded, db
  <2> QED BY <1>1, <1>3, <2>1, GoStep DEF RunPhases
<1>4. CASE row.status = "ELIGIBLE"
  <2>1. /\ row' = r /\ ledger' = ledger \cup LedgerOf(runs[h])
        /\ outbox' = outbox \cup {"SettlementRecorded"}
    BY <1>4 DEF RecordWrite, Unrecorded, r
  <2>2. /\ runs' = [runs EXCEPT ![h] = To("done")]
        /\ message' = message /\ tx' = tx /\ lock' = lock /\ starting' = starting
        /\ fate' = fate /\ runtime' = runtime /\ throws' = throws /\ crashes' = crashes
        /\ Sent' = Sent
    BY <1>1 DEF Go, config, Sent
  <2>3. /\ To("done") \in Runs /\ To("done").phase = "done" /\ runs \in [Hosts -> Runs]
        /\ To("done").facts = {} /\ IsFiniteSet(To("done").facts)
    BY RunTypes DEF RunPhases
  <2>4. /\ runs'[h] = To("done") /\ runs' \in [Hosts -> Runs]
        /\ \A k \in Hosts : k # h => runs'[k] = runs[k]
    BY <2>2, <2>3
  <2>5. TypeOK'
    BY <1>1, <1>2, <2>1, <2>2, <2>4 DEF SettlementInv, TypeOK, Runs
  <2>6. FiniteFacts' /\ FactsKnown' /\ DeliveriesMatch'
    BY <1>1, <2>2, <2>3, <2>4 DEF SettlementInv, FiniteFacts, FactsKnown, DeliveriesMatch
  <2>7. RowFounded'
    BY <1>1, <1>2, <1>4, <2>1, <2>2 DEF SettlementInv, RowFounded
  <2>8. LockHeld' /\ FoundersSee'
    BY <1>1, <2>2 DEF SettlementInv, LockHeld, FoundersSee
  <2>9. EligibleFounded' /\ FactsMakeEligible' /\ DoneRunRecorded'
    BY <1>1, <1>2, <2>1, <2>2
    DEF SettlementInv, EligibleFounded, FactsMakeEligible, DoneRunRecorded
  <2>10. RunsFounded'
    BY <1>1, <1>2, <2>2, <2>3, <2>4 DEF SettlementInv, RunsFounded
  <2>11. LedgerFounded'
    <3>1. ASSUME NEW x \in ledger', x.type = "REFUND"
          PROVE  x.event \in Refunds /\ x = RefundEntry(x.event)
      <4>1. CASE x \in ledger
        BY <3>1, <4>1 DEF SettlementInv, LedgerFounded
      <4>2. CASE x \in LedgerOf(runs[h])
        BY <3>1, <4>2 DEF LedgerOf, RefundEntry, Entry
      <4> QED BY <2>1, <4>1, <4>2
    <3> QED BY <1>2, <2>1, <3>1 DEF LedgerFounded
  <2> QED BY <2>5, <2>6, <2>7, <2>8, <2>9, <2>10, <2>11 DEF SettlementInv
<1> QED BY <1>2, <1>3, <1>4

\* A step of a run throws.
LEMMA StepThrowsStep ==
    ASSUME SettlementInv, NEW h \in Hosts, StepThrows(h)
    PROVE  SettlementInv'
<1>1. runs[h].phase # "idle" /\ Failing(h) /\ UNCHANGED db
  BY DEF StepThrows, Active
<1>2. throws + 1 \in 0..MaxThrows
  BY SettlementAssumption DEF SettlementInv, TypeOK, StepThrows
<1> QED BY <1>1, <1>2, FailingStep DEF StepThrows

\* A host dies with its projections and runs.
LEMMA CrashStep ==
    ASSUME SettlementInv, NEW p \in Replicas, Crash(p)
    PROVE  SettlementInv'
<1> DEFINE Dies(e) == message[e].state = "open" /\ message[e].on = p
<1>1. /\ row' = row /\ facts' = facts /\ ledger' = ledger /\ outbox' = outbox
      /\ fate' = fate /\ runtime' = runtime /\ throws' = throws /\ Sent' = Sent
      /\ starting' \subseteq starting
  BY DEF Crash, db, config, Sent
<1>2. /\ message \in [Events -> Messages] /\ tx \in [Events -> Projections]
      /\ runs \in [Hosts -> Runs] /\ lock \in Events \cup {Free}
  BY DEF SettlementInv, TypeOK, Messages, Projections, Runs
<1>3. ASSUME NEW e \in Events
      PROVE  /\ message'[e] \in Messages /\ tx'[e] \in Projections
             /\ Dies(e) => /\ message'[e].state = "queued" /\ tx'[e] = Idle
                           /\ message'[e].run = message[e].run
             /\ ~Dies(e) => /\ message'[e].state = message[e].state /\ tx'[e] = tx[e]
                            /\ message'[e].on = message[e].on
                            /\ message'[e].run \in {message[e].run, Nobody}
             /\ message'[e].deliveries = message[e].deliveries
  <2>1. message[e] \in Messages /\ tx[e] \in Projections /\ p # Nobody
    BY <1>2, Apart DEF Hosts
  <2>2. CASE Dies(e)
    <3>1. message'[e] = [message[e] EXCEPT !.state = "queued", !.on = Nobody] /\ tx'[e] = Idle
      BY <2>2 DEF Crash
    <3> QED BY <2>1, <2>2, <3>1, IdleTyped DEF Messages
  <2>3. CASE ~Dies(e)
    <3>1. /\ message'[e] = message[e] \/ message'[e] = [message[e] EXCEPT !.run = Nobody]
          /\ tx'[e] = tx[e]
      BY <2>3 DEF Crash
    <3> QED BY <2>1, <2>3, <3>1 DEF Messages
  <2> QED BY <2>2, <2>3
<1>4. message' \in [Events -> Messages] /\ tx' \in [Events -> Projections]
  BY <1>3 DEF Crash
<1>5. ASSUME NEW h \in Hosts
      PROVE  \/ runs'[h] = runs[h]
             \/ runs'[h] = Idle
             \/ runs'[h] = To("record") /\ runs[h].phase = "recording"
  BY DEF Crash, Resumed
<1>6. runs' \in [Hosts -> Runs]
  <2>1. Idle \in Runs /\ To("record") \in Runs
    BY RunTypes, NoRowTyped DEF RunPhases, Idle, Runs
  <2> QED BY <1>2, <1>5, <2>1 DEF Crash
<1>7. /\ Idle.phase = "idle" /\ Idle.row = NoRow /\ Idle.facts = {}
      /\ To("record").phase = "record" /\ To("record").facts = {}
  BY IdleTyped, RunTypes DEF RunPhases
<1>8. \/ lock' = lock /\ (lock # Free => ~Dies(lock))
      \/ lock' = Free /\ lock # Free /\ Dies(lock)
  BY DEF Crash, SettlementInv, LockHeld, DeliveriesMatch, TypeOK
<1> HIDE DEF Dies
<1>9. TypeOK'
  <2>1. crashes' \in 0..MaxCrashes
    <3>1. crashes < MaxCrashes /\ crashes' = crashes + 1
      BY DEF Crash
    <3>2. crashes \in 0..MaxCrashes /\ MaxCrashes \in Nat
      BY SettlementAssumption DEF SettlementInv, TypeOK
    <3> QED BY <3>1, <3>2
  <2> QED BY <1>1, <1>2, <1>4, <1>6, <1>8, <2>1
      DEF SettlementInv, TypeOK, Messages, Projections, Runs
<1>10. FiniteFacts' /\ FactsKnown'
  BY <1>1, <1>3, <1>5, <1>7, FS_EmptySet DEF SettlementInv, FiniteFacts, FactsKnown
<1>11. DeliveriesMatch'
  <2>1. ASSUME NEW f \in Events
        PROVE  /\ tx'[f].phase = "idle" <=> message'[f].state # "open"
               /\ tx'[f].phase = "idle" => tx'[f] = Idle
               /\ message'[f].state = "open" => message'[f].on \in Replicas /\ f \in Sent
               /\ message'[f].state \in {"queued", "open"} =>
                    message'[f].deliveries < MaxDeliveries
               /\ message'[f].state = "handled" => message'[f].deliveries <= MaxDeliveries
               /\ message'[f].run # Nobody => message'[f].state = "handled"
    <3>1. CASE Dies(f)
      BY <1>3, <1>7, <3>1 DEF SettlementInv, DeliveriesMatch, Dies
    <3>2. CASE ~Dies(f)
      BY <1>3, <3>2 DEF SettlementInv, DeliveriesMatch
    <3> QED BY <3>1, <3>2
  <2>2. ASSUME NEW s \in starting'
        PROVE  /\ message'[s[2]].state = "handled" /\ message'[s[2]].run = Nobody
               /\ \A t \in starting' : t[2] = s[2] => t = s
    <3>1. /\ s \in starting /\ s[2] \in Events
          /\ message[s[2]].state = "handled" /\ message[s[2]].run = Nobody
          /\ \A t \in starting : t[2] = s[2] => t = s
      BY <1>1 DEF SettlementInv, TypeOK, DeliveriesMatch
    <3>2. ~Dies(s[2])
      BY <3>1 DEF Dies
    <3> QED BY <1>1, <1>3, <3>1, <3>2
  <2> QED BY <1>1, <2>1, <2>2 DEF DeliveriesMatch
<1>12. RowFounded'
  <2>1. ASSUME NEW f \in Events, tx'[f].row.status # "ABSENT", lock' # f
        PROVE  row.status # "ABSENT"
    <3>1. ~Dies(f) /\ tx'[f] = tx[f]
      BY <1>3, <1>7, <2>1, NoRowTyped
    <3>2. lock # f
      BY <1>8, <2>1, <3>1
    <3> QED BY <2>1, <3>1, <3>2 DEF SettlementInv, RowFounded
  <2> QED BY <1>1, <2>1 DEF SettlementInv, RowFounded
<1>13. LockHeld'
  <2>1. ASSUME lock' # Free PROVE lock' = lock /\ tx'[lock] = tx[lock] /\ lock # Free
    BY <1>2, <1>3, <1>8, <2>1
  <2> QED BY <1>1, <2>1 DEF SettlementInv, LockHeld, Founder, Adjusts
<1>14. FoundersSee'
  <2>1. \A f \in Founders : f \in Events
    BY DEF Founders, Events, Fixed
  <2> QED BY <1>1, <1>3, <1>7, <2>1 DEF SettlementInv, FoundersSee
<1>15. EligibleFounded'
  BY <1>1, <1>3, <1>7, NoRowTyped DEF SettlementInv, EligibleFounded
<1>16. RunsFounded' /\ DoneRunRecorded'
  <2>1. starting' # {} => BothFacts(facts')
    BY <1>1 DEF SettlementInv, RunsFounded
  <2>2. ASSUME NEW h \in Hosts
        PROVE  /\ runs'[h].phase # "idle" => BothFacts(facts')
               /\ runs'[h].phase = "recording" =>
                    Calculates(Refunded(runs'[h].facts), runs'[h].row.adjustment)
               /\ runs'[h].phase = "done" => row'.status = "RECORDED"
    BY <1>1, <1>5, <1>7 DEF SettlementInv, RunsFounded, DoneRunRecorded
  <2> QED BY <2>1, <2>2 DEF RunsFounded, DoneRunRecorded
<1>17. LedgerFounded' /\ FactsMakeEligible'
  BY <1>1 DEF SettlementInv, LedgerFounded, FactsMakeEligible
<1> QED BY <1>9, <1>10, <1>11, <1>12, <1>13, <1>14, <1>15, <1>16, <1>17 DEF SettlementInv

-------------------------------------------------------------------------------
(* The invariant of the specification.                                     *)

\* A projection commits or is rolled back.
LEMMA ProjectStep ==
    ASSUME SettlementInv, NEW e \in Events, Project(e)
    PROVE  SettlementInv'
<1>1. tx[e].phase = "read" /\ UNCHANGED <<runs, config, throws, crashes>>
  BY DEF Project
<1> QED BY <1>1, ProjectCommits, CommitStep, RollbackStep

\* The invariant holds at first.
LEMMA SettlementInvInit == Init => SettlementInv
<1> SUFFICES ASSUME Init PROVE SettlementInv
  OBVIOUS
<1>1. /\ row = NoRow /\ facts = {} /\ ledger = {} /\ outbox = {} /\ lock = Free
      /\ starting = {} /\ throws = 0 /\ crashes = 0 /\ fate \in Fates /\ runtime \in Runtimes
      /\ message = [e \in Events |-> [state |-> "queued", deliveries |-> 0,
                                      on |-> Nobody, run |-> Nobody]]
      /\ tx = [e \in Events |-> Idle] /\ runs = [h \in Hosts |-> Idle]
  BY DEF Init
<1>2. /\ NoRow \in Rows /\ NoRow.status = "ABSENT" /\ Idle \in Projections
      /\ Idle.phase = "idle" /\ Idle.row = NoRow /\ Idle.facts = {}
      /\ IsFiniteSet(Idle.facts) /\ Idle \in Runs
  BY NoRowTyped, IdleTyped, FS_EmptySet DEF Runs, RunPhases, Idle
<1>3. TypeOK
  BY <1>1, <1>2, MaxDeliveriesNat, SettlementAssumption
  DEF TypeOK, Projections, Runs
<1>4. FiniteFacts /\ FactsKnown
  BY <1>1, <1>2, FS_EmptySet DEF FiniteFacts, FactsKnown
<1>5. DeliveriesMatch
  BY <1>1, <1>2, MaxDeliveriesNat DEF DeliveriesMatch
<1>6. RowFounded /\ LockHeld /\ FoundersSee /\ EligibleFounded
  <2>1. \A f \in Founders : f \in Events
    BY DEF Founders, Events, Fixed
  <2> QED BY <1>1, <1>2, <2>1 DEF RowFounded, LockHeld, FoundersSee, EligibleFounded
<1>7. RunsFounded /\ LedgerFounded /\ FactsMakeEligible /\ DoneRunRecorded
  BY <1>1, <1>2 DEF RunsFounded, LedgerFounded, FactsMakeEligible, BothFacts, DoneRunRecorded
<1> QED BY <1>3, <1>4, <1>5, <1>6, <1>7 DEF SettlementInv

\* Every step keeps the invariant.
LEMMA SettlementInvStep == SettlementInv /\ [Next]_vars => SettlementInv'
<1> SUFFICES ASSUME SettlementInv, [Next]_vars PROVE SettlementInv'
  OBVIOUS
<1>1. ASSUME NEW p \in Replicas, Crash(p) PROVE SettlementInv'
  BY <1>1, CrashStep
<1>2. ASSUME NEW p \in Replicas, NEW e \in Events, BeginProjection(p, e) \/ Start(p, e)
      PROVE  SettlementInv'
  BY <1>2, BeginStep, StartStep
<1>3. ASSUME NEW e \in Events, EnsureSettlement(e) \/ Project(e) PROVE SettlementInv'
  BY <1>3, EnsureStep, ProjectStep
<1>4. ASSUME NEW h \in Hosts, \/ Load(h) \/ LoadFacts(h) \/ RecordRead(h)
                              \/ RecordWrite(h) \/ StepThrows(h)
      PROVE  SettlementInv'
  BY <1>4, LoadStep, RecordReadStep, RecordWriteStep, StepThrowsStep
<1>5. CASE UNCHANGED vars
  BY <1>5 DEF vars, SettlementInv, TypeOK, FiniteFacts, FactsKnown, Sent, DeliveriesMatch,
              RowFounded, LockHeld, Founder, Adjusts, FoundersSee, EligibleFounded,
              RunsFounded, LedgerFounded, FactsMakeEligible, DoneRunRecorded
<1> QED BY <1>1, <1>2, <1>3, <1>4, <1>5 DEF Next

\* The invariant holds in every state, for any refunds, replicas, deliveries and
\* crashes.
THEOREM Invariance == Spec => []SettlementInv
<1> QED BY SettlementInvInit, SettlementInvStep, PTL DEF Spec

\* Every variable keeps its type; the committed facts and the ledger are finite.
THEOREM TypeCorrect == Spec => []TypeOK
<1>1. SettlementInv => TypeOK
  BY DEF SettlementInv
<1> QED BY <1>1, Invariance, PTL

\* Once both founding events are projected the settlement is eligible or further,
\* whichever of the two projections committed first and however they overlapped
\* (SettlementRepository.projectEvent).
THEOREM BothFactsMakeEligible == Spec => []FactsMakeEligible
<1>1. SettlementInv => FactsMakeEligible
  BY DEF SettlementInv
<1> QED BY <1>1, Invariance, PTL

\* A settlement workflow ends as done only when the settlement is recorded
\* (loadSettlement, recordSettlement and the workflow that calls them).
THEOREM RunsEndRecorded == Spec => []DoneRunRecorded
<1>1. SettlementInv => DoneRunRecorded
  BY DEF SettlementInv
<1> QED BY <1>1, Invariance, PTL

-------------------------------------------------------------------------------
(* The refinement of StoreLedger.                                          *)

\* What the abstract ledger sees of the settlement.
StoreVars == <<row.status, row.payable, ledger, outbox>>

\* A projection maps to a change of status, a late refund or a stutter.
LEMMA CommitKeepsLedger ==
    ASSUME SettlementInv, NEW e \in Events, NEW r, NEW entries, NEW starts \in BOOLEAN,
           Committable(e, r, entries, starts), Commit(e, r, entries, starts)
    PROVE  Store!Next \/ UNCHANGED StoreVars
<1>1. row' = r /\ ledger' = ledger \cup entries /\ outbox' = outbox
  BY DEF Commit
<1>2. r.status \in Statuses /\ row.status \in Statuses
  BY DEF Committable, SettlementInv, TypeOK, Rows
<1>3. CASE entries = {} /\ row.status = "RECORDED"
  BY <1>1, <1>3 DEF Committable, StoreVars, RefundEntry
<1>4. CASE entries = {} /\ row.status = "ABSENT" /\ r.status = "ABSENT"
  BY <1>1, <1>4 DEF Committable, StoreVars, SettlementInv, RowFounded
<1>5. CASE entries = {} /\ row.status = "ABSENT" /\ r.status # "ABSENT"
  <2>1. r.status = "PENDING"
    BY <1>5 DEF Committable
  <2> QED BY <1>1, <1>5, <2>1 DEF Store!Next, Store!Project
<1>6. CASE entries = {} /\ row.status \in Unrecorded
  <2>1. r.status \in Unrecorded /\ row.status # "ABSENT"
    BY <1>2, <1>6 DEF Committable, Unrecorded, Statuses
  <2> QED BY <1>1, <1>6, <2>1 DEF Store!Next, Store!Project, Unrecorded
<1>7. CASE entries # {}
  <2>1. /\ e \in Refunds /\ row.status = "RECORDED" /\ r.status = "RECORDED"
        /\ entries = {RefundEntry(e)}
        /\ RefundEntry(e) \in ledger => r = row
    BY <1>7 DEF Committable
  <2>2. CASE RefundEntry(e) \in ledger
    BY <1>1, <2>1, <2>2 DEF StoreVars
  <2>3. CASE RefundEntry(e) \notin ledger
    <3>1. /\ RefundEntry(e).type = "REFUND" /\ RefundEntry(e).event = e
          /\ RefundEntry(e).amount < 0
      BY <2>1, AmountFacts DEF RefundEntry, Entry
    <3>2. \A f \in ledger : Store!Identity(f) # Store!Identity(RefundEntry(e))
      BY <2>3, <3>1 DEF Store!Identity, SettlementInv, LedgerFounded
    <3> QED BY <1>1, <2>1, <3>1, <3>2 DEF Store!Next, Store!AppendRefund
  <2> QED BY <2>2, <2>3
<1> QED BY <1>2, <1>3, <1>4, <1>5, <1>6, <1>7 DEF Statuses, Unrecorded

\* RecordWrite maps to Record of the abstract ledger.
LEMMA RecordKeepsLedger ==
    ASSUME SettlementInv, NEW h \in Hosts, RecordWrite(h)
    PROVE  Store!Next \/ UNCHANGED StoreVars
<1> DEFINE r == Amended(row, "RECORDED", runs[h])
           L == LedgerOf(runs[h])
<1>1. runs[h].phase = "recording"
  BY DEF RecordWrite
<1>2. /\ row.status \in {"ELIGIBLE", "RECORDED"}
      /\ r \in Rows /\ r.status = "RECORDED" /\ Store!Balance(L) = r.payable
  BY <1>1, RecordFacts
<1>3. CASE row.status = "RECORDED"
  BY <1>3 DEF RecordWrite, Unrecorded, StoreVars
<1>4. CASE row.status = "ELIGIBLE"
  <2>1. row' = r /\ ledger' = ledger \cup L /\ outbox' = outbox \cup {"SettlementRecorded"}
    BY <1>4 DEF RecordWrite, Unrecorded
  <2>2. ledger' = L /\ outbox = {} /\ outbox' = {"SettlementRecorded"}
    BY <1>4, <2>1 DEF SettlementInv, LedgerFounded
  <2>3. /\ Store!OfType(L, "GROSS") = {Entry("GROSS", "OrderCompleted", Gross)}
        /\ Store!OfType(L, "FEE") = {Entry("FEE", "run", -Fee)}
    BY DEF Store!OfType, LedgerOf, RefundEntry, Entry
  <2>4. \A x : Store!Cardinality({x}) = 1
    <3>1. \A x : Cardinality({x}) = 1
      BY FS_Singleton
    <3>2. \A x : Store!Cardinality({x}) = Cardinality({x})
      BY DEF Cardinality, Store!Cardinality
    <3> QED BY <3>1, <3>2
  <2>5. r.payable >= 0
    BY <1>2, AmountFacts DEF Rows
  <2> HIDE DEF r, L
  <2> QED BY <1>2, <1>4, <2>1, <2>2, <2>3, <2>4, <2>5 DEF Store!Next, Store!Record
<1> QED BY <1>2, <1>3, <1>4

\* Every step is a step of the abstract ledger or a stutter.
LEMMA StoreStep == SettlementInv /\ [Next]_vars => [Store!Next]_StoreVars
<1> SUFFICES ASSUME SettlementInv, [Next]_vars PROVE Store!Next \/ UNCHANGED StoreVars
  OBVIOUS
<1>1. ASSUME NEW p \in Replicas, Crash(p) PROVE UNCHANGED StoreVars
  BY <1>1 DEF Crash, db, StoreVars
<1>2. ASSUME NEW p \in Replicas, NEW e \in Events, BeginProjection(p, e) \/ Start(p, e)
      PROVE  UNCHANGED StoreVars
  BY <1>2 DEF BeginProjection, Start, db, StoreVars
<1>3. ASSUME NEW e \in Events, EnsureSettlement(e) PROVE UNCHANGED StoreVars
  BY <1>3 DEF EnsureSettlement, db, StoreVars
<1>4. ASSUME NEW e \in Events, Project(e) PROVE Store!Next \/ UNCHANGED StoreVars
  <2>1. Rollback(e) => UNCHANGED StoreVars
    BY DEF Rollback, db, StoreVars
  <2> QED BY <1>4, <2>1, ProjectCommits, CommitKeepsLedger
<1>5. ASSUME NEW h \in Hosts, \/ Load(h) \/ LoadFacts(h) \/ RecordRead(h) \/ StepThrows(h)
      PROVE  UNCHANGED StoreVars
  BY <1>5 DEF Load, LoadFacts, RecordRead, StepThrows, db, StoreVars
<1>6. ASSUME NEW h \in Hosts, RecordWrite(h) PROVE Store!Next \/ UNCHANGED StoreVars
  BY <1>6, RecordKeepsLedger
<1>7. CASE UNCHANGED vars
  BY <1>7 DEF vars, StoreVars
<1> QED BY <1>1, <1>2, <1>3, <1>4, <1>5, <1>6, <1>7 DEF Next

\* The settlement implements StoreLedger: it is recorded at most once, with a
\* ledger that balances the payable amount and one announcement.
THEOREM ImplementsStoreLedger == Spec => LedgerKept
<1>1. Init => Store!Init
  BY DEF Init, Store!Init, NoRow
<1>2. Spec => Store!Init /\ [][Store!Next]_StoreVars
  BY <1>1, Invariance, StoreStep, PTL DEF Spec
<1> QED BY <1>2 DEF LedgerKept, Store!Spec, StoreVars
=============================================================================
