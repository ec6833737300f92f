----------------------------- MODULE PlatformProofs -----------------------------
(***************************************************************************)
(* Proofs about Platform: the catalog and the menu its customers browse,    *)
(* for any number of overlapping requests, replicas, outages of Redis and   *)
(* restarts, and with SessionsProofs and RbacProofs the three together.     *)
(*                                                                         *)
(* The catalog: a request closes a price only if the one it inserts is not  *)
(* older (Replaces), so whatever open prices overlapping requests leave     *)
(* behind, the one effective last is never among those they close.  The     *)
(* menu: whatever replica, memory or generation a cache entry comes from,   *)
(* it shows at least a menu that the stores row once had with the version   *)
(* in its key (GoodEntry).                                                  *)
(***************************************************************************)
EXTENDS Platform, SessionsProofs, RbacProofs, FiniteSetTheorems, WellFoundedInduction

-------------------------------------------------------------------------------
(* The catalog.                                                            *)

Requests == [kind : AllKinds, phase : CatalogPhases, base : Nat,
             lifecycle : Lifecycles, visible : BOOLEAN, status : StoreStatuses,
             accepting : BOOLEAN, priced : BOOLEAN, closes : PriceIds \cup {0},
             from : Nat, version : Nat]

\* Nothing is effective later than now.
InTime ==
    /\ \A p \in PriceIds : prices[p].from <= now
    /\ \A r \in CatalogRequests : requests[r].from <= now

\* A price that is about to be closed is not newer than the one that replaces it.
Replaces ==
    \A r \in CatalogRequests :
        requests[r].closes # 0 =>
            /\ requests[r].phase \in {"stamped", "ready"}
            /\ requests[r].closes \in Inserted
            /\ prices[requests[r].closes].from <= requests[r].from

\* An order that is being placed saw no price newer than the newest one there is.
Bases ==
    \A r \in CatalogRequests :
        requests[r].kind = "order" /\ requests[r].phase = "read" /\ requests[r].base # 0 =>
            \E p \in Inserted : prices[p].from >= requests[r].base

\* Every request that may still insert a price has a row to insert it in.
Inserting(req) == \/ req.phase \in {"opened", "held", "stamped", "ready"}
                  \/ req.kind \in {"update", "price"} /\ req.phase = "read"
Pending == {r \in CatalogRequests : Inserting(requests[r])}
Room == Cardinality(Inserted) + Cardinality(Pending) <= requested + 1

CatalogInv == CatalogTypeOK /\ InTime /\ Replaces /\ Bases /\ Room /\ NewestIsQuoted

\* A request at rest has decided nothing.
LEMMA IdleRequest == Idle \in Requests /\ Idle.phase = "idle" /\ Idle.from = 0
                     /\ Idle.kind = "order" /\ Idle.closes = 0 /\ Idle.base = 0
BY DEF Idle, Requests, AllKinds, CatalogPhases, Lifecycles, StoreStatuses

\* The intervals 0..n are ordered by inclusion as the numbers n are.
LEMMA SmallestNumber ==
    ASSUME NEW S \in SUBSET Nat, S # {}
    PROVE  \E n \in S : \A m \in S : n <= m
<1> DEFINE Below == {0..n : n \in S}
<1>1. \A n \in Nat : 0..n \in FiniteSubsetsOf(Nat)
  BY FS_Interval DEF FiniteSubsetsOf
<1>2. Below \subseteq FiniteSubsetsOf(Nat) /\ Below # {}
  BY <1>1
<1>3. PICK B \in Below : \A C \in Below : ~(<<C, B>> \in StrictSubsetOrdering(Nat))
  <2> HIDE DEF Below
  <2> QED BY <1>2, FS_StrictSubsetOrderingWellFounded, WFMin
<1>4. PICK n \in S : B = 0..n
  BY <1>3
<1>5. ASSUME NEW m \in S, m < n PROVE FALSE
  <2>1. 0..m \in Below /\ 0..m \in SUBSET Nat /\ 0..n \in SUBSET Nat
    BY <1>5
  <2>2. 0..m \subseteq 0..n /\ 0..m # 0..n
    BY <1>5
  <2> QED BY <1>3, <1>4, <2>1, <2>2 DEF StrictSubsetOrdering
<1> QED BY <1>5

\* The prices and the requests can be counted.
LEMMA CatalogFinite ==
    ASSUME CatalogTypeOK
    PROVE  /\ IsFiniteSet(PriceIds) /\ Cardinality(PriceIds) = MaxRequests + 1
           /\ IsFiniteSet(Inserted) /\ Cardinality(Inserted) \in Nat
           /\ IsFiniteSet(Pending) /\ Cardinality(Pending) \in Nat
<1>1. /\ IsFiniteSet(1..(MaxRequests + 1))
      /\ Cardinality(1..(MaxRequests + 1)) = MaxRequests + 1
  BY CatalogAssumption, FS_Interval
<1>2. Inserted \subseteq PriceIds /\ Pending \subseteq CatalogRequests
  BY DEF Inserted, Pending
<1> QED BY <1>1, <1>2, CatalogAssumption, FS_Subset, FS_CardinalityType DEF PriceIds

\* A request that is about to commit finds a row for its price.
LEMMA NewPriceIsNew ==
    ASSUME CatalogTypeOK, Room, Pending # {}
    PROVE  NewPrice \in PriceIds \ Inserted
<1>1. Cardinality(Pending) > 0
  <2>1. Cardinality(Pending) # 0
    BY CatalogFinite, FS_EmptySet
  <2> QED BY <2>1, CatalogFinite
<1>2. Inserted # PriceIds
  <2>1. requested \in 0..MaxRequests /\ MaxRequests \in Nat
    BY CatalogAssumption DEF CatalogTypeOK
  <2>2. Cardinality(Inserted) < MaxRequests + 1
    BY <1>1, <2>1, CatalogFinite DEF Room
  <2> QED BY <2>1, <2>2, CatalogFinite
<1>3. PICK p \in PriceIds \ Inserted : \A q \in PriceIds \ Inserted : p <= q
  <2>1. PriceIds \ Inserted # {} /\ PriceIds \ Inserted \in SUBSET Nat
    BY <1>2 DEF Inserted, PriceIds
  <2> QED BY <2>1, SmallestNumber
<1>4. prices[p].state = "NONE" /\ \A q \in 1..(p - 1) : q \in Inserted
  <2>1. prices[p].state = "NONE"
    BY <1>3 DEF Inserted
  <2>2. ASSUME NEW q \in 1..(p - 1) PROVE q \in Inserted
    <3>1. q \in PriceIds /\ ~(p <= q)
      BY CatalogAssumption DEF PriceIds
    <3> QED BY <1>3, <3>1
  <2> QED BY <2>1, <2>2
<1>5. /\ NewPrice \in PriceIds /\ prices[NewPrice].state = "NONE"
  BY <1>4 DEF NewPrice
<1> QED BY <1>5 DEF Inserted

\* A step in which request r moves to req and no price does.
LEMMA RequestStep ==
    ASSUME CatalogInv, NEW r \in CatalogRequests, NEW req \in Requests, Becomes(r, req),
           UNCHANGED <<now, prices>>,
           store' \in [status : StoreStatuses, accepting : BOOLEAN, version : Nat],
           product' \in [lifecycle : Lifecycles, visible : BOOLEAN],
           req.from <= now,
           req.closes # 0 =>
             /\ req.phase \in {"stamped", "ready"}
             /\ req.closes \in Inserted
             /\ prices[req.closes].from <= req.from,
           req.kind = "order" /\ req.phase = "read" /\ req.base # 0 =>
             \E p \in Inserted : prices[p].from >= req.base,
           req.phase = "quoted" => req.from >= req.base,
           \/ requested' = requested + 1 /\ requested < MaxRequests
           \/ /\ requested' = requested
              /\ Inserting(req) => r \in Pending
    PROVE  CatalogInv'
<1>1. /\ now' = now /\ prices' = prices /\ Inserted' = Inserted /\ Current' = Current
      /\ Latest(Inserted)' = Latest(Inserted)
      /\ requests \in [CatalogRequests -> Requests]
  BY DEF CatalogInv, CatalogTypeOK, Requests, Inserted, Current, Latest
<1>2. /\ requests' = [requests EXCEPT ![r] = req] /\ requests'[r] = req
      /\ \A q \in CatalogRequests : q # r => requests'[q] = requests[q]
      /\ requests' \in [CatalogRequests -> Requests]
  BY <1>1 DEF Becomes
<1>3. requested \in 0..MaxRequests /\ requested' \in 0..MaxRequests
  BY CatalogAssumption DEF CatalogInv, CatalogTypeOK
<1>4. CatalogTypeOK'
  BY <1>1, <1>2, <1>3 DEF CatalogInv, CatalogTypeOK, Requests
<1>5. InTime' /\ Replaces'
  BY <1>1, <1>2 DEF CatalogInv, InTime, Replaces
<1>6. Bases'
  BY <1>1, <1>2 DEF CatalogInv, Bases
<1>7. NewestIsQuoted'
  BY <1>1, <1>2 DEF CatalogInv, NewestIsQuoted
<1>8. Room'
  <2>1. IsFiniteSet(Pending) /\ Cardinality(Pending) \in Nat /\ Cardinality(Inserted) \in Nat
    BY CatalogFinite DEF CatalogInv
  <2>2. Pending' \subseteq Pending \cup {r}
    BY <1>2 DEF Pending
  <2>3. CASE requested' = requested + 1
    <3>1. /\ Cardinality(Pending') <= Cardinality(Pending \cup {r})
          /\ IsFiniteSet(Pending \cup {r}) /\ IsFiniteSet(Pending')
      BY <2>1, <2>2, FS_AddElement, FS_Subset
    <3>2. Cardinality(Pending \cup {r}) <= Cardinality(Pending) + 1
      <4>1. Cardinality(Pending \cup {r})
              = IF r \in Pending THEN Cardinality(Pending) ELSE Cardinality(Pending) + 1
        BY <2>1, FS_AddElement
      <4> QED BY <2>1, <4>1
    <3>3. Cardinality(Pending') \in Nat /\ Cardinality(Pending \cup {r}) \in Nat
      BY <3>1, FS_CardinalityType
    <3> QED BY <1>1, <1>3, <2>1, <2>3, <3>1, <3>2, <3>3 DEF CatalogInv, Room
  <2>4. CASE requested' = requested
    <3>1. Pending' \subseteq Pending
      <4>1. r \in Pending' => r \in Pending
        BY <1>2, <1>3, <2>4 DEF Pending
      <4> QED BY <2>2, <4>1
    <3>2. Cardinality(Pending') <= Cardinality(Pending) /\ Cardinality(Pending') \in Nat
      BY <2>1, <3>1, FS_Subset, FS_CardinalityType
    <3> QED BY <1>1, <1>3, <2>1, <2>4, <3>2 DEF CatalogInv, Room
  <2> QED BY <2>3, <2>4
<1> QED BY <1>4, <1>5, <1>6, <1>7, <1>8 DEF CatalogInv

\* What the invariant says of one request.
LEMMA RequestFacts ==
    ASSUME CatalogInv, NEW r \in CatalogRequests
    PROVE  /\ requests[r] \in Requests
           /\ requests[r].from <= now /\ now \in Nat
           /\ requests[r].closes # 0 =>
                /\ requests[r].phase \in {"stamped", "ready"}
                /\ requests[r].closes \in Inserted
                /\ prices[requests[r].closes].from <= requests[r].from
           /\ store \in [status : StoreStatuses, accepting : BOOLEAN, version : Nat]
           /\ product \in [lifecycle : Lifecycles, visible : BOOLEAN]
           /\ prices \in [PriceIds -> PriceRows]
           /\ NextCatalogVersion(requests[r].base) \in Nat
<1>1. requests[r] \in Requests /\ now \in Nat
  BY DEF CatalogInv, CatalogTypeOK, Requests
<1>2. requests[r].base \in Nat
  BY <1>1 DEF Requests
<1>3. NextCatalogVersion(requests[r].base) \in Nat
  BY <1>1, <1>2 DEF NextCatalogVersion, Larger
<1> QED BY <1>1, <1>3 DEF CatalogInv, CatalogTypeOK, InTime, Replaces

\* The steps in which a request ends without a trace.
LEMMA RequestEnds ==
    ASSUME CatalogInv, NEW r \in CatalogRequests, Becomes(r, Idle),
           UNCHANGED <<now, prices, requested>>,
           store' \in [status : StoreStatuses, accepting : BOOLEAN, version : Nat],
           product' \in [lifecycle : Lifecycles, visible : BOOLEAN]
    PROVE  CatalogInv'
<1>1. now \in Nat
  BY DEF CatalogInv, CatalogTypeOK
<1> QED BY <1>1, IdleRequest, RequestStep DEF Inserting

\* A commit that inserts a price: it is the newest, or an open one is as before.
LEMMA CommitStep ==
    ASSUME CatalogInv, NEW r \in CatalogRequests, CommitCatalog(r)
    PROVE  CatalogInv'
<1> DEFINE req == requests[r]
           closed == IF req.closes = 0 THEN prices
                     ELSE [prices EXCEPT ![req.closes].state = "CLOSED"]
           rest == [Idle EXCEPT !.phase = "committed"]
           p0 == NewPrice
<1>1. /\ req \in Requests /\ req.phase = "ready" /\ req.from <= now /\ now \in Nat
      /\ req.closes # 0 => req.closes \in Inserted /\ prices[req.closes].from <= req.from
      /\ prices \in [PriceIds -> PriceRows]
      /\ store \in [status : StoreStatuses, accepting : BOOLEAN, version : Nat]
      /\ product \in [lifecycle : Lifecycles, visible : BOOLEAN]
      /\ requests \in [CatalogRequests -> Requests]
      /\ requested \in 0..MaxRequests
  BY RequestFacts DEF CommitCatalog, CatalogInv, CatalogTypeOK, Requests
<1>2. /\ prices' = IF req.priced
                   THEN [closed EXCEPT ![p0] = [state |-> "CURRENT", from |-> req.from]]
                   ELSE prices
      /\ requests' = [requests EXCEPT ![r] = rest]
      /\ now' = now /\ requested' = requested
      /\ store' = [store EXCEPT !.version = req.version]
      /\ product' = IF req.kind = "price" THEN product
                    ELSE [lifecycle |-> req.lifecycle, visible |-> req.visible]
  BY DEF CommitCatalog, Becomes
<1>3. req.version \in Nat /\ req.from \in Nat /\ req.lifecycle \in Lifecycles
      /\ req.visible \in BOOLEAN /\ req.kind \in AllKinds
  BY <1>1 DEF Requests
<1>4. rest \in Requests /\ rest.phase = "committed" /\ rest.from = 0 /\ rest.kind = "order"
      /\ rest.closes = 0
  BY IdleRequest DEF Requests, CatalogPhases
<1>5. /\ requests'[r] = rest
      /\ \A q \in CatalogRequests : q # r => requests'[q] = requests[q]
      /\ requests' \in [CatalogRequests -> Requests]
  BY <1>1, <1>2, <1>4
<1>6. closed \in [PriceIds -> PriceRows]
      /\ \A p \in PriceIds :
           /\ closed[p].from = prices[p].from
           /\ closed[p].state = "NONE" <=> prices[p].state = "NONE"
           /\ p # req.closes => closed[p] = prices[p]
  BY <1>1 DEF PriceRows, Inserted
<1> HIDE DEF closed, rest, p0
<1>7. prices' \in [PriceIds -> PriceRows]
  BY <1>1, <1>2, <1>3, <1>6 DEF PriceRows
<1>8. CatalogTypeOK'
  BY <1>1, <1>2, <1>3, <1>5, <1>7 DEF CatalogTypeOK, Requests
<1>9. CASE ~req.priced
  <2>1. prices' = prices /\ Inserted' = Inserted /\ Current' = Current
        /\ Latest(Inserted)' = Latest(Inserted)
    BY <1>2, <1>9 DEF Inserted, Current, Latest
  <2>2. InTime' /\ Replaces' /\ Bases' /\ NewestIsQuoted'
    <3>1. InTime'
      BY <1>1, <1>2, <1>4, <1>5, <2>1 DEF CatalogInv, InTime
    <3>4. Replaces'
      BY <1>4, <1>5, <2>1 DEF CatalogInv, Replaces
    <3>2. Bases'
      BY <1>4, <1>5, <2>1 DEF CatalogInv, Bases
    <3>3. NewestIsQuoted'
      BY <1>4, <1>5, <2>1 DEF CatalogInv, NewestIsQuoted
    <3> QED BY <3>1, <3>2, <3>3, <3>4
  <2>3. Room'
    <3>1. Pending' \subseteq Pending
      BY <1>4, <1>5 DEF Pending, Inserting
    <3>2. /\ Cardinality(Pending') <= Cardinality(Pending) /\ Cardinality(Pending') \in Nat
          /\ Cardinality(Pending) \in Nat /\ Cardinality(Inserted) \in Nat
      BY <3>1, CatalogFinite, FS_Subset, FS_CardinalityType DEF CatalogInv
    <3> QED BY <1>1, <1>2, <2>1, <3>2 DEF CatalogInv, Room
  <2> QED BY <1>8, <2>2, <2>3 DEF CatalogInv
<1>10. CASE req.priced
  <2>1. r \in Pending
    BY <1>1 DEF Pending, Inserting
  <2>2. p0 \in PriceIds \ Inserted
    BY <2>1, NewPriceIsNew DEF CatalogInv, p0
  <2>3. /\ prices'[p0] = [state |-> "CURRENT", from |-> req.from]
        /\ \A p \in PriceIds : p # p0 => prices'[p] = closed[p]
    BY <1>2, <1>6, <1>10, <2>2
  <2>4. /\ Inserted' = Inserted \cup {p0}
        /\ p0 \in Current' /\ prices'[p0].from = req.from
        /\ \A p \in Inserted : /\ p \in PriceIds /\ p # p0
                               /\ prices'[p].from = prices[p].from
                               /\ p \in Current /\ p # req.closes => p \in Current'
    BY <1>6, <2>2, <2>3 DEF Inserted, Current
  <2>5. \A p \in Inserted : prices[p].from \in Nat
    BY <1>1 DEF Inserted, PriceRows
  <2>6. InTime'
    BY <1>1, <1>2, <1>4, <1>5, <1>6, <2>3 DEF CatalogInv, InTime
  <2>7. Replaces'
    BY <1>4, <1>5, <2>4 DEF CatalogInv, Replaces
  <2>8. Bases'
    BY <1>4, <1>5, <2>4 DEF CatalogInv, Bases
  <2>9. \E p \in Inserted' : p \in Latest(Inserted)' /\ p \in Current'
    <3>1. CASE Inserted = {}
      BY <1>3, <2>4, <3>1 DEF Latest
    <3>2. CASE Inserted # {}
      <4>1. PICK p \in Inserted : p \in Latest(Inserted) /\ p \in Current
        BY <3>2 DEF CatalogInv, NewestIsQuoted, Latest
      <4>2. \A q \in Inserted : prices[q].from <= prices[p].from
        BY <4>1 DEF Latest
      <4>3. CASE prices[p].from <= req.from
        <5>1. \A q \in Inserted' : prices'[q].from <= prices'[p0].from
          BY <1>3, <2>4, <2>5, <4>2, <4>3
        <5> QED BY <2>4, <5>1 DEF Latest
      <4>4. CASE ~(prices[p].from <= req.from)
        <5>1. p # req.closes
          <6>1. req.closes # 0 => prices[req.closes].from <= req.from
            BY <1>1
          <6>2. p # 0
            BY DEF Inserted, PriceIds
          <6> QED BY <4>4, <6>1, <6>2
        <5>2. \A q \in Inserted' : prices'[q].from <= prices'[p].from
          BY <1>3, <2>4, <2>5, <4>2, <4>4
        <5> QED BY <2>4, <4>1, <5>1, <5>2 DEF Latest
      <4> QED BY <4>3, <4>4
    <3> QED BY <3>1, <3>2
  <2>10. NewestIsQuoted'
    <3>1. \A q \in CatalogRequests :
             requests'[q].phase = "quoted" => requests'[q].from >= requests'[q].base
      BY <1>4, <1>5 DEF CatalogInv, NewestIsQuoted
    <3> QED BY <2>9, <3>1 DEF NewestIsQuoted
  <2>11. Room'
    <3>1. Pending' = Pending \ {r}
      BY <1>4, <1>5 DEF Pending, Inserting
    <3>2. /\ IsFiniteSet(Pending) /\ Cardinality(Pending) \in Nat
          /\ IsFiniteSet(Inserted) /\ Cardinality(Inserted) \in Nat
      BY CatalogFinite DEF CatalogInv
    <3>3. Cardinality(Pending') = Cardinality(Pending) - 1
      BY <2>1, <3>1, <3>2, FS_RemoveElement
    <3>4. Cardinality(Inserted') = Cardinality(Inserted) + 1
      BY <2>2, <2>4, <3>2, FS_AddElement
    <3> QED BY <1>1, <1>2, <3>2, <3>3, <3>4 DEF CatalogInv, Room
  <2> QED BY <1>8, <2>6, <2>7, <2>8, <2>10, <2>11 DEF CatalogInv
<1> QED BY <1>9, <1>10

\* The steps before a commit.
LEMMA EditStep ==
    ASSUME CatalogInv, NEW r \in CatalogRequests,
           \/ OpenRequest(r) \/ CreateProduct(r) \/ ReadProduct(r) \/ UpdateProduct(r)
           \/ StampPrice(r) \/ ReplacePrice(r)
    PROVE  CatalogInv'
<1> DEFINE req == requests[r]
<1>1. /\ req \in Requests /\ req.from <= now /\ now \in Nat
      /\ req.closes # 0 =>
           /\ req.phase \in {"stamped", "ready"}
           /\ req.closes \in Inserted
           /\ prices[req.closes].from <= req.from
      /\ store \in [status : StoreStatuses, accepting : BOOLEAN, version : Nat]
      /\ product \in [lifecycle : Lifecycles, visible : BOOLEAN]
      /\ prices \in [PriceIds -> PriceRows]
      /\ NextCatalogVersion(req.base) \in Nat
  BY RequestFacts
<1>2. req.phase \in {"opened", "held", "stamped", "ready"} => r \in Pending
  BY DEF Pending, Inserting
<1>3. req.kind \in {"update", "price"} /\ req.phase = "read" => r \in Pending
  BY DEF Pending, Inserting
<1>4. CASE OpenRequest(r)
  <2>1. PICK kind \in {"create", "update", "price"} :
          Becomes(r, [Idle EXCEPT !.kind = kind, !.phase = "opened", !.base = store.version])
    BY <1>4 DEF OpenRequest
  <2> DEFINE next == [Idle EXCEPT !.kind = kind, !.phase = "opened", !.base = store.version]
  <2>2. /\ next \in Requests /\ next.phase = "opened" /\ next.from = 0 /\ next.closes = 0
    BY <1>1, IdleRequest DEF Requests, AllKinds, CatalogPhases
  <2>3. UNCHANGED <<now, store, product, prices>> /\ requested < MaxRequests
        /\ requested' = requested + 1
    BY <1>4 DEF OpenRequest
  <2> HIDE DEF next
  <2>4. Becomes(r, next)
    BY <2>1 DEF next
  <2> QED BY <1>1, <2>2, <2>3, <2>4, RequestStep
<1>5. CASE CreateProduct(r)
  <2>1. PICK lifecycle \in {"DRAFT", "PUBLISHED", "UNPUBLISHED"},
             visible \in BOOLEAN, priced \in BOOLEAN :
          Becomes(r, [req EXCEPT !.phase = "ready", !.lifecycle = lifecycle,
                                 !.visible = visible, !.priced = priced,
                                 !.from = now,
                                 !.version = NextCatalogVersion(req.base)])
    BY <1>5 DEF CreateProduct
  <2> DEFINE next == [req EXCEPT !.phase = "ready", !.lifecycle = lifecycle,
                                 !.visible = visible, !.priced = priced,
                                 !.from = now,
                                 !.version = NextCatalogVersion(req.base)]
  <2>2. next \in Requests /\ next.phase = "ready" /\ next.from = now /\ next.closes = req.closes
    BY <1>1 DEF Requests, CatalogPhases, Lifecycles
  <2>3. UNCHANGED <<now, store, product, prices, requested>> /\ req.phase = "opened"
    BY <1>5 DEF CreateProduct
  <2> HIDE DEF next
  <2>4. Becomes(r, next)
    BY <2>1 DEF next
  <2> QED BY <1>1, <1>2, <2>2, <2>3, <2>4, RequestStep
<1>6. CASE ReadProduct(r)
  <2>1. PICK lifecycle \in Allowed(product.lifecycle), visible \in BOOLEAN, priced \in BOOLEAN :
          Becomes(r, [req EXCEPT !.phase = "read", !.lifecycle = lifecycle,
                                 !.visible = visible, !.priced = priced])
    BY <1>6 DEF ReadProduct
  <2> DEFINE next == [req EXCEPT !.phase = "read", !.lifecycle = lifecycle,
                                 !.visible = visible, !.priced = priced]
  <2>2. lifecycle \in Lifecycles
    BY <1>1 DEF Allowed, Lifecycles
  <2>3. /\ next \in Requests /\ next.phase = "read" /\ next.from = req.from
        /\ next.closes = req.closes /\ next.kind = req.kind
    BY <1>1, <2>2 DEF Requests, CatalogPhases
  <2>4. /\ UNCHANGED <<now, store, product, prices, requested>>
        /\ req.phase = "opened" /\ req.kind \in {"update", "price"}
    BY <1>6 DEF ReadProduct
  <2> HIDE DEF next
  <2>5. Becomes(r, next)
    BY <2>1 DEF next
  <2> QED BY <1>1, <1>2, <2>3, <2>4, <2>5, RequestStep
<1>7. CASE UpdateProduct(r)
  <2> DEFINE held == [req EXCEPT !.phase = "held"]
             ready == [req EXCEPT !.phase = "ready", !.version = NextCatalogVersion(req.base)]
  <2>1. /\ held \in Requests /\ held.phase = "held" /\ held.from = req.from
        /\ held.closes = req.closes
        /\ ready \in Requests /\ ready.phase = "ready" /\ ready.from = req.from
        /\ ready.closes = req.closes
    BY <1>1 DEF Requests, CatalogPhases
  <2>2. /\ UNCHANGED <<now, store, product, prices, requested>>
        /\ req.phase = "read" /\ req.kind = "update"
        /\ Becomes(r, held) \/ Becomes(r, ready)
    BY <1>7 DEF UpdateProduct
  <2> HIDE DEF held, ready
  <2> QED BY <1>1, <1>3, <2>1, <2>2, RequestStep
<1>8. CASE StampPrice(r)
  <2>1. PICK p \in Current \cup {0} :
          Becomes(r, [req EXCEPT !.phase = "stamped", !.closes = p, !.from = now])
    BY <1>8 DEF StampPrice
  <2> DEFINE next == [req EXCEPT !.phase = "stamped", !.closes = p, !.from = now]
  <2>2. p # 0 => p \in Inserted /\ prices[p].from <= now
    BY DEF Current, Inserted, CatalogInv, InTime
  <2>3. p \in PriceIds \cup {0}
    BY DEF Current
  <2>4. next \in Requests /\ next.phase = "stamped" /\ next.from = now /\ next.closes = p
    BY <1>1, <2>3 DEF Requests, CatalogPhases
  <2>5. /\ UNCHANGED <<now, store, product, prices, requested>>
        /\ r \in Pending
    BY <1>2, <1>3, <1>8 DEF StampPrice, ReadyForPrice
  <2> HIDE DEF next
  <2>6. Becomes(r, next)
    BY <2>1 DEF next
  <2> QED BY <1>1, <2>2, <2>4, <2>5, <2>6, RequestStep
<1>9. CASE ReplacePrice(r)
  <2> DEFINE next == [req EXCEPT !.phase = "ready", !.version = NextCatalogVersion(req.base)]
  <2>1. /\ next \in Requests /\ next.phase = "ready" /\ next.from = req.from
        /\ next.closes = req.closes
    BY <1>1 DEF Requests, CatalogPhases
  <2>2. /\ UNCHANGED <<now, store, product, prices, requested>>
        /\ req.phase = "stamped" /\ Becomes(r, next)
    BY <1>9 DEF ReplacePrice
  <2> HIDE DEF next
  <2> QED BY <1>1, <1>2, <2>1, <2>2, RequestStep
<1> QED BY <1>4, <1>5, <1>6, <1>7, <1>8, <1>9

LEMMA OperationsStep ==
    ASSUME CatalogInv, NEW r \in CatalogRequests, ReadOperations(r) \/ WriteOperations(r)
    PROVE  CatalogInv'
<1>1. /\ requests[r] \in Requests /\ now \in Nat
      /\ store \in [status : StoreStatuses, accepting : BOOLEAN, version : Nat]
      /\ product \in [lifecycle : Lifecycles, visible : BOOLEAN]
  BY RequestFacts
<1>2. CASE ReadOperations(r)
  <2>1. PICK status \in NextStatuses(store.status), accepting \in BOOLEAN :
         Becomes(r, [Idle EXCEPT !.kind = "operations", !.phase = "read",
                                 !.status = status, !.accepting = accepting,
                                 !.version = now])
    BY <1>2 DEF ReadOperations
  <2> DEFINE next == [Idle EXCEPT !.kind = "operations", !.phase = "read",
                                  !.status = status, !.accepting = accepting,
                                  !.version = now]
  <2>2. status \in StoreStatuses
    BY <1>1 DEF NextStatuses, StoreStatuses
  <2>3. /\ next \in Requests /\ next.phase = "read" /\ next.from = 0 /\ next.closes = 0
        /\ next.kind = "operations"
    BY <1>1, <2>2, IdleRequest DEF Requests, AllKinds, CatalogPhases
  <2>4. UNCHANGED <<now, store, product, prices>> /\ requested < MaxRequests
        /\ requested' = requested + 1
    BY <1>2 DEF ReadOperations
  <2> HIDE DEF next
  <2>5. Becomes(r, next)
    BY <2>1 DEF next
  <2> QED BY <1>1, <2>3, <2>4, <2>5, RequestStep
<1>3. CASE WriteOperations(r)
  <2>1. /\ UNCHANGED <<now, product, prices, requested>> /\ Becomes(r, Idle)
        /\ store' = [status |-> requests[r].status, accepting |-> requests[r].accepting,
                     version |-> requests[r].version]
    BY <1>3 DEF WriteOperations
  <2>2. store' \in [status : StoreStatuses, accepting : BOOLEAN, version : Nat]
    BY <1>1, <2>1 DEF Requests
  <2> QED BY <1>1, <2>1, <2>2, RequestEnds
<1> QED BY <1>2, <1>3

\* The newest price committed bounds what the order's transaction sees first.
LEMMA NewestPrice ==
    ASSUME CatalogInv
    PROVE  LET base == Max({prices[p].from : p \in Inserted} \cup {0})
           IN  /\ base \in Nat
               /\ base # 0 => \E p \in Inserted : prices[p].from >= base
<1> DEFINE S == {prices[p].from : p \in Inserted} \cup {0}
<1>1. \A p \in Inserted : prices[p].from \in Nat
  BY DEF CatalogInv, CatalogTypeOK, PriceRows, Inserted
<1>2. \E x \in S : \A y \in S : x >= y
  <2>1. CASE Inserted = {}
    BY <2>1
  <2>2. CASE Inserted # {}
    <3>1. PICK p \in Inserted : \A q \in Inserted : prices[q].from <= prices[p].from
      BY <2>2 DEF CatalogInv, NewestIsQuoted, Latest
    <3>2. prices[p].from \in S /\ \A y \in S : prices[p].from >= y
      BY <1>1, <3>1
    <3> QED BY <3>2
  <2> QED BY <2>1, <2>2
<1> HIDE DEF S
<1>3. Max(S) \in S
  BY <1>2 DEF Max
<1>4. \/ Max(S) = 0
      \/ \E p \in Inserted : Max(S) = prices[p].from
  BY <1>3 DEF S
<1>5. Max(S) \in Nat /\ (Max(S) # 0 => \E p \in Inserted : prices[p].from >= Max(S))
  BY <1>1, <1>4
<1> QED BY <1>5 DEF S

\* An order reads the store, then quotes a price.
LEMMA OrderStep ==
    ASSUME CatalogInv, NEW r \in CatalogRequests, ReadStore(r) \/ Quote(r)
    PROVE  CatalogInv'
<1> DEFINE req == requests[r]
<1>1. /\ req \in Requests /\ now \in Nat
      /\ req.closes # 0 => req.phase \in {"stamped", "ready"}
      /\ store \in [status : StoreStatuses, accepting : BOOLEAN, version : Nat]
      /\ product \in [lifecycle : Lifecycles, visible : BOOLEAN]
      /\ prices \in [PriceIds -> PriceRows]
  BY RequestFacts
<1>2. CASE ReadStore(r)
  <2> DEFINE base == Max({prices[p].from : p \in Inserted} \cup {0})
             next == [Idle EXCEPT !.phase = "read", !.base = base]
  <2>1. base \in Nat /\ (base # 0 => \E p \in Inserted : prices[p].from >= base)
    BY NewestPrice
  <2>2. /\ UNCHANGED <<now, store, product, prices>> /\ Becomes(r, next)
        /\ requested' = requested + 1 /\ requested < MaxRequests
    BY <1>2 DEF ReadStore
  <2> HIDE DEF base
  <2>3. /\ next \in Requests /\ next.phase = "read" /\ next.from = 0 /\ next.closes = 0
        /\ next.base = base
    BY <2>1, IdleRequest DEF Requests, CatalogPhases
  <2> HIDE DEF next
  <2> QED BY <1>1, <2>1, <2>2, <2>3, RequestStep
<1>3. CASE Quote(r)
  <2>1. PICK p \in Latest(Current) :
          Becomes(r, [req EXCEPT !.phase = "quoted", !.from = prices[p].from])
    BY <1>3 DEF Quote, QuoteFrom
  <2> DEFINE next == [req EXCEPT !.phase = "quoted", !.from = prices[p].from]
  <2>2. req.kind = "order" /\ req.phase = "read"
        /\ UNCHANGED <<now, store, product, prices, requested>>
    BY <1>3 DEF Quote, QuoteFrom
  <2>3. p \in PriceIds /\ p \in Inserted /\ prices[p].from \in Nat /\ prices[p].from <= now
    BY <1>1 DEF Latest, Current, Inserted, PriceRows, CatalogInv, InTime
  <2>4. \A q \in Inserted : prices[q].from \in Nat /\ prices[q].from <= prices[p].from
    <3>1. PICK l \in Current : \A q \in Inserted : prices[q].from <= prices[l].from
      BY <2>3 DEF CatalogInv, NewestIsQuoted, Latest
    <3>2. prices[l].from <= prices[p].from /\ prices[l].from \in Nat
      BY <1>1 DEF Latest, Current, PriceRows
    <3>3. \A q \in Inserted : prices[q].from \in Nat
      BY <1>1 DEF Inserted, PriceRows
    <3> QED BY <2>3, <3>1, <3>2, <3>3
  <2>5. prices[p].from >= req.base
    <3>1. req.base \in Nat
      BY <1>1 DEF Requests
    <3>2. req.base # 0 => \E q \in Inserted : prices[q].from >= req.base
      BY <2>2 DEF CatalogInv, Bases
    <3> QED BY <2>3, <2>4, <3>1, <3>2
  <2>6. /\ next \in Requests /\ next.phase = "quoted" /\ next.from = prices[p].from
        /\ next.base = req.base /\ next.closes = 0
    BY <1>1, <2>2, <2>3 DEF Requests, CatalogPhases
  <2> HIDE DEF next
  <2>7. Becomes(r, next)
    BY <2>1 DEF next
  <2> QED BY <1>1, <2>2, <2>3, <2>5, <2>6, <2>7, RequestStep DEF Inserting
<1> QED BY <1>2, <1>3

\* Time passes.
LEMMA TickStep ==
    ASSUME CatalogInv, Tick
    PROVE  CatalogInv'
<1>1. /\ now \in Nat /\ now' = now + 1
      /\ UNCHANGED <<store, product, prices, requests, requested>>
  BY DEF Tick, CatalogInv, CatalogTypeOK
<1>2. CatalogTypeOK'
  BY <1>1 DEF CatalogInv, CatalogTypeOK
<1>3. InTime'
  <2>1. \A p \in PriceIds : prices[p].from \in Nat /\ prices[p].from <= now
    BY DEF CatalogInv, CatalogTypeOK, PriceRows, InTime
  <2>2. \A r \in CatalogRequests : requests[r].from \in Nat /\ requests[r].from <= now
    BY DEF CatalogInv, CatalogTypeOK, InTime
  <2> QED BY <1>1, <2>1, <2>2 DEF InTime
<1>4. Replaces' /\ Bases' /\ NewestIsQuoted'
  BY <1>1 DEF CatalogInv, Replaces, Bases, NewestIsQuoted, Inserted, Current, Latest
<1>5. Room'
  BY <1>1 DEF CatalogInv, Room, Inserted, Pending
<1> QED BY <1>2, <1>3, <1>4, <1>5 DEF CatalogInv

\* The invariant holds at first.
LEMMA CatalogInitInv == CatalogInit => CatalogInv
<1> SUFFICES ASSUME CatalogInit PROVE CatalogInv
  OBVIOUS
<1>1. /\ now = 0 /\ requested = 0 /\ requests = [r \in CatalogRequests |-> Idle]
      /\ store = [status |-> "OPEN", accepting |-> TRUE, version |-> 0]
  BY DEF CatalogInit
<1>9. product \in [lifecycle : Lifecycles, visible : BOOLEAN]
  <2>1. \/ product = [lifecycle |-> "NONE", visible |-> FALSE]
        \/ product = [lifecycle |-> "PUBLISHED", visible |-> TRUE]
    BY DEF CatalogInit
  <2>2. [lifecycle |-> "NONE", visible |-> FALSE]
          \in [lifecycle : Lifecycles, visible : BOOLEAN]
    BY DEF Lifecycles
  <2>3. [lifecycle |-> "PUBLISHED", visible |-> TRUE]
          \in [lifecycle : Lifecycles, visible : BOOLEAN]
    BY DEF Lifecycles
  <2> QED BY <2>1, <2>2, <2>3
<1>2. 1 \in PriceIds
  BY CatalogAssumption DEF PriceIds
<1>3. /\ prices \in [PriceIds -> PriceRows]
      /\ \A p \in PriceIds : prices[p].from = 0
      /\ \A p \in PriceIds : prices[p].state # "NONE" => p = 1 /\ prices[p].state = "CURRENT"
  BY DEF CatalogInit, PriceRows, NoPrice
<1>4. Inserted \subseteq {1} /\ Inserted \subseteq Current
  BY <1>3 DEF Inserted, Current
<1>5. CatalogTypeOK
  BY <1>1, <1>3, <1>9, CatalogAssumption, IdleRequest DEF CatalogTypeOK, Requests, StoreStatuses
<1>6. InTime /\ Replaces /\ Bases
  BY <1>1, <1>3, IdleRequest DEF InTime, Replaces, Bases
<1>7. Room
  <2>1. Pending = {}
    BY <1>1, IdleRequest DEF Pending, Inserting
  <2>2. Cardinality(Inserted) <= 1 /\ Cardinality(Inserted) \in Nat
    <3>1. IsFiniteSet({1}) /\ Cardinality({1}) = 1
      BY FS_Singleton
    <3> QED BY <1>4, <3>1, FS_Subset, FS_CardinalityType
  <2>3. Cardinality(Pending) = 0
    BY <2>1, FS_EmptySet
  <2> QED BY <1>1, <2>2, <2>3 DEF Room
<1>8. NewestIsQuoted
  <2>1. \A p, q \in Inserted : prices[q].from <= prices[p].from
    BY <1>3 DEF Inserted
  <2> QED BY <1>1, <1>4, <2>1, IdleRequest DEF NewestIsQuoted, Latest
<1> QED BY <1>5, <1>6, <1>7, <1>8 DEF CatalogInv

\* Every step of the catalog keeps its invariant.
LEMMA CatalogNextInv == CatalogInv /\ [CatalogNext]_catalogVars => CatalogInv'
<1> SUFFICES ASSUME CatalogInv, [CatalogNext]_catalogVars PROVE CatalogInv'
  OBVIOUS
<1>1. /\ store \in [status : StoreStatuses, accepting : BOOLEAN, version : Nat]
      /\ product \in [lifecycle : Lifecycles, visible : BOOLEAN]
  BY DEF CatalogInv, CatalogTypeOK
<1>2. ASSUME NEW r \in CatalogRequests,
             Refuse(r) \/ Invalidate(r) \/ PlaceOrder(r) \/ Abandon(r)
      PROVE  CatalogInv'
  <2>1. Becomes(r, Idle) /\ UNCHANGED <<now, store, product, prices, requested>>
    BY <1>2 DEF Refuse, Invalidate, PlaceOrder, Abandon
  <2> QED BY <1>1, <2>1, RequestEnds
<1>3. ASSUME NEW r \in CatalogRequests, CatalogStep(r) \/ Invalidate(r)
      PROVE  CatalogInv'
  BY <1>2, <1>3, EditStep, CommitStep, OperationsStep, OrderStep DEF CatalogStep
<1>4. CASE UNCHANGED catalogVars
  BY <1>4 DEF catalogVars, CatalogInv, CatalogTypeOK, InTime, Replaces, Bases, Room,
              Pending, NewestIsQuoted, Inserted, Current, Latest
<1> QED BY <1>3, <1>4, TickStep DEF CatalogNext

-------------------------------------------------------------------------------
(* The menu and its cache.                                                 *)

BrowserRows == [phase : {"idle", "get", "list", "set", "served"},
                replica : Replicas \cup {"none"}, version : Nat, seen : Nat, menu : Nat]
Links == [up : BOOLEAN, renamed : BOOLEAN]

\* The menu is no older than one that the stores row had with that version.
Shown(version, menu) == \E h \in history : h[1] = version /\ h[2] <= menu

GoodEntry(e) == /\ e.place \in Places /\ e.key \in Keys /\ e.menu \in 0..edits
                /\ Shown(e.key.version, e.menu)

\* A request knows the menu of the moment it read the stores row.
GoodBrowser(w) ==
    /\ w.phase \in {"get", "list", "set", "served"} /\ w.replica \in Replicas
    /\ <<w.version, w.seen>> \in history
    /\ w.phase = "set" => w.seen <= w.menu /\ w.menu <= edits
    /\ w.phase = "served" => Shown(w.version, w.menu)

BrowseInv ==
    /\ CatalogInv
    /\ BrowseTypeOK
    /\ browsers \in [Browsers -> BrowserRows]
    /\ \A h \in history : h[2] <= edits
    /\ \A e \in entries : GoodEntry(e)
    /\ \A b \in Browsers : browsers[b] = AtRest \/ GoodBrowser(browsers[b])

\* A browse request at rest is a row like any other.
LEMMA AtRestRow == AtRest \in BrowserRows /\ AtRest.phase = "idle"
BY DEF AtRest, BrowserRows

\* What a step keeps when history only grows, and every entry and every request
\* is as before, gone, or good.
LEMMA BrowseKept ==
    ASSUME BrowseInv, CatalogInv',
           history \subseteq history', history' \subseteq Nat \X Nat,
           edits' \in Nat, edits <= edits',
           \A h \in history' : h[2] <= edits',
           <<store'.version, edits'>> \in history',
           generation' \in [Replicas -> Nat], activeKey' \in [Replicas -> Keys \cup {NoKey}],
           link' \in [Replicas -> Links], browses' \in 0..MaxBrowses, outages' \in 0..MaxOutages,
           browsers' \in [Browsers -> BrowserRows],
           \A e \in entries' : e \in entries \/ GoodEntry(e),
           \A b \in Browsers : \/ browsers'[b] = browsers[b]
                               \/ browsers'[b] = AtRest
                               \/ GoodBrowser(browsers'[b])
    PROVE  BrowseInv'
<1>1. edits \in Nat
  BY DEF BrowseInv, BrowseTypeOK
<1>2. \A v, m : Shown(v, m) => \E h \in history' : h[1] = v /\ h[2] <= m
  BY DEF Shown
<1>3. ASSUME NEW e \in entries'
      PROVE  /\ e.place \in Places /\ e.key \in Keys /\ e.menu \in 0..edits'
             /\ \E h \in history' : h[1] = e.key.version /\ h[2] <= e.menu
  <2>1. GoodEntry(e)
    BY DEF BrowseInv
  <2>2. e.menu \in 0..edits'
    BY <1>1, <2>1 DEF GoodEntry
  <2> QED BY <1>2, <2>1, <2>2 DEF GoodEntry
<1>4. ASSUME NEW b \in Browsers, browsers'[b] # AtRest
      PROVE  LET w == browsers'[b]
             IN  /\ w.phase \in {"get", "list", "set", "served"} /\ w.replica \in Replicas
                 /\ <<w.version, w.seen>> \in history'
                 /\ w.phase = "set" => w.seen <= w.menu /\ w.menu <= edits'
                 /\ w.phase = "served" => \E h \in history' : h[1] = w.version /\ h[2] <= w.menu
  <2>1. GoodBrowser(browsers'[b])
    BY <1>4 DEF BrowseInv
  <2>2. browsers'[b].menu \in Nat
    BY DEF BrowserRows
  <2>3. browsers'[b].menu <= edits => browsers'[b].menu <= edits'
    BY <1>1, <2>2
  <2> QED BY <1>2, <2>1, <2>3 DEF GoodBrowser
<1>5. BrowseTypeOK'
  <2>1. \A b \in Browsers :
          /\ browsers'[b].phase \in {"idle", "get", "list", "set", "served"}
          /\ browsers'[b].phase = "idle" <=> browsers'[b] = AtRest
    BY <1>4, AtRestRow
  <2>2. CatalogTypeOK'
    BY DEF CatalogInv
  <2> QED BY <1>3, <2>1, <2>2 DEF BrowseTypeOK, Links
<1>6. (\A e \in entries : GoodEntry(e))'
  BY <1>3 DEF GoodEntry, Shown
<1>7. (\A b \in Browsers : browsers[b] = AtRest \/ GoodBrowser(browsers[b]))'
  BY <1>4 DEF GoodBrowser, Shown
<1> QED BY <1>5, <1>6, <1>7 DEF BrowseInv

\* The types of the cache, for citing.
LEMMA BrowseTypes ==
    ASSUME BrowseInv
    PROVE  /\ edits \in Nat /\ history \subseteq Nat \X Nat
           /\ <<store.version, edits>> \in history
           /\ store.version \in Nat
           /\ generation \in [Replicas -> Nat]
           /\ activeKey \in [Replicas -> Keys \cup {NoKey}]
           /\ link \in [Replicas -> Links]
           /\ browsers \in [Browsers -> BrowserRows]
           /\ browses \in 0..MaxBrowses /\ outages \in 0..MaxOutages
           /\ MaxBrowses \in Nat /\ MaxOutages \in Nat
BY BrowseAssumption
DEF BrowseInv, BrowseTypeOK, CatalogInv, CatalogTypeOK, Links

\* An operation of the cache only keeps what was there and puts what it is given.
LEMMA AnswersKeep ==
    ASSUME BrowseInv, NEW n \in Replicas, NEW place \in {Redis(n), Memory(n)},
           NEW gone, NEW put, Answers(n, place, gone, put)
    PROVE  /\ link' \in [Replicas -> Links] /\ outages' \in 0..MaxOutages
           /\ \A e \in entries' :
                \/ e \in entries
                \/ \E p \in put : \E at \in Places : e = Holding(at, p.key, p.menu)
<1>1. /\ link \in [Replicas -> Links] /\ outages \in 0..MaxOutages /\ MaxOutages \in Nat
  BY BrowseTypes
<1>2. Redis(n) \in Places /\ Memory(n) \in Places
  BY DEF Redis, Memory, Places
<1>3. /\ link' \in [Replicas -> Links] /\ outages' \in 0..MaxOutages
  <2>1. CASE UNCHANGED <<link, outages>>
    BY <1>1, <2>1
  <2>2. CASE MarkUnavailable(n)
    <3>1. outages < MaxOutages /\ outages' = outages + 1
          /\ link' = [link EXCEPT ![n] = [up |-> FALSE, renamed |-> TRUE]]
      BY <2>2 DEF MarkUnavailable
    <3>2. [up |-> FALSE, renamed |-> TRUE] \in Links
      BY DEF Links
    <3> QED BY <1>1, <3>1, <3>2
  <2> QED BY <2>1, <2>2 DEF Answers
<1>4. ASSUME NEW es, NEW at \in Places, NEW e \in Done(es, at, gone, put)
      PROVE  e \in es \/ \E p \in put : \E q \in Places : e = Holding(q, p.key, p.menu)
  BY DEF Done
<1>5. ASSUME NEW e \in entries'
      PROVE  \/ e \in entries
             \/ \E p \in put : \E at \in Places : e = Holding(at, p.key, p.menu)
  <2>1. CASE entries' = Done(entries, place, gone, put)
    BY <1>2, <1>4, <2>1
  <2>2. ASSUME NEW es \in {entries, Done(entries, Redis(n), gone, put)},
               entries' = Done(Abandoned(n, es), place, gone, put)
        PROVE  \/ e \in entries
               \/ \E p \in put : \E at \in Places : e = Holding(at, p.key, p.menu)
    <3>1. \/ e \in Abandoned(n, es)
          \/ \E p \in put : \E at \in Places : e = Holding(at, p.key, p.menu)
      BY <1>2, <1>4, <2>2
    <3>2. e \in Abandoned(n, es) => e \in es
      BY DEF Abandoned
    <3> QED BY <1>2, <1>4, <2>2, <3>1, <3>2
  <2> QED BY <2>1, <2>2 DEF Answers
<1> QED BY <1>3, <1>5

\* A request of the catalog: the version and the menu it leaves go into history.
LEMMA CatalogMovesStep ==
    ASSUME BrowseInv, NEW r \in CatalogRequests, CatalogMoves(r)
    PROVE  BrowseInv'
<1>1. CatalogInv'
  BY CatalogNextInv DEF CatalogMoves, CatalogNext, BrowseInv
<1>2. /\ edits' = edits \/ edits' = edits + 1
      /\ history' = history \cup {<<store'.version, edits'>>}
      /\ UNCHANGED <<cacheVars, browsers, browses, outages>>
  BY DEF CatalogMoves
<1>3. edits \in Nat /\ edits' \in Nat /\ edits <= edits' /\ edits' <= edits'
  BY <1>2, BrowseTypes
<1>4. store'.version \in Nat
  BY <1>1 DEF CatalogInv, CatalogTypeOK
<1>5. history' \subseteq Nat \X Nat
  BY <1>2, <1>3, <1>4, BrowseTypes
<1>6. \A h \in history' : h[2] <= edits'
  <2>1. \A h \in history : h[2] \in Nat /\ h[2] <= edits
    BY BrowseTypes DEF BrowseInv
  <2>2. \A h \in history : h[2] <= edits'
    BY <1>3, <2>1
  <2> QED BY <1>2, <1>3, <2>2
<1>7. UNCHANGED <<entries, generation, activeKey, link, browsers, browses, outages>>
  BY <1>2 DEF cacheVars
<1> QED BY <1>1, <1>2, <1>3, <1>5, <1>6, <1>7, BrowseTypes, BrowseKept

\* A step that leaves the catalog, the menu and its history alone.
LEMMA MenuKept ==
    ASSUME BrowseInv, CatalogInv', store' = store, UNCHANGED <<edits, history>>,
           generation' \in [Replicas -> Nat], activeKey' \in [Replicas -> Keys \cup {NoKey}],
           link' \in [Replicas -> Links], browses' \in 0..MaxBrowses, outages' \in 0..MaxOutages,
           browsers' \in [Browsers -> BrowserRows],
           \A e \in entries' : e \in entries \/ GoodEntry(e),
           \A b \in Browsers : \/ browsers'[b] = browsers[b]
                               \/ browsers'[b] = AtRest
                               \/ GoodBrowser(browsers'[b])
    PROVE  BrowseInv'
<1>1. edits \in Nat /\ edits <= edits /\ history \subseteq Nat \X Nat
      /\ <<store.version, edits>> \in history
  BY BrowseTypes
<1>2. \A h \in history : h[2] <= edits
  BY DEF BrowseInv
<1> QED BY <1>1, <1>2, BrowseKept

\* The catalog is as it was.
LEMMA CatalogRests ==
    ASSUME BrowseInv, UNCHANGED catalogVars
    PROVE  CatalogInv' /\ store' = store
BY CatalogNextInv DEF BrowseInv, catalogVars

\* Invalidating removes at most one entry.
LEMMA InvalidateStep ==
    ASSUME BrowseInv, NEW r \in CatalogRequests, NEW n \in Replicas, InvalidateOn(r, n)
    PROVE  BrowseInv'
<1>1. CatalogInv' /\ store' = store
  BY CatalogNextInv DEF InvalidateOn, CatalogNext, BrowseInv, Invalidate
<1>2. /\ generation' = [generation EXCEPT ![n] = @ + 1]
      /\ activeKey' = [activeKey EXCEPT ![n] = NoKey]
      /\ UNCHANGED <<edits, history, browsers, browses>>
  BY DEF InvalidateOn
<1>3. generation' \in [Replicas -> Nat] /\ activeKey' \in [Replicas -> Keys \cup {NoKey}]
  BY <1>2, BrowseTypes
<1>4. /\ link' \in [Replicas -> Links] /\ outages' \in 0..MaxOutages
      /\ \A e \in entries' : e \in entries
  <2>1. CASE UNCHANGED <<entries, link, outages>>
    BY <2>1, BrowseTypes
  <2>2. ASSUME NEW place \in {Redis(n), Memory(n)}, Answers(n, place, {activeKey[n]}, {})
        PROVE  /\ link' \in [Replicas -> Links] /\ outages' \in 0..MaxOutages
               /\ \A e \in entries' : e \in entries
    BY <2>2, AnswersKeep
  <2> QED BY <2>1, <2>2 DEF InvalidateOn
<1> QED BY <1>1, <1>2, <1>3, <1>4, BrowseTypes, MenuKept

\* A step of the requests that browse, one at a time.
LEMMA BrowserMoves ==
    ASSUME BrowseInv, NEW b \in Browsers, NEW w,
           browsers' = [browsers EXCEPT ![b] = w],
           w = AtRest \/ (w \in BrowserRows /\ GoodBrowser(w)),
           UNCHANGED <<catalogVars, edits, history, generation>>,
           activeKey' \in [Replicas -> Keys \cup {NoKey}],
           link' \in [Replicas -> Links], browses' \in 0..MaxBrowses, outages' \in 0..MaxOutages,
           \A e \in entries' : e \in entries \/ GoodEntry(e)
    PROVE  BrowseInv'
<1>1. w \in BrowserRows /\ browsers \in [Browsers -> BrowserRows]
  BY AtRestRow, BrowseTypes
<1>2. /\ browsers' \in [Browsers -> BrowserRows]
      /\ \A c \in Browsers : \/ browsers'[c] = browsers[c]
                              \/ browsers'[c] = AtRest
                              \/ GoodBrowser(browsers'[c])
  BY <1>1
<1>3. CatalogInv' /\ store' = store /\ generation' \in [Replicas -> Nat]
  BY CatalogRests, BrowseTypes
<1> QED BY <1>2, <1>3, MenuKept

\* What the invariant says of one request that is not at rest.
LEMMA BrowserFacts ==
    ASSUME BrowseInv, NEW b \in Browsers, browsers[b].phase # "idle"
    PROVE  /\ browsers[b] \in BrowserRows /\ GoodBrowser(browsers[b])
           /\ browsers[b].replica \in Replicas
           /\ browsers[b].version \in Nat /\ browsers[b].seen \in Nat
           /\ \A v \in Nat : CacheKey(browsers[b].replica, v) \in Keys
           /\ CacheKey(browsers[b].replica, browsers[b].version).version = browsers[b].version
<1>1. browsers[b] \in BrowserRows /\ GoodBrowser(browsers[b])
  BY AtRestRow DEF BrowseInv
<1>2. generation \in [Replicas -> Nat]
  BY BrowseTypes
<1> QED BY <1>1, <1>2 DEF GoodBrowser, BrowserRows, CacheKey, Keys

\* A request begins with the stores row, so it knows the menu of that version.
LEMMA BrowseStep ==
    ASSUME BrowseInv, NEW b \in Browsers, NEW n \in Replicas, Browse(b, n)
    PROVE  BrowseInv'
<1> DEFINE w == [phase |-> "get", replica |-> n, version |-> store.version,
                 seen |-> edits, menu |-> 0]
<1>1. /\ browsers' = [browsers EXCEPT ![b] = w]
      /\ browses' = browses + 1 /\ browses < MaxBrowses
      /\ UNCHANGED <<catalogVars, edits, history, generation, entries, activeKey, link, outages>>
  BY DEF Browse, cacheVars
<1>2. w \in BrowserRows /\ GoodBrowser(w)
  BY BrowseTypes DEF BrowserRows, GoodBrowser
<1>3. browses' \in 0..MaxBrowses
  BY <1>1, BrowseTypes
<1> HIDE DEF w
<1> QED BY <1>1, <1>2, <1>3, BrowseTypes, BrowserMoves

\* What the cache answers was good for the version of the key.
LEMMA GetStep ==
    ASSUME BrowseInv, NEW b \in Browsers, Get(b)
    PROVE  BrowseInv'
<1> DEFINE w == browsers[b]
           n == w.replica
           key == CacheKey(n, w.version)
<1>1. /\ w \in BrowserRows /\ GoodBrowser(w) /\ n \in Replicas /\ w.phase = "get"
      /\ key \in Keys /\ key.version = w.version
  BY BrowserFacts DEF Get
<1>2. PICK place \in {Redis(n), Memory(n)} :
        /\ Answers(n, place, {}, {})
        /\ \/ \E e \in {x \in entries : x.place = place /\ x.key = key} :
                /\ browsers' = [browsers EXCEPT ![b].phase = "served", ![b].menu = e.menu]
                /\ activeKey' = [activeKey EXCEPT ![n] = key]
           \/ /\ browsers' = [browsers EXCEPT ![b].phase = "list"]
              /\ UNCHANGED activeKey
  BY DEF Get
<1>3. UNCHANGED <<catalogVars, edits, history, generation, browses>>
  BY DEF Get
<1>4. /\ link' \in [Replicas -> Links] /\ outages' \in 0..MaxOutages
      /\ \A e \in entries' : e \in entries
  BY <1>1, <1>2, AnswersKeep
<1>5. ASSUME NEW e \in entries, e.key = key,
             browsers' = [browsers EXCEPT ![b].phase = "served", ![b].menu = e.menu],
             activeKey' = [activeKey EXCEPT ![n] = key]
      PROVE  BrowseInv'
  <2> DEFINE next == [w EXCEPT !.phase = "served", !.menu = e.menu]
  <2>1. browsers' = [browsers EXCEPT ![b] = next]
    BY <1>5, BrowseTypes
  <2>2. GoodEntry(e) /\ e.menu \in Nat
    BY BrowseTypes DEF BrowseInv, GoodEntry
  <2>3. next \in BrowserRows /\ GoodBrowser(next)
    BY <1>1, <1>5, <2>2 DEF BrowserRows, GoodBrowser, GoodEntry
  <2>4. activeKey' \in [Replicas -> Keys \cup {NoKey}]
    BY <1>1, <1>5, BrowseTypes
  <2> HIDE DEF next
  <2> QED BY <1>3, <1>4, <2>1, <2>3, <2>4, BrowseTypes, BrowserMoves
<1>6. ASSUME browsers' = [browsers EXCEPT ![b].phase = "list"], UNCHANGED activeKey
      PROVE  BrowseInv'
  <2> DEFINE next == [w EXCEPT !.phase = "list"]
  <2>1. browsers' = [browsers EXCEPT ![b] = next]
    BY <1>6, BrowseTypes
  <2>2. next \in BrowserRows /\ GoodBrowser(next)
    BY <1>1 DEF BrowserRows, GoodBrowser
  <2> HIDE DEF next
  <2> QED BY <1>3, <1>4, <1>6, <2>1, <2>2, BrowseTypes, BrowserMoves
<1> QED BY <1>2, <1>5, <1>6

\* The rows are read after the stores row: the menu is no older.
LEMMA ListStep ==
    ASSUME BrowseInv, NEW b \in Browsers, List(b)
    PROVE  BrowseInv'
<1> DEFINE w == browsers[b]
           next == [w EXCEPT !.phase = "set", !.menu = edits]
<1>1. w \in BrowserRows /\ GoodBrowser(w) /\ w.phase = "list"
  BY BrowserFacts DEF List
<1>2. /\ browsers' = [browsers EXCEPT ![b] = next]
      /\ UNCHANGED <<catalogVars, edits, history, generation, entries, activeKey, link,
                     browses, outages>>
  BY BrowseTypes DEF List, cacheVars
<1>3. w.seen <= edits /\ edits \in Nat
  BY <1>1, BrowseTypes DEF GoodBrowser, BrowseInv
<1>4. next \in BrowserRows /\ GoodBrowser(next)
  <2>1. next \in BrowserRows
    BY <1>1, <1>3 DEF BrowserRows
  <2>2. /\ next.phase = "set" /\ next.replica = w.replica /\ next.version = w.version
        /\ next.seen = w.seen /\ next.menu = edits
    BY <1>1 DEF BrowserRows
  <2> HIDE DEF next
  <2>3. edits <= edits /\ w.replica \in Replicas /\ <<w.version, w.seen>> \in history
    BY <1>1, <1>3 DEF GoodBrowser
  <2> QED BY <1>3, <2>1, <2>2, <2>3 DEF GoodBrowser
<1> HIDE DEF next
<1> QED BY <1>2, <1>4, BrowseTypes, BrowserMoves

\* The entry it stores carries the version of its request, whatever the generation.
LEMMA SetStep ==
    ASSUME BrowseInv, NEW b \in Browsers, Set(b)
    PROVE  BrowseInv'
<1> DEFINE w == browsers[b]
           n == w.replica
           key == CacheKey(n, w.version)
           shown == [key |-> key, menu |-> w.menu]
           next == [w EXCEPT !.phase = "served"]
<1>1. /\ w \in BrowserRows /\ GoodBrowser(w) /\ n \in Replicas /\ w.phase = "set"
      /\ key \in Keys /\ key.version = w.version /\ w.version \in Nat /\ w.seen \in Nat
  BY BrowserFacts DEF Set
<1>2. PICK place \in {Redis(n), Memory(n)} : Answers(n, place, {key}, {shown})
  BY DEF Set
<1>3. /\ activeKey' = [activeKey EXCEPT ![n] = key]
      /\ browsers' = [browsers EXCEPT ![b].phase = "served"]
      /\ UNCHANGED <<catalogVars, edits, history, generation, browses>>
  BY DEF Set
<1>4. /\ w.seen <= w.menu /\ w.menu <= edits /\ w.menu \in Nat /\ w.menu \in 0..edits
      /\ Shown(w.version, w.menu)
  <2>1. /\ w.seen <= w.menu /\ w.menu <= edits /\ w.menu \in Nat
        /\ <<w.version, w.seen>> \in history
    BY <1>1 DEF GoodBrowser, BrowserRows
  <2>2. w.menu \in 0..edits
    BY <2>1, BrowseTypes
  <2> QED BY <2>1, <2>2 DEF Shown
<1>5. shown.key = key /\ shown.menu = w.menu
  OBVIOUS
<1>6. next \in BrowserRows /\ GoodBrowser(next)
  BY <1>1, <1>4 DEF BrowserRows, GoodBrowser
<1>7. browsers' = [browsers EXCEPT ![b] = next]
  BY <1>3, BrowseTypes
<1>8. activeKey' \in [Replicas -> Keys \cup {NoKey}]
  BY <1>1, <1>3, BrowseTypes
<1> HIDE DEF shown, next, key
<1>9. /\ link' \in [Replicas -> Links] /\ outages' \in 0..MaxOutages
      /\ \A e \in entries' : e \in entries
                             \/ \E at \in Places : e = Holding(at, key, w.menu)
  BY <1>1, <1>2, <1>5, AnswersKeep
<1>10. \A at \in Places : GoodEntry(Holding(at, key, w.menu))
  BY <1>1, <1>4 DEF GoodEntry, Holding
<1>11. /\ UNCHANGED <<catalogVars, edits, history, generation>>
       /\ browses' \in 0..MaxBrowses
       /\ \A e \in entries' : e \in entries \/ GoodEntry(e)
  BY <1>3, <1>9, <1>10, BrowseTypes
<1> QED BY <1>6, <1>7, <1>8, <1>9, <1>11, BrowserMoves

\* The request is answered.
LEMMA LeaveStep ==
    ASSUME BrowseInv, NEW b \in Browsers, Leave(b)
    PROVE  BrowseInv'
<1>1. /\ browsers' = [browsers EXCEPT ![b] = AtRest]
      /\ UNCHANGED <<catalogVars, edits, history, generation, entries, activeKey, link,
                     browses, outages>>
  BY DEF Leave, cacheVars
<1> QED BY <1>1, BrowseTypes, BrowserMoves

\* Redis fails or answers again, an entry expires, a replica starts afresh.
LEMMA CacheStep ==
    ASSUME BrowseInv,
           \/ \E n \in Replicas : ProbeFails(n) \/ CooldownEnds(n) \/ Restart(n)
           \/ \E e \in entries : Expire(e)
    PROVE  BrowseInv'
<1>1. ASSUME NEW n \in Replicas, ProbeFails(n) PROVE BrowseInv'
  <2>1. /\ UNCHANGED <<catalogVars, edits, history, generation, activeKey, browsers, browses>>
        /\ outages' = outages + 1 /\ outages < MaxOutages
        /\ link' = [link EXCEPT ![n] = [up |-> FALSE, renamed |-> TRUE]]
        /\ \A e \in entries' : e \in entries
    BY <1>1 DEF ProbeFails, MarkUnavailable, Abandoned
  <2>2. [up |-> FALSE, renamed |-> TRUE] \in Links
    BY DEF Links
  <2>3. link' \in [Replicas -> Links] /\ outages' \in 0..MaxOutages
    BY <2>1, <2>2, BrowseTypes
  <2> QED BY <2>1, <2>3, BrowseTypes, CatalogRests, MenuKept
<1>2. ASSUME NEW n \in Replicas, CooldownEnds(n) PROVE BrowseInv'
  <2>1. /\ UNCHANGED <<catalogVars, edits, history, entries, generation, activeKey,
                       browsers, browses, outages>>
        /\ link' = [link EXCEPT ![n].up = TRUE]
    BY <1>2 DEF CooldownEnds
  <2>2. link' \in [Replicas -> Links]
    BY <2>1, BrowseTypes DEF Links
  <2> QED BY <2>1, <2>2, BrowseTypes, CatalogRests, MenuKept
<1>3. ASSUME NEW n \in Replicas, Restart(n) PROVE BrowseInv'
  <2>1. /\ UNCHANGED <<catalogVars, edits, history, browses>>
        /\ outages' = outages + 1 /\ outages < MaxOutages
        /\ generation' = [generation EXCEPT ![n] = 0]
        /\ activeKey' = [activeKey EXCEPT ![n] = NoKey]
        /\ link' = [link EXCEPT ![n] = [up |-> TRUE, renamed |-> FALSE]]
        /\ browsers' = [b \in Browsers |-> IF browsers[b].replica = n THEN AtRest
                                            ELSE browsers[b]]
        /\ \A e \in entries' : e \in entries
    BY <1>3 DEF Restart, Abandoned
  <2>2. [up |-> TRUE, renamed |-> FALSE] \in Links
    BY DEF Links
  <2>3. /\ link' \in [Replicas -> Links] /\ outages' \in 0..MaxOutages
        /\ generation' \in [Replicas -> Nat]
        /\ activeKey' \in [Replicas -> Keys \cup {NoKey}]
    BY <2>1, <2>2, BrowseTypes
  <2>4. /\ browsers' \in [Browsers -> BrowserRows]
        /\ \A b \in Browsers : browsers'[b] = browsers[b] \/ browsers'[b] = AtRest
    BY <2>1, BrowseTypes, AtRestRow
  <2> QED BY <2>1, <2>3, <2>4, BrowseTypes, CatalogRests, MenuKept
<1>4. ASSUME NEW e \in entries, Expire(e) PROVE BrowseInv'
  <2>1. /\ UNCHANGED <<catalogVars, edits, history, generation, activeKey, link,
                       browsers, browses, outages>>
        /\ \A x \in entries' : x \in entries
    BY <1>4 DEF Expire
  <2> QED BY <2>1, BrowseTypes, CatalogRests, MenuKept
<1> QED BY <1>1, <1>2, <1>3, <1>4

\* The invariant of the cache holds at first.
LEMMA BrowseInitInv == BrowseInit => BrowseInv
<1> SUFFICES ASSUME BrowseInit PROVE BrowseInv
  OBVIOUS
<1>1. CatalogInv
  BY CatalogInitInv DEF BrowseInit
<1>2. /\ edits = 0 /\ history = {<<store.version, 0>>} /\ entries = {}
      /\ generation = [n \in Replicas |-> 0]
      /\ activeKey = [n \in Replicas |-> NoKey]
      /\ link = [n \in Replicas |-> [up |-> TRUE, renamed |-> FALSE]]
      /\ browsers = [b \in Browsers |-> AtRest]
      /\ browses = 0 /\ outages = 0
  BY DEF BrowseInit
<1>3. store.version \in Nat /\ CatalogTypeOK
  BY <1>1 DEF CatalogInv, CatalogTypeOK
<1>4. BrowseTypeOK
  BY <1>2, <1>3, AtRestRow, BrowseAssumption DEF BrowseTypeOK
<1>5. browsers \in [Browsers -> BrowserRows] /\ \A b \in Browsers : browsers[b] = AtRest
  BY <1>2, AtRestRow
<1>6. \A h \in history : h[2] <= edits
  BY <1>2
<1> QED BY <1>1, <1>2, <1>4, <1>5, <1>6 DEF BrowseInv

\* Every step of the catalog and the cache keeps it.
LEMMA BrowseNextInv == BrowseInv /\ [BrowseNext]_browseVars => BrowseInv'
<1> SUFFICES ASSUME BrowseInv, [BrowseNext]_browseVars PROVE BrowseInv'
  OBVIOUS
<1>1. ASSUME CatalogInv', store' = store,
             UNCHANGED <<edits, history, cacheVars, browsers, browses, outages>>
      PROVE  BrowseInv'
  <2>1. UNCHANGED <<edits, history, entries, generation, activeKey, link,
                    browsers, browses, outages>>
    BY <1>1 DEF cacheVars
  <2> QED BY <1>1, <2>1, BrowseTypes, MenuKept
<1>2. CASE Tick /\ UNCHANGED <<edits, history, cacheVars, browsers, browses, outages>>
  BY <1>1, <1>2, TickStep DEF Tick, BrowseInv
<1>3. CASE UNCHANGED browseVars
  BY <1>1, <1>3, CatalogRests DEF browseVars
<1> QED
  BY <1>2, <1>3, CatalogMovesStep, InvalidateStep, BrowseStep, GetStep, ListStep, SetStep,
     LeaveStep, CacheStep DEF BrowseNext

\* A version that names one menu names the one the request saw.
LEMMA BrowseInvFresh == BrowseInv => BrowseFresh
<1> SUFFICES ASSUME BrowseInv, NEW b \in Browsers, browsers[b].phase = "served",
                    ~Ambiguous(browsers[b].version)
             PROVE  browsers[b].menu >= browsers[b].seen
  BY DEF BrowseFresh
<1> DEFINE w == browsers[b]
<1>1. /\ w \in BrowserRows /\ <<w.version, w.seen>> \in history /\ Shown(w.version, w.menu)
  BY BrowserFacts DEF GoodBrowser
<1>2. PICK h \in history : h[1] = w.version /\ h[2] <= w.menu
  BY <1>1 DEF Shown
<1>3. h[2] = w.seen
  BY <1>1, <1>2 DEF Ambiguous
<1> QED BY <1>1, <1>2, <1>3 DEF BrowserRows

-------------------------------------------------------------------------------
(* The parts together.                                                     *)

\* A step of the whole is a step or a stutter of every part.
LEMMA NextOfTheParts ==
    [Next]_vars => /\ [BrowseNext]_browseVars
                   /\ [SessionsNext]_sessionVars
                   /\ [RbacNext]_rbacVars
<1> SUFFICES ASSUME [Next]_vars
             PROVE  /\ [BrowseNext]_browseVars
                    /\ [SessionsNext]_sessionVars
                    /\ [RbacNext]_rbacVars
  OBVIOUS
<1>1. CASE UNCHANGED vars
  BY <1>1 DEF vars
<1>2. CASE Next
  BY <1>2 DEF Next
<1> QED BY <1>1, <1>2

\* Browsing and the cache leave the catalog alone but for its own steps.
LEMMA NextOfTheCatalog == [BrowseNext]_browseVars => [CatalogNext]_catalogVars
<1> SUFFICES ASSUME [BrowseNext]_browseVars PROVE [CatalogNext]_catalogVars
  OBVIOUS
<1>1. CASE UNCHANGED browseVars
  BY <1>1 DEF browseVars
<1>2. CASE Tick
  BY <1>2 DEF CatalogNext
<1>3. ASSUME NEW r \in CatalogRequests,
             CatalogMoves(r) \/ \E n \in Replicas : InvalidateOn(r, n)
      PROVE  CatalogNext
  BY <1>3 DEF CatalogMoves, InvalidateOn, CatalogNext
<1>4. ASSUME NEW b \in Browsers,
             \/ \E n \in Replicas : Browse(b, n)
             \/ Get(b) \/ List(b) \/ Set(b) \/ Leave(b)
      PROVE  UNCHANGED catalogVars
  BY <1>4 DEF Browse, Get, List, Set, Leave
<1>5. ASSUME NEW n \in Replicas, ProbeFails(n) \/ CooldownEnds(n) \/ Restart(n)
      PROVE  UNCHANGED catalogVars
  BY <1>5 DEF ProbeFails, CooldownEnds, Restart
<1>6. ASSUME NEW e \in entries, Expire(e) PROVE UNCHANGED catalogVars
  BY <1>6 DEF Expire
<1> QED BY <1>1, <1>2, <1>3, <1>4, <1>5, <1>6 DEF BrowseNext

\* Catalog, cache, sessions and roles behave together as each does alone; the
\* cache in front of the catalog adds no step to it (CatalogService.browse and
\* CatalogCacheAdapter only read the catalog).
THEOREM PartsOfPlatform ==
    Spec => CatalogSpec /\ BrowseSpec /\ SessionsSpec /\ RbacSpec
<1>1. Init => BrowseInit /\ SessionsInit /\ RbacInit
  BY DEF Init
<1>2. BrowseInit => CatalogInit
  BY DEF BrowseInit
<1> QED
  BY <1>1, <1>2, NextOfTheParts, NextOfTheCatalog, PTL
  DEF Spec, CatalogSpec, BrowseSpec, SessionsSpec, RbacSpec

\* Every cache entry and every browse request is good for its version, for any
\* number of replicas, outages and restarts.
THEOREM BrowseInvariance == BrowseSpec => []BrowseInv
BY BrowseInitInv, BrowseNextInv, PTL DEF BrowseSpec

\* The part that moves is one of the three.
Focused == focus \in {"catalog", "sessions", "rbac"}

\* Every variable of the catalog, the cache, the sessions and the roles keeps its
\* type.
THEOREM Typed == Spec => []TypeOK
<1>1. BrowseSpec => []BrowseTypeOK
  <2>1. BrowseInv => BrowseTypeOK
    BY DEF BrowseInv
  <2> QED BY <2>1, BrowseInvariance, PTL
<1>2. Spec => []Focused
  <2>1. Init => Focused
    BY DEF Init, Focused
  <2>2. Focused /\ [Next]_vars => Focused'
    BY DEF Next, vars, Focused
  <2> QED BY <2>1, <2>2, PTL DEF Spec
<1>3. BrowseTypeOK /\ SessionsTypeOK /\ RbacTypeOK /\ Focused => TypeOK
  BY DEF TypeOK, Focused
<1> QED BY <1>1, <1>2, <1>3, PartsOfPlatform, SessionsTyped, RbacTyped, PTL

\* The price that is effective last is never closed, and an order captures a
\* price at least as new as every price committed when its transaction began
\* (createPrice, updateProduct, OrderingService.create).
THEOREM QuotesTheNewest == Spec => []NewestIsQuoted
<1>1. CatalogInv => NewestIsQuoted
  BY DEF CatalogInv
<1>2. CatalogSpec => []CatalogInv
  BY CatalogInitInv, CatalogNextInv, PTL DEF CatalogSpec
<1> QED BY <1>1, <1>2, PartsOfPlatform, PTL

\* A customer is never shown a menu older than the one of the stores row its
\* request read, unless two menus had that version (browse, CatalogCacheAdapter,
\* ResilientPerformanceStore).
THEOREM MenusAreFresh == Spec => []BrowseFresh
BY BrowseInvFresh, BrowseInvariance, PartsOfPlatform, PTL

\* What AuthService promises of refresh sessions and RbacService of permissions
\* and bootstrap holds of the parts together.
THEOREM PlatformKeepsItsParts ==
    Spec => /\ []OneActivePerFamily /\ []ReusedFamilyDead /\ EndsOnce
            /\ []PermissionIsCoverage /\ BootstrapCloses
BY OneLiveToken, ReusedFamilyStaysDead, EndsForGood, CoverageAlways, BootstrapStaysClosed,
   PartsOfPlatform, PTL
=============================================================================
