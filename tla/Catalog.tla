-------------------------------- MODULE Catalog --------------------------------
(***************************************************************************)
(* One product of one store, its price versions, the store's operations,    *)
(* and the orders that read them: CatalogService, updateOperations of       *)
(* StoreManagementService and the reads of OrderingService.create.          *)
(*                                                                         *)
(* Requests overlap, on one or several API replicas whose clocks agree.     *)
(* A transaction's reads see what was committed when the statement ran; an  *)
(* UPDATE waits for the transaction that holds its row and then writes what *)
(* its request decided before.  What a transaction writes is in its request *)
(* until the commit.                                                        *)
(***************************************************************************)
EXTENDS Naturals, FiniteSets, FiniteSetsExt

CONSTANTS
    CatalogRequests, \* requests that may overlap
    CatalogKinds,    \* what they ask for
    MaxRequests,     \* bound on requests
    MaxTime          \* bound on the clock

AllKinds == {"create", "update", "price", "operations", "order"}

ASSUME CatalogAssumption ==
    /\ IsFiniteSet(CatalogRequests)
    /\ CatalogKinds \subseteq AllKinds
    /\ MaxRequests \in Nat
    /\ MaxTime \in Nat

VARIABLES
    now,       \* the clock, in milliseconds
    store,     \* status, acceptingOrders and updated_at of the stores row
    product,   \* lifecycle and menu_visible of the products row
    prices,    \* its product_prices rows, by the order they were inserted
    requests,  \* what each request is doing and what it decided
    requested  \* requests so far

catalogVars == <<now, store, product, prices, requests, requested>>

-------------------------------------------------------------------------------
StoreStatuses == {"DRAFT", "OPEN", "CLOSED", "SUSPENDED"}
Lifecycles == {"NONE", "DRAFT", "PUBLISHED", "UNPUBLISHED", "ARCHIVED"}
PriceIds == 1..(MaxRequests + 1)
NoPrice == [state |-> "NONE", from |-> 0]
PriceRows == [state : {"NONE", "CURRENT", "CLOSED"}, from : Nat]
CatalogPhases ==
    {"idle", "opened", "read", "held", "stamped", "ready", "committed", "quoted"}
Idle == [kind |-> "order", phase |-> "idle", base |-> 0, lifecycle |-> "NONE",
         visible |-> FALSE, status |-> "DRAFT", accepting |-> FALSE,
         priced |-> FALSE, closes |-> 0, from |-> 0, version |-> 0]

CatalogTypeOK ==
    /\ now \in Nat
    /\ store \in [status : StoreStatuses, accepting : BOOLEAN, version : Nat]
    /\ product \in [lifecycle : Lifecycles, visible : BOOLEAN]
    /\ prices \in [PriceIds -> PriceRows]
    /\ requests \in [CatalogRequests ->
         [kind : AllKinds, phase : CatalogPhases, base : Nat,
          lifecycle : Lifecycles, visible : BOOLEAN, status : StoreStatuses,
          accepting : BOOLEAN, priced : BOOLEAN, closes : PriceIds \cup {0},
          from : Nat, version : Nat]]
    /\ requested \in 0..MaxRequests

\* An orderable store, before and after its first product was put on sale.
CatalogInit ==
    /\ now = 0
    /\ store = [status |-> "OPEN", accepting |-> TRUE, version |-> 0]
    /\ \/ /\ product = [lifecycle |-> "NONE", visible |-> FALSE]
          /\ prices = [p \in PriceIds |-> NoPrice]
       \/ /\ product = [lifecycle |-> "PUBLISHED", visible |-> TRUE]
          /\ prices = [p \in PriceIds |->
                         IF p = 1 THEN [state |-> "CURRENT", from |-> 0] ELSE NoPrice]
    /\ requests = [r \in CatalogRequests |-> Idle]
    /\ requested = 0

Larger(m, n) == IF m > n THEN m ELSE n

Current == {p \in PriceIds : prices[p].state = "CURRENT"}
Inserted == {p \in PriceIds : prices[p].state # "NONE"}
Latest(ps) == {p \in ps : \A q \in ps : prices[q].from <= prices[p].from}

\* No other transaction holds the row.
ProductFree(r) ==
    \A q \in CatalogRequests \ {r} :
        ~(/\ requests[q].kind \in {"create", "update"}
          /\ requests[q].phase \in {"held", "stamped", "ready"})
PriceFree(r, p) ==
    \A q \in CatalogRequests \ {r} :
        ~(requests[q].phase = "ready" /\ requests[q].closes = p)

Becomes(r, state) == requests' = [requests EXCEPT ![r] = state]

-------------------------------------------------------------------------------
\* getStore, before the transaction: the version is built on what it read.
OpenRequest(r) ==
    /\ requests[r].phase = "idle"
    /\ requested < MaxRequests
    /\ requested' = requested + 1
    /\ \E kind \in CatalogKinds \cap {"create", "update", "price"} :
         Becomes(r, [Idle EXCEPT !.kind = kind, !.phase = "opened",
                                 !.base = store.version])
    /\ UNCHANGED <<now, store, product, prices>>

NextCatalogVersion(base) == Larger(now, base + 1)

\* A lifecycle may stay as it is; ARCHIVED takes the product off the menu.
Allowed(lifecycle) ==
    {lifecycle} \cup
    CASE lifecycle = "DRAFT" -> {"PUBLISHED", "ARCHIVED"}
      [] lifecycle = "PUBLISHED" -> {"UNPUBLISHED", "ARCHIVED"}
      [] lifecycle = "UNPUBLISHED" -> {"PUBLISHED", "ARCHIVED"}
      [] OTHER -> {}

\* createProduct inserts the product, if its name is free, and its first price,
\* and goes on to the stores row.
CreateProduct(r) ==
    LET req == requests[r] IN
    /\ req.kind = "create" /\ req.phase = "opened"
    /\ product.lifecycle = "NONE"
    /\ ProductFree(r)
    /\ \E lifecycle \in {"DRAFT", "PUBLISHED", "UNPUBLISHED"},
          visible, priced \in BOOLEAN :
         Becomes(r, [req EXCEPT !.phase = "ready", !.lifecycle = lifecycle,
                                !.visible = visible, !.priced = priced,
                                !.from = now,
                                !.version = NextCatalogVersion(req.base)])
    /\ UNCHANGED <<now, store, product, prices, requested>>

\* updateProduct and createPrice read the product; an update decides at once
\* everything it will write to it.
ReadProduct(r) ==
    LET req == requests[r] IN
    /\ req.kind \in {"update", "price"} /\ req.phase = "opened"
    /\ product.lifecycle \notin {"NONE", "ARCHIVED"}
    /\ \E lifecycle \in Allowed(product.lifecycle), visible, priced \in BOOLEAN :
         /\ lifecycle = "ARCHIVED" => ~visible
         /\ req.kind = "price" =>
              /\ lifecycle = product.lifecycle /\ visible = product.visible
              /\ priced
         /\ Becomes(r, [req EXCEPT !.phase = "read", !.lifecycle = lifecycle,
                                   !.visible = visible, !.priced = priced])
    /\ UNCHANGED <<now, store, product, prices, requested>>

\* The UPDATE of the products row, which nothing but its id guards.
UpdateProduct(r) ==
    LET req == requests[r] IN
    /\ req.kind = "update" /\ req.phase = "read"
    /\ ProductFree(r)
    /\ Becomes(r, IF req.priced THEN [req EXCEPT !.phase = "held"]
                  ELSE [req EXCEPT !.phase = "ready",
                                   !.version = NextCatalogVersion(req.base)])
    /\ UNCHANGED <<now, store, product, prices, requested>>

ReadyForPrice(req) == \/ req.kind = "update" /\ req.phase = "held"
                      \/ req.kind = "price" /\ req.phase = "read"

\* Any current price that the statement finds, or none, and the time.
StampPrice(r) ==
    LET req == requests[r] IN
    /\ ReadyForPrice(req)
    /\ \E p \in IF Current = {} THEN {0} ELSE Current :
         Becomes(r, [req EXCEPT !.phase = "stamped", !.closes = p, !.from = now])
    /\ UNCHANGED <<now, store, product, prices, requested>>

\* The UPDATE of the price it read, the INSERT of the new one, and the version
\* for the stores row.
ReplacePrice(r) ==
    LET req == requests[r] IN
    /\ req.phase = "stamped"
    /\ req.closes # 0 => PriceFree(r, req.closes)
    /\ Becomes(r, [req EXCEPT !.phase = "ready",
                              !.version = NextCatalogVersion(req.base)])
    /\ UNCHANGED <<now, store, product, prices, requested>>

\* Another product of that name, no product, or an archived one.
Refuse(r) ==
    /\ requests[r].phase = "opened"
    /\ IF requests[r].kind = "create" THEN product.lifecycle # "NONE"
       ELSE product.lifecycle \in {"NONE", "ARCHIVED"}
    /\ Becomes(r, Idle)
    /\ UNCHANGED <<now, store, product, prices, requested>>

NewPrice == CHOOSE p \in PriceIds : /\ prices[p].state = "NONE"
                                    /\ \A q \in 1..(p - 1) : q \in Inserted

\* The UPDATE of the stores row and the commit; the cache is still to be told.
CommitCatalog(r) ==
    LET req == requests[r]
        closed == IF req.closes = 0 THEN prices
                  ELSE [prices EXCEPT ![req.closes].state = "CLOSED"]
    IN
    /\ req.phase = "ready"
    /\ product' = IF req.kind = "price" THEN product
                  ELSE [lifecycle |-> req.lifecycle, visible |-> req.visible]
    /\ prices' = IF req.priced
                 THEN [closed EXCEPT ![NewPrice] =
                         [state |-> "CURRENT", from |-> req.from]]
                 ELSE prices
    /\ store' = [store EXCEPT !.version = req.version]
    /\ Becomes(r, [Idle EXCEPT !.phase = "committed"])
    /\ UNCHANGED <<now, requested>>

\* catalogCache.invalidate, then the answer.
Invalidate(r) ==
    /\ requests[r].phase = "committed"
    /\ Becomes(r, Idle)
    /\ UNCHANGED <<now, store, product, prices, requested>>

-------------------------------------------------------------------------------
\* updateOperations.
NextStatuses(status) ==
    {status} \cup
    CASE status = "DRAFT" -> {"OPEN"}
      [] status = "OPEN" -> {"CLOSED", "SUSPENDED"}
      [] status = "CLOSED" -> {"OPEN", "SUSPENDED"}
      [] OTHER -> {"OPEN", "CLOSED"}

\* It reads the row and decides everything it will write, updated_at included.
ReadOperations(r) ==
    /\ requests[r].phase = "idle"
    /\ "operations" \in CatalogKinds
    /\ requested < MaxRequests
    /\ requested' = requested + 1
    /\ \E status \in NextStatuses(store.status), accepting \in BOOLEAN :
         Becomes(r, [Idle EXCEPT !.kind = "operations", !.phase = "read",
                                 !.status = status, !.accepting = accepting,
                                 !.version = now])
    /\ UNCHANGED <<now, store, product, prices>>

WriteOperations(r) ==
    LET req == requests[r] IN
    /\ req.kind = "operations" /\ req.phase = "read"
    /\ store' = [status |-> req.status, accepting |-> req.accepting,
                 version |-> req.version]
    /\ Becomes(r, Idle)
    /\ UNCHANGED <<now, product, prices, requested>>

-------------------------------------------------------------------------------
\* The reads of OrderingService.create.  Opening hours are part of accepting.
Orderable == store.status = "OPEN" /\ store.accepting

\* base is the newest price committed when the order's transaction begins.
ReadStore(r) ==
    /\ requests[r].phase = "idle"
    /\ "order" \in CatalogKinds
    /\ requested < MaxRequests
    /\ requested' = requested + 1
    /\ Orderable
    /\ Becomes(r, [Idle EXCEPT !.phase = "read",
                               !.base = Max({prices[p].from : p \in Inserted} \cup {0})])
    /\ UNCHANGED <<now, store, product, prices>>

QuoteFrom(r, candidates) ==
    LET req == requests[r] IN
    /\ req.kind = "order" /\ req.phase = "read"
    /\ product.lifecycle = "PUBLISHED" /\ product.visible
    /\ \E p \in candidates :
         Becomes(r, [req EXCEPT !.phase = "quoted", !.from = prices[p].from])
    /\ UNCHANGED <<now, store, product, prices, requested>>

\* Slip: any current price will do.
QuoteAny(r) == QuoteFrom(r, Current)

\* Of several current prices the one that is effective last.
Quote(r) == QuoteFrom(r, Latest(Current))

\* The order, its lines and its OrderPlaced are inserted and committed.
PlaceOrder(r) ==
    /\ requests[r].phase = "quoted"
    /\ Becomes(r, Idle)
    /\ UNCHANGED <<now, store, product, prices, requested>>

-------------------------------------------------------------------------------
\* Refused, rolled back, or interrupted by the death of the process: between
\* the commit and the cache as well.
Abandon(r) ==
    /\ requests[r].phase # "idle"
    /\ Becomes(r, Idle)
    /\ UNCHANGED <<now, store, product, prices, requested>>

Tick ==
    /\ now < MaxTime
    /\ now' = now + 1
    /\ UNCHANGED <<store, product, prices, requests, requested>>

CatalogStep(r) ==
    \/ OpenRequest(r) \/ CreateProduct(r)
    \/ ReadProduct(r) \/ UpdateProduct(r)
    \/ StampPrice(r) \/ ReplacePrice(r)
    \/ Refuse(r) \/ CommitCatalog(r)
    \/ ReadOperations(r) \/ WriteOperations(r)
    \/ ReadStore(r) \/ Quote(r) \/ PlaceOrder(r)
    \/ Abandon(r)

CatalogNext == Tick \/ \E r \in CatalogRequests : CatalogStep(r) \/ Invalidate(r)

CatalogSpec == CatalogInit /\ [][CatalogNext]_catalogVars

-------------------------------------------------------------------------------
(* Properties.                                                             *)

\* Overlapping requests can leave a product with several current prices, and a
\* request closes whichever of them it finds; still the price that is effective
\* last is never closed, and an order captures a price at least as new as every
\* price committed when its transaction began (createPrice, updateProduct and
\* the choice of OrderingService.create).
NewestIsQuoted ==
    /\ Inserted # {} => Latest(Inserted) \cap Current # {}
    /\ \A r \in CatalogRequests :
         requests[r].phase = "quoted" => requests[r].from >= requests[r].base

\* An archived product stays archived.
ArchivedForGood ==
    [][product.lifecycle = "ARCHIVED" => product'.lifecycle = "ARCHIVED"]_catalogVars
=============================================================================
