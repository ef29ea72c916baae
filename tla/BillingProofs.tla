--------------------------- MODULE BillingProofs ----------------------------
(***************************************************************************)
(* Proofs about prices and bills.  First Catalog: for any number of        *)
(* requests, profiles and edits, the versions are published in pairs and   *)
(* never rewritten, and a request pays what the catalog quoted while it    *)
(* resolved; there the operators of Pricing stay unexpanded.  Then         *)
(* UsageFlow: for any usage and any price, the row of a settled call holds *)
(* every token once, is charged exactly, and is read back by               *)
(* reconciliation as it was written.  Last UsageExtraction: for any        *)
(* response, cut anywhere, the extractor says what one reading would.      *)
(***************************************************************************)
EXTENDS Catalog, UsageFlow, FiniteSetTheorems, SequenceTheorems,
        WellFoundedInduction, TLAPS

Stages == Resolving \cup Done \cup {"idle", "resolved", "admitted"}
RouteRows == [newapiGroup : NewapiGroups, status : {"active", "retired"}]
PriceRows == [terms : Terms, status : {"active", "retired"}]

\* A request has the fields of Idle; nothing is said of what its SKU, its
\* usage and its charge are.
ShapedWith(sku, usage, charged) ==
    [stage : Stages, config : Configs \cup {None}, route : Int, price : Int,
     tries : Int, sku : {sku}, usage : {usage}, charged : {charged}]

RequestShape(q) == q \in ShapedWith(q.sku, q.usage, q.charged)

CatalogInv ==
    /\ listing \in Listings \cup {None}
    /\ profiles \in [Profiles -> Contents \cup {None}]
    /\ deleting \in Profiles \cup {None}

RowsInv == routes \in Seq(RouteRows) /\ prices \in Seq(PriceRows)

RequestsInv ==
    /\ req = [r \in Requests |-> req[r]]
    /\ \A r \in Requests : RequestShape(req[r])
    /\ seen \in [Requests -> SUBSET (Configs \cup {None})]

ShapeInv == CatalogInv /\ RowsInv /\ RequestsInv

LEMMA ShapeFrom ==
    ASSUME NEW sku, NEW usage, NEW charged, NEW q \in ShapedWith(sku, usage, charged)
    PROVE  RequestShape(q)
<1>1. q.sku = sku /\ q.usage = usage /\ q.charged = charged
    BY DEF ShapedWith
<1> QED  BY <1>1 DEF RequestShape

\* What assessPublishReadiness promises.
LEMMA ConfigType ==
    ASSUME NEW l \in Listings \cup {None}, NEW ps \in [Profiles -> Contents \cup {None}]
    PROVE  AssessPublishReadiness(l, ps) \in Configs \cup {None}
<1> USE CatalogAssumption
<1>1. CASE l = None \/ ps[l.profile] = None
    BY <1>1 DEF AssessPublishReadiness
<1>2. CASE l # None /\ ps[l.profile] # None
    <2> DEFINE profile == ps[l.profile]
               spec == BuildEffectivePricingSpec(profile, l.bps)
               token == spec.basis = "token"
               terms == [spec      |-> spec,
                         profile   |-> l.profile,
                         threshold |-> IF token /\ l.allowLong
                                       THEN profile.threshold ELSE NoThreshold,
                         admission |-> IF token THEN profile.threshold ELSE NoThreshold,
                         allowLong |-> l.allowLong]
               config == [newapiGroup |-> l.newapiGroup, terms |-> terms]
    <2>1. /\ l.newapiGroup \in NewapiGroups \cup {Unmapped} /\ l.profile \in Profiles
          /\ l.bps \in Discounts /\ l.allowLong \in BOOLEAN
        BY <1>2
    <2>2. profile \in Contents
        BY <1>2, <2>1
    <2>3. spec \in {BuildEffectivePricingSpec(c, b) : c \in Contents, b \in Discounts}
        BY <2>1, <2>2
    <2>4. profile.threshold \in Int /\ NoThreshold \in Int
        BY <2>2 DEF NoThreshold
    <2>5. terms.threshold \in Int /\ terms.admission \in Int
        BY <2>4
    <2> HIDE DEF spec, token, profile
    <2>6. terms \in Terms
        BY <2>1, <2>3, <2>4, <2>5 DEF Terms
    <2>7. AssessPublishReadiness(l, ps) \in {config, None}
        BY <1>2 DEF AssessPublishReadiness, spec, token, profile
    <2>8. AssessPublishReadiness(l, ps) = config => l.newapiGroup # Unmapped
                \/ AssessPublishReadiness(l, ps) = None
        BY <1>2 DEF AssessPublishReadiness, spec, token, profile
    <2> HIDE DEF terms
    <2> QED  BY <2>1, <2>6, <2>7, <2>8 DEF Configs
<1> QED  BY <1>1, <1>2

-----------------------------------------------------------------------------
(* Rows of versions.                                                       *)

\* A set of rows that can be retired.
Retirable(Rows) ==
    \A x \in Rows : /\ [x EXCEPT !.status = "retired"] \in Rows
                    /\ [x EXCEPT !.status = "retired"].status = "retired"

LEMMA RowSetsRetirable == Retirable(RouteRows) /\ Retirable(PriceRows)
<1>1. Retirable(RouteRows)
    BY DEF Retirable, RouteRows
<1>2. Retirable(PriceRows)
    BY DEF Retirable, PriceRows
<1> QED  BY <1>1, <1>2

\* Retiring keeps the versions and leaves none active.
LEMMA RetiredRows ==
    ASSUME NEW Rows, Retirable(Rows), NEW rows \in Seq(Rows)
    PROVE  /\ Retired(rows) \in Seq(Rows)
           /\ Len(Retired(rows)) = Len(rows)
           /\ DOMAIN Retired(rows) = DOMAIN rows
           /\ \A v \in DOMAIN rows :
                 Retired(rows)[v] = [rows[v] EXCEPT !.status = "retired"]
           /\ ActiveOf(Retired(rows)) = {}
<1> DEFINE n == Len(rows)
           done == Retired(rows)
<1>1. n \in Nat /\ DOMAIN rows = 1..n /\ \A v \in 1..n : rows[v] \in Rows
    OBVIOUS
<1>2. done = [v \in 1..n |-> [rows[v] EXCEPT !.status = "retired"]]
    BY <1>1 DEF Retired
<1>3. ASSUME NEW v \in 1..n
      PROVE  done[v] \in Rows /\ done[v].status = "retired"
    <2>1. done[v] = [rows[v] EXCEPT !.status = "retired"]
        BY <1>2
    <2>2. rows[v] \in Rows
        BY <1>1
    <2> QED  BY <2>1, <2>2 DEF Retirable
<1> HIDE DEF done, n
<1>4. done \in Seq(Rows) /\ Len(done) = n /\ DOMAIN done = 1..n
    BY <1>1, <1>2, <1>3
<1>5. ActiveOf(done) = {}
    BY <1>3, <1>4 DEF ActiveOf
<1>6. \A v \in DOMAIN rows : done[v] = [rows[v] EXCEPT !.status = "retired"]
    BY <1>1, <1>2
<1> QED  BY <1>1, <1>4, <1>5, <1>6 DEF done, n

\* Publishing retires the versions there are and puts the new one, the only
\* one that is active, after them.
LEMMA PublishedRows ==
    ASSUME NEW Rows, Retirable(Rows), NEW rows \in Seq(Rows),
           NEW newest \in Rows, newest.status = "active"
    PROVE  LET new == Append(Retired(rows), newest)
           IN  /\ new \in Seq(Rows)
               /\ Len(new) = Len(rows) + 1
               /\ \A v \in DOMAIN rows : v \in DOMAIN new /\ new[v] = Retired(rows)[v]
               /\ ActiveOf(new) = {Len(rows) + 1}
               /\ Active(new) = Len(rows) + 1
               /\ Len(rows) + 1 \in DOMAIN new
               /\ new[Len(rows) + 1] = newest
<1> DEFINE n == Len(rows)
           done == Retired(rows)
           new == Append(done, newest)
<1>1. /\ done \in Seq(Rows) /\ Len(done) = n /\ DOMAIN done = DOMAIN rows
      /\ ActiveOf(done) = {}
    BY RetiredRows
<1>2. n \in Nat /\ DOMAIN rows = 1..n
    OBVIOUS
<1> HIDE DEF done, n
<1>3. /\ new \in Seq(Rows) /\ Len(new) = n + 1 /\ DOMAIN new = 1..(n + 1)
      /\ new[n + 1] = newest
      /\ \A v \in 1..n : new[v] = done[v]
    BY <1>1, <1>2
<1> HIDE DEF new
<1>4. \A v \in 1..n : done[v].status # "active"
    BY <1>1, <1>2 DEF ActiveOf
<1>5. ActiveOf(new) = {n + 1}
    BY <1>2, <1>3, <1>4 DEF ActiveOf
<1>6. Active(new) = n + 1
    BY <1>5 DEF Active
<1> QED  BY <1>2, <1>3, <1>5, <1>6 DEF new, done, n

\* The active version is one of the rows, or 0.
LEMMA ActiveIsRow ==
    ASSUME NEW rows
    PROVE  Active(rows) = 0 \/ Active(rows) \in ActiveOf(rows)
BY DEF Active

-----------------------------------------------------------------------------
(* Publishing in pairs.                                                    *)

\* What is published in the pairs of one step: nothing, the end of what was
\* active, or the next version.
RowsStep ==
    \/ UNCHANGED <<routes, prices>>
    \/ routes' = Retired(routes) /\ prices' = Retired(prices)
    \/ \E c \in Configs :
          /\ routes' = Append(Retired(routes),
                              [newapiGroup |-> c.newapiGroup, status |-> "active"])
          /\ prices' = Append(Retired(prices), [terms |-> c.terms, status |-> "active"])

LEMMA NextIsRowsStep ==
    ASSUME ShapeInv, \A r \in Requests : req[r].stage = "publishing" => req[r].config # None,
           [Next]_vars
    PROVE  RowsStep
<1>1. ASSUME NEW r \in Requests, PublishSnapshots(r) PROVE RowsStep
    <2>1. req[r].config \in Configs
        BY <1>1 DEF PublishSnapshots, ShapeInv, RequestsInv, RequestShape, ShapedWith
    <2> QED  BY <1>1, <2>1 DEF PublishSnapshots, RowsStep
<1>2. ASSUME NEW r \in Requests, RetireSnapshots(r) PROVE RowsStep
    BY <1>2 DEF RetireSnapshots, RowsStep
<1>3. ASSUME NEW r \in Requests,
             \/ LoadConfig(r) \/ ReadRoute(r) \/ ReadPrice(r) \/ Decide(r)
             \/ TransactionFails(r) \/ Stop(r)
             \/ \E fact \in Facts, size \in Sizes : Admit(r, fact, size)
             \/ \E usage \in Usages, quantity \in Quantities : Settle(r, usage, quantity)
      PROVE  RowsStep
    BY <1>3 DEF LoadConfig, ReadRoute, ReadPrice, Decide, TransactionFails, Stop, Admit,
                Settle, RowsStep, snapshotVars
<1>4. CASE AdminStep
    BY <1>4 DEF AdminStep, UpsertPricingProfile, CountReferences, DeletePricingProfile,
                SaveListing, DeleteListing, Edit, RowsStep, snapshotVars
<1>5. CASE UNCHANGED vars
    BY <1>5 DEF vars, snapshotVars, RowsStep
<1> QED  BY <1>1, <1>2, <1>3, <1>4, <1>5 DEF Next, RequestStep

\* A row keeps what it says for ever; only its status may change.
RowsKept ==
    /\ \A v \in DOMAIN routes : /\ v \in DOMAIN routes'
                                /\ routes'[v].newapiGroup = routes[v].newapiGroup
    /\ \A v \in DOMAIN prices : /\ v \in DOMAIN prices'
                                /\ prices'[v].terms = prices[v].terms

LEMMA RowsStepEffect ==
    ASSUME RowsInv, RowsStep
    PROVE  /\ RowsInv' /\ RowsKept
           /\ SnapshotsPaired => SnapshotsPaired'
           /\ \A v \in DOMAIN prices : prices'[v] \in {prices[v], Retired(prices)[v]}
           /\ \A v \in DOMAIN routes : routes'[v] \in {routes[v], Retired(routes)[v]}
           /\ Len(prices') \in {Len(prices), Len(prices) + 1}
<1>0. Retirable(RouteRows) /\ Retirable(PriceRows) /\ routes \in Seq(RouteRows)
         /\ prices \in Seq(PriceRows)
    BY RowSetsRetirable DEF RowsInv
<1>1. /\ \A v \in DOMAIN routes :
            /\ routes[v] \in RouteRows
            /\ Retired(routes)[v] = [routes[v] EXCEPT !.status = "retired"]
      /\ \A v \in DOMAIN prices :
            /\ prices[v] \in PriceRows
            /\ Retired(prices)[v] = [prices[v] EXCEPT !.status = "retired"]
    BY <1>0, RetiredRows
<1>2. /\ \A v \in DOMAIN routes : Retired(routes)[v].newapiGroup = routes[v].newapiGroup
      /\ \A v \in DOMAIN prices : Retired(prices)[v].terms = prices[v].terms
    BY <1>1 DEF RouteRows, PriceRows
<1>3. CASE UNCHANGED <<routes, prices>>
    BY <1>0, <1>3 DEF RowsInv, RowsKept, SnapshotsPaired, ActiveOf
<1>4. CASE routes' = Retired(routes) /\ prices' = Retired(prices)
    <2>1. /\ routes' \in Seq(RouteRows) /\ Len(routes') = Len(routes)
          /\ DOMAIN routes' = DOMAIN routes /\ ActiveOf(Retired(routes)) = {}
        BY <1>0, <1>4, RetiredRows
    <2>2. /\ prices' \in Seq(PriceRows) /\ Len(prices') = Len(prices)
          /\ DOMAIN prices' = DOMAIN prices /\ ActiveOf(Retired(prices)) = {}
        BY <1>0, <1>4, RetiredRows
    <2>3. RowsInv' /\ RowsKept
        BY <1>2, <1>4, <2>1, <2>2 DEF RowsInv, RowsKept
    <2>4. SnapshotsPaired => SnapshotsPaired'
        BY <1>4, <2>1, <2>2 DEF SnapshotsPaired, ActiveOf
    <2> QED  BY <1>4, <2>2, <2>3, <2>4
<1>5. ASSUME NEW c \in Configs,
             routes' = Append(Retired(routes),
                              [newapiGroup |-> c.newapiGroup, status |-> "active"]),
             prices' = Append(Retired(prices), [terms |-> c.terms, status |-> "active"])
      PROVE  /\ RowsInv' /\ RowsKept
             /\ SnapshotsPaired => SnapshotsPaired'
             /\ \A v \in DOMAIN prices : prices'[v] = Retired(prices)[v]
             /\ \A v \in DOMAIN routes : routes'[v] = Retired(routes)[v]
             /\ Len(prices') = Len(prices) + 1
    <2> DEFINE x == [newapiGroup |-> c.newapiGroup, status |-> "active"]
               y == [terms |-> c.terms, status |-> "active"]
    <2>1. x \in RouteRows /\ x.status = "active" /\ y \in PriceRows /\ y.status = "active"
        BY DEF Configs, RouteRows, PriceRows
    <2>2. routes' = Append(Retired(routes), x) /\ prices' = Append(Retired(prices), y)
        BY <1>5
    <2> HIDE DEF x, y
    <2>3. /\ routes' \in Seq(RouteRows) /\ Len(routes') = Len(routes) + 1
          /\ \A v \in DOMAIN routes : v \in DOMAIN routes' /\ routes'[v] = Retired(routes)[v]
          /\ ActiveOf(Append(Retired(routes), x)) = {Len(routes) + 1}
        BY <1>0, <2>1, <2>2, PublishedRows
    <2>4. /\ prices' \in Seq(PriceRows) /\ Len(prices') = Len(prices) + 1
          /\ \A v \in DOMAIN prices : v \in DOMAIN prices' /\ prices'[v] = Retired(prices)[v]
          /\ ActiveOf(Append(Retired(prices), y)) = {Len(prices) + 1}
        BY <1>0, <2>1, <2>2, PublishedRows
    <2>5. RowsInv' /\ RowsKept
        BY <1>2, <2>3, <2>4 DEF RowsInv, RowsKept
    <2>6. SnapshotsPaired => SnapshotsPaired'
        BY <2>2, <2>3, <2>4 DEF SnapshotsPaired, ActiveOf
    <2> QED  BY <2>3, <2>4, <2>5, <2>6
<1> QED  BY <1>3, <1>4, <1>5 DEF RowsStep

-----------------------------------------------------------------------------
(* The requests.                                                           *)

(***************************************************************************)
(* What ties a request to the catalog: its configuration was in force, and *)
(* the versions it holds are those of its configuration, from the read     *)
(* outside a transaction or from the publishing one.                       *)
(***************************************************************************)
Holds(q, c, rs, ps) ==
    /\ q.route \in DOMAIN rs /\ rs[q.route].newapiGroup = c.newapiGroup
    /\ q.price \in DOMAIN ps /\ ps[q.price].terms = c.terms

ChargedUnder(q, c) ==
    /\ Chargeable(c.terms.spec, SkuOf(q), q.usage.quantity)
    /\ q.charged = ComputePricingCharge(c.terms.spec,
                       MeterByThreshold(q.usage.meters, c.terms.threshold), 0,
                       SkuOf(q), q.usage.quantity)

Quoted(q, known, rs, ps) ==
    /\ q.stage = "idle" => q.route = Unread /\ q.price = Unread
    /\ q.stage \in {"reading", "publishing", "resolved", "admitted", "settled"}
          => q.config \in known
    /\ q.stage \in {"publishing", "resolved", "admitted", "settled"} => q.config # None
    /\ q.stage = "reading" => /\ q.route \in {Unread, 0} \cup DOMAIN rs
                              /\ q.price \in {Unread, 0} \cup DOMAIN ps
    /\ q.stage \in {"resolved", "admitted", "settled"} => Holds(q, q.config, rs, ps)
    /\ q.stage = "settled" => ChargedUnder(q, q.config)

QuoteInv == ShapeInv /\ \A r \in Requests : Quoted(req[r], seen[r], routes, prices)

LEMMA QuoteInit == Init => QuoteInv
<1> SUFFICES ASSUME Init PROVE QuoteInv
    OBVIOUS
<1> USE CatalogAssumption DEF Init
<1>1. CatalogInv
    BY DEF CatalogInv
<1>2. RowsInv
    BY DEF RowsInv
<1>3. RequestsInv
    <2>1. req = [r \in Requests |-> req[r]]
        OBVIOUS
    <2>2. \A r \in Requests : req[r] = Idle
        OBVIOUS
    <2>3. Idle \in ShapedWith(None, None, 0)
        BY DEF Idle, Stages, Unread, ShapedWith
    <2>4. \A r \in Requests : RequestShape(req[r])
        BY <2>2, <2>3, ShapeFrom
    <2> QED  BY <2>1, <2>4 DEF RequestsInv
<1>4. \A r \in Requests : Quoted(req[r], seen[r], routes, prices)
    BY DEF Quoted, Idle
<1> QED  BY <1>1, <1>2, <1>3, <1>4 DEF QuoteInv, ShapeInv

\* What a request holds it goes on holding while the rows are kept.
LEMMA QuotedIsStable ==
    ASSUME RowsKept, NEW q, NEW known, NEW more, known \subseteq more,
           Quoted(q, known, routes, prices)
    PROVE  Quoted(q, more, routes', prices')
BY DEF Quoted, Holds, ChargedUnder, RowsKept

-----------------------------------------------------------------------------
(* Shapes.                                                                 *)

LEMMA CatalogShapeStep ==
    ASSUME ShapeInv, [Next]_vars
    PROVE  CatalogInv'
<1> USE CatalogAssumption DEF ShapeInv, CatalogInv
<1>1. ASSUME NEW r \in Requests, RequestStep(r) PROVE CatalogInv'
    <2>1. UNCHANGED catalogVars
        BY <1>1 DEF RequestStep, LoadConfig, ReadRoute, ReadPrice, Decide, RetireSnapshots,
                    PublishSnapshots, TransactionFails, Admit, Stop, Settle
    <2> QED  BY <2>1 DEF catalogVars
<1>2. ASSUME NEW p \in Profiles, NEW c \in Contents, UpsertPricingProfile(p, c)
      PROVE  CatalogInv'
    BY <1>2 DEF UpsertPricingProfile, Edit
<1>3. ASSUME NEW p \in Profiles, CountReferences(p) PROVE CatalogInv'
    BY <1>3 DEF CountReferences
<1>4. CASE DeletePricingProfile
    BY <1>4 DEF DeletePricingProfile, Edit
<1>5. ASSUME NEW l \in Listings, SaveListing(l) PROVE CatalogInv'
    BY <1>5 DEF SaveListing, Edit
<1>6. CASE DeleteListing
    BY <1>6 DEF DeleteListing, Edit
<1>7. CASE UNCHANGED vars
    BY <1>7 DEF vars, catalogVars
<1> QED  BY <1>1, <1>2, <1>3, <1>4, <1>5, <1>6, <1>7 DEF Next, AdminStep

\* A request that keeps its shape but for the fields a step writes.
LEMMA RequestWritten ==
    ASSUME RequestsInv, NEW r \in Requests, NEW x, RequestShape(x),
           req' = [req EXCEPT ![r] = x]
    PROVE  /\ req' = [q \in Requests |-> req'[q]]
           /\ \A q \in Requests : RequestShape(req'[q])
           /\ req'[r] = x /\ \A q \in Requests \ {r} : req'[q] = req[q]
<1>1. DOMAIN req = Requests
    BY DEF RequestsInv
<1>2. req'[r] = x /\ \A q \in Requests \ {r} : req'[q] = req[q]
    BY <1>1
<1>3. req' = [q \in Requests |-> req'[q]]
    BY <1>1
<1> QED  BY <1>2, <1>3 DEF RequestsInv

-----------------------------------------------------------------------------
(* The steps of a request.                                                 *)

\* The request of a step keeps its shape and stays quoted.
Kept(r) == RequestsInv' /\ Quoted(req[r], seen[r], routes, prices)'

LEMMA WrittenKept ==
    ASSUME RequestsInv, NEW r \in Requests, NEW x, RequestShape(x),
           req' = [req EXCEPT ![r] = x],
           seen' \in [Requests -> SUBSET (Configs \cup {None})],
           Quoted(x, seen'[r], routes', prices')
    PROVE  Kept(r) /\ \A q \in Requests \ {r} : req'[q] = req[q]
<1>1. /\ req' = [q \in Requests |-> req'[q]]
      /\ \A q \in Requests : RequestShape(req'[q])
      /\ req'[r] = x /\ \A q \in Requests \ {r} : req'[q] = req[q]
    BY RequestWritten
<1>2. RequestsInv'
    BY <1>1 DEF RequestsInv, RequestShape
<1>3. Quoted(req[r], seen[r], routes, prices)'
    BY <1>1
<1> QED  BY <1>1, <1>2, <1>3 DEF Kept

\* A step to a stage that holds nothing.
LEMMA LeaveKept ==
    ASSUME RequestsInv, NEW r \in Requests, UNCHANGED seen,
           NEW s \in Done \cup {"retiring"}, s # "settled", Move(r, s)
    PROVE  Kept(r) /\ \A q \in Requests \ {r} : req'[q] = req[q]
<1> DEFINE x == [req[r] EXCEPT !.stage = s]
<1>1. req' = [req EXCEPT ![r] = x]
    BY DEF Move
<1>2. RequestShape(req[r]) /\ seen \in [Requests -> SUBSET (Configs \cup {None})]
    BY DEF RequestsInv
<1>3. RequestShape(x) /\ x.stage = s
    BY <1>2 DEF RequestShape, ShapedWith, Stages, Done, Resolving
<1> HIDE DEF x
<1>4. Quoted(x, seen'[r], routes', prices')
    BY <1>3 DEF Quoted, Done
<1> QED  BY <1>1, <1>2, <1>3, <1>4, WrittenKept

LEMMA LoadKept ==
    ASSUME QuoteInv, NEW r \in Requests, LoadConfig(r)
    PROVE  Kept(r) /\ \A q \in Requests \ {r} : req'[q] = req[q]
<1> DEFINE x == [req[r] EXCEPT !.stage = "reading", !.config = Config]
<1>0. RequestsInv /\ RequestShape(req[r])
    BY DEF QuoteInv, ShapeInv, RequestsInv
<1>1. Config \in Configs \cup {None}
    BY ConfigType DEF QuoteInv, ShapeInv, CatalogInv, Config
<1>2. /\ req' = [req EXCEPT ![r] = x]
      /\ seen' = [seen EXCEPT ![r] = {Config}]
    BY DEF LoadConfig
<1> HIDE DEF Config
<1>3. RequestShape(x) /\ x.stage = "reading" /\ x.config = Config
    <2>1. x \in ShapedWith(req[r].sku, req[r].usage, req[r].charged)
        BY <1>0, <1>1 DEF RequestShape, ShapedWith, Stages, Resolving
    <2>2. x.stage = "reading" /\ x.config = Config
        BY <1>0 DEF RequestShape, ShapedWith
    <2> QED  BY <2>1, <2>2, ShapeFrom
<1>4. seen' \in [Requests -> SUBSET (Configs \cup {None})] /\ seen'[r] = {Config}
    BY <1>0, <1>1, <1>2 DEF RequestsInv
<1>5. x.route = Unread /\ x.price = Unread
    <2>1. req[r].route = Unread /\ req[r].price = Unread
        BY DEF LoadConfig, QuoteInv, Quoted
    <2> QED  BY <1>0, <2>1 DEF RequestShape, ShapedWith
<1> HIDE DEF x
<1>6. Quoted(x, seen'[r], routes', prices')
    BY <1>3, <1>4, <1>5 DEF Quoted
<1> QED  BY <1>0, <1>2, <1>3, <1>4, <1>6, WrittenKept

\* activeSnapshots: what is read is a row, or none.
LEMMA ReadKept ==
    ASSUME QuoteInv, NEW r \in Requests, ReadRoute(r) \/ ReadPrice(r)
    PROVE  Kept(r) /\ \A q \in Requests \ {r} : req'[q] = req[q]
<1>0. /\ RequestsInv /\ RequestShape(req[r]) /\ Quoted(req[r], seen[r], routes, prices)
      /\ req[r].stage = "reading" /\ UNCHANGED <<routes, prices, seen>>
      /\ seen \in [Requests -> SUBSET (Configs \cup {None})]
    BY DEF QuoteInv, ShapeInv, RequestsInv, ReadRoute, ReadPrice, snapshotVars
<1>1. /\ routes \in Seq(RouteRows) /\ prices \in Seq(PriceRows)
      /\ \A v \in DOMAIN routes : v \in Int
      /\ \A v \in DOMAIN prices : v \in Int
    BY DEF QuoteInv, ShapeInv, RowsInv
<1>2. CASE ReadRoute(r)
    <2> DEFINE x == [req[r] EXCEPT !.route = Active(routes)]
    <2>1. req' = [req EXCEPT ![r] = x]
        BY <1>2 DEF ReadRoute
    <2>2. Active(routes) \in {0} \cup DOMAIN routes /\ Active(routes) \in Int
        BY <1>1, ActiveIsRow DEF ActiveOf
    <2>3. /\ RequestShape(x) /\ x.stage = "reading" /\ x.config = req[r].config
          /\ x.price = req[r].price /\ x.route \in {0} \cup DOMAIN routes
        <3>1. x \in ShapedWith(req[r].sku, req[r].usage, req[r].charged)
            BY <1>0, <2>2 DEF RequestShape, ShapedWith
        <3>2. /\ x.stage = req[r].stage /\ x.config = req[r].config
              /\ x.price = req[r].price /\ x.route = Active(routes)
            BY <1>0 DEF RequestShape, ShapedWith
        <3> HIDE DEF x
        <3> QED  BY <1>0, <2>2, <3>1, <3>2, ShapeFrom
    <2> HIDE DEF x
    <2>4. Quoted(x, seen'[r], routes', prices')
        BY <1>0, <2>3 DEF Quoted
    <2> QED  BY <1>0, <2>1, <2>3, <2>4, WrittenKept
<1>3. CASE ReadPrice(r)
    <2> DEFINE x == [req[r] EXCEPT !.price = Active(prices)]
    <2>1. req' = [req EXCEPT ![r] = x]
        BY <1>3 DEF ReadPrice
    <2>2. Active(prices) \in {0} \cup DOMAIN prices /\ Active(prices) \in Int
        BY <1>1, ActiveIsRow DEF ActiveOf
    <2>3. /\ RequestShape(x) /\ x.stage = "reading" /\ x.config = req[r].config
          /\ x.route = req[r].route /\ x.price \in {0} \cup DOMAIN prices
        <3>1. x \in ShapedWith(req[r].sku, req[r].usage, req[r].charged)
            BY <1>0, <2>2 DEF RequestShape, ShapedWith
        <3>2. /\ x.stage = req[r].stage /\ x.config = req[r].config
              /\ x.route = req[r].route /\ x.price = Active(prices)
            BY <1>0 DEF RequestShape, ShapedWith
        <3> HIDE DEF x
        <3> QED  BY <1>0, <2>2, <3>1, <3>2, ShapeFrom
    <2> HIDE DEF x
    <2>4. Quoted(x, seen'[r], routes', prices')
        BY <1>0, <2>3 DEF Quoted
    <2> QED  BY <1>0, <2>1, <2>3, <2>4, WrittenKept
<1> QED  BY <1>2, <1>3

\* The hot path: versions read in two statements, both those of the
\* configuration.
LEMMA DecideKept ==
    ASSUME QuoteInv, NEW r \in Requests, Decide(r)
    PROVE  Kept(r) /\ \A q \in Requests \ {r} : req'[q] = req[q]
<1>0. /\ RequestsInv /\ RequestShape(req[r]) /\ Quoted(req[r], seen[r], routes, prices)
      /\ req[r].stage = "reading" /\ Unread \notin {req[r].route, req[r].price}
      /\ UNCHANGED <<routes, prices, seen>>
      /\ seen \in [Requests -> SUBSET (Configs \cup {None})]
    BY DEF QuoteInv, ShapeInv, RequestsInv, Decide, snapshotVars
<1>1. CASE \E s \in {"refused", "retiring"} : Move(r, s)
    BY <1>0, <1>1, LeaveKept DEF Done
<1>2. ASSUME NEW s \in {"publishing", "resolved"}, Move(r, s), req[r].config # None,
             s = "resolved" => /\ RouteMatches(req[r].route, req[r].config)
                               /\ PriceMatches(req[r].price, req[r].config)
      PROVE  Kept(r) /\ \A q \in Requests \ {r} : req'[q] = req[q]
    <2> DEFINE x == [req[r] EXCEPT !.stage = s]
    <2>1. req' = [req EXCEPT ![r] = x]
        BY <1>2 DEF Move
    <2>2. /\ RequestShape(x) /\ x.stage = s /\ x.config = req[r].config
          /\ x.route = req[r].route /\ x.price = req[r].price
        <3>1. x \in ShapedWith(req[r].sku, req[r].usage, req[r].charged)
            BY <1>0 DEF RequestShape, ShapedWith, Stages, Resolving
        <3>2. /\ x.stage = s /\ x.config = req[r].config
              /\ x.route = req[r].route /\ x.price = req[r].price
            BY <1>0 DEF RequestShape, ShapedWith
        <3> QED  BY <3>1, <3>2, ShapeFrom
    <2> HIDE DEF x
    <2>3. s = "resolved" => Holds(x, x.config, routes, prices)
        BY <1>0, <1>2, <2>2 DEF Quoted, Holds, RouteMatches, PriceMatches
    <2>4. x.config \in seen[r] /\ x.config # None
        BY <1>0, <1>2, <2>2 DEF Quoted
    <2>5. Quoted(x, seen'[r], routes', prices')
        BY <1>0, <2>2, <2>3, <2>4 DEF Quoted, Holds
    <2> QED  BY <1>0, <2>1, <2>2, <2>5, WrittenKept
<1> QED  BY <1>1, <1>2 DEF Decide

\* The publishing transaction: the versions it finds or those it appends.
LEMMA PublishKept ==
    ASSUME QuoteInv, NEW r \in Requests, PublishSnapshots(r)
    PROVE  Kept(r) /\ \A q \in Requests \ {r} : req'[q] = req[q]
<1> DEFINE c == req[r].config
           x == [req[r] EXCEPT !.stage = "resolved", !.route = Active(routes'),
                               !.price = Active(prices')]
<1>0. /\ RequestsInv /\ RequestShape(req[r]) /\ Quoted(req[r], seen[r], routes, prices)
      /\ req[r].stage = "publishing" /\ UNCHANGED seen
      /\ seen \in [Requests -> SUBSET (Configs \cup {None})]
    BY DEF QuoteInv, ShapeInv, RequestsInv, PublishSnapshots
<1>1. /\ routes \in Seq(RouteRows) /\ prices \in Seq(PriceRows)
      /\ Retirable(RouteRows) /\ Retirable(PriceRows)
    BY RowSetsRetirable DEF QuoteInv, ShapeInv, RowsInv
<1>2. c \in Configs /\ c # None /\ c \in seen[r]
    BY <1>0 DEF Quoted, RequestShape, ShapedWith
<1>3. req' = [req EXCEPT ![r] = x]
    BY DEF PublishSnapshots
<1>4. /\ Active(routes') \in Int /\ Active(routes') \in DOMAIN routes'
      /\ routes'[Active(routes')].newapiGroup = c.newapiGroup
      /\ Active(prices') \in Int /\ Active(prices') \in DOMAIN prices'
      /\ prices'[Active(prices')].terms = c.terms
    <2>1. CASE RouteMatches(Active(routes), c) /\ PriceMatches(Active(prices), c)
        <3>1. UNCHANGED <<routes, prices>>
            BY <2>1 DEF PublishSnapshots
        <3>2. Active(routes) \in DOMAIN routes /\ Active(prices) \in DOMAIN prices
            BY <2>1, ActiveIsRow DEF RouteMatches, PriceMatches, ActiveOf
        <3>3. Active(routes) \in Int /\ Active(prices) \in Int
            BY <1>1, <3>2
        <3> QED  BY <2>1, <3>1, <3>2, <3>3 DEF RouteMatches, PriceMatches
    <2>2. CASE ~(RouteMatches(Active(routes), c) /\ PriceMatches(Active(prices), c))
        <3> DEFINE a == [newapiGroup |-> c.newapiGroup, status |-> "active"]
                   b == [terms |-> c.terms, status |-> "active"]
        <3>1. routes' = Append(Retired(routes), a) /\ prices' = Append(Retired(prices), b)
            BY <2>2 DEF PublishSnapshots
        <3>2. /\ a \in RouteRows /\ a.status = "active" /\ a.newapiGroup = c.newapiGroup
              /\ b \in PriceRows /\ b.status = "active" /\ b.terms = c.terms
            BY <1>2 DEF Configs, RouteRows, PriceRows
        <3> HIDE DEF a, b
        <3>3. /\ Active(Append(Retired(routes), a)) = Len(routes) + 1
              /\ Len(routes) + 1 \in DOMAIN Append(Retired(routes), a)
              /\ Append(Retired(routes), a)[Len(routes) + 1] = a
            BY <1>1, <3>2, PublishedRows
        <3>4. /\ Active(Append(Retired(prices), b)) = Len(prices) + 1
              /\ Len(prices) + 1 \in DOMAIN Append(Retired(prices), b)
              /\ Append(Retired(prices), b)[Len(prices) + 1] = b
            BY <1>1, <3>2, PublishedRows
        <3>5. Len(routes) + 1 \in Int /\ Len(prices) + 1 \in Int
            BY <1>1
        <3> QED  BY <3>1, <3>2, <3>3, <3>4, <3>5
    <2> QED  BY <2>1, <2>2
<1>5. x \in ShapedWith(req[r].sku, req[r].usage, req[r].charged)
    BY <1>0, <1>4 DEF RequestShape, ShapedWith, Stages
<1>6. /\ x.stage = "resolved" /\ x.config = c
      /\ x.route = Active(routes') /\ x.price = Active(prices')
    BY <1>0 DEF RequestShape, ShapedWith
<1> HIDE DEF x
<1>7. RequestShape(x)
    BY <1>5, ShapeFrom
<1>8. Holds(x, x.config, routes', prices')
    BY <1>4, <1>6 DEF Holds
<1>9. Quoted(x, seen'[r], routes', prices')
    BY <1>0, <1>2, <1>6, <1>8 DEF Quoted
<1> QED  BY <1>0, <1>3, <1>7, <1>9, WrittenKept

\* Another attempt, or none left.
LEMMA FailsKept ==
    ASSUME QuoteInv, NEW r \in Requests, TransactionFails(r)
    PROVE  Kept(r) /\ \A q \in Requests \ {r} : req'[q] = req[q]
<1>0. /\ RequestsInv /\ RequestShape(req[r]) /\ Quoted(req[r], seen[r], routes, prices)
      /\ UNCHANGED <<routes, prices, seen>>
      /\ seen \in [Requests -> SUBSET (Configs \cup {None})]
    BY DEF QuoteInv, ShapeInv, RequestsInv, TransactionFails, snapshotVars
<1>1. CASE Move(r, "failed")
    BY <1>0, <1>1, LeaveKept DEF Done
<1>2. CASE req[r].stage = "publishing" /\ req' = [req EXCEPT ![r].tries = @ + 1]
    <2> DEFINE x == [req[r] EXCEPT !.tries = @ + 1]
    <2>1. req' = [req EXCEPT ![r] = x]
        BY <1>2
    <2>2. x \in ShapedWith(req[r].sku, req[r].usage, req[r].charged)
        BY <1>0 DEF RequestShape, ShapedWith
    <2>3. x.stage = "publishing" /\ x.config = req[r].config
        BY <1>0, <1>2 DEF RequestShape, ShapedWith
    <2> HIDE DEF x
    <2>4. RequestShape(x)
        BY <2>2, ShapeFrom
    <2>5. Quoted(x, seen'[r], routes', prices')
        BY <1>0, <1>2, <2>3 DEF Quoted
    <2> QED  BY <1>0, <2>1, <2>4, <2>5, WrittenKept
<1> QED  BY <1>1, <1>2 DEF TransactionFails

\* Admission keeps the versions that were resolved.
LEMMA AdmitKept ==
    ASSUME QuoteInv, NEW r \in Requests, NEW fact, NEW size, Admit(r, fact, size)
    PROVE  Kept(r) /\ \A q \in Requests \ {r} : req'[q] = req[q]
<1> DEFINE sku == AdmissionSku(prices[req[r].price].terms, fact, size)
<1>0. /\ RequestsInv /\ RequestShape(req[r]) /\ Quoted(req[r], seen[r], routes, prices)
      /\ req[r].stage = "resolved" /\ UNCHANGED <<routes, prices, seen>>
      /\ seen \in [Requests -> SUBSET (Configs \cup {None})]
    BY DEF QuoteInv, ShapeInv, RequestsInv, Admit, snapshotVars
<1>1. CASE Move(r, "refused")
    BY <1>0, <1>1, LeaveKept DEF Done
<1>2. CASE req' = [req EXCEPT ![r].stage = "admitted", ![r].sku = sku]
    <2> HIDE DEF sku
    <2> DEFINE x == [req[r] EXCEPT !.stage = "admitted", !.sku = sku]
    <2>1. req' = [req EXCEPT ![r] = x]
        BY <1>2
    <2>2. x \in ShapedWith(sku, req[r].usage, req[r].charged)
        BY <1>0 DEF RequestShape, ShapedWith, Stages
    <2>3. /\ x.stage = "admitted" /\ x.config = req[r].config
          /\ x.route = req[r].route /\ x.price = req[r].price
        BY <1>0 DEF RequestShape, ShapedWith
    <2> HIDE DEF x
    <2>4. RequestShape(x)
        BY <2>2, ShapeFrom
    <2>5. Quoted(x, seen'[r], routes', prices')
        BY <1>0, <2>3 DEF Quoted, Holds
    <2> QED  BY <1>0, <2>1, <2>4, <2>5, WrittenKept
<1> QED  BY <1>1, <1>2 DEF Admit

\* Settlement reads the version of the row, which still says what the
\* configuration said.
LEMMA SettleKept ==
    ASSUME QuoteInv, NEW r \in Requests, NEW usage, NEW quantity, Settle(r, usage, quantity)
    PROVE  Kept(r) /\ \A q \in Requests \ {r} : req'[q] = req[q]
<1> DEFINE price  == prices[req[r].price].terms
           meters == MeterByThreshold(usage, req[r].config.terms.threshold)
           sku    == SkuOf(req[r])
           used   == [meters |-> usage, quantity |-> quantity]
           charge == ComputePricingCharge(price.spec, meters, 0, sku, quantity)
           x      == [req[r] EXCEPT !.stage = "settled", !.usage = used, !.charged = charge]
<1>0. /\ RequestsInv /\ RequestShape(req[r]) /\ Quoted(req[r], seen[r], routes, prices)
      /\ req[r].stage = "admitted" /\ UNCHANGED <<routes, prices, seen>>
      /\ seen \in [Requests -> SUBSET (Configs \cup {None})]
    BY DEF QuoteInv, ShapeInv, RequestsInv, Settle, snapshotVars
<1>1. /\ req' = [req EXCEPT ![r] = x]
      /\ Chargeable(price.spec, sku, quantity)
    BY DEF Settle
<1>2. price = req[r].config.terms
    BY <1>0 DEF Quoted, Holds
<1>3. used.meters = usage /\ used.quantity = quantity
    OBVIOUS
<1> HIDE DEF used, sku, charge
<1>4. x \in ShapedWith(req[r].sku, used, charge)
    BY <1>0 DEF RequestShape, ShapedWith, Stages, Done
<1>5. /\ x.stage = "settled" /\ x.config = req[r].config /\ x.usage = used
      /\ x.route = req[r].route /\ x.price = req[r].price /\ x.charged = charge
      /\ x.sku = req[r].sku
    BY <1>0 DEF RequestShape, ShapedWith
<1> HIDE DEF x
<1>6. RequestShape(x)
    BY <1>4, ShapeFrom
<1>7. SkuOf(x) = sku
    BY <1>5 DEF SkuOf, sku
<1>8. ChargedUnder(x, x.config)
    <2>1. charge = ComputePricingCharge(x.config.terms.spec,
                       MeterByThreshold(x.usage.meters, x.config.terms.threshold), 0,
                       SkuOf(x), x.usage.quantity)
        BY <1>2, <1>3, <1>5, <1>7 DEF charge
    <2>2. Chargeable(x.config.terms.spec, SkuOf(x), x.usage.quantity)
        BY <1>1, <1>2, <1>3, <1>5, <1>7
    <2> QED  BY <1>5, <2>1, <2>2 DEF ChargedUnder
<1>9. Quoted(x, seen'[r], routes', prices')
    BY <1>0, <1>5, <1>8 DEF Quoted, Holds
<1> QED  BY <1>0, <1>1, <1>6, <1>9, WrittenKept

-----------------------------------------------------------------------------
(* Every step.                                                             *)

\* A step of one request leaves what the others have seen.
LEMMA SeenStep ==
    ASSUME RequestsInv, NEW r \in Requests, RequestStep(r)
    PROVE  \A q \in Requests \ {r} : seen'[q] = seen[q]
BY DEF RequestsInv, RequestStep, LoadConfig, ReadRoute, ReadPrice, Decide, RetireSnapshots,
       PublishSnapshots, TransactionFails, Admit, Stop, Settle

LEMMA RequestStepKept ==
    ASSUME QuoteInv, NEW r \in Requests, RequestStep(r)
    PROVE  Kept(r) /\ \A q \in Requests \ {r} : req'[q] = req[q]
<1>0. RequestsInv
    BY DEF QuoteInv, ShapeInv
<1>1. CASE RetireSnapshots(r) \/ Stop(r)
    BY <1>0, <1>1, LeaveKept DEF RetireSnapshots, Stop, Done
<1>2. ASSUME NEW fact \in Facts, NEW size \in Sizes, Admit(r, fact, size)
      PROVE  Kept(r) /\ \A q \in Requests \ {r} : req'[q] = req[q]
    BY <1>2, AdmitKept
<1>3. ASSUME NEW usage \in Usages, NEW quantity \in Quantities, Settle(r, usage, quantity)
      PROVE  Kept(r) /\ \A q \in Requests \ {r} : req'[q] = req[q]
    BY <1>3, SettleKept
<1>4. CASE LoadConfig(r)
    BY <1>4, LoadKept
<1>5. CASE ReadRoute(r) \/ ReadPrice(r)
    BY <1>5, ReadKept
<1>6. CASE Decide(r)
    BY <1>6, DecideKept
<1>7. CASE PublishSnapshots(r)
    BY <1>7, PublishKept
<1>8. CASE TransactionFails(r)
    BY <1>8, FailsKept
<1> QED  BY <1>1, <1>2, <1>3, <1>4, <1>5, <1>6, <1>7, <1>8 DEF RequestStep

\* An edit adds the new configuration to what resolving requests have seen.
LEMMA EditSeen ==
    ASSUME ShapeInv, AdminStep
    PROVE  /\ UNCHANGED req
           /\ seen' \in [Requests -> SUBSET (Configs \cup {None})]
           /\ \A q \in Requests : seen[q] \subseteq seen'[q]
<1> USE CatalogAssumption DEF ShapeInv, CatalogInv
<1>1. seen \in [Requests -> SUBSET (Configs \cup {None})]
    BY DEF RequestsInv
<1>2. ASSUME NEW l \in Listings \cup {None}, NEW ps \in [Profiles -> Contents \cup {None}],
             Edit(l, ps)
      PROVE  /\ UNCHANGED req
             /\ seen' \in [Requests -> SUBSET (Configs \cup {None})]
             /\ \A q \in Requests : seen[q] \subseteq seen'[q]
    <2> DEFINE c == AssessPublishReadiness(l, ps)
    <2>1. c \in Configs \cup {None}
        BY ConfigType
    <2> HIDE DEF c
    <2>2. seen' = [q \in Requests |-> IF req[q].stage \in Resolving
                                      THEN seen[q] \cup {c} ELSE seen[q]]
        BY <1>2 DEF Edit, c
    <2> QED  BY <1>1, <1>2, <2>1, <2>2 DEF Edit
<1>3. ASSUME NEW p \in Profiles, NEW content \in Contents, UpsertPricingProfile(p, content)
      PROVE  \E l \in Listings \cup {None}, ps \in [Profiles -> Contents \cup {None}] :
                Edit(l, ps)
    <2>1. [profiles EXCEPT ![p] = content] \in [Profiles -> Contents \cup {None}]
        OBVIOUS
    <2> QED  BY <1>3, <2>1 DEF UpsertPricingProfile
<1>4. ASSUME DeletePricingProfile
      PROVE  \E l \in Listings \cup {None}, ps \in [Profiles -> Contents \cup {None}] :
                Edit(l, ps)
    <2>1. [profiles EXCEPT ![deleting] = None] \in [Profiles -> Contents \cup {None}]
        OBVIOUS
    <2> QED  BY <1>4, <2>1 DEF DeletePricingProfile
<1>5. ASSUME NEW p \in Profiles, CountReferences(p)
      PROVE  UNCHANGED <<req, seen>>
    BY <1>5 DEF CountReferences
<1>6. ASSUME DeleteListing \/ \E l \in Listings : SaveListing(l)
      PROVE  \E l \in Listings \cup {None} : Edit(l, profiles)
    BY <1>6 DEF DeleteListing, SaveListing
<1> QED  BY <1>1, <1>2, <1>3, <1>4, <1>5, <1>6 DEF AdminStep

LEMMA QuoteStep == QuoteInv /\ [Next]_vars => QuoteInv'
<1> SUFFICES ASSUME QuoteInv, [Next]_vars PROVE QuoteInv'
    OBVIOUS
<1>0. ShapeInv /\ CatalogInv /\ RowsInv /\ RequestsInv
    BY DEF QuoteInv, ShapeInv
<1>1. \A r \in Requests : Quoted(req[r], seen[r], routes, prices)
    BY DEF QuoteInv
<1>2. \A r \in Requests : req[r].stage = "publishing" => req[r].config # None
    BY <1>1 DEF Quoted
<1>3. CatalogInv'
    BY <1>0, CatalogShapeStep
<1>4. RowsInv' /\ RowsKept
    BY <1>0, <1>2, NextIsRowsStep, RowsStepEffect
<1>5. ASSUME NEW r \in Requests, RequestStep(r)
      PROVE  RequestsInv' /\ \A q \in Requests : Quoted(req[q], seen[q], routes, prices)'
    <2>1. Kept(r) /\ \A q \in Requests \ {r} : req'[q] = req[q]
        BY <1>5, RequestStepKept
    <2>2. ASSUME NEW q \in Requests \ {r}
          PROVE  Quoted(req'[q], seen'[q], routes', prices')
        <3>1. seen'[q] = seen[q] /\ req'[q] = req[q]
            BY <1>0, <1>5, <2>1, SeenStep
        <3>2. Quoted(req[q], seen[q], routes', prices')
            BY <1>1, <1>4, QuotedIsStable
        <3> QED  BY <3>1, <3>2
    <2> QED  BY <2>1, <2>2 DEF Kept
<1>6. CASE AdminStep
    <2>1. /\ UNCHANGED req
          /\ seen' \in [Requests -> SUBSET (Configs \cup {None})]
          /\ \A q \in Requests : seen[q] \subseteq seen'[q]
        BY <1>0, <1>6, EditSeen
    <2>2. \A q \in Requests : Quoted(req[q], seen'[q], routes', prices')
        BY <1>1, <1>4, <2>1, QuotedIsStable
    <2>3. RequestsInv'
        BY <1>0, <2>1 DEF RequestsInv, RequestShape
    <2> QED  BY <2>1, <2>2, <2>3, <1>3, <1>4 DEF QuoteInv, ShapeInv
<1>7. CASE UNCHANGED vars
    <2>1. UNCHANGED <<routes, prices, req, seen>>
        BY <1>7 DEF vars, snapshotVars
    <2>2. RequestsInv'
        BY <1>0, <2>1 DEF RequestsInv, RequestShape
    <2>3. \A r \in Requests : Quoted(req[r], seen[r], routes, prices)'
        BY <1>1, <2>1
    <2> QED  BY <1>3, <1>4, <2>2, <2>3 DEF QuoteInv, ShapeInv
<1> QED  BY <1>3, <1>4, <1>5, <1>6, <1>7 DEF Next, QuoteInv, ShapeInv

LEMMA QuoteHolds == Init /\ [][Next]_vars => []QuoteInv
BY QuoteInit, QuoteStep, PTL

-----------------------------------------------------------------------------
(* The theorems.                                                           *)

\* What every step does to the rows, from the invariant.
LEMMA NextRows ==
    ASSUME QuoteInv, [Next]_vars
    PROVE  RowsInv /\ RowsStep
<1>1. ShapeInv /\ RowsInv
    BY DEF QuoteInv, ShapeInv
<1>2. \A r \in Requests : req[r].stage = "publishing" => req[r].config # None
    BY DEF QuoteInv, Quoted
<1> QED  BY <1>1, <1>2, NextIsRowsStep

(***************************************************************************)
(* The route and the price of a model are published and retired as one:    *)
(* any number of requests republishing at once never leave two active      *)
(* versions or a route with another version's price.                       *)
(***************************************************************************)
THEOREM VersionsArePaired == Init /\ [][Next]_vars => []SnapshotsPaired
<1>1. Init => SnapshotsPaired
    BY DEF Init, SnapshotsPaired, ActiveOf
<1>2. QuoteInv /\ SnapshotsPaired /\ [Next]_vars => SnapshotsPaired'
    BY NextRows, RowsStepEffect
<1> QED  BY <1>1, <1>2, QuoteHolds, PTL

(***************************************************************************)
(* A version that has been published is never rewritten: a ledger row      *)
(* means the same price for ever.                                          *)
(***************************************************************************)
THEOREM VersionsAreImmutable == Init /\ [][Next]_vars => PublishedIsImmutable
<1>1. QuoteInv /\ [Next]_vars =>
        [/\ \A v \in DOMAIN prices : prices'[v] \in {prices[v], Retired(prices)[v]}
         /\ \A v \in DOMAIN routes : routes'[v] \in {routes[v], Retired(routes)[v]}
         /\ Len(prices') \in {Len(prices), Len(prices) + 1}]_snapshotVars
    BY NextRows, RowsStepEffect
<1> QED  BY <1>1, QuoteHolds, PTL DEF PublishedIsImmutable

(***************************************************************************)
(* A settled request was charged by a configuration that was in force at   *)
(* some moment while it resolved, the one it was routed by.                *)
(***************************************************************************)
THEOREM ChargesAreQuoted == Init /\ [][Next]_vars => []ChargedAsQuoted
<1>1. ASSUME QuoteInv PROVE ChargedAsQuoted
    <2> SUFFICES ASSUME NEW r \in Requests, req[r].stage = "settled"
                 PROVE  \E c \in seen[r] \ {None} :
                           LET usage == req[r].usage
                               sku   == SkuOf(req[r])
                           IN  /\ routes[req[r].route].newapiGroup = c.newapiGroup
                               /\ Chargeable(c.terms.spec, sku, usage.quantity)
                               /\ req[r].charged =
                                    ComputePricingCharge(c.terms.spec,
                                        MeterByThreshold(usage.meters, c.terms.threshold),
                                        0, sku, usage.quantity)
        BY DEF ChargedAsQuoted
    <2>1. Quoted(req[r], seen[r], routes, prices)
        BY <1>1 DEF QuoteInv
    <2>2. /\ req[r].config \in seen[r] \ {None}
          /\ Holds(req[r], req[r].config, routes, prices)
          /\ ChargedUnder(req[r], req[r].config)
        BY <2>1 DEF Quoted
    <2> QED  BY <2>2 DEF Holds, ChargedUnder
<1>2. QuoteInv => ChargedAsQuoted
    BY <1>1
<1> QED  BY <1>2, QuoteHolds, PTL

-----------------------------------------------------------------------------
(* Sums.  The sums of Pricing run over a set in the order CHOOSE takes its *)
(* elements; what follows shows that the order plays no part.              *)

\* The element a sum takes first.
First(s) == CHOOSE x \in s : TRUE

\* g sums f over the subsets of S, one element at a time.
Adds(g, f, S) ==
    g = [s \in SUBSET S |-> IF s = {} THEN 0
                            ELSE LET x == First(s) IN f[x] + g[s \ {x}]]

Total(f, S) == (CHOOSE g : Adds(g, f, S))[S]

\* SumOf of Pricing is this sum.
LEMMA SumOfIsTotal ==
    ASSUME NEW f, NEW keys
    PROVE  SumOf(f, keys) = Total(f, keys \cap DOMAIN f)
BY DEF SumOf, MapThenSumSet, MapThenFoldSet, Total, Adds, First

\* A non-empty set of natural numbers has a smallest element.
LEMMA SmallestOf ==
    ASSUME NEW T \in SUBSET Nat, T # {}
    PROVE  \E n \in T : \A m \in T : n <= m
<1>1. PICK n \in T : \A m \in T : ~(<<m, n>> \in OpToRel(<, Nat))
    BY NatLessThanWellFounded, WFMin
<1>2. \A m \in T : ~(m < n)
    BY <1>1 DEF OpToRel
<1> QED  BY <1>2

\* What g does to a set.
LEMMA AddsAt ==
    ASSUME NEW f, NEW S, NEW g, Adds(g, f, S), NEW s \in SUBSET S
    PROVE  /\ s = {} => g[s] = 0
           /\ s # {} => First(s) \in s /\ g[s] = f[First(s)] + g[s \ {First(s)}]
<1>1. g[s] = IF s = {} THEN 0 ELSE f[First(s)] + g[s \ {First(s)}]
    BY DEF Adds
<1>2. s # {} => First(s) \in s
    BY DEF First
<1> QED  BY <1>1, <1>2

\* Without its first element a finite set is smaller.
LEMMA WithoutOne ==
    ASSUME NEW s, IsFiniteSet(s), NEW x \in s
    PROVE  /\ IsFiniteSet(s \ {x})
           /\ Cardinality(s) \in Nat /\ Cardinality(s \ {x}) \in Nat
           /\ Cardinality(s \ {x}) < Cardinality(s)
<1>1. IsFiniteSet(s \ {x}) /\ Cardinality(s \ {x}) = Cardinality(s) - 1
    BY FS_RemoveElement
<1>2. Cardinality(s) \in Nat /\ Cardinality(s \ {x}) \in Nat
    BY <1>1, FS_CardinalityType
<1> QED  BY <1>1, <1>2

\* Two sums agree on every finite set that both of them cover.
LEMMA AddsAgree ==
    ASSUME NEW f, NEW S1, NEW S2, NEW g1, NEW g2, Adds(g1, f, S1), Adds(g2, f, S2),
           NEW s \in SUBSET (S1 \cap S2), IsFiniteSet(s)
    PROVE  g1[s] = g2[s]
<1> DEFINE bad == {t \in SUBSET s : g1[t] # g2[t]}
           sizes == {Cardinality(t) : t \in bad}
<1>1. \A t \in SUBSET s : IsFiniteSet(t) /\ Cardinality(t) \in Nat
    BY FS_Subset, FS_CardinalityType
<1>2. sizes \in SUBSET Nat
    BY <1>1
<1>3. CASE bad # {}
    <2>1. sizes # {}
        BY <1>3
    <2>2. PICK n \in sizes : \A m \in sizes : n <= m
        BY <1>2, <2>1, SmallestOf
    <2>3. PICK t \in bad : n = Cardinality(t)
        BY <2>2
    <2>4. t \in SUBSET S1 /\ t \in SUBSET S2 /\ t \in SUBSET s
        BY <2>3
    <2>5. t # {}
        <3>1. t = {} => g1[t] = 0 /\ g2[t] = 0
            BY <2>4, AddsAt
        <3> QED  BY <2>3, <3>1
    <2>6. /\ First(t) \in t
          /\ g1[t] = f[First(t)] + g1[t \ {First(t)}]
          /\ g2[t] = f[First(t)] + g2[t \ {First(t)}]
        <3> HIDE DEF bad, sizes
        <3>1. First(t) \in t /\ g1[t] = f[First(t)] + g1[t \ {First(t)}]
            BY <2>4, <2>5, AddsAt
        <3>2. g2[t] = f[First(t)] + g2[t \ {First(t)}]
            BY <2>4, <2>5, AddsAt
        <3> QED  BY <3>1, <3>2
    <2>7. Cardinality(t \ {First(t)}) < Cardinality(t) /\ Cardinality(t \ {First(t)}) \in Nat
        BY <1>1, <2>4, <2>6, WithoutOne
    <2>8. t \ {First(t)} \notin bad
        BY <1>1, <2>2, <2>3, <2>4, <2>7
    <2>9. g1[t \ {First(t)}] = g2[t \ {First(t)}]
        BY <2>4, <2>8
    <2> QED  BY <2>3, <2>6, <2>9
<1> QED  BY <1>3

\* A sum exists over every finite set.
LEMMA AddsExist ==
    ASSUME NEW f, NEW S, IsFiniteSet(S)
    PROVE  \E g : Adds(g, f, S)
<1> DEFINE bad == {t \in SUBSET S : \A g : ~Adds(g, f, t)}
           sizes == {Cardinality(t) : t \in bad}
<1>1. \A t \in SUBSET S : IsFiniteSet(t) /\ Cardinality(t) \in Nat
    BY FS_Subset, FS_CardinalityType
<1>2. sizes \in SUBSET Nat
    BY <1>1
<1>3. CASE bad # {}
    <2>1. sizes # {}
        BY <1>3
    <2>2. PICK n \in sizes : \A m \in sizes : n <= m
        BY <1>2, <2>1, SmallestOf
    <2>3. PICK U \in bad : n = Cardinality(U)
        BY <2>2
    <2>4. U \in SUBSET S /\ IsFiniteSet(U)
        BY <1>1, <2>3
    <2> DEFINE sum(t) == CHOOSE h : Adds(h, f, t)
    <2>5. ASSUME NEW t \in SUBSET U, t # {}
          PROVE  /\ First(t) \in t
                 /\ t \ {First(t)} \in SUBSET U
                 /\ IsFiniteSet(t \ {First(t)})
                 /\ Adds(sum(t \ {First(t)}), f, t \ {First(t)})
        <3> DEFINE w == t \ {First(t)}
        <3>1. First(t) \in t
            BY <2>5 DEF First
        <3>2. IsFiniteSet(t) /\ t \in SUBSET S
            BY <1>1, <2>4
        <3>3. Cardinality(w) < Cardinality(t) /\ Cardinality(w) \in Nat /\ IsFiniteSet(w)
            BY <3>1, <3>2, WithoutOne
        <3>4. Cardinality(t) <= Cardinality(U)
            BY <2>4, FS_Subset
        <3>5. w \notin bad
            BY <1>1, <2>2, <2>3, <2>4, <3>2, <3>3, <3>4
        <3>6. \E h : Adds(h, f, w)
            BY <3>2, <3>5
        <3> QED  BY <3>1, <3>3, <3>6
    <2> DEFINE g == [t \in SUBSET U |->
                       IF t = {} THEN 0
                       ELSE f[First(t)] + sum(t \ {First(t)})[t \ {First(t)}]]
    <2>6. ASSUME NEW t \in SUBSET U, t # {}
          PROVE  g[t \ {First(t)}] = sum(t \ {First(t)})[t \ {First(t)}]
        <3> DEFINE w == t \ {First(t)}
                   v == w \ {First(w)}
        <3>1. w \in SUBSET U /\ IsFiniteSet(w) /\ Adds(sum(w), f, w)
            BY <2>5, <2>6
        <3>2. CASE w = {}
            BY <3>1, <3>2, AddsAt
        <3>3. CASE w # {}
            <4>1. v \in SUBSET U /\ IsFiniteSet(v) /\ Adds(sum(v), f, v)
                BY <2>5, <3>1, <3>3
            <4>2. \A h : Adds(h, f, w) => h[w] = f[First(w)] + h[v]
                <5> HIDE DEF w
                <5>1. w \in SUBSET w
                    OBVIOUS
                <5>2. \A h : Adds(h, f, w) => h[w] = f[First(w)] + h[w \ {First(w)}]
                    BY <3>3, <5>1, AddsAt
                <5> QED  BY <5>2
            <4>5. sum(w)[w] = f[First(w)] + sum(w)[v]
                BY <3>1, <4>2
            <4>3. sum(w)[v] = sum(v)[v]
                BY <3>1, <4>1, AddsAgree
            <4>4. g[w] = f[First(w)] + sum(v)[v]
                BY <3>1, <3>3
            <4> QED  BY <4>3, <4>4, <4>5
        <3> QED  BY <3>2, <3>3
    <2>7. Adds(g, f, U)
        <3>1. ASSUME NEW t \in SUBSET U
              PROVE    (IF t = {} THEN 0
                        ELSE f[First(t)] + sum(t \ {First(t)})[t \ {First(t)}])
                     = (IF t = {} THEN 0 ELSE f[First(t)] + g[t \ {First(t)}])
            <4>1. t # {} => g[t \ {First(t)}] = sum(t \ {First(t)})[t \ {First(t)}]
                BY <2>6
            <4> HIDE DEF sum, g
            <4> QED  BY <4>1
        <3> HIDE DEF sum
        <3> QED  BY <3>1 DEF Adds
    <2> QED  BY <2>3, <2>7
<1>4. CASE bad = {}
    <2>1. S \notin bad
        BY <1>4
    <2> QED  BY <2>1
<1> QED  BY <1>3, <1>4

\* The sum of nothing, and of a set by its first element.
LEMMA TotalStep ==
    ASSUME NEW f, NEW S, IsFiniteSet(S)
    PROVE  /\ S = {} => Total(f, S) = 0
           /\ S # {} => /\ First(S) \in S
                        /\ Total(f, S) = f[First(S)] + Total(f, S \ {First(S)})
<1> DEFINE g == CHOOSE g : Adds(g, f, S)
           w == S \ {First(S)}
           h == CHOOSE h : Adds(h, f, w)
<1>1. Adds(g, f, S) /\ Total(f, S) = g[S]
    BY AddsExist DEF Total
<1>2. CASE S # {}
    <2>1. First(S) \in S /\ IsFiniteSet(w)
        BY <1>2, FS_Subset DEF First
    <2>2. Adds(h, f, w) /\ Total(f, w) = h[w]
        BY <2>1, AddsExist DEF Total
    <2>3. g[S] = f[First(S)] + g[w]
        BY <1>1, <1>2, AddsAt
    <2>4. g[w] = h[w]
        BY <1>1, <2>1, <2>2, AddsAgree
    <2> QED  BY <1>1, <1>2, <2>1, <2>2, <2>3, <2>4
<1> QED  BY <1>1, <1>2, AddsAt

\* A sum of natural numbers is one, and any element may be taken first.
LEMMA TotalTakes ==
    ASSUME NEW f, NEW S, IsFiniteSet(S), \A x \in S : f[x] \in Nat
    PROVE  /\ Total(f, S) \in Nat
           /\ \A x \in S : Total(f, S) = f[x] + Total(f, S \ {x})
<1> DEFINE Good(t) == /\ Total(f, t) \in Nat
                      /\ \A x \in t : Total(f, t) = f[x] + Total(f, t \ {x})
           bad == {t \in SUBSET S : ~Good(t)}
           sizes == {Cardinality(t) : t \in bad}
<1>1. \A t \in SUBSET S : IsFiniteSet(t) /\ Cardinality(t) \in Nat
    BY FS_Subset, FS_CardinalityType
<1>2. sizes \in SUBSET Nat
    BY <1>1
<1>3. CASE bad # {}
    <2>1. sizes # {}
        BY <1>3
    <2>2. PICK n \in sizes : \A m \in sizes : n <= m
        BY <1>2, <2>1, SmallestOf
    <2>3. PICK t \in bad : n = Cardinality(t)
        BY <2>2
    <2>4. t \in SUBSET S /\ IsFiniteSet(t) /\ \A x \in t : f[x] \in Nat
        BY <1>1, <2>3
    <2>5. ASSUME NEW w \in SUBSET t, NEW x \in t, x \notin w
          PROVE  IsFiniteSet(w) /\ Good(w)
        <3>1. w \in SUBSET (t \ {x}) /\ w \in SUBSET S
            BY <2>4, <2>5
        <3>2. /\ Cardinality(t \ {x}) < Cardinality(t) /\ IsFiniteSet(t \ {x})
              /\ Cardinality(t \ {x}) \in Nat /\ Cardinality(t) \in Nat
            BY <2>4, WithoutOne
        <3>3. Cardinality(w) <= Cardinality(t \ {x}) /\ Cardinality(w) \in Nat
            BY <1>1, <3>1, <3>2, FS_Subset
        <3>4. ~(Cardinality(t) <= Cardinality(w))
            BY <3>2, <3>3
        <3>5. w \notin bad
            BY <2>2, <2>3, <3>4
        <3> QED  BY <1>1, <3>1, <3>5
    <2>6. CASE t = {}
        <3>1. Total(f, t) = 0
            BY <2>4, <2>6, TotalStep
        <3>2. Good(t)
            BY <2>6, <3>1
        <3> QED  BY <2>3, <3>2
    <2>7. CASE t # {}
        <3> DEFINE c == First(t)
                   w == t \ {c}
        <3>1. c \in t /\ Total(f, t) = f[c] + Total(f, w) /\ f[c] \in Nat
            BY <2>4, <2>7, TotalStep
        <3>2. Good(w)
            BY <2>5, <3>1
        <3>3. Total(f, t) \in Nat
            BY <3>1, <3>2
        <3>4. ASSUME NEW x \in t, x # c
              PROVE  Total(f, t) = f[x] + Total(f, t \ {x})
            <4> DEFINE v == t \ {x}
                       z == w \ {x}
            <4>1. x \in w /\ c \in v /\ z = v \ {c} /\ f[x] \in Nat
                BY <2>4, <3>1, <3>4
            <4>2. Total(f, w) = f[x] + Total(f, z)
                BY <3>2, <4>1
            <4>3. Good(v)
                BY <2>5, <3>4
            <4>4. Total(f, v) = f[c] + Total(f, z)
                BY <4>1, <4>3
            <4>5. Good(z)
                BY <2>5, <3>4
            <4>6. Total(f, z) \in Nat
                BY <4>5
            <4> HIDE DEF c, w, v, z, Good
            <4> QED  BY <3>1, <4>1, <4>2, <4>4, <4>6 DEF v
        <3>5. Good(t)
            BY <3>1, <3>3, <3>4
        <3> QED  BY <2>3, <3>5
    <2> QED  BY <2>6, <2>7
<1>4. CASE bad = {}
    <2>1. S \notin bad
        BY <1>4
    <2> QED  BY <2>1
<1> QED  BY <1>3, <1>4
-----------------------------------------------------------------------------
(* Meters and columns.                                                     *)

\* The meter of a short context a column holds.
ShortOf ==
    [uncachedInputTokens     |-> "input",
     cachedReadTokens        |-> "cached_input",
     cacheWriteTokens        |-> "cache_write",
     cacheWrite5mTokens      |-> "cache_write_5m",
     cacheWrite1hTokens      |-> "cache_write_1h",
     outputTokens            |-> "output",
     imageInputTokens        |-> "image_input",
     cachedImageInputTokens  |-> "cached_image_input",
     imageOutputTokens       |-> "image_output"]

Columns == DOMAIN ShortOf
Shorts  == {ShortOf[c] : c \in Columns}

\* Columns and short meters, one by one.
LEMMA ColumnNames ==
    /\ Columns = {"uncachedInputTokens", "cachedReadTokens", "cacheWriteTokens",
                  "cacheWrite5mTokens", "cacheWrite1hTokens", "outputTokens",
                  "imageInputTokens", "cachedImageInputTokens", "imageOutputTokens"}
    /\ Shorts = {"input", "cached_input", "cache_write", "cache_write_5m",
                 "cache_write_1h", "output", "image_input", "cached_image_input",
                 "image_output"}
    /\ DOMAIN LedgerColumns = Columns
BY DEF Columns, Shorts, ShortOf, LedgerColumns

\* The long-context meters.
LEMMA LongNames ==
    /\ DOMAIN LongMeterMap = {"input", "cached_input", "cache_write", "output"}
    /\ LongMeters = {"input_long", "cached_input_long", "cache_write_long", "output_long"}
BY DEF LongMeterMap, LongMeters

\* No two columns share a meter, no two meters become the same long one, and
\* a long meter is never a short one.
LEMMA MetersAreDistinct ==
    /\ \A c, d \in Columns : ShortOf[c] = ShortOf[d] => c = d
    /\ \A m, k \in Shorts : ToLongMeterKey(m) = ToLongMeterKey(k) => m = k
    /\ \A m \in Shorts : /\ m \notin LongMeters
                         /\ ToLongMeterKey(m) \in Shorts => ToLongMeterKey(m) = m
                         /\ ToLongMeterKey(m) \in LongMeters \/ ToLongMeterKey(m) = m
<1>1. \A c, d \in Columns : ShortOf[c] = ShortOf[d] => c = d
    BY ColumnNames DEF ShortOf
<1>2. \A m \in Shorts : ToLongMeterKey(m) =
         CASE m = "input"        -> "input_long"
           [] m = "cached_input" -> "cached_input_long"
           [] m = "cache_write"  -> "cache_write_long"
           [] m = "output"       -> "output_long"
           [] OTHER              -> m
    BY ColumnNames, LongNames DEF ToLongMeterKey, LongMeterMap
<1>3. \A m, k \in Shorts : ToLongMeterKey(m) = ToLongMeterKey(k) => m = k
    BY <1>2, ColumnNames
<1>4. \A m \in Shorts : /\ m \notin LongMeters
                        /\ ToLongMeterKey(m) \in Shorts => ToLongMeterKey(m) = m
                        /\ ToLongMeterKey(m) \in LongMeters \/ ToLongMeterKey(m) = m
    BY <1>2, ColumnNames, LongNames
<1> QED  BY <1>1, <1>3, <1>4

\* A column holds its short meter and the long one of it.
LEMMA ColumnMeters ==
    \A c \in Columns : LedgerColumns[c] = {ShortOf[c], ToLongMeterKey(ShortOf[c])}
BY ColumnNames, LongNames DEF ShortOf, LedgerColumns, ToLongMeterKey, LongMeterMap

\* A count is a natural number, whatever the upstream sends for it.
LEMMA NumType == \A u, part, field : Num(u, part, field) \in Nat
BY DEF Num

\* The buckets of every endpoint are counts of short meters.
LEMMA BucketsType ==
    ASSUME NEW endpoint \in Endpoints, NEW u
    PROVE  /\ DOMAIN MetersOf(endpoint, u) \in SUBSET Shorts
           /\ \A m \in DOMAIN MetersOf(endpoint, u) : MetersOf(endpoint, u)[m] \in Nat
<1> USE ColumnNames, NumType
<1>1. \A a, b, c \in Nat : NonNegative(a - b) \in Nat /\ NonNegative(a - b - c) \in Nat
                           /\ Larger(a, b) \in Nat
    BY DEF NonNegative, Larger
<1>7. ASSUME NEW a \in Nat, NEW b \in Nat, NEW c \in Nat, NEW d \in Nat,
             MetersOf(endpoint, u) = [input |-> NonNegative(a - b - c), cached_input |-> b,
                                      cache_write |-> c, output |-> d]
      PROVE  /\ DOMAIN MetersOf(endpoint, u) \in SUBSET Shorts
             /\ \A m \in DOMAIN MetersOf(endpoint, u) : MetersOf(endpoint, u)[m] \in Nat
    <2>1. NonNegative(a - b - c) \in Nat
        BY <1>1
    <2> QED  BY <1>7, <2>1
<1>2. CASE endpoint = "chat_completions"
    <2>1. MetersOf(endpoint, u) = ChatMeters(u)
        BY <1>2 DEF MetersOf
    <2>2. \E a, b, c, d \in Nat :
             ChatMeters(u) = [input |-> NonNegative(a - b - c), cached_input |-> b,
                              cache_write |-> c, output |-> d]
        <3>1. Larger(Num(u, "prompt_tokens_details", "cache_write_tokens"),
                     IF Reports(u, "prompt_tokens_details", "cache_creation_tokens")
                     THEN Num(u, "prompt_tokens_details", "cache_creation_tokens")
                     ELSE Num(u, Top, "cache_creation_input_tokens")) \in Nat
            BY <1>1
        <3> QED  BY <3>1 DEF ChatMeters
    <2> QED  BY <1>7, <2>1, <2>2
<1>3. CASE endpoint = "responses"
    <2>1. MetersOf(endpoint, u) = ResponsesMeters(u)
        BY <1>3 DEF MetersOf
    <2>2. \E a, b, c, d \in Nat :
             ResponsesMeters(u) = [input |-> NonNegative(a - b - c), cached_input |-> b,
                                   cache_write |-> c, output |-> d]
        BY DEF ResponsesMeters
    <2> QED  BY <1>7, <2>1, <2>2
<1>4. CASE endpoint = "messages"
    <2>1. MetersOf(endpoint, u) = MessagesMeters(u)
        BY <1>4 DEF MetersOf
    <2> QED  BY <2>1 DEF MessagesMeters, Write5m, Write1h
<1>5. CASE endpoint = "embeddings"
    <2>1. MetersOf(endpoint, u) = EmbeddingsMeters(u)
        BY <1>5 DEF MetersOf
    <2> QED  BY <2>1 DEF EmbeddingsMeters
<1>6. CASE endpoint = "images"
    <2>1. MetersOf(endpoint, u) = ImageMeters(u)
        BY <1>6 DEF MetersOf
    <2> QED  BY <1>1, <2>1 DEF ImageMeters
<1> QED  BY <1>2, <1>3, <1>4, <1>5, <1>6 DEF Endpoints

\* A sum over the keys that are there, when there is one or none.
LEMMA SumOfFew ==
    ASSUME NEW f, NEW keys
    PROVE  /\ keys \cap DOMAIN f = {} => SumOf(f, keys) = 0
           /\ \A x : keys \cap DOMAIN f = {x} /\ f[x] \in Nat => SumOf(f, keys) = f[x]
<1>1. IsFiniteSet({}) /\ Total(f, {}) = 0
    BY TotalStep, FS_EmptySet
<1>2. ASSUME NEW x, keys \cap DOMAIN f = {x}, f[x] \in Nat
      PROVE  SumOf(f, keys) = f[x]
    <2>1. IsFiniteSet({x}) /\ {x} \ {x} = {}
        BY FS_Singleton
    <2>2. Total(f, {x}) = f[x] + Total(f, {x} \ {x})
        BY <1>2, <2>1, TotalTakes
    <2>3. Total(f, {x}) = f[x]
        BY <1>1, <1>2, <2>1, <2>2
    <2> QED  BY <1>2, <2>3, SumOfIsTotal
<1> QED  BY <1>1, <1>2, SumOfIsTotal

\* Buckets of an endpoint, as far as the columns are concerned.
Buckets(all) ==
    /\ DOMAIN all \in SUBSET Shorts
    /\ \A m \in DOMAIN all : all[m] \in Nat

Count(all, m) == IF m \in DOMAIN all THEN all[m] ELSE 0
Positive(all) == {m \in DOMAIN all : all[m] > 0}

\* The meters of a request are its positive buckets, each under its own name
\* or all of them under the names of a long context.
NameOf(m, far) == IF far THEN ToLongMeterKey(m) ELSE m
Names(meters, all, far) ==
    /\ meters = [k \in DOMAIN meters |-> meters[k]]
    /\ DOMAIN meters = {NameOf(m, far) : m \in Positive(all)}
    /\ \A m \in Positive(all) : meters[NameOf(m, far)] = all[m]

\* Normalisation renames the buckets and loses none.
LEMMA NormalizedNames ==
    ASSUME NEW endpoint \in Endpoints, NEW u, NEW threshold
    PROVE  \E far \in BOOLEAN :
              Names(NormalizeUsageMeters(endpoint, u, threshold), MetersOf(endpoint, u), far)
<1> DEFINE all == MetersOf(endpoint, u)
           p == [m \in Positive(all) |-> all[m]]
<1>1. Buckets(all)
    BY BucketsType DEF Buckets
<1>2. \/ NormalizeUsageMeters(endpoint, u, threshold) = p
      \/ NormalizeUsageMeters(endpoint, u, threshold) = ApplyLongContextMeters(p)
    BY DEF NormalizeUsageMeters, MeterByThreshold, Positive
<1> HIDE DEF all
<1>3. Names(p, all, FALSE)
    BY DEF Names, NameOf
<1>4. Names(ApplyLongContextMeters(p), all, TRUE)
    <2> DEFINE q == ApplyLongContextMeters(p)
               same(l) == {m \in DOMAIN p : ToLongMeterKey(m) = l}
    <2>1. q = [l \in {ToLongMeterKey(m) : m \in Positive(all)} |-> SumOf(p, same(l))]
        BY DEF ApplyLongContextMeters
    <2>2. ASSUME NEW m \in Positive(all)
          PROVE  SumOf(p, same(ToLongMeterKey(m))) = all[m]
        <3>1. same(ToLongMeterKey(m)) = {m}
            BY <1>1, MetersAreDistinct DEF Buckets, Positive
        <3>2. {m} \cap DOMAIN p = {m} /\ p[m] = all[m] /\ p[m] \in Nat
            BY <1>1 DEF Buckets, Positive
        <3> HIDE DEF p, same
        <3> QED  BY <3>1, <3>2, SumOfFew
    <2> HIDE DEF q, same, p
    <2>3. /\ DOMAIN q = {ToLongMeterKey(m) : m \in Positive(all)}
          /\ q = [l \in DOMAIN q |-> q[l]]
        BY <2>1
    <2>4. ASSUME NEW m \in Positive(all)
          PROVE  q[ToLongMeterKey(m)] = all[m]
        <3>1. q[ToLongMeterKey(m)] = SumOf(p, same(ToLongMeterKey(m)))
            BY <2>1
        <3> QED  BY <2>2, <3>1
    <2>5. Names(q, all, TRUE)
        BY <2>3, <2>4 DEF Names, NameOf
    <2> QED  BY <2>5 DEF q
<1> QED  BY <1>2, <1>3, <1>4 DEF all

\* A column holds the bucket of its meter, in a long context and out of it.
LEMMA ColumnsHold ==
    ASSUME NEW all, Buckets(all), NEW meters, NEW far \in BOOLEAN,
           Names(meters, all, far), NEW c \in Columns
    PROVE  LedgerMeterColumns(meters)[c] = Count(all, ShortOf[c])
<1> DEFINE s == ShortOf[c]
<1>1. LedgerMeterColumns(meters)[c] = SumOf(meters, LedgerColumns[c])
    BY ColumnNames DEF LedgerMeterColumns
<1>2. LedgerColumns[c] = {s, ToLongMeterKey(s)} /\ s \in Shorts
    BY ColumnMeters DEF Shorts
<1> HIDE DEF s
<1>3. \A m \in Positive(all) : m \in Shorts /\ all[m] \in Nat
    BY DEF Buckets, Positive
<1>4. ASSUME NEW m \in Positive(all), m # s
      PROVE  NameOf(m, far) \notin LedgerColumns[c]
    BY <1>2, <1>3, <1>4, MetersAreDistinct DEF NameOf
<1>5. CASE s \in Positive(all)
    <2>1. LedgerColumns[c] \cap DOMAIN meters = {NameOf(s, far)}
        BY <1>2, <1>4, <1>5 DEF Names, NameOf
    <2>2. meters[NameOf(s, far)] = all[s] /\ all[s] \in Nat
        BY <1>3, <1>5 DEF Names
    <2> QED  BY <1>1, <1>5, <2>1, <2>2, SumOfFew DEF Count, Positive, s
<1>6. CASE s \notin Positive(all)
    <2>1. LedgerColumns[c] \cap DOMAIN meters = {}
        BY <1>4, <1>6 DEF Names
    <2>2. Count(all, s) = 0
        BY <1>6 DEF Count, Positive, Buckets
    <2> QED  BY <1>1, <2>1, <2>2, SumOfFew DEF s
<1> QED  BY <1>5, <1>6

\* A column that holds something is read back as the meter that was put in.
LEMMA ColumnReads ==
    ASSUME NEW all, Buckets(all), NEW meters, NEW far \in BOOLEAN,
           Names(meters, all, far), NEW c \in Columns, ShortOf[c] \in Positive(all)
    PROVE  MeterOfColumn(c, AppliedLong(meters)) = NameOf(ShortOf[c], far)
<1> DEFINE s == ShortOf[c]
           l == ToLongMeterKey(s)
           long == AppliedLong(meters)
<1>1. LedgerColumns[c] = {s, l} /\ s \in Shorts
    BY ColumnMeters DEF Shorts
<1>2. s \notin LongMeters /\ (l \in LongMeters \/ l = s)
    BY <1>1, MetersAreDistinct
<1>3. CASE l = s
    <2>1. LedgerColumns[c] = {s} /\ ~(Cardinality({s}) > 1)
        BY <1>1, <1>3, FS_Singleton
    <2>2. MeterOfColumn(c, long) = s
        BY <2>1 DEF MeterOfColumn
    <2> QED  BY <1>3, <2>2 DEF NameOf
<1>4. CASE l # s
    <2>1. Cardinality({s, l}) > 1
        <3>1. IsFiniteSet({l}) /\ Cardinality({l}) = 1
            BY FS_Singleton
        <3>2. Cardinality({l} \cup {s}) = Cardinality({l}) + 1
            BY <1>4, <3>1, FS_AddElement
        <3>3. {l} \cup {s} = {s, l}
            OBVIOUS
        <3> QED  BY <3>1, <3>2, <3>3
    <2>2. long = far
        <3>1. far => l \in DOMAIN meters
            BY DEF Names, NameOf
        <3>2. ~far => DOMAIN meters \in SUBSET Shorts
            BY DEF Names, NameOf, Positive, Buckets
        <3>3. far => long
            BY <1>2, <1>4, <3>1 DEF AppliedLong
        <3>4. ~far => ~long
            BY <3>2, MetersAreDistinct DEF AppliedLong
        <3>5. long \in BOOLEAN
            BY DEF AppliedLong
        <3> QED  BY <3>3, <3>4, <3>5
    <2>3. MeterOfColumn(c, long) = CHOOSE m \in {s, l} : m \in LongMeters <=> long
        BY <1>1, <2>1 DEF MeterOfColumn
    <2> QED  BY <1>2, <1>4, <2>2, <2>3 DEF NameOf
<1> QED  BY <1>3, <1>4

\* The columns that hold something.
Held(columns) == {c \in DOMAIN columns : columns[c] > 0}

\* They stand for the meters of the request, each for one.
LEMMA HeldColumns ==
    ASSUME NEW all, Buckets(all), NEW meters, NEW far \in BOOLEAN,
           Names(meters, all, far),
           NEW columns, columns = LedgerMeterColumns(meters),
           NEW long, long = AppliedLong(meters)
    PROVE  /\ DOMAIN columns = Columns
           /\ \A c \in Columns : columns[c] \in Nat
           /\ {MeterOfColumn(c, long) : c \in Held(columns)} = DOMAIN meters
           /\ \A c \in Held(columns) : columns[c] = meters[MeterOfColumn(c, long)]
           /\ \A c, d \in Held(columns) :
                 MeterOfColumn(c, long) = MeterOfColumn(d, long) => c = d
<1> DEFINE held == Held(columns)
<1>1. DOMAIN columns = Columns
    BY ColumnNames DEF LedgerMeterColumns
<1>2. \A c \in Columns : columns[c] = Count(all, ShortOf[c])
    BY ColumnsHold
<1>3. \A c \in Columns : /\ columns[c] > 0 <=> ShortOf[c] \in Positive(all)
                         /\ columns[c] \in Nat
    BY <1>2 DEF Count, Positive, Buckets
<1>4. held = {c \in Columns : ShortOf[c] \in Positive(all)}
    BY <1>1, <1>3 DEF Held
<1>5. \A c \in held : /\ MeterOfColumn(c, long) = NameOf(ShortOf[c], far)
                      /\ columns[c] = all[ShortOf[c]]
    BY <1>2, <1>4, ColumnReads DEF Count, Positive
<1>6. \A m \in Positive(all) : \E c \in held : ShortOf[c] = m
    BY <1>4 DEF Buckets, Positive, Shorts
<1>7. \A c, d \in held : MeterOfColumn(c, long) = MeterOfColumn(d, long) => c = d
    <2>1. \A c \in held : c \in Columns /\ ShortOf[c] \in Shorts
        BY <1>4 DEF Shorts
    <2>2. \A c, d \in held : NameOf(ShortOf[c], far) = NameOf(ShortOf[d], far)
                                => ShortOf[c] = ShortOf[d]
        BY <2>1, MetersAreDistinct DEF NameOf
    <2> QED  BY <1>5, <2>1, <2>2, MetersAreDistinct
<1>8. {MeterOfColumn(c, long) : c \in held} = DOMAIN meters
    <2>1. {MeterOfColumn(c, long) : c \in held} = {NameOf(ShortOf[c], far) : c \in held}
        BY <1>5
    <2>2. {NameOf(ShortOf[c], far) : c \in held} = {NameOf(m, far) : m \in Positive(all)}
        BY <1>4, <1>6
    <2> QED  BY <2>1, <2>2 DEF Names
<1>9. \A c \in held : columns[c] = meters[MeterOfColumn(c, long)]
    BY <1>4, <1>5 DEF Names
<1> QED  BY <1>1, <1>3, <1>7, <1>8, <1>9

(***************************************************************************)
(* What settlement writes into the columns of a row and reconciliation     *)
(* reads back from them are the same meters.                               *)
(***************************************************************************)
LEMMA ColumnsRoundTrip ==
    ASSUME NEW all, Buckets(all), NEW meters, NEW far \in BOOLEAN,
           Names(meters, all, far)
    PROVE  LedgerMeters(LedgerMeterColumns(meters), AppliedLong(meters)) = meters
<1> DEFINE columns == LedgerMeterColumns(meters)
           long == AppliedLong(meters)
           held == Held(columns)
           of(m) == CHOOSE c \in held : MeterOfColumn(c, long) = m
<1>1. /\ {MeterOfColumn(c, long) : c \in held} = DOMAIN meters
      /\ \A c \in held : columns[c] = meters[MeterOfColumn(c, long)]
      /\ \A c, d \in held : MeterOfColumn(c, long) = MeterOfColumn(d, long) => c = d
    BY HeldColumns
<1>2. LedgerMeters(columns, long) =
         [m \in {MeterOfColumn(c, long) : c \in held} |-> columns[of(m)]]
    BY DEF LedgerMeters, Held
<1> HIDE DEF columns, long, held
<1>3. ASSUME NEW m \in DOMAIN meters
      PROVE  columns[of(m)] = meters[m]
    <2>1. PICK c \in held : MeterOfColumn(c, long) = m
        BY <1>1
    <2>2. of(m) = c
        BY <1>1, <2>1
    <2> QED  BY <1>1, <2>1, <2>2
<1>4. LedgerMeters(columns, long) = [m \in DOMAIN meters |-> meters[m]]
    <2> HIDE DEF of
    <2> QED  BY <1>1, <1>2, <1>3
<1> QED  BY <1>4 DEF Names, columns, long

-----------------------------------------------------------------------------
(* The row of a settled call.                                              *)

Metered(u) == NormalizeUsageMeters(resp.endpoint, u, route.threshold)

\* The row is open until the handler finalizes, a settled one tells how it was
\* billed, and reconciliation has not objected.
BillInv ==
    /\ resp.endpoint \in Endpoints
    /\ resp.kind # "stream" => resp.events[1].items \in Nat \cup {Unscannable}
    /\ ~finalized => row.status = "open"
    /\ WrittenByProfile(route.spec, route.sku)
    /\ row.status = "settled" =>
          /\ row.units \in Nat /\ row.webSearches \in Nat
          /\ row.columns = LedgerMeterColumns(Metered(BilledUsage))
          /\ row.long = AppliedLong(Metered(BilledUsage))
          /\ row.mismatch = CacheWriteSumMismatch(resp.endpoint, BilledUsage)
          /\ row.charged = ComputePricingCharge(route.spec, Metered(BilledUsage),
                                                row.webSearches, route.sku, row.units)
    /\ ReconciliationAgrees

\* The row a response is settled with.
LEMMA SettledRow ==
    ASSUME NEW usage, NEW units \in Nat, Settled(usage, units).status = "settled",
           row.status = "open"
    PROVE  LET r == Settled(usage, units)
               u == IF r.raw = Absent THEN [part \in {} |-> 0] ELSE r.raw
           IN  /\ r.units \in Nat /\ r.webSearches \in Nat
               /\ r.columns = LedgerMeterColumns(Metered(u))
               /\ r.long = AppliedLong(Metered(u))
               /\ r.mismatch = CacheWriteSumMismatch(resp.endpoint, u)
               /\ r.charged = ComputePricingCharge(route.spec, Metered(u),
                                                   r.webSearches, route.sku, r.units)
<1> DEFINE u == IF usage = Absent THEN [part \in {} |-> 0] ELSE usage
           meters == NormalizeUsageMeters(resp.endpoint, u, route.threshold)
           charged == ComputePricingCharge(route.spec, meters, WebSearches(u),
                                           route.sku, units)
<1>1. Settled(usage, units) =
         IF charged > MaxSafe THEN row
         ELSE [status |-> "settled", error |-> Absent, raw |-> usage,
               columns |-> LedgerMeterColumns(meters), long |-> AppliedLong(meters),
               webSearches |-> WebSearches(u), units |-> units,
               mismatch |-> CacheWriteSumMismatch(resp.endpoint, u), charged |-> charged]
    BY DEF Settled
<1>2. Settled(usage, units) # row
    OBVIOUS
<1>3. meters = Metered(u)
    BY DEF Metered
<1> HIDE DEF u, meters, charged
<1>4. Settled(usage, units) =
         [status |-> "settled", error |-> Absent, raw |-> usage,
          columns |-> LedgerMeterColumns(meters), long |-> AppliedLong(meters),
          webSearches |-> WebSearches(u), units |-> units,
          mismatch |-> CacheWriteSumMismatch(resp.endpoint, u), charged |-> charged]
    BY <1>1, <1>2
<1>5. charged = ComputePricingCharge(route.spec, meters, WebSearches(u), route.sku, units)
    BY DEF charged
<1>6. u = IF usage = Absent THEN [part \in {} |-> 0] ELSE usage
    BY DEF u
<1>7. WebSearches(u) \in Nat
    BY NumType DEF WebSearches
<1> QED  BY <1>3, <1>4, <1>5, <1>6, <1>7

\* What is found in a response has a natural number of units.
LEMMA FoundUnits ==
    ASSUME BillInv, NEW e
    PROVE  Finish(resp, e).units \in Nat
<1>1. CASE e.overflowed \/ e.mode \in {"string", "skipping"}
    BY <1>1 DEF Finish, Nothing
<1>2. CASE ~(e.overflowed \/ e.mode \in {"string", "skipping"}) /\ resp.kind = "stream"
    BY <1>2 DEF Finish
<1>3. CASE ~(e.overflowed \/ e.mode \in {"string", "skipping"}) /\ resp.kind # "stream"
    <2>1. Finish(resp, e) = ExtractBodyUsage(resp, e.carry)
        BY <1>3 DEF Finish
    <2>2. resp.events[1].items \in Nat \cup {Unscannable}
        BY <1>3 DEF BillInv
    <2>3. /\ Nothing.units = 0
          /\ \A n : [Nothing EXCEPT !.units = n].units = n
        BY DEF Nothing
    <2> QED  BY <2>1, <2>2, <2>3 DEF ExtractBodyUsage
<1> QED  BY <1>1, <1>2, <1>3

\* Reconciliation computes the charge of a settled row from equal meters.
LEMMA SameCharge ==
    ASSUME BillInv, row.status = "settled"
    PROVE  Recomputed = row.charged
<1> DEFINE all == MetersOf(resp.endpoint, BilledUsage)
<1>1. PICK far \in BOOLEAN : Names(Metered(BilledUsage), all, far)
    BY NormalizedNames DEF BillInv, Metered
<1>2. Buckets(all)
    BY BucketsType DEF BillInv, Buckets
<1>3. LedgerMeters(row.columns, row.long) = Metered(BilledUsage)
    BY <1>1, <1>2, ColumnsRoundTrip DEF BillInv
<1> QED  BY <1>3 DEF BillInv, Recomputed

\* Every step keeps the row's account of its bill.
LEMMA BillStep == BillInv /\ [UsageNext]_usageVars => BillInv'
<1> SUFFICES ASSUME BillInv, [UsageNext]_usageVars PROVE BillInv'
    OBVIOUS
<1>1. ASSUME UNCHANGED <<resp, route, finalized, row, verdict>>
      PROVE  BillInv'
    BY <1>1 DEF BillInv, BilledUsage, Metered, ReconciliationAgrees
<1>2. ASSUME NEW n \in 1..Len(remaining), Receive(n)
      PROVE  BillInv'
    BY <1>1, <1>2 DEF Receive
<1>3. ASSUME NEW interrupted \in BOOLEAN, Finalize(interrupted)
      PROVE  BillInv'
    <2> DEFINE found == Finish(resp, ext)
    <2>1. /\ UNCHANGED <<resp, route, verdict>> /\ row' = RowAfter(found, interrupted)
          /\ row.status = "open" /\ finalized'
        BY <1>3 DEF Finalize, BillInv
    <2>2. \/ \E usage : \E units \in Nat : row' = Settled(usage, units)
          \/ \E error : row' = Failed(error)
        <3>1. found.units \in Nat
            BY FoundUnits
        <3> HIDE DEF found
        <3> QED  BY <2>1, <3>1 DEF RowAfter
    <2>3. \A error : Failed(error).status = "failed_unbilled"
        BY DEF Failed, OpenRow
    <2>4. ASSUME NEW usage, NEW units \in Nat, row' = Settled(usage, units),
                 row'.status = "settled"
          PROVE  /\ row'.units \in Nat /\ row'.webSearches \in Nat
                 /\ row'.columns = LedgerMeterColumns(Metered(BilledUsage))'
                 /\ row'.long = AppliedLong(Metered(BilledUsage))'
                 /\ row'.mismatch = CacheWriteSumMismatch(resp.endpoint, BilledUsage)'
                 /\ row'.charged = ComputePricingCharge(route.spec, Metered(BilledUsage),
                                                        row.webSearches, route.sku, row.units)'
        <3> DEFINE u == IF row'.raw = Absent THEN [part \in {} |-> 0] ELSE row'.raw
        <3>1. BilledUsage' = u /\ \A v : Metered(v)' = Metered(v)
            BY <2>1 DEF BilledUsage, Metered
        <3>2. /\ row'.units \in Nat /\ row'.webSearches \in Nat
              /\ row'.columns = LedgerMeterColumns(Metered(u))
              /\ row'.long = AppliedLong(Metered(u))
              /\ row'.mismatch = CacheWriteSumMismatch(resp.endpoint, u)
              /\ row'.charged = ComputePricingCharge(route.spec, Metered(u),
                                                     row'.webSearches, route.sku, row'.units)
            BY <2>1, <2>4, SettledRow
        <3> QED  BY <2>1, <3>1, <3>2
    <2> QED  BY <2>1, <2>2, <2>3, <2>4 DEF BillInv, ReconciliationAgrees
<1>4. ASSUME ReconcileSettled
      PROVE  BillInv'
    <2>1. Recomputed = row.charged
        BY <1>4, SameCharge DEF ReconcileSettled
    <2>2. verdict' = "matched" /\ UNCHANGED <<resp, route, finalized, row>>
        BY <1>4, <2>1 DEF ReconcileSettled
    <2> QED  BY <2>2 DEF BillInv, BilledUsage, Metered, ReconciliationAgrees
<1>5. CASE UNCHANGED usageVars
    BY <1>1, <1>5 DEF usageVars
<1> QED  BY <1>2, <1>3, <1>4, <1>5 DEF UsageNext

\* Nothing is settled at the start.
LEMMA BillInit == UsageInit => BillInv
<1> SUFFICES ASSUME UsageInit PROVE BillInv
    OBVIOUS
<1>1. row.status = "open" /\ verdict = "none"
    BY DEF UsageInit, OpenRow
<1>2. /\ resp.endpoint \in Endpoints /\ WrittenByProfile(route.spec, route.sku)
      /\ resp.kind # "stream" => resp.events[1].items \in Nat \cup {Unscannable}
    BY UsageFlowAssumption DEF UsageInit
<1> QED  BY <1>1, <1>2 DEF BillInv, ReconciliationAgrees

\* The invariant of the bill.
LEMMA BillInvariant == UsageSpec => []BillInv
BY BillInit, BillStep, PTL DEF UsageSpec

(***************************************************************************)
(* Reconciliation never disputes an amount this code has settled, for      *)
(* every usage an upstream may report and every price: it finds the meters *)
(* of the settlement in the columns of the row, long context included.     *)
(***************************************************************************)
THEOREM ReconciliationNeverDisputes == UsageSpec => []ReconciliationAgrees
<1>1. BillInv => ReconciliationAgrees
    BY DEF BillInv
<1> QED  BY <1>1, BillInvariant, PTL

\* The seven columns of input, added up.
LEMMA InputHeld ==
    ASSUME NEW f, DOMAIN f = Columns, \A c \in Columns : f[c] \in Nat
    PROVE  SumOf(f, DOMAIN f \ OutputColumns) =
              f["uncachedInputTokens"] + f["cachedReadTokens"] + f["cacheWriteTokens"]
              + f["cacheWrite5mTokens"] + f["cacheWrite1hTokens"]
              + f["imageInputTokens"] + f["cachedImageInputTokens"]
<1> DEFINE S1 == {"cachedImageInputTokens"}
           S2 == S1 \cup {"imageInputTokens"}
           S3 == S2 \cup {"cacheWrite1hTokens"}
           S4 == S3 \cup {"cacheWrite5mTokens"}
           S5 == S4 \cup {"cacheWriteTokens"}
           S6 == S5 \cup {"cachedReadTokens"}
           S7 == S6 \cup {"uncachedInputTokens"}
<1>1. (DOMAIN f \ OutputColumns) \cap DOMAIN f = S7
    BY ColumnNames DEF OutputColumns
<1>2. ASSUME NEW S \in SUBSET Columns, NEW c \in Columns, c \notin S, IsFiniteSet(S)
      PROVE  /\ IsFiniteSet(S \cup {c})
             /\ Total(f, S \cup {c}) = f[c] + Total(f, S)
             /\ Total(f, S) \in Nat
    <2>1. IsFiniteSet(S \cup {c}) /\ (S \cup {c}) \ {c} = S
        BY <1>2, FS_AddElement
    <2>2. \A x \in S \cup {c} : f[x] \in Nat
        OBVIOUS
    <2>3. Total(f, S \cup {c}) = f[c] + Total(f, (S \cup {c}) \ {c})
        BY <2>1, <2>2, TotalTakes
    <2>4. Total(f, S) \in Nat
        BY <1>2, TotalTakes
    <2> QED  BY <2>1, <2>3, <2>4
<1>3. S7 \in SUBSET Columns
    BY ColumnNames
<1>4. IsFiniteSet({}) /\ Total(f, {}) = 0 /\ S1 = {} \cup {"cachedImageInputTokens"}
    BY TotalStep, FS_EmptySet
<1>5. IsFiniteSet(S1) /\ Total(f, S1) = f["cachedImageInputTokens"] + 0
    BY <1>2, <1>3, <1>4
<1>6. IsFiniteSet(S2) /\ Total(f, S2) = f["imageInputTokens"] + Total(f, S1)
    BY <1>2, <1>3, <1>5
<1>7. IsFiniteSet(S3) /\ Total(f, S3) = f["cacheWrite1hTokens"] + Total(f, S2)
    BY <1>2, <1>3, <1>6
<1>8. IsFiniteSet(S4) /\ Total(f, S4) = f["cacheWrite5mTokens"] + Total(f, S3)
    BY <1>2, <1>3, <1>7
<1>9. IsFiniteSet(S5) /\ Total(f, S5) = f["cacheWriteTokens"] + Total(f, S4)
    BY <1>2, <1>3, <1>8
<1>10. IsFiniteSet(S6) /\ Total(f, S6) = f["cachedReadTokens"] + Total(f, S5)
    BY <1>2, <1>3, <1>9
<1>11. IsFiniteSet(S7) /\ Total(f, S7) = f["uncachedInputTokens"] + Total(f, S6)
    BY <1>2, <1>3, <1>10
<1>12. SumOf(f, DOMAIN f \ OutputColumns) = Total(f, S7)
    BY <1>1, SumOfIsTotal
<1>13. /\ f["uncachedInputTokens"] \in Nat /\ f["cachedReadTokens"] \in Nat
       /\ f["cacheWriteTokens"] \in Nat /\ f["cacheWrite5mTokens"] \in Nat
       /\ f["cacheWrite1hTokens"] \in Nat /\ f["imageInputTokens"] \in Nat
       /\ f["cachedImageInputTokens"] \in Nat
    BY ColumnNames
<1> HIDE DEF S1, S2, S3, S4, S5, S6, S7
<1> QED  BY <1>5, <1>6, <1>7, <1>8, <1>9, <1>10, <1>11, <1>12, <1>13

\* The buckets of input of an endpoint add up to what it reported.
LEMMA BucketsAddUp ==
    ASSUME NEW endpoint \in Endpoints \ {"messages"}, NEW u
    PROVE  LET all == MetersOf(endpoint, u)
           IN  Count(all, "input") + Count(all, "cached_input") + Count(all, "cache_write")
               + Count(all, "cache_write_5m") + Count(all, "cache_write_1h")
               + Count(all, "image_input") + Count(all, "cached_image_input")
               = InputReported(endpoint, u)
<1> DEFINE all == MetersOf(endpoint, u)
<1> USE NumType
<1>1. \A a, b, c \in Nat :
         /\ NonNegative(a - b) + b = Larger(a, b) /\ NonNegative(a - b) \in Nat
         /\ NonNegative(a - b - c) + b + c = Larger(a, b + c) /\ NonNegative(a - b - c) \in Nat
    BY DEF NonNegative, Larger
<1>2. ASSUME NEW a \in Nat, NEW b \in Nat, NEW c \in Nat, NEW d,
             all = [input |-> NonNegative(a - b - c), cached_input |-> b,
                    cache_write |-> c, output |-> d],
             InputReported(endpoint, u) = Larger(a, b + c)
      PROVE  Count(all, "input") + Count(all, "cached_input") + Count(all, "cache_write")
               + Count(all, "cache_write_5m") + Count(all, "cache_write_1h")
               + Count(all, "image_input") + Count(all, "cached_image_input")
               = InputReported(endpoint, u)
    <2>1. /\ Count(all, "input") = NonNegative(a - b - c)
          /\ Count(all, "cached_input") = b /\ Count(all, "cache_write") = c
          /\ Count(all, "cache_write_5m") = 0 /\ Count(all, "cache_write_1h") = 0
          /\ Count(all, "image_input") = 0 /\ Count(all, "cached_image_input") = 0
        BY <1>2 DEF Count
    <2>2. NonNegative(a - b - c) + b + c = Larger(a, b + c) /\ NonNegative(a - b - c) \in Nat
        BY <1>1
    <2> HIDE DEF all
    <2> QED  BY <1>2, <2>1, <2>2
<1>3. CASE endpoint = "chat_completions"
    <2> DEFINE b == Num(u, "prompt_tokens_details", "cached_tokens")
               c == Larger(Num(u, "prompt_tokens_details", "cache_write_tokens"),
                           IF Reports(u, "prompt_tokens_details", "cache_creation_tokens")
                           THEN Num(u, "prompt_tokens_details", "cache_creation_tokens")
                           ELSE Num(u, Top, "cache_creation_input_tokens"))
               a == Num(u, Top, "prompt_tokens")
    <2>1. all = ChatMeters(u)
        BY <1>3 DEF MetersOf
    <2>2. ChatMeters(u) = [input |-> NonNegative(a - b - c), cached_input |-> b,
                           cache_write |-> c, output |-> Num(u, Top, "completion_tokens")]
        BY DEF ChatMeters
    <2>3. a \in Nat /\ b \in Nat /\ c \in Nat
        BY DEF Larger
    <2> HIDE DEF a, b, c
    <2>4. all.cached_input = b /\ all.cache_write = c
        BY <2>1, <2>2
    <2>5. InputReported(endpoint, u) = Larger(a, all.cached_input + all.cache_write)
        BY <1>3 DEF InputReported, a
    <2> QED  BY <1>2, <2>1, <2>2, <2>3, <2>4, <2>5
<1>4. CASE endpoint = "responses"
    <2> DEFINE b == Num(u, "input_tokens_details", "cached_tokens")
               c == Num(u, "input_tokens_details", "cache_write_tokens")
               a == Num(u, Top, "input_tokens")
    <2>1. all = ResponsesMeters(u)
        BY <1>4 DEF MetersOf
    <2>2. ResponsesMeters(u) = [input |-> NonNegative(a - b - c), cached_input |-> b,
                                cache_write |-> c, output |-> Num(u, Top, "output_tokens")]
        BY DEF ResponsesMeters
    <2>3. a \in Nat /\ b \in Nat /\ c \in Nat
        OBVIOUS
    <2> HIDE DEF a, b, c
    <2>4. all.cached_input = b /\ all.cache_write = c
        BY <2>1, <2>2
    <2>5. InputReported(endpoint, u) = Larger(a, all.cached_input + all.cache_write)
        BY <1>4 DEF InputReported, a
    <2> QED  BY <1>2, <2>1, <2>2, <2>3, <2>4, <2>5
<1>5. CASE endpoint = "embeddings"
    <2>1. all = EmbeddingsMeters(u)
        BY <1>5 DEF MetersOf
    <2>2. /\ Count(all, "input") = Num(u, Top, "prompt_tokens")
          /\ Count(all, "cached_input") = 0 /\ Count(all, "cache_write_5m") = 0
          /\ Count(all, "cache_write_1h") = 0 /\ Count(all, "cache_write") = 0
          /\ Count(all, "image_input") = 0 /\ Count(all, "cached_image_input") = 0
        BY <2>1 DEF EmbeddingsMeters, Count
    <2>3. InputReported(endpoint, u) = Num(u, Top, "prompt_tokens")
        BY <1>5 DEF InputReported
    <2> HIDE DEF all
    <2> QED  BY <2>2, <2>3 DEF all
<1>6. CASE endpoint = "images"
    <2> DEFINE t == Num(u, ImageDetails(u), "text_tokens")
               i == Num(u, ImageDetails(u), "image_tokens")
               ct == Num(u, ImageDetails(u), "cached_text_tokens")
               ci == Num(u, ImageDetails(u), "cached_image_tokens")
    <2>1. all = ImageMeters(u)
        BY <1>6 DEF MetersOf
    <2>2. /\ Count(all, "input") = NonNegative(t - ct)
          /\ Count(all, "image_input") = NonNegative(i - ci)
          /\ Count(all, "cached_input") = ct /\ Count(all, "cached_image_input") = ci
          /\ Count(all, "cache_write_5m") = 0
          /\ Count(all, "cache_write_1h") = 0 /\ Count(all, "cache_write") = 0
          /\ all.cached_input = ct /\ all.cached_image_input = ci
        BY <2>1 DEF ImageMeters, Count
    <2>3. InputReported(endpoint, u) = Larger(t, all.cached_input)
                                         + Larger(i, all.cached_image_input)
        BY <1>6 DEF InputReported
    <2>4. t \in Nat /\ i \in Nat /\ ct \in Nat /\ ci \in Nat
        OBVIOUS
    <2> HIDE DEF all, t, i, ct, ci
    <2>5. /\ NonNegative(t - ct) + ct = Larger(t, ct) /\ NonNegative(t - ct) \in Nat
          /\ NonNegative(i - ci) + ci = Larger(i, ci) /\ NonNegative(i - ci) \in Nat
        BY <1>1, <2>4
    <2> QED  BY <2>2, <2>3, <2>4, <2>5 DEF all
<1> QED  BY <1>3, <1>4, <1>5, <1>6 DEF Endpoints

\* So do the buckets of a Messages report that does not contradict itself, but
\* for the writes of an hour that are counted again.
LEMMA MessagesAddUp ==
    ASSUME NEW u, ~Contradicts("messages", u)
    PROVE  LET all == MessagesMeters(u)
           IN  Count(all, "input") + Count(all, "cached_input") + Count(all, "cache_write")
               + Count(all, "cache_write_5m") + Count(all, "cache_write_1h")
               + Count(all, "image_input") + Count(all, "cached_image_input")
               = InputReported("messages", u) + CountedAgain("messages", u)
<1> DEFINE all   == MessagesMeters(u)
           total == Num(u, Top, "cache_creation_input_tokens")
           has5m == Reports(u, "cache_creation", "ephemeral_5m_input_tokens")
           five  == Num(u, "cache_creation", "ephemeral_5m_input_tokens")
           hour  == Num(u, "cache_creation", "ephemeral_1h_input_tokens")
           has   == Reports(u, Top, "cache_creation_input_tokens")
           again == CountedAgain("messages", u)
<1> USE NumType
<1>1. /\ Count(all, "input") = Num(u, Top, "input_tokens")
      /\ Count(all, "cached_input") = Num(u, Top, "cache_read_input_tokens")
      /\ Count(all, "cache_write_5m") = Write5m(u)
      /\ Count(all, "cache_write_1h") = Write1h(u)
      /\ Count(all, "cache_write") = 0
      /\ Count(all, "image_input") = 0 /\ Count(all, "cached_image_input") = 0
    BY DEF MessagesMeters, Count
<1>2. /\ total \in Nat /\ five \in Nat /\ hour \in Nat
      /\ Write5m(u) = IF has5m THEN five ELSE total
      /\ Write1h(u) = hour
    BY DEF Write5m, Write1h
<1>3. /\ ~has5m => five = 0
      /\ ~has => total = 0
    BY DEF Num
<1>4. has => IF has5m THEN total = five + hour ELSE ~(total < five + hour)
    BY DEF Contradicts, NamedWrites
<1>5. again = IF has /\ ~has5m /\ five + hour \in 1..total THEN five + hour ELSE 0
    BY DEF CountedAgain, HourAlone, NamedWrites
<1>6. InputReported("messages", u) =
         Num(u, Top, "input_tokens") + Num(u, Top, "cache_read_input_tokens")
           + IF has THEN total ELSE five + hour
    BY DEF InputReported, NamedWrites
<1> HIDE DEF all, total, has5m, five, hour, has, again
<1>7. /\ Write5m(u) + Write1h(u) = (IF has THEN total ELSE five + hour) + again
      /\ Write5m(u) \in Nat /\ Write1h(u) \in Nat /\ again \in Nat
    BY <1>2, <1>3, <1>4, <1>5
<1>8. (IF has THEN total ELSE five + hour) \in Nat
    BY <1>2
<1> QED  BY <1>1, <1>6, <1>7, <1>8 DEF all, again

\* A report that is excepted is flagged.
LEMMA ExceptedAreFlagged ==
    ASSUME NEW endpoint, NEW u, Contradicts(endpoint, u) \/ HourAlone(endpoint, u)
    PROVE  CacheWriteSumMismatch(endpoint, u)
<1> DEFINE total == Num(u, Top, "cache_creation_input_tokens")
           five  == Num(u, "cache_creation", "ephemeral_5m_input_tokens")
           hour  == Num(u, "cache_creation", "ephemeral_1h_input_tokens")
           has5m == Reports(u, "cache_creation", "ephemeral_5m_input_tokens")
<1>1. /\ endpoint = "messages" /\ Reports(u, Top, "cache_creation_input_tokens")
      /\ IF has5m THEN total # five + hour
         ELSE total < five + hour \/ five + hour \in 1..total
    BY DEF Contradicts, HourAlone, NamedWrites
<1>2. /\ Write5m(u) = IF has5m THEN five ELSE total
      /\ Write1h(u) = hour
    BY DEF Write5m, Write1h
<1>3. /\ ~has5m => five = 0
      /\ ~Reports(u, "cache_creation", "ephemeral_1h_input_tokens") => hour = 0
    BY DEF Num
<1>4. total \in Nat /\ five \in Nat /\ hour \in Nat
    BY NumType
<1> HIDE DEF total, five, hour, has5m
<1>5. total # Write5m(u) + Write1h(u)
    BY <1>1, <1>2, <1>3, <1>4
<1>6. has5m \/ Reports(u, "cache_creation", "ephemeral_1h_input_tokens")
    BY <1>1, <1>3, <1>4
<1> QED  BY <1>1, <1>5, <1>6 DEF CacheWriteSumMismatch, total, has5m

\* The two columns of output hold the output that was reported.
LEMMA OutputHeld ==
    ASSUME NEW endpoint \in Endpoints, NEW u, NEW f, DOMAIN f = Columns,
           \A c \in Columns : f[c] = Count(MetersOf(endpoint, u), ShortOf[c])
    PROVE  SumOf(f, OutputColumns) = OutputReported(endpoint, u)
<1> DEFINE all == MetersOf(endpoint, u)
           text == {"outputTokens"}
           both == text \cup {"imageOutputTokens"}
<1>1. Buckets(all)
    BY BucketsType DEF Buckets
<1>2. \A c \in Columns : f[c] \in Nat
    BY <1>1 DEF Count, Buckets
<1>3. both \in SUBSET Columns /\ OutputColumns \cap DOMAIN f = both
    BY ColumnNames DEF OutputColumns
<1>4. IsFiniteSet(text) /\ IsFiniteSet(both)
    BY FS_Singleton, FS_AddElement
<1>5. Total(f, text) = f["outputTokens"]
    <2>1. text \cap DOMAIN f = {"outputTokens"} /\ f["outputTokens"] \in Nat
        BY <1>2, <1>3
    <2> QED  BY <2>1, SumOfFew, SumOfIsTotal
<1>6. Total(f, both) = f["imageOutputTokens"] + Total(f, both \ {"imageOutputTokens"})
    BY <1>2, <1>3, <1>4, TotalTakes
<1>7. both \ {"imageOutputTokens"} = text
    OBVIOUS
<1>8. SumOf(f, OutputColumns) = Total(f, both)
    BY <1>3, SumOfIsTotal
<1>9. /\ f["outputTokens"] = Count(all, "output") /\ f["outputTokens"] \in Nat
      /\ f["imageOutputTokens"] = Count(all, "image_output")
      /\ f["imageOutputTokens"] \in Nat
    BY <1>2, ColumnNames DEF ShortOf
<1> HIDE DEF all, text, both
<1>10. SumOf(f, OutputColumns) = Count(all, "image_output") + Count(all, "output")
    BY <1>5, <1>6, <1>7, <1>8, <1>9
<1>11. CASE endpoint \in {"chat_completions", "responses", "messages"}
    <2>1. all \in {ChatMeters(u), ResponsesMeters(u), MessagesMeters(u)}
        BY <1>11 DEF all, MetersOf
    <2>2. Count(all, "image_output") = 0
        BY <2>1 DEF Count, ChatMeters, ResponsesMeters, MessagesMeters
    <2>3. endpoint = "chat_completions" =>
             Count(all, "output") = Num(u, Top, "completion_tokens")
        BY DEF all, MetersOf, Count, ChatMeters
    <2>4. endpoint \in {"responses", "messages"} =>
             Count(all, "output") = Num(u, Top, "output_tokens")
        BY DEF all, MetersOf, Count, ResponsesMeters, MessagesMeters
    <2> QED  BY <1>10, <1>11, <2>2, <2>3, <2>4, NumType DEF OutputReported
<1>12. CASE endpoint = "embeddings"
    <2>1. all = EmbeddingsMeters(u)
        BY <1>12 DEF all, MetersOf
    <2> QED  BY <1>10, <1>12, <2>1 DEF Count, EmbeddingsMeters, OutputReported
<1>13. CASE endpoint = "images"
    <2>1. all = ImageMeters(u)
        BY <1>13 DEF all, MetersOf
    <2>2. /\ Count(all, "output") = 0
          /\ Count(all, "image_output") = OutputReported(endpoint, u)
        BY <1>13, <2>1 DEF Count, ImageMeters, OutputReported
    <2>3. OutputReported(endpoint, u) \in Nat
        BY <1>13, NumType DEF OutputReported
    <2> QED  BY <1>10, <2>2, <2>3
<1> QED  BY <1>11, <1>12, <1>13 DEF Endpoints

(***************************************************************************)
(* A settled row holds what the upstream reported, of input and of output, *)
(* for every usage object and every endpoint: each token once, but the     *)
(* writes of an hour twice when they are alone beside their total.  Only a *)
(* report that contradicts itself has no sum to hold; its row is flagged,  *)
(* and so is that of the writes counted twice.                             *)
(***************************************************************************)
THEOREM TokensAreConserved == UsageSpec => []TokensConserved
<1>1. ASSUME BillInv PROVE TokensConserved
    <2> SUFFICES ASSUME row.status = "settled"
                 PROVE  TokensConserved
        BY DEF TokensConserved
    <2> DEFINE all == MetersOf(resp.endpoint, BilledUsage)
               f == row.columns
    <2>1. /\ resp.endpoint \in Endpoints
          /\ row.mismatch = CacheWriteSumMismatch(resp.endpoint, BilledUsage)
        BY <1>1 DEF BillInv
    <2>2. Buckets(all)
        BY <2>1, BucketsType DEF Buckets
    <2>3. PICK far \in BOOLEAN : Names(Metered(BilledUsage), all, far)
        BY <2>1, NormalizedNames DEF Metered
    <2>4. f = LedgerMeterColumns(Metered(BilledUsage))
        BY <1>1 DEF BillInv
    <2>5. DOMAIN f = Columns
        BY <2>4, ColumnNames DEF LedgerMeterColumns
    <2>6. \A c \in Columns : f[c] = Count(all, ShortOf[c])
        BY <2>2, <2>3, <2>4, ColumnsHold
    <2>7. \A c \in Columns : f[c] \in Nat
        BY <2>2, <2>6 DEF Count, Buckets
    <2>8. SumOf(f, DOMAIN f \ OutputColumns) =
             f["uncachedInputTokens"] + f["cachedReadTokens"] + f["cacheWriteTokens"]
             + f["cacheWrite5mTokens"] + f["cacheWrite1hTokens"]
             + f["imageInputTokens"] + f["cachedImageInputTokens"]
        BY <2>5, <2>7, InputHeld
    <2>9. /\ f["uncachedInputTokens"] = Count(all, "input")
          /\ f["cachedReadTokens"] = Count(all, "cached_input")
          /\ f["cacheWriteTokens"] = Count(all, "cache_write")
          /\ f["cacheWrite5mTokens"] = Count(all, "cache_write_5m")
          /\ f["cacheWrite1hTokens"] = Count(all, "cache_write_1h")
          /\ f["imageInputTokens"] = Count(all, "image_input")
          /\ f["cachedImageInputTokens"] = Count(all, "cached_image_input")
        BY <2>6, ColumnNames DEF ShortOf
    <2>10. SumOf(f, OutputColumns) = OutputReported(resp.endpoint, BilledUsage)
        BY <2>1, <2>5, <2>6, OutputHeld
    <2>11. Contradicts(resp.endpoint, BilledUsage)
             \/ HourAlone(resp.endpoint, BilledUsage) => row.mismatch
        BY <2>1, ExceptedAreFlagged
    <2>12. ASSUME ~Contradicts(resp.endpoint, BilledUsage)
           PROVE  SumOf(f, DOMAIN f \ OutputColumns)
                    = InputReported(resp.endpoint, BilledUsage)
                        + CountedAgain(resp.endpoint, BilledUsage)
        <3> DEFINE inputs == Count(all, "input") + Count(all, "cached_input")
                               + Count(all, "cache_write") + Count(all, "cache_write_5m")
                               + Count(all, "cache_write_1h") + Count(all, "image_input")
                               + Count(all, "cached_image_input")
        <3>1. SumOf(f, DOMAIN f \ OutputColumns) = inputs /\ inputs \in Nat
            BY <2>7, <2>8, <2>9, ColumnNames
        <3>2. CASE resp.endpoint = "messages"
            BY <2>12, <3>1, <3>2, MessagesAddUp DEF MetersOf
        <3>3. CASE resp.endpoint # "messages"
            <4>1. CountedAgain(resp.endpoint, BilledUsage) = 0
                BY <3>3 DEF CountedAgain, HourAlone
            <4>2. inputs = InputReported(resp.endpoint, BilledUsage)
                BY <2>1, <3>3, BucketsAddUp
            <4> QED  BY <3>1, <4>1, <4>2
        <3> QED  BY <3>2, <3>3
    <2> QED  BY <2>10, <2>11, <2>12 DEF TokensConserved
<1> QED  BY <1>1, BillInvariant, PTL

-----------------------------------------------------------------------------
(* Charges.                                                                *)

\* What the meters of keys cost, before any rounding.
Due(rates, quantities) ==
    [m \in DOMAIN quantities \cap DOMAIN rates |-> quantities[m] * rates[m].price]

OfUnit(rates, quantities, u) ==
    {m \in DOMAIN quantities \cap DOMAIN rates : rates[m].unit = u}

\* What the meters of every unit cost, rounded up.
Parts(rates, quantities) ==
    [u \in {rates[m].unit : m \in DOMAIN quantities \cap DOMAIN rates} |->
        CeilDiv(Total(Due(rates, quantities), OfUnit(rates, quantities, u)), u)]

\* The inner sum of TokenCharge.
LEMMA DueTotal ==
    ASSUME NEW rates, NEW quantities,
           NEW S \in SUBSET (DOMAIN quantities \cap DOMAIN rates)
    PROVE  MapThenSumSet(LAMBDA m : quantities[m] * rates[m].price, S)
             = Total(Due(rates, quantities), S)
<1> DEFINE f == Due(rates, quantities)
           Iterates(g) ==
              g = [s \in SUBSET S |->
                     IF s = {} THEN 0
                     ELSE LET x == CHOOSE x \in s : TRUE
                          IN  quantities[x] * rates[x].price + g[s \ {x}]]
<1>1. ASSUME NEW g
      PROVE  Adds(g, f, S) <=> Iterates(g)
    <2>1. \A s \in SUBSET S : s # {} =>
             f[CHOOSE x \in s : TRUE] = quantities[CHOOSE x \in s : TRUE]
                                          * rates[CHOOSE x \in s : TRUE].price
        BY DEF Due
    <2> HIDE DEF f
    <2>2.   [s \in SUBSET S |-> IF s = {} THEN 0
                                ELSE LET x == CHOOSE x \in s : TRUE
                                     IN  f[x] + g[s \ {x}]]
          = [s \in SUBSET S |-> IF s = {} THEN 0
                                ELSE LET x == CHOOSE x \in s : TRUE
                                     IN  quantities[x] * rates[x].price + g[s \ {x}]]
        BY <2>1
    <2> QED  BY <2>2 DEF Adds, First
<1>2. (CHOOSE g : Adds(g, f, S)) = CHOOSE g : Iterates(g)
    <2> HIDE DEF f, Iterates
    <2> QED  BY <1>1
<1> QED  BY <1>2 DEF MapThenSumSet, MapThenFoldSet, Total

\* The outer one.
LEMMA ChargeTotal ==
    ASSUME NEW rates, NEW quantities
    PROVE  TokenCharge(rates, quantities) =
              AtLeastOne(Total(Parts(rates, quantities), DOMAIN Parts(rates, quantities)))
<1> DEFINE priced == DOMAIN quantities \cap DOMAIN rates
           part(u) == MapThenSumSet(LAMBDA m : quantities[m] * rates[m].price,
                                    {m \in priced : rates[m].unit = u})
           units == {rates[m].unit : m \in priced}
           f == Parts(rates, quantities)
           Iterates(g) ==
              g = [s \in SUBSET units |->
                     IF s = {} THEN 0
                     ELSE LET x == CHOOSE x \in s : TRUE
                          IN  CeilDiv(part(x), x) + g[s \ {x}]]
<1>1. ASSUME NEW u
      PROVE  part(u) = Total(Due(rates, quantities), OfUnit(rates, quantities, u))
    BY DueTotal DEF OfUnit
<1>2. /\ DOMAIN f = units
      /\ \A u \in units : f[u] = CeilDiv(part(u), u)
    <2> HIDE DEF part
    <2> QED  BY <1>1 DEF Parts
<1>3. ASSUME NEW g
      PROVE  Adds(g, f, units) <=> Iterates(g)
    <2>1. \A s \in SUBSET units : s # {} =>
             f[CHOOSE x \in s : TRUE] = CeilDiv(part(CHOOSE x \in s : TRUE),
                                                CHOOSE x \in s : TRUE)
        <3> HIDE DEF part, f, units
        <3> QED  BY <1>2
    <2> HIDE DEF f, part, units
    <2>2.   [s \in SUBSET units |-> IF s = {} THEN 0
                                    ELSE LET x == CHOOSE x \in s : TRUE
                                         IN  f[x] + g[s \ {x}]]
          = [s \in SUBSET units |-> IF s = {} THEN 0
                                    ELSE LET x == CHOOSE x \in s : TRUE
                                         IN  CeilDiv(part(x), x) + g[s \ {x}]]
        BY <2>1
    <2> QED  BY <2>2 DEF Adds, First
<1>4. (CHOOSE g : Adds(g, f, units)) = CHOOSE g : Iterates(g)
    <2> HIDE DEF f, Iterates, units
    <2> QED  BY <1>3
<1>5. MapThenSumSet(LAMBDA u : CeilDiv(part(u), u), units) = Total(f, units)
    <2> HIDE DEF f, units, part
    <2> QED  BY <1>4 DEF MapThenSumSet, MapThenFoldSet, Total
<1>6. TokenCharge(rates, quantities) =
         AtLeastOne(MapThenSumSet(LAMBDA u : CeilDiv(part(u), u), units))
    BY DEF TokenCharge
<1> QED  BY <1>2, <1>5, <1>6

\* A sum over two elements at most.
LEMMA TotalOfTwo ==
    ASSUME NEW f, NEW a, NEW b, a # b, NEW S \in SUBSET {a, b},
           \A x \in S : f[x] \in Nat
    PROVE  Total(f, S) = (IF a \in S THEN f[a] ELSE 0) + (IF b \in S THEN f[b] ELSE 0)
<1>1. IsFiniteSet({a, b})
    <2>1. IsFiniteSet({a})
        BY FS_Singleton
    <2>2. IsFiniteSet({a} \cup {b})
        BY <2>1, FS_AddElement
    <2>3. {a} \cup {b} = {a, b}
        OBVIOUS
    <2> QED  BY <2>2, <2>3
<1>2. ASSUME NEW R \in SUBSET S
      PROVE  /\ IsFiniteSet(R)
             /\ R = {} => Total(f, R) = 0
             /\ Total(f, R) \in Nat
             /\ \A x \in R : Total(f, R) = f[x] + Total(f, R \ {x})
    <2>1. IsFiniteSet(R) /\ \A x \in R : f[x] \in Nat
        BY <1>1, FS_Subset
    <2>2. R = {} => Total(f, R) = 0
        BY <2>1, TotalStep
    <2>3. Total(f, R) \in Nat /\ \A x \in R : Total(f, R) = f[x] + Total(f, R \ {x})
        BY <2>1, TotalTakes
    <2> QED  BY <2>1, <2>2, <2>3
<1>3. Total(f, S \ {a}) = IF b \in S THEN f[b] ELSE 0
    <2>1. CASE b \in S
        <3>1. b \in S \ {a} /\ (S \ {a}) \ {b} = {}
            BY <2>1
        <3>2. Total(f, S \ {a}) = f[b] + Total(f, (S \ {a}) \ {b})
            BY <1>2, <3>1
        <3>3. Total(f, (S \ {a}) \ {b}) = 0
            BY <1>2, <3>1
        <3> QED  BY <2>1, <3>2, <3>3
    <2>2. CASE b \notin S
        <3>1. S \ {a} = {}
            BY <2>2
        <3> QED  BY <1>2, <2>2, <3>1
    <2> QED  BY <2>1, <2>2
<1>4. CASE a \in S
    <2>1. Total(f, S) = f[a] + Total(f, S \ {a})
        BY <1>2, <1>4
    <2> QED  BY <1>3, <1>4, <2>1
<1>5. CASE a \notin S
    <2>1. S \ {a} = S
        BY <1>5
    <2> QED  BY <1>3, <1>5, <2>1
<1> QED  BY <1>4, <1>5

\* A sum may be taken over other names: b renames P onto T, and what is not
\* in P adds nothing.
LEMMA TotalRenamed ==
    ASSUME NEW h, NEW S, IsFiniteSet(S), NEW P \in SUBSET S,
           NEW f, NEW T, \A t \in T : f[t] \in Nat,
           NEW b, \A p \in P : b[p] \in T /\ h[p] = f[b[p]],
           \A p, q \in P : b[p] = b[q] => p = q,
           \A t \in T : \E p \in P : b[p] = t,
           \A s \in S \ P : h[s] = 0
    PROVE  Total(h, S) = Total(f, T)
<1> DEFINE img(U) == {t \in T : \E p \in P \cap U : b[p] = t}
           bad == {U \in SUBSET S : Total(h, U) # Total(f, img(U))}
           sizes == {Cardinality(U) : U \in bad}
<1>1. IsFiniteSet(T)
    <2>1. IsFiniteSet(P)
        BY FS_Subset
    <2>2. [p \in P |-> b[p]] \in Surjection(P, T)
        BY DEF Surjection
    <2> QED  BY <2>1, <2>2, FS_Surjection DEF ExistsSurjection
<1>2. \A U \in SUBSET S : IsFiniteSet(U) /\ Cardinality(U) \in Nat
    BY FS_Subset, FS_CardinalityType
<1>3. \A U \in SUBSET S : IsFiniteSet(img(U)) /\ \A t \in img(U) : f[t] \in Nat
    BY <1>1, FS_Subset
<1>4. \A s \in S : h[s] \in Nat
    OBVIOUS
<1>5. bad \in SUBSET (SUBSET S)
    OBVIOUS
<1>6. CASE bad # {}
    <2>1. sizes # {} /\ sizes \in SUBSET Nat
        <3> HIDE DEF bad
        <3> QED  BY <1>2, <1>5, <1>6
    <2>2. PICK n \in sizes : \A m \in sizes : n <= m
        BY <2>1, SmallestOf
    <2>3. PICK U \in bad : n = Cardinality(U)
        BY <2>2
    <2>4. U \in SUBSET S /\ IsFiniteSet(U) /\ \A x \in U : h[x] \in Nat
        BY <1>2, <1>4, <2>3
    <2>5. CASE U = {}
        <3>1. img(U) = {} /\ IsFiniteSet({})
            BY <2>5, FS_EmptySet
        <3>2. Total(h, {}) = 0 /\ Total(f, {}) = 0
            BY <3>1, TotalStep
        <3> QED  BY <2>3, <2>5, <3>1, <3>2
    <2>6. CASE U # {}
        <3>1. PICK x \in U : TRUE
            BY <2>6
        <3> DEFINE V == U \ {x}
        <3>2. /\ Cardinality(V) < Cardinality(U) /\ IsFiniteSet(V)
              /\ Cardinality(V) \in Nat /\ Cardinality(U) \in Nat
            BY <2>4, WithoutOne
        <3>3. V \in SUBSET S /\ V \notin bad
            <4>1. V \in SUBSET S
                BY <2>4
            <4>2. V \in bad => Cardinality(U) <= Cardinality(V)
                <5> HIDE DEF bad, V
                <5> QED  BY <2>2, <2>3
            <4> QED  BY <3>2, <4>1, <4>2
        <3>4. Total(h, V) = Total(f, img(V))
            BY <3>3
        <3>5. Total(h, U) = h[x] + Total(h, V)
            BY <2>4, TotalTakes
        <3>6. Total(f, img(U)) \in Nat /\ Total(f, img(V)) \in Nat
            <4>1. IsFiniteSet(img(U)) /\ \A t \in img(U) : f[t] \in Nat
                BY <1>3, <2>4
            <4>2. IsFiniteSet(img(V)) /\ \A t \in img(V) : f[t] \in Nat
                BY <1>3, <3>3
            <4> HIDE DEF img, V
            <4> QED  BY <4>1, <4>2, TotalTakes
        <3>7. CASE x \in P
            <4>1. b[x] \in img(U) /\ img(V) = img(U) \ {b[x]}
                BY <2>4, <3>7
            <4>2. IsFiniteSet(img(U)) /\ \A t \in img(U) : f[t] \in Nat
                BY <1>3, <2>4
            <4>3. Total(f, img(U)) = f[b[x]] + Total(f, img(U) \ {b[x]})
                <5> HIDE DEF img
                <5> QED  BY <4>1, <4>2, TotalTakes
            <4>4. h[x] = f[b[x]]
                BY <3>7
            <4>5. Total(h, U) = Total(f, img(U))
                <5> HIDE DEF img, V
                <5> QED  BY <3>4, <3>5, <4>1, <4>3, <4>4
            <4> QED  BY <2>3, <4>5
        <3>8. CASE x \notin P
            <4>1. img(V) = img(U)
                BY <3>8
            <4>2. h[x] = 0
                BY <2>4, <3>8
            <4>3. Total(h, U) = Total(f, img(U))
                <5> HIDE DEF img, V
                <5> QED  BY <3>4, <3>5, <3>6, <4>1, <4>2
            <4> QED  BY <2>3, <4>3
        <3> QED  BY <3>7, <3>8
    <2> QED  BY <2>5, <2>6
<1>7. CASE bad = {}
    <2>1. S \notin bad /\ img(S) = T
        BY <1>7
    <2> QED  BY <2>1
<1> QED  BY <1>6, <1>7

\* Rounding up.
LEMMA Rounding ==
    ASSUME NEW n \in Nat, n > 0
    PROVE  /\ \A d, e \in Nat : CeilDiv(d + e * n, n) = CeilDiv(d, n) + e
           /\ \A d \in Nat : CeilDiv(d, n) \in Nat
           /\ CeilDiv(0, n) = 0
           /\ n \div n = 1 /\ n \div 1 = n
           /\ \A d \in Nat : CeilDiv(d, 1) = d
<1>1. ASSUME NEW d \in Nat, NEW e \in Nat
      PROVE  CeilDiv(d + e * n, n) = CeilDiv(d, n) + e
    BY DEF CeilDiv
<1>2. \A d \in Nat : CeilDiv(d, n) \in Nat
    BY DEF CeilDiv
<1>3. CeilDiv(0, n) = 0 /\ \A d \in Nat : CeilDiv(d, 1) = d
    BY DEF CeilDiv
<1>4. n \div n = 1 /\ n \div 1 = n
    OBVIOUS
<1> QED  BY <1>1, <1>2, <1>3, <1>4

\* There are nine columns.
LEMMA ColumnsFinite == IsFiniteSet(Columns)
<1>1. \A S, x : IsFiniteSet(S) => IsFiniteSet(S \cup {x})
    BY FS_AddElement
<1> DEFINE A == {} \cup {"uncachedInputTokens"} \cup {"cachedReadTokens"}
                \cup {"cacheWriteTokens"}
           B == A \cup {"cacheWrite5mTokens"} \cup {"cacheWrite1hTokens"}
                \cup {"outputTokens"}
           C == B \cup {"imageInputTokens"} \cup {"cachedImageInputTokens"}
                \cup {"imageOutputTokens"}
<1>2. IsFiniteSet(A)
    BY <1>1, FS_EmptySet
<1>3. IsFiniteSet(B)
    <2> HIDE DEF A
    <2> QED  BY <1>1, <1>2
<1>4. IsFiniteSet(C)
    <2> HIDE DEF B
    <2> QED  BY <1>1, <1>3
<1>5. C = Columns
    BY ColumnNames
<1> QED  BY <1>4, <1>5

\* The products of quantities and prices.
LEMMA Products ==
    /\ \A a, b \in Nat : a * b \in Nat
    /\ \A b \in Nat : 0 * b = 0
    /\ \A a \in Nat : a * 1 = a
OBVIOUS

\* What token rates ask for a list of quantities: the meters, priced for a
\* million tokens, are added and rounded up once, web searches cost what they
\* cost.
LEMMA TokenParts ==
    ASSUME NEW rates, NEW Q, IsFiniteSet(DOMAIN Q), \A m \in DOMAIN Q : Q[m] \in Nat,
           \A k \in DOMAIN rates :
              /\ rates[k].price \in Nat
              /\ rates[k].unit = IF k = WebSearch THEN 1 ELSE Million
    PROVE  LET priced == DOMAIN Q \cap DOMAIN rates
               due == Total(Due(rates, Q), priced \ {WebSearch})
           IN  /\ due \in Nat
               /\ \A m \in priced : Due(rates, Q)[m] = Q[m] * rates[m].price
                                    /\ Due(rates, Q)[m] \in Nat
               /\ TokenCharge(rates, Q) =
                     AtLeastOne(CeilDiv(due, Million)
                                + IF WebSearch \in priced THEN Due(rates, Q)[WebSearch] ELSE 0)
<1> DEFINE priced == DOMAIN Q \cap DOMAIN rates
           f == Due(rates, Q)
           due == Total(f, priced \ {WebSearch})
           parts == Parts(rates, Q)
           units == {rates[m].unit : m \in priced}
<1>1. Million \in Nat /\ Million > 0 /\ Million # 1
    BY UsageFlowAssumption
<1>2. \A m \in priced : f[m] = Q[m] * rates[m].price /\ f[m] \in Nat
    BY Products DEF Due
<1>3. IsFiniteSet(priced) /\ IsFiniteSet(priced \ {WebSearch})
    BY FS_Subset
<1>4. due \in Nat
    <2>1. \A m \in priced \ {WebSearch} : f[m] \in Nat
        BY <1>2
    <2> HIDE DEF f, priced
    <2> QED  BY <1>3, <2>1, TotalTakes
<1>5. /\ OfUnit(rates, Q, Million) = priced \ {WebSearch}
      /\ OfUnit(rates, Q, 1) = priced \cap {WebSearch}
      /\ units \in SUBSET {Million, 1}
      /\ Million \in units <=> priced \ {WebSearch} # {}
      /\ 1 \in units <=> WebSearch \in priced
    BY <1>1 DEF OfUnit
<1>6. DOMAIN parts = units
    BY DEF Parts
<1>7. Million \in units => parts[Million] = CeilDiv(due, Million)
    BY <1>5 DEF Parts
<1>8. 1 \in units => parts[1] = f[WebSearch]
    <2> SUFFICES ASSUME 1 \in units PROVE parts[1] = f[WebSearch]
        OBVIOUS
    <2>1. OfUnit(rates, Q, 1) = {WebSearch} /\ WebSearch \in priced
        BY <1>5
    <2>2. parts[1] = CeilDiv(Total(f, {WebSearch}), 1)
        BY <2>1 DEF Parts
    <2>3. f[WebSearch] \in Nat
        BY <1>2, <2>1
    <2>4. Total(f, {WebSearch}) = f[WebSearch]
        <3> HIDE DEF f
        <3>1. IsFiniteSet({WebSearch}) /\ IsFiniteSet({}) /\ {WebSearch} \ {WebSearch} = {}
            BY FS_Singleton, FS_EmptySet
        <3>2. Total(f, {}) = 0
            BY <3>1, TotalStep
        <3>3. Total(f, {WebSearch}) = f[WebSearch] + Total(f, {WebSearch} \ {WebSearch})
            BY <2>3, <3>1, TotalTakes
        <3> QED  BY <2>3, <3>1, <3>2, <3>3
    <2> HIDE DEF f, parts
    <2> QED  BY <1>1, <2>2, <2>3, <2>4, Rounding
<1>9. CeilDiv(due, Million) \in Nat /\ CeilDiv(0, Million) = 0
    <2> HIDE DEF due
    <2> QED  BY <1>1, <1>4, Rounding
<1>10. Million \notin units => due = 0
    <2> SUFFICES ASSUME Million \notin units PROVE due = 0
        OBVIOUS
    <2>1. priced \ {WebSearch} = {}
        BY <1>5
    <2> HIDE DEF f, priced
    <2> QED  BY <1>3, <2>1, TotalStep
<1>11. \A u \in units : parts[u] \in Nat
    <2>1. \A u \in units : u = Million \/ u = 1
        BY <1>5
    <2>2. 1 \in units => f[WebSearch] \in Nat
        BY <1>2, <1>5
    <2> HIDE DEF f, priced, due, parts, units
    <2> QED  BY <1>7, <1>8, <1>9, <2>1, <2>2
<1>12. Total(parts, units) = (IF Million \in units THEN parts[Million] ELSE 0)
                             + (IF 1 \in units THEN parts[1] ELSE 0)
    <2>1. units \in SUBSET {Million, 1} /\ Million # 1
        BY <1>1, <1>5
    <2> HIDE DEF parts, units
    <2>2. ASSUME NEW a, NEW b, a # b, units \in SUBSET {a, b}
          PROVE  Total(parts, units) = (IF a \in units THEN parts[a] ELSE 0)
                                       + (IF b \in units THEN parts[b] ELSE 0)
        BY <1>11, <2>2, TotalOfTwo, ZenonT(60)
    <2> QED  BY <2>1, <2>2
<1>13. Total(parts, units) = CeilDiv(due, Million)
                             + IF WebSearch \in priced THEN f[WebSearch] ELSE 0
    <2>1. (IF Million \in units THEN parts[Million] ELSE 0) = CeilDiv(due, Million)
        <3> HIDE DEF f, priced, due, parts, units
        <3> QED  BY <1>7, <1>9, <1>10
    <2>2. (IF 1 \in units THEN parts[1] ELSE 0) = IF WebSearch \in priced THEN f[WebSearch] ELSE 0
        BY <1>5, <1>8
    <2> HIDE DEF f, priced, due, parts, units
    <2> QED  BY <1>12, <2>1, <2>2
<1>14. TokenCharge(rates, Q) = AtLeastOne(Total(parts, units))
    BY <1>6, ChargeTotal
<1> HIDE DEF f, parts, units
<1> QED  BY <1>2, <1>4, <1>13, <1>14 DEF f

\* The largest of a set that has one.
LEMMA MaxIs ==
    ASSUME NEW S \in SUBSET Nat, NEW m \in S, \A y \in S : y <= m
    PROVE  Max(S) = m
<1>1. \A x \in S : (\A y \in S : x >= y) <=> x = m
    OBVIOUS
<1>2. Max(S) = CHOOSE x \in S : \A y \in S : x >= y
    BY DEF Max
<1> QED  BY <1>1, <1>2

\* The common unit of a price.
LEMMA CommonUnitIs ==
    ASSUME WrittenByProfile(route.spec, route.sku)
    PROVE  /\ route.spec.basis = "token" =>
                 /\ CommonUnit \in {1, Million}
                 /\ \A k \in DOMAIN route.spec.rates : k # WebSearch => CommonUnit = Million
           /\ route.spec.basis # "token" =>
                 CommonUnit = route.spec.rates[route.sku].unit
<1> DEFINE rates == route.spec.rates
           S == {rates[k].unit : k \in DOMAIN rates}
<1>1. Million \in Nat /\ Million > 1
    BY UsageFlowAssumption
<1>2. CommonUnit = Max(S) /\ DOMAIN rates # {}
    BY DEF CommonUnit, WrittenByProfile
<1>3. CASE route.spec.basis = "token"
    <2>1. \A k \in DOMAIN rates : rates[k].unit = IF k = WebSearch THEN 1 ELSE Million
        BY <1>3 DEF WrittenByProfile
    <2>2. S \in SUBSET {1, Million} /\ S \in SUBSET Nat
        BY <1>1, <2>1
    <2>3. CASE \E k \in DOMAIN rates : k # WebSearch
        <3>1. Million \in S
            BY <2>1, <2>3
        <3>2. Max(S) = Million
            <4> HIDE DEF S
            <4> QED  BY <1>1, <2>2, <3>1, MaxIs
        <3> QED  BY <1>2, <1>3, <3>2
    <2>4. CASE \A k \in DOMAIN rates : k = WebSearch
        <3>1. 1 \in S /\ S = {1}
            BY <1>2, <2>1, <2>4
        <3>2. Max(S) = 1
            <4> HIDE DEF S
            <4> QED  BY <3>1, MaxIs
        <3> QED  BY <1>2, <1>3, <2>4, <3>2
    <2> QED  BY <2>3, <2>4
<1>4. CASE route.spec.basis # "token"
    <2> DEFINE n == rates[route.sku].unit
    <2>1. /\ route.sku \in DOMAIN rates /\ n \in Nat
          /\ \A k \in DOMAIN rates : rates[k].unit = n
        BY <1>4 DEF WrittenByProfile
    <2>2. S = {n}
        BY <2>1
    <2>3. Max(S) = n
        <3> HIDE DEF S, n
        <3> QED  BY <2>1, <2>2, MaxIs
    <2> QED  BY <1>2, <1>4, <2>3
<1> QED  BY <1>3, <1>4

\* Meters are short or long ones: a web search is none of them.
LEMMA MetersOfTokens ==
    ASSUME NEW all, Buckets(all), NEW meters, NEW far \in BOOLEAN,
           Names(meters, all, far)
    PROVE  /\ \A m \in DOMAIN meters : meters[m] \in Nat /\ m # WebSearch
           /\ IsFiniteSet(DOMAIN meters)
<1>1. \A m \in Shorts \cup LongMeters : m # WebSearch
    BY ColumnNames, LongNames DEF WebSearch
<1>2. \A m \in Positive(all) : NameOf(m, far) \in Shorts \cup LongMeters
    BY MetersAreDistinct DEF Positive, Buckets, NameOf
<1>3. \A m \in DOMAIN meters : meters[m] \in Nat /\ m # WebSearch
    BY <1>1, <1>2 DEF Names, Positive, Buckets
<1>4. IsFiniteSet(DOMAIN meters)
    <2> DEFINE columns == LedgerMeterColumns(meters)
               b == [c \in Held(columns) |-> MeterOfColumn(c, AppliedLong(meters))]
    <2>1. /\ DOMAIN columns = Columns
          /\ {MeterOfColumn(c, AppliedLong(meters)) : c \in Held(columns)} = DOMAIN meters
        BY HeldColumns
    <2> HIDE DEF columns
    <2>2. IsFiniteSet(Held(columns))
        BY <2>1, ColumnsFinite, FS_Subset DEF Held
    <2>3. b \in Surjection(Held(columns), DOMAIN meters)
        BY <2>1 DEF Surjection
    <2> HIDE DEF b
    <2> QED  BY <2>2, <2>3, FS_Surjection
<1> QED  BY <1>3, <1>4

\* The charge of tokens and searches is what they cost exactly, rounded up
\* once.
LEMMA TokensCharged ==
    ASSUME BillInv, row.status = "settled", route.spec.basis = "token"
    PROVE  row.charged = AtLeastOne(CeilDiv(ExactDue, CommonUnit))
<1> DEFINE all == MetersOf(resp.endpoint, BilledUsage)
           meters == Metered(BilledUsage)
           rates == route.spec.rates
           columns == row.columns
           long == row.long
           count == row.webSearches
           Q == WithWebSearch(meters, count)
           f == Due(rates, Q)
           T == (DOMAIN Q \cap DOMAIN rates) \ {WebSearch}
           b == [c \in Columns |-> MeterOfColumn(c, long)]
           P == {c \in Held(columns) : b[c] \in DOMAIN rates}
           h == [c \in DOMAIN columns |-> PriceOf(MeterOfColumn(c, long), columns[c])]
           D == Total(f, T)
           E == IF WebSearch \in DOMAIN Q \cap DOMAIN rates THEN f[WebSearch] ELSE 0
           unit == CommonUnit
<1>1. PICK far \in BOOLEAN : Names(meters, all, far)
    BY NormalizedNames DEF BillInv, Metered
<1>2. Buckets(all)
    BY BucketsType DEF BillInv, Buckets
<1>3. /\ columns = LedgerMeterColumns(meters) /\ long = AppliedLong(meters)
      /\ count \in Nat
      /\ row.charged = TokenCharge(rates, Q)
    BY DEF BillInv, ComputePricingCharge
<1>4. /\ \A m \in DOMAIN meters : meters[m] \in Nat /\ m # WebSearch
      /\ IsFiniteSet(DOMAIN meters)
    BY <1>1, <1>2, MetersOfTokens
<1>5. /\ DOMAIN columns = Columns
      /\ \A c \in Columns : columns[c] \in Nat
      /\ {MeterOfColumn(c, long) : c \in Held(columns)} = DOMAIN meters
      /\ \A c \in Held(columns) : columns[c] = meters[MeterOfColumn(c, long)]
      /\ \A c, d \in Held(columns) : MeterOfColumn(c, long) = MeterOfColumn(d, long) => c = d
    BY <1>1, <1>2, <1>3, HeldColumns
<1>6. \A k \in DOMAIN rates : /\ rates[k].price \in Nat
                              /\ rates[k].unit = IF k = WebSearch THEN 1 ELSE Million
    BY DEF BillInv, WrittenByProfile
<1>7. /\ unit \in {1, Million}
      /\ \A k \in DOMAIN rates : k # WebSearch => unit = Million
    BY CommonUnitIs DEF BillInv
<1>8. Million \in Nat /\ Million > 0 /\ unit \in Nat /\ unit > 0
    BY <1>7, UsageFlowAssumption
<1> HIDE DEF all, meters, rates, columns, long, count, unit
<1>9. /\ DOMAIN Q = DOMAIN meters \cup (IF count = 0 THEN {} ELSE {WebSearch})
      /\ \A m \in DOMAIN meters : Q[m] = meters[m]
      /\ count # 0 => Q[WebSearch] = count
    BY <1>4 DEF WithWebSearch
<1>10. IsFiniteSet(DOMAIN Q) /\ \A m \in DOMAIN Q : Q[m] \in Nat
    <2>1. IsFiniteSet(DOMAIN meters \cup {WebSearch})
        BY <1>4, FS_AddElement
    <2> QED  BY <1>3, <1>4, <1>9, <2>1
<1> HIDE DEF Q
<1>11. /\ D \in Nat
       /\ \A m \in DOMAIN Q \cap DOMAIN rates : f[m] = Q[m] * rates[m].price /\ f[m] \in Nat
       /\ TokenCharge(rates, Q) = AtLeastOne(CeilDiv(D, Million) + E)
    BY <1>6, <1>10, TokenParts
<1>12. E \in Nat
    BY <1>11
<1>13. \A m, q : PriceOf(m, q) = IF m \notin DOMAIN rates THEN 0
                                 ELSE q * rates[m].price * (unit \div rates[m].unit)
    BY DEF PriceOf, rates, unit
<1>14. unit \div unit = 1 /\ unit \div 1 = unit /\ CeilDiv(0, unit) = 0 /\ CeilDiv(0, Million) = 0
       /\ \A d, e \in Nat : CeilDiv(d + e * unit, unit) = CeilDiv(d, unit) + e
    BY <1>8, Rounding
<1>15. T \in SUBSET DOMAIN meters /\ T \in SUBSET DOMAIN rates
       /\ \A m \in DOMAIN meters \cap DOMAIN rates : m \in T
    BY <1>4, <1>9
<1> HIDE DEF T
<1>16. \A t \in T : f[t] \in Nat /\ f[t] = meters[t] * rates[t].price
                    /\ meters[t] \in Nat /\ rates[t].price \in Nat
    BY <1>4, <1>6, <1>9, <1>11, <1>15
<1>17. PriceOf(WebSearch, count) = E * unit
    <2>1. CASE WebSearch \notin DOMAIN rates
        BY <1>8, <1>13, <2>1, Products
    <2>2. CASE WebSearch \in DOMAIN rates
        <3> DEFINE w == rates[WebSearch].price
        <3>1. w \in Nat /\ rates[WebSearch].unit = 1
            BY <1>6, <2>2
        <3>2. PriceOf(WebSearch, count) = count * w * unit
            BY <1>13, <1>14, <2>2, <3>1
        <3>3. count = 0 => E = 0
            BY <1>4, <1>9
        <3>4. count # 0 => E = count * w
            BY <1>9, <1>11, <2>2
        <3>5. count = 0 => count * w = 0
            BY <3>1, Products
        <3> HIDE DEF E, w
        <3> QED  BY <3>2, <3>3, <3>4, <3>5
    <2> QED  BY <2>1, <2>2
<1>18. Total(h, DOMAIN columns) = D
    <2>1. IsFiniteSet(Columns) /\ DOMAIN h = Columns /\ P \in SUBSET Columns
        BY <1>5, ColumnsFinite DEF Held
    <2>2. ASSUME NEW p \in P
          PROVE  b[p] \in T /\ h[p] = f[b[p]]
        <3>1. /\ p \in Held(columns) /\ p \in Columns /\ b[p] = MeterOfColumn(p, long)
              /\ b[p] \in DOMAIN meters /\ b[p] \in DOMAIN rates
              /\ columns[p] = meters[b[p]]
            BY <1>5, <2>1
        <3>2. b[p] \in T
            BY <1>15, <3>1
        <3>3. b[p] # WebSearch /\ rates[b[p]].unit = Million /\ unit = Million
            BY <1>4, <1>6, <1>7, <3>1
        <3>4. h[p] = columns[p] * rates[b[p]].price * 1
            BY <1>5, <1>13, <1>14, <3>1, <3>3
        <3>5. f[b[p]] = columns[p] * rates[b[p]].price /\ f[b[p]] \in Nat
            BY <1>16, <3>1, <3>2
        <3>6. f[b[p]] * 1 = f[b[p]]
            BY <3>5, Products
        <3> HIDE DEF f, b, h
        <3> QED  BY <3>2, <3>4, <3>5, <3>6
    <2>3. \A p, q \in P : b[p] = b[q] => p = q
        BY <1>5, <2>1
    <2>4. \A t \in T : \E p \in P : b[p] = t
        <3> TAKE t \in T
        <3>1. t \in DOMAIN meters /\ t \in DOMAIN rates
            BY <1>15
        <3>2. PICK c \in Held(columns) : MeterOfColumn(c, long) = t
            BY <1>5, <3>1
        <3>3. c \in Columns
            BY <1>5 DEF Held
        <3>4. c \in P /\ b[c] = t
            BY <3>1, <3>2, <3>3
        <3> HIDE DEF P, b
        <3> QED  BY <3>4
    <2>5. ASSUME NEW c \in Columns \ P
          PROVE  h[c] = 0
        <3> DEFINE m == MeterOfColumn(c, long)
        <3>1. h[c] = PriceOf(m, columns[c])
            BY <1>5
        <3>2. CASE m \notin DOMAIN rates
            BY <1>13, <3>1, <3>2
        <3>3. CASE m \in DOMAIN rates
            <4>1. columns[c] = 0
                BY <1>5, <3>3 DEF Held
            <4>2. rates[m].price \in Nat /\ unit \div rates[m].unit \in Nat
                <5>1. \/ rates[m].unit = 1
                      \/ rates[m].unit = Million /\ unit = Million
                    BY <1>6, <1>7, <3>3
                <5>2. unit \div rates[m].unit \in {unit, 1}
                    BY <1>14, <5>1
                <5> QED  BY <1>6, <1>8, <3>3, <5>2
            <4>3. h[c] = 0 * rates[m].price * (unit \div rates[m].unit)
                BY <1>13, <3>1, <3>3, <4>1
            <4>4. 0 * rates[m].price = 0 /\ 0 * (unit \div rates[m].unit) = 0
                BY <4>2, Products
            <4> QED  BY <4>3, <4>4
        <3> QED  BY <3>2, <3>3
    <2>6. \A t \in T : f[t] \in Nat
        BY <1>16
    <2> HIDE DEF h, b, P, f
    <2>7. Total(h, Columns) = Total(f, T)
        BY <2>1, <2>2, <2>3, <2>4, <2>5, <2>6, TotalRenamed
    <2> QED  BY <1>5, <2>7
<1>19. ExactDue = D + E * unit
    <2>1. ExactDue = SumOf(h, DOMAIN columns) + PriceOf(WebSearch, count)
        BY DEF ExactDue, columns, long, count
    <2>2. SumOf(h, DOMAIN columns) = Total(h, DOMAIN columns)
        <3>1. DOMAIN columns \cap DOMAIN h = DOMAIN columns
            OBVIOUS
        <3> HIDE DEF h
        <3> QED  BY <3>1, SumOfIsTotal
    <2> HIDE DEF h, D, E
    <2> QED  BY <1>17, <1>18, <2>1, <2>2
<1>20. CeilDiv(D, unit) = CeilDiv(D, Million)
    <2>1. CASE unit = Million
        BY <2>1
    <2>2. CASE unit # Million
        <3>1. T = {}
            BY <1>4, <1>7, <1>15, <2>2
        <3>2. D = 0
            <4> HIDE DEF f
            <4> QED  BY <3>1, TotalStep, FS_EmptySet
        <3> HIDE DEF D
        <3> QED  BY <1>14, <3>2
    <2> QED  BY <2>1, <2>2
<1> HIDE DEF D, E
<1>21. CeilDiv(ExactDue, unit) = CeilDiv(D, Million) + E
    BY <1>11, <1>12, <1>14, <1>19, <1>20
<1> QED  BY <1>3, <1>11, <1>21 DEF unit

(***************************************************************************)
(* The charge of every settled row is the exact price of its columns over  *)
(* a common unit, rounded up once and at least 1: no meter is rounded by   *)
(* itself, none is priced twice, and a price by the piece is charged for   *)
(* the pieces, for every usage, every price and every number of tokens.    *)
(***************************************************************************)
THEOREM ChargesAreExact == UsageSpec => []ChargedExactly
<1>1. ASSUME BillInv, row.status = "settled", route.spec.basis # "token"
      PROVE  row.charged = AtLeastOne(CeilDiv(ExactDue, CommonUnit))
    <2> DEFINE rate == route.spec.rates[route.sku]
               q == row.units
    <2>1. /\ q \in Nat /\ rate.price \in Nat /\ rate.unit \in Nat /\ rate.unit > 0
          /\ route.sku \in DOMAIN route.spec.rates
        BY <1>1 DEF BillInv, WrittenByProfile
    <2>2. row.charged = AtLeastOne(CeilDiv(q * rate.price, rate.unit))
        BY <1>1 DEF BillInv, ComputePricingCharge
    <2>3. CommonUnit = rate.unit
        BY <1>1, CommonUnitIs DEF BillInv
    <2>4. ExactDue = q * rate.price * (rate.unit \div rate.unit)
        BY <1>1, <2>1, <2>3 DEF ExactDue, PriceOf
    <2>5. ExactDue = q * rate.price
        <3>1. rate.unit \div rate.unit = 1
            BY <2>1, Rounding
        <3>2. (q * rate.price) * 1 = q * rate.price
            BY <2>1, Products
        <3> HIDE DEF q, rate
        <3> QED  BY <2>4, <3>1, <3>2
    <2> QED  BY <2>2, <2>3, <2>5
<1>2. BillInv => ChargedExactly
    BY <1>1, TokensCharged DEF ChargedExactly
<1> QED  BY <1>2, BillInvariant, PTL

-----------------------------------------------------------------------------
(* Reading an answer.  The fold of Push takes the places of a chunk from   *)
(* the last; what follows shows that it feeds the bytes one after another. *)

\* A set of numbers that holds zero and with every number the next.
LEMMA AllNumbers ==
    ASSUME NEW T, NEW n \in Nat, 0 \in T,
           \A m \in Nat : m < n /\ m \in T => m + 1 \in T
    PROVE  \A m \in 0..n : m \in T
<1> DEFINE bad == {m \in 0..n : m \notin T}
<1>1. CASE bad # {}
    <2>0. bad \in SUBSET Nat
        OBVIOUS
    <2>1. PICK m \in bad : \A k \in bad : m <= k
        <3> HIDE DEF bad
        <3> QED  BY <1>1, <2>0, SmallestOf
    <2>2. m \in 1..n /\ m - 1 \in 0..n /\ m - 1 \notin bad /\ m - 1 \in Nat
        BY <2>1
    <2>3. m - 1 \in T
        BY <2>2
    <2>4. (m - 1) + 1 \in T
        BY <2>2, <2>3
    <2> QED  BY <2>1, <2>2, <2>4
<1> QED  BY <1>1

\* A non-empty set of places has a last one.
LEMMA LastPlace ==
    ASSUME NEW n \in Nat, NEW s \in SUBSET (1..n), s # {}
    PROVE  Max(s) \in s /\ \A k \in s : k <= Max(s)
<1> DEFINE gaps == {n - k : k \in s}
<1>1. gaps \in SUBSET Nat
    OBVIOUS
<1>2. gaps # {}
    <2>1. PICK k \in s : TRUE
        OBVIOUS
    <2>2. n - k \in gaps
        BY <2>1
    <2> QED  BY <2>2
<1>3. PICK g \in gaps : \A h \in gaps : g <= h
    <2> HIDE DEF gaps
    <2> QED  BY <1>1, <1>2, SmallestOf
<1>4. PICK k \in s : g = n - k
    BY <1>3
<1>5. ASSUME NEW j \in s
      PROVE  j <= k
    <2>1. n - k <= n - j
        BY <1>3, <1>4
    <2>2. j \in Nat /\ k \in Nat
        OBVIOUS
    <2> QED  BY <2>1, <2>2
<1>6. s \in SUBSET Nat
    OBVIOUS
<1>7. Max(s) = k
    BY <1>4, <1>5, <1>6, MaxIs
<1> QED  BY <1>4, <1>5, <1>7

\* g folds the first n bytes of chunk, from ext.
Feeds(g, r, from, chunk, n) ==
    g = [s \in SUBSET (1..n) |->
           IF s = {} THEN from
           ELSE LET x == Max(s) IN Feed(r, g[s \ {x}], chunk[x])]

Fed(r, from, chunk) == FoldLeft(LAMBDA e, b : Feed(r, e, b), from, chunk)

\* The fold of Push is such a function.
LEMMA FedFeeds ==
    ASSUME NEW r, NEW from, NEW chunk, NEW n \in Nat, DOMAIN chunk = 1..n
    PROVE  Fed(r, from, chunk) = (CHOOSE g : Feeds(g, r, from, chunk, n))[1..n]
BY DEF Fed, FoldLeft, MapThenFoldSet, Feeds

\* What g does to a set.
LEMMA FeedsAt ==
    ASSUME NEW r, NEW from, NEW chunk, NEW n \in Nat, NEW g, Feeds(g, r, from, chunk, n),
           NEW s \in SUBSET (1..n)
    PROVE  /\ s = {} => g[s] = from
           /\ s # {} => g[s] = Feed(r, g[s \ {Max(s)}], chunk[Max(s)])
BY DEF Feeds

LEMMA FeedsNone ==
    ASSUME NEW r, NEW from, NEW chunk, NEW n \in Nat, NEW g, Feeds(g, r, from, chunk, n)
    PROVE  g[{}] = from
<1>1. PICK s \in SUBSET (1..n) : s = {}
    OBVIOUS
<1>2. g[s] = from
    BY <1>1 DEF Feeds
<1> QED  BY <1>1, <1>2

LEMMA FeedsTo ==
    ASSUME NEW r, NEW from, NEW chunk, NEW n \in Nat, NEW g, Feeds(g, r, from, chunk, n),
           NEW m \in Nat, m < n
    PROVE  g[1..(m + 1)] = Feed(r, g[1..m], chunk[m + 1])
<1>1. PICK s \in SUBSET (1..n) : s = 1..(m + 1)
    OBVIOUS
<1>2. s # {} /\ s \in SUBSET Nat /\ m + 1 \in s /\ \A y \in s : y <= m + 1
    BY <1>1
<1>3. Max(s) = m + 1
    BY <1>2, MaxIs
<1>4. s \ {m + 1} = 1..m
    BY <1>1
<1>5. g[s] = Feed(r, g[s \ {Max(s)}], chunk[Max(s)])
    BY <1>2, FeedsAt
<1> QED  BY <1>1, <1>3, <1>4, <1>5

\* It exists.
LEMMA FeedsExist ==
    ASSUME NEW r, NEW from, NEW chunk, NEW n \in Nat
    PROVE  \E g : Feeds(g, r, from, chunk, n)
<1> DEFINE T == {m \in Nat : \E g : Feeds(g, r, from, chunk, m)}
<1>1. 0 \in T
    <2> DEFINE g == [s \in SUBSET (1..0) |-> from]
    <2>1. \A s \in SUBSET (1..0) : s = {}
        OBVIOUS
    <2>2. Feeds(g, r, from, chunk, 0)
        BY <2>1 DEF Feeds
    <2> QED  BY <2>2
<1>2. ASSUME NEW m \in Nat, m \in T
      PROVE  m + 1 \in T
    <2>1. PICK h : Feeds(h, r, from, chunk, m)
        BY <1>2
    <2> DEFINE g == [s \in SUBSET (1..(m + 1)) |->
                       IF m + 1 \in s THEN Feed(r, h[s \ {m + 1}], chunk[m + 1]) ELSE h[s]]
               val(s) == IF s = {} THEN from
                         ELSE Feed(r, g[s \ {Max(s)}], chunk[Max(s)])
    <2>2. ASSUME NEW s \in SUBSET (1..(m + 1))
          PROVE  g[s] = val(s)
        <3>1. CASE m + 1 \in s
            <4>1. Max(s) = m + 1
                BY <3>1, MaxIs
            <4>2. s \ {m + 1} \in SUBSET (1..(m + 1)) /\ m + 1 \notin s \ {m + 1}
                OBVIOUS
            <4>3. g[s \ {m + 1}] = h[s \ {m + 1}]
                BY <4>2
            <4>4. g[s] = Feed(r, h[s \ {m + 1}], chunk[m + 1])
                BY <3>1
            <4> HIDE DEF g
            <4> QED  BY <3>1, <4>1, <4>3, <4>4
        <3>2. CASE m + 1 \notin s /\ s # {}
            <4>1. s \in SUBSET (1..m)
                BY <3>2
            <4>2. Max(s) \in s
                BY <3>2, <4>1, LastPlace
            <4>3. h[s] = Feed(r, h[s \ {Max(s)}], chunk[Max(s)])
                <5> HIDE DEF g, val
                <5>1. h = [v \in SUBSET (1..m) |->
                             IF v = {} THEN from
                             ELSE LET x == Max(v) IN Feed(r, h[v \ {x}], chunk[x])]
                    BY <2>1 DEF Feeds
                <5> QED  BY <3>2, <4>1, <5>1
            <4>4. s \ {Max(s)} \in SUBSET (1..(m + 1)) /\ m + 1 \notin s \ {Max(s)}
                BY <3>2
            <4>5. g[s \ {Max(s)}] = h[s \ {Max(s)}] /\ g[s] = h[s]
                BY <3>2, <4>4
            <4> HIDE DEF g
            <4> QED  BY <3>2, <4>3, <4>5
        <3>3. CASE s = {}
            <4>1. h[{}] = from
                BY <2>1, FeedsNone
            <4> QED  BY <3>3, <4>1
        <3> QED  BY <3>1, <3>2, <3>3
    <2>3. g = [s \in SUBSET (1..(m + 1)) |-> val(s)]
        <3>1. DOMAIN g = SUBSET (1..(m + 1)) /\ g = [s \in SUBSET (1..(m + 1)) |-> g[s]]
            OBVIOUS
        <3> HIDE DEF g
        <3> QED  BY <2>2, <3>1
    <2>4. Feeds(g, r, from, chunk, m + 1)
        <3> HIDE DEF g
        <3> QED  BY <2>3 DEF Feeds
    <2> QED  BY <2>4
<1>3. \A m \in 0..n : m \in T
    <2> HIDE DEF T
    <2> QED  BY <1>1, <1>2, AllNumbers
<1> QED  BY <1>3

\* Two of them agree on the beginning that their chunks have in common.
LEMMA FeedsAgree ==
    ASSUME NEW r, NEW from, NEW c1, NEW c2, NEW n1 \in Nat, NEW n2 \in Nat,
           NEW g1, NEW g2, Feeds(g1, r, from, c1, n1), Feeds(g2, r, from, c2, n2),
           NEW n \in Nat, n <= n1, n <= n2, \A i \in 1..n : c1[i] = c2[i]
    PROVE  g1[1..n] = g2[1..n]
<1>4. \A m \in Nat : m < n1 => g1[1..(m + 1)] = Feed(r, g1[1..m], c1[m + 1])
    BY FeedsTo
<1>5. \A m \in Nat : m < n2 => g2[1..(m + 1)] = Feed(r, g2[1..m], c2[m + 1])
    BY FeedsTo
<1> DEFINE T == {m \in Nat : m <= n => g1[1..m] = g2[1..m]}
<1>1. 0 \in T
    <2>1. g1[{}] = from /\ g2[{}] = from
        BY FeedsNone
    <2>2. 1..0 = {}
        OBVIOUS
    <2> QED  BY <2>1, <2>2
<1>2. ASSUME NEW m \in Nat, m < n, m \in T
      PROVE  m + 1 \in T
    <2>1. m < n1 /\ m < n2 /\ m + 1 \in 1..n
        BY <1>2
    <2>2. g1[1..(m + 1)] = Feed(r, g1[1..m], c1[m + 1])
        BY <1>4, <2>1
    <2>3. g2[1..(m + 1)] = Feed(r, g2[1..m], c2[m + 1])
        BY <1>5, <2>1
    <2>4. g1[1..m] = g2[1..m]
        BY <1>2
    <2> QED  BY <2>1, <2>2, <2>3, <2>4
<1>3. \A m \in 0..n : m \in T
    <2> HIDE DEF T
    <2> QED  BY <1>1, <1>2, AllNumbers
<1> QED  BY <1>3

\* No byte changes nothing, and one more byte is fed to what was there.
LEMMA FedNothing ==
    ASSUME NEW r, NEW from, NEW chunk, DOMAIN chunk = {}
    PROVE  Fed(r, from, chunk) = from
<1>1. 1..0 = {}
    OBVIOUS
<1> DEFINE g == CHOOSE g : Feeds(g, r, from, chunk, 0)
<1>2. Feeds(g, r, from, chunk, 0)
    BY FeedsExist
<1>3. g[{}] = from
    BY <1>2, FeedsNone
<1> HIDE DEF g
<1>4. Fed(r, from, chunk) = g[1..0]
    BY <1>1, FedFeeds DEF g
<1> QED  BY <1>1, <1>3, <1>4

LEMMA FedOneMore ==
    ASSUME NEW r, NEW from, NEW n \in Nat, NEW s, NEW t,
           DOMAIN s = 1..n, DOMAIN t = 1..(n + 1), \A i \in 1..n : t[i] = s[i]
    PROVE  Fed(r, from, t) = Feed(r, Fed(r, from, s), t[n + 1])
<1> DEFINE g == CHOOSE g : Feeds(g, r, from, s, n)
           h == CHOOSE h : Feeds(h, r, from, t, n + 1)
<1>1. Feeds(g, r, from, s, n)
    BY FeedsExist
<1>2. Feeds(h, r, from, t, n + 1)
    BY FeedsExist
<1>3. Fed(r, from, s) = g[1..n]
    BY FedFeeds
<1>4. Fed(r, from, t) = h[1..(n + 1)]
    BY FedFeeds
<1> HIDE DEF g, h
<1>5. g[1..n] = h[1..n]
    <2>1. n <= n + 1 /\ n + 1 \in Nat
        OBVIOUS
    <2> QED  BY <1>1, <1>2, <2>1, FeedsAgree
<1>6. h[1..(n + 1)] = Feed(r, h[1..n], t[n + 1])
    <2>1. n < n + 1 /\ n + 1 \in Nat
        OBVIOUS
    <2> QED  BY <1>2, <2>1, FeedsTo
<1> QED  BY <1>3, <1>4, <1>5, <1>6

-----------------------------------------------------------------------------
(* Flattening.                                                             *)

Joins(g, parts, n) ==
    g = [i \in 1..n |-> IF i = 1 THEN parts[i] ELSE g[i - 1] \o parts[i]]

LEMMA FlattenJoins ==
    ASSUME NEW parts, Len(parts) # 0
    PROVE  FlattenSeq(parts) = (CHOOSE g : Joins(g, parts, Len(parts)))[Len(parts)]
BY DEF FlattenSeq, Joins

LEMMA JoinsExist ==
    ASSUME NEW parts, NEW n \in Nat
    PROVE  \E g : Joins(g, parts, n)
<1> DEFINE T == {m \in Nat : \E g : Joins(g, parts, m)}
<1>1. 0 \in T
    <2>1. [i \in 1..0 |-> 1] = [i \in 1..0 |-> IF i = 1 THEN parts[i]
                                 ELSE [j \in 1..0 |-> 1][i - 1] \o parts[i]]
        OBVIOUS
    <2>2. Joins([i \in 1..0 |-> 1], parts, 0)
        BY <2>1 DEF Joins
    <2> QED  BY <2>2
<1>2. ASSUME NEW m \in Nat, m \in T
      PROVE  m + 1 \in T
    <2>1. PICK h : Joins(h, parts, m)
        BY <1>2
    <2> DEFINE next == IF m = 0 THEN parts[1] ELSE h[m] \o parts[m + 1]
               g == [i \in 1..(m + 1) |-> IF i = m + 1 THEN next ELSE h[i]]
    <2>2. ASSUME NEW i \in 1..(m + 1)
          PROVE  g[i] = IF i = 1 THEN parts[i] ELSE g[i - 1] \o parts[i]
        <3>1. CASE i = m + 1
            <4>1. g[i] = next /\ (m # 0 => g[m] = h[m])
                BY <3>1
            <4> HIDE DEF g
            <4> QED  BY <3>1, <4>1
        <3>2. CASE i \in 1..m
            <4>1. h[i] = IF i = 1 THEN parts[i] ELSE h[i - 1] \o parts[i]
                BY <2>1, <3>2 DEF Joins
            <4>2. g[i] = h[i] /\ (i # 1 => g[i - 1] = h[i - 1])
                BY <3>2
            <4> HIDE DEF g
            <4> QED  BY <4>1, <4>2
        <3> QED  BY <3>1, <3>2
    <2>3. Joins(g, parts, m + 1)
        <3>1. g = [i \in 1..(m + 1) |-> g[i]]
            OBVIOUS
        <3> HIDE DEF g
        <3> QED  BY <2>2, <3>1 DEF Joins
    <2> QED  BY <2>3
<1>3. \A m \in 0..n : m \in T
    <2> HIDE DEF T
    <2> QED  BY <1>1, <1>2, AllNumbers
<1> QED  BY <1>3

\* The lengths of the parts.
Size(parts, i) == Len(parts[i])

\* pos[i] is the end of the i-th part in the whole.
Placed(parts, pos) ==
    /\ pos \in [0..Len(parts) -> Nat] /\ pos[0] = 0
    /\ Len(FlattenSeq(parts)) = pos[Len(parts)]
    /\ \A i \in Nat : i < Len(parts) =>
          /\ pos[i + 1] = pos[i] + Size(parts, i + 1)
          /\ \A p \in 1..Size(parts, i + 1) : FlattenSeq(parts)[pos[i] + p] = parts[i + 1][p]

\* flat[i] is what the first i parts flatten to.
Flattens(flat, parts, S) ==
    /\ parts \in Seq(Seq(S)) /\ flat \in [0..Len(parts) -> Seq(S)]
    /\ flat[0] = <<>>
    /\ \A i \in 1..Len(parts) : flat[i] = flat[i - 1] \o parts[i]

LEMMA FlatExists ==
    ASSUME NEW S, NEW parts \in Seq(Seq(S))
    PROVE  \E flat : Flattens(flat, parts, S) /\ FlattenSeq(parts) = flat[Len(parts)]
<1>1. CASE Len(parts) = 0
    <2>1. parts = <<>> /\ FlattenSeq(parts) = parts
        BY <1>1, EmptySeq DEF FlattenSeq
    <2> DEFINE flat == [i \in 0..Len(parts) |-> <<>>]
    <2>2. flat \in [0..Len(parts) -> Seq(S)]
        BY EmptySeq
    <2>3. Flattens(flat, parts, S) /\ FlattenSeq(parts) = flat[Len(parts)]
        BY <1>1, <2>1, <2>2 DEF Flattens
    <2> QED  BY <2>2, <2>3
<1>2. CASE Len(parts) # 0
    <2> DEFINE n == Len(parts)
               g == CHOOSE g : Joins(g, parts, n)
               flat == [i \in 0..n |-> IF i = 0 THEN <<>> ELSE g[i]]
    <2>1. n \in Nat /\ n # 0 /\ \A i \in 1..n : parts[i] \in Seq(S)
        BY <1>2
    <2>2. Joins(g, parts, n)
        BY <2>1, JoinsExist
    <2>3. FlattenSeq(parts) = flat[n]
        BY <1>2, <2>1, FlattenJoins
    <2> HIDE DEF g, n
    <2>4. ASSUME NEW i \in 1..n
          PROVE  flat[i] = flat[i - 1] \o parts[i]
        <3>1. g[i] = IF i = 1 THEN parts[i] ELSE g[i - 1] \o parts[i]
            BY <2>2 DEF Joins
        <3>2. <<>> \o parts[i] = parts[i]
            BY <2>1, ConcatEmptySeq
        <3>3. flat[i] = g[i] /\ flat[i - 1] = IF i = 1 THEN <<>> ELSE g[i - 1]
            BY <2>1
        <3> HIDE DEF flat
        <3> QED  BY <3>1, <3>2, <3>3
    <2>5. flat[0] = <<>>
        BY <2>1
    <2> DEFINE T == {m \in Nat : m <= n => flat[m] \in Seq(S)}
    <2> HIDE DEF flat
    <2>6. 0 \in T
        BY <2>5, EmptySeq
    <2>7. ASSUME NEW m \in Nat, m < n, m \in T
          PROVE  m + 1 \in T
        <3>1. m + 1 \in 1..n /\ (m + 1) - 1 = m /\ flat[m] \in Seq(S)
            BY <2>1, <2>7
        <3>2. flat[m + 1] = flat[m] \o parts[m + 1] /\ parts[m + 1] \in Seq(S)
            BY <2>1, <2>4, <3>1
        <3>3. flat[m + 1] \in Seq(S)
            BY <3>1, <3>2, ConcatProperties
        <3> QED  BY <3>3
    <2>8. \A m \in 0..n : m \in T
        <3> HIDE DEF T
        <3> QED  BY <2>1, <2>6, <2>7, AllNumbers
    <2>9. flat \in [0..n -> Seq(S)]
        BY <2>1, <2>8 DEF flat
    <2>10. Flattens(flat, parts, S)
        BY <2>1, <2>4, <2>5, <2>9 DEF Flattens, n
    <2> QED  BY <2>3, <2>9, <2>10 DEF n
<1> QED  BY <1>1, <1>2

LEMMA FlatTypes ==
    ASSUME NEW S, NEW parts, NEW flat, Flattens(flat, parts, S)
    PROVE  /\ Len(parts) \in Nat
           /\ \A i \in 0..Len(parts) : flat[i] \in Seq(S) /\ Len(flat[i]) \in Nat
           /\ \A i \in 1..Len(parts) : parts[i] \in Seq(S) /\ Len(parts[i]) \in Nat
<1>1. parts \in Seq(Seq(S)) /\ flat \in [0..Len(parts) -> Seq(S)]
    BY Zenon DEF Flattens
<1>2. ASSUME NEW i \in 1..Len(parts)
      PROVE  parts[i] \in Seq(S) /\ Len(parts[i]) \in Nat
    BY <1>1
<1>3. ASSUME NEW i \in 0..Len(parts)
      PROVE  flat[i] \in Seq(S) /\ Len(flat[i]) \in Nat
    BY <1>1
<1> QED  BY <1>1, <1>2, <1>3

LEMMA SizesType ==
    ASSUME NEW S, NEW parts, NEW flat, Flattens(flat, parts, S)
    PROVE  /\ Len(parts) \in Nat
           /\ \A i \in 0..Len(parts) : flat[i] \in Seq(S) /\ Size(flat, i) \in Nat
           /\ \A i \in 1..Len(parts) : parts[i] \in Seq(S) /\ Size(parts, i) \in Nat
BY FlatTypes DEF Size

\* What one part adds to what the first i flatten to.
PartAfter(flat, parts, i) ==
    /\ Size(flat, i + 1) = Size(flat, i) + Size(parts, i + 1)
    /\ \A p \in 1..Size(flat, i) : flat[i + 1][p] = flat[i][p]
    /\ \A p \in 1..Size(parts, i + 1) : flat[i + 1][Size(flat, i) + p] = parts[i + 1][p]

LEMMA FlatGrows ==
    ASSUME NEW S, NEW parts, NEW flat, Flattens(flat, parts, S),
           NEW i \in Nat, i < Len(parts)
    PROVE  PartAfter(flat, parts, i)
<1> DEFINE s == flat[i]
           t == parts[i + 1]
<1>0. Len(parts) \in Nat
    BY FlatTypes
<1>1. flat[i + 1] = s \o t
    <2>1. PICK j \in 1..Len(parts) : j = i + 1 /\ j - 1 = i
        BY <1>0
    <2>2. flat[j] = flat[j - 1] \o parts[j]
        BY Zenon DEF Flattens
    <2> QED  BY <2>1, <2>2, Zenon
<1>2. i \in 0..Len(parts) /\ i + 1 \in 1..Len(parts)
    BY <1>0
<1>3. s \in Seq(S) /\ t \in Seq(S) /\ Len(s) \in Nat /\ Len(t) \in Nat
    BY <1>2, FlatTypes, Zenon
<1> HIDE DEF s, t
<1>4. /\ Len(s \o t) = Len(s) + Len(t)
      /\ \A p \in 1..(Len(s) + Len(t)) :
            (s \o t)[p] = IF p <= Len(s) THEN s[p] ELSE t[p - Len(s)]
    BY <1>3, ConcatProperties, Zenon
<1>6. \A p \in 1..Len(s) : (s \o t)[p] = s[p]
    BY <1>3, <1>4
<1>7. ASSUME NEW p \in 1..Len(t)
      PROVE  (s \o t)[Len(s) + p] = t[p]
    <2>1. Len(s) + p \in 1..(Len(s) + Len(t)) /\ ~(Len(s) + p <= Len(s))
          /\ (Len(s) + p) - Len(s) = p
        BY <1>3
    <2> QED  BY <1>4, <2>1
<1> QED  BY <1>1, <1>4, <1>6, <1>7, Zenon DEF s, t, PartAfter, Size

\* What the first i parts flatten to begins what the first k flatten to.
Begins(flat, i, k) ==
    /\ Size(flat, i) <= Size(flat, k)
    /\ \A p \in 1..Size(flat, i) : flat[k][p] = flat[i][p]

LEMMA FlatKeeps ==
    ASSUME NEW S, NEW parts, NEW flat, Flattens(flat, parts, S)
    PROVE  \A k \in 0..Len(parts) : \A i \in 0..k : Begins(flat, i, k)
<1> DEFINE T == {k \in Nat : \A i \in 0..k : Begins(flat, i, k)}
<1>1. Len(parts) \in Nat /\ \A i \in 0..Len(parts) : Size(flat, i) \in Nat
    BY SizesType
<1>2. 0 \in T
    BY <1>1 DEF Begins
<1>3. ASSUME NEW k \in Nat, k < Len(parts), k \in T
      PROVE  k + 1 \in T
    <2>1. k + 1 \in 1..Len(parts)
        BY <1>1, <1>3
    <2>2. PartAfter(flat, parts, k)
        BY <1>3, FlatGrows
    <2>3. /\ Size(flat, k) \in Nat /\ Size(flat, k + 1) \in Nat
          /\ Size(flat, k) <= Size(flat, k + 1)
        <3>1. Size(flat, k) \in Nat /\ Size(parts, k + 1) \in Nat
            BY <1>1, <1>3, <2>1, SizesType
        <3>2. Size(flat, k + 1) = Size(flat, k) + Size(parts, k + 1)
            BY <2>2 DEF PartAfter
        <3> QED  BY <3>1, <3>2
    <2>4. \A p \in 1..Size(flat, k) : flat[k + 1][p] = flat[k][p]
        BY <2>2, Zenon DEF PartAfter
    <2>5. ASSUME NEW i \in 0..(k + 1)
          PROVE  Begins(flat, i, k + 1)
        <3>1. CASE i = k + 1
            BY <2>3, <3>1 DEF Begins
        <3>2. CASE i \in 0..k
            <4>1. Begins(flat, i, k) /\ Size(flat, i) \in Nat
                BY <1>1, <1>3, <3>2
            <4> HIDE DEF T
            <4>2. Size(flat, i) <= Size(flat, k)
                BY <4>1 DEF Begins
            <4>3. \A p \in 1..Size(flat, i) : flat[k][p] = flat[i][p]
                BY <4>1, Zenon DEF Begins
            <4>4. \A p \in 1..Size(flat, i) : p \in 1..Size(flat, k)
                BY <2>3, <4>1, <4>2
            <4>5. Size(flat, i) <= Size(flat, k + 1)
                BY <2>3, <4>1, <4>2
            <4> QED  BY <2>4, <4>3, <4>4, <4>5, Zenon DEF Begins
        <3> QED  BY <3>1, <3>2
    <2> QED  BY <2>5
<1>4. \A k \in 0..Len(parts) : k \in T
    <2> HIDE DEF T
    <2> QED  BY <1>1, <1>2, <1>3, AllNumbers
<1> QED  BY <1>4

LEMMA Places ==
    ASSUME NEW S, NEW parts \in Seq(Seq(S))
    PROVE  FlattenSeq(parts) \in Seq(S) /\ \E pos : Placed(parts, pos)
<1> DEFINE n == Len(parts)
<1>1. PICK flat : Flattens(flat, parts, S) /\ FlattenSeq(parts) = flat[n]
    BY FlatExists, Zenon
<1> DEFINE pos == [i \in 0..n |-> Size(flat, i)]
<1>2. n \in Nat /\ \A i \in 0..n : flat[i] \in Seq(S) /\ Size(flat, i) \in Nat
    BY <1>1, SizesType
<1>3. flat[0] = <<>>
    BY <1>1, Zenon DEF Flattens
<1>4. pos \in [0..n -> Nat] /\ pos[0] = 0 /\ pos[n] = Len(flat[n])
    BY <1>2, <1>3 DEF Size
<1>5. ASSUME NEW i \in Nat, i < n
      PROVE  /\ pos[i + 1] = pos[i] + Size(parts, i + 1)
             /\ \A p \in 1..Size(parts, i + 1) : flat[n][pos[i] + p] = parts[i + 1][p]
    <2>1. i \in 0..n /\ i + 1 \in 0..n /\ n \in 0..n /\ i + 1 \in 1..n
        BY <1>2, <1>5
    <2>2. pos[i + 1] = Size(flat, i + 1) /\ pos[i] = Size(flat, i)
        BY <2>1
    <2>3. PartAfter(flat, parts, i) /\ Begins(flat, i + 1, n)
        <3> HIDE DEF pos
        <3>1. PartAfter(flat, parts, i)
            BY <1>1, <1>5, FlatGrows
        <3>2. i + 1 \in 0..n
            BY <2>1
        <3> QED  BY <1>1, <2>1, <3>1, FlatKeeps
    <2> HIDE DEF pos, n
    <2>4. \A p \in 1..Size(parts, i + 1) : Size(flat, i) + p \in 1..Size(flat, i + 1)
        <3>1. Size(flat, i) \in Nat /\ Size(parts, i + 1) \in Nat
            BY <1>1, <2>1, SizesType DEF n
        <3>2. Size(flat, i + 1) = Size(flat, i) + Size(parts, i + 1)
            BY <2>3, Zenon DEF PartAfter
        <3> QED  BY <3>1, <3>2
    <2>5. \A p \in 1..Size(parts, i + 1) : flat[n][Size(flat, i) + p] = parts[i + 1][p]
        BY <2>3, <2>4, Zenon DEF PartAfter, Begins
    <2> QED  BY <2>2, <2>3, <2>5, Zenon DEF PartAfter
<1>6. FlattenSeq(parts) \in Seq(S)
    BY <1>1, <1>2
<1> HIDE DEF pos
<1>7. Placed(parts, pos)
    BY <1>1, <1>4, <1>5 DEF Placed
<1> QED  BY <1>6, <1>7

(* What one response is made of.                                           *)
Formed(r) ==
    /\ r.kind \in {"stream", "body", "image"}
    /\ r.kind = "stream" => r.events \in Seq(Range(r.events))
    /\ r.kind = "image" => /\ r.tokens \in Seq([string : BOOLEAN, chars : Seq(STRING)])
                           /\ WellFormed(r.tokens)

-----------------------------------------------------------------------------
(* A stream: event k + 1 is byte 5k + 1 to 5k + 5, its newline the last.   *)

Lines(n, ended) == [k \in 1..n |-> IF k = n /\ ~ended THEN Line(k) ELSE Line(k) \o <<Newline>>]

\* A line of a stream of n events, with and without its newline.
LinesOf(n, k) ==
    /\ Line(k) \in Seq((0..n) \X (0..4)) /\ Len(Line(k)) = 4
    /\ Line(k) \o <<Newline>> \in Seq((0..n) \X (0..4))
    /\ Len(Line(k) \o <<Newline>>) = 5
    /\ \A q \in 1..4 : (Line(k) \o <<Newline>>)[q] = <<k, q>> /\ Line(k)[q] = <<k, q>>
    /\ (Line(k) \o <<Newline>>)[5] = Newline
    /\ \A q \in 1..4 : <<k, q>> # Newline

LEMMA LineParts ==
    ASSUME NEW n \in Nat, NEW k \in 1..n
    PROVE  LinesOf(n, k)
<1> DEFINE S == (0..n) \X (0..4)
<1>1. \A i \in 1..4 : <<k, i>> \in S
    OBVIOUS
<1>2. Line(k) \in Seq(S) /\ Len(Line(k)) = 4
    BY <1>1 DEF Line
<1>3. \A q \in 1..4 : Line(k)[q] = <<k, q>>
    BY DEF Line
<1>4. Newline \in S
    BY DEF Newline
<1>5. <<Newline>> \in Seq(S) /\ Len(<<Newline>>) = 1 /\ <<Newline>>[1] = Newline
    BY <1>4
<1> HIDE DEF S
<1> DEFINE l == Line(k)
           e == <<Newline>>
<1>6. /\ l \o e \in Seq(S) /\ Len(l \o e) = 5
      /\ \A p \in 1..5 : (l \o e)[p] = IF p <= 4 THEN l[p] ELSE e[p - 4]
    <2> HIDE DEF l, e
    <2>1. l \in Seq(S) /\ e \in Seq(S) /\ Len(l) = 4 /\ Len(e) = 1
        BY <1>2, <1>5 DEF l, e
    <2>2. /\ l \o e \in Seq(S) /\ Len(l \o e) = Len(l) + Len(e)
          /\ \A p \in 1..(Len(l) + Len(e)) :
                (l \o e)[p] = IF p <= Len(l) THEN l[p] ELSE e[p - Len(l)]
        BY <2>1, ConcatProperties, Zenon
    <2> QED  BY <2>1, <2>2
<1>7. \A q \in 1..4 : <<k, q>> # Newline
    BY DEF Newline
<1>8. \A q \in 1..4 : (l \o e)[q] = <<k, q>>
    BY <1>3, <1>6
<1>9. (l \o e)[5] = Newline
    BY <1>5, <1>6
<1>10. l \o e \in Seq(S) /\ Len(l \o e) = 5
    BY <1>6
<1> QED  BY <1>2, <1>3, <1>7, <1>8, <1>9, <1>10, Zenon DEF LinesOf, S

\* Where the bytes of n lines are.
LinesPlaced(bytes, n, ended) ==
    /\ bytes \in Seq((0..n) \X (0..4))
    /\ Len(bytes) = IF n # 0 /\ ~ended THEN 5 * n - 1 ELSE 5 * n
    /\ \A k \in 0..(n - 1) :
          /\ \A q \in 1..4 : bytes[5 * k + q] = <<k + 1, q>>
          /\ 5 * k + 5 <= Len(bytes) => bytes[5 * k + 5] = Newline

LEMMA LinesFlatten ==
    ASSUME NEW n \in Nat, NEW ended
    PROVE  LinesPlaced(FlattenSeq(Lines(n, ended)), n, ended)
<1> DEFINE S == (0..n) \X (0..4)
           parts == Lines(n, ended)
           bytes == FlattenSeq(parts)
<1>3. \A i \in 1..n : parts[i] = IF i = n /\ ~ended THEN Line(i) ELSE Line(i) \o <<Newline>>
    BY DEF Lines
<1>4. DOMAIN parts = 1..n /\ parts = [i \in 1..n |-> parts[i]]
    BY DEF Lines
<1> HIDE DEF parts, S
<1>5. \A i \in 1..n : /\ parts[i] \in Seq(S)
                      /\ Size(parts, i) = IF i = n /\ ~ended THEN 4 ELSE 5
    <2> SUFFICES ASSUME NEW i \in 1..n
                 PROVE  /\ parts[i] \in Seq(S)
                        /\ Size(parts, i) = IF i = n /\ ~ended THEN 4 ELSE 5
        OBVIOUS
    <2>1. LinesOf(n, i)
        BY LineParts
    <2> QED  BY <1>3, <2>1, Zenon DEF S, Size, LinesOf
<1>6. parts \in Seq(Seq(S)) /\ Len(parts) = n
    <2>1. \A i \in 1..n : parts[i] \in Seq(S)
        BY <1>5
    <2> DEFINE Elements == Seq(S)
    <2> HIDE DEF Elements
    <2>2. parts = [i \in 1..n |-> parts[i]] /\ \A i \in 1..n : parts[i] \in Elements
        BY <1>4, <2>1 DEF Elements
    <2>3. parts \in Seq(Elements) /\ Len(parts) = n
        BY <2>2
    <2> QED  BY <2>3 DEF Elements
<1>7. PICK pos : Placed(parts, pos)
    BY <1>6, Places
<1>8. bytes \in Seq(S)
    BY <1>6, Places
<1>9. /\ pos \in [0..n -> Nat] /\ pos[0] = 0 /\ Len(bytes) = pos[n]
      /\ \A i \in Nat : i < n =>
            /\ pos[i + 1] = pos[i] + Size(parts, i + 1)
            /\ \A p \in 1..Size(parts, i + 1) : bytes[pos[i] + p] = parts[i + 1][p]
    BY <1>6, <1>7, Zenon DEF Placed
<1> HIDE DEF bytes
<1> DEFINE T == {m \in Nat : m < n => pos[m] = 5 * m}
<1>10. \A m \in 0..n : m \in T
    <2>1. 0 \in T
        BY <1>9
    <2>2. ASSUME NEW m \in Nat, m < n, m \in T
          PROVE  m + 1 \in T
        <3>1. SUFFICES ASSUME m + 1 < n
                       PROVE  pos[m + 1] = 5 * (m + 1)
            OBVIOUS
        <3>2. pos[m + 1] = pos[m] + Size(parts, m + 1) /\ pos[m] = 5 * m
            BY <1>9, <2>2
        <3>3. Size(parts, m + 1) = 5
            BY <1>5, <3>1
        <3> QED  BY <3>2, <3>3
    <2> HIDE DEF T
    <2> QED  BY <2>1, <2>2, AllNumbers
<1>11. Len(bytes) = IF n # 0 /\ ~ended THEN 5 * n - 1 ELSE 5 * n
    <2>1. CASE n = 0
        BY <1>9, <2>1
    <2>2. CASE n # 0
        <3>1. n - 1 \in Nat /\ n - 1 < n /\ (n - 1) + 1 = n /\ n - 1 \in 0..n /\ n \in 1..n
            BY <2>2
        <3>2. pos[n - 1] = 5 * (n - 1)
            BY <1>10, <3>1
        <3>3. pos[n] = pos[n - 1] + Size(parts, n)
            BY <1>9, <3>1
        <3>4. Size(parts, n) = IF ~ended THEN 4 ELSE 5
            BY <1>5, <3>1
        <3> QED  BY <1>9, <2>2, <3>2, <3>3, <3>4
    <2> QED  BY <2>1, <2>2
<1>12. ASSUME NEW k \in 0..(n - 1)
       PROVE  /\ \A q \in 1..4 : bytes[5 * k + q] = <<k + 1, q>>
              /\ 5 * k + 5 <= Len(bytes) => bytes[5 * k + 5] = Newline
    <2>1. k \in Nat /\ k < n /\ k \in 0..n /\ k + 1 \in 1..n
        OBVIOUS
    <2>2. pos[k] = 5 * k
        BY <1>10, <2>1
    <2>3. \A p \in 1..Size(parts, k + 1) : bytes[5 * k + p] = parts[k + 1][p]
        BY <1>9, <2>1, <2>2
    <2>4. Size(parts, k + 1) = IF k + 1 = n /\ ~ended THEN 4 ELSE 5
        BY <1>5, <2>1
    <2>5. \A q \in 1..4 : q \in 1..Size(parts, k + 1) /\ parts[k + 1][q] = <<k + 1, q>>
        <3>1. LinesOf(n, k + 1)
            BY <2>1, LineParts
        <3>2. \A q \in 1..4 : q \in 1..Size(parts, k + 1)
            BY <2>4
        <3>3. parts[k + 1] = IF k + 1 = n /\ ~ended THEN Line(k + 1)
                             ELSE Line(k + 1) \o <<Newline>>
            BY <1>3, <2>1
        <3>4. \A q \in 1..4 : parts[k + 1][q] = <<k + 1, q>>
            BY <3>1, <3>3, Zenon DEF LinesOf
        <3> QED  BY <3>2, <3>4
    <2>6. ASSUME 5 * k + 5 <= Len(bytes)
          PROVE  5 \in 1..Size(parts, k + 1) /\ parts[k + 1][5] = Newline
        <3>1. ~(k + 1 = n /\ ~ended)
            BY <1>11, <2>1, <2>6
        <3>2. parts[k + 1] = Line(k + 1) \o <<Newline>>
            BY <1>3, <2>1, <3>1
        <3>3. LinesOf(n, k + 1)
            BY <2>1, LineParts
        <3>4. parts[k + 1][5] = Newline
            BY <3>2, <3>3, Zenon DEF LinesOf
        <3> QED  BY <2>4, <3>1, <3>4
    <2> QED  BY <2>3, <2>5, <2>6
<1> QED  BY <1>8, <1>11, <1>12 DEF LinesPlaced, S, bytes, parts

LEMMA StreamPlaces ==
    ASSUME NEW r, Formed(r), r.kind = "stream"
    PROVE  /\ Len(r.events) \in Nat /\ DOMAIN r.events = 1..Len(r.events)
           /\ LinesPlaced(BytesOf(r), Len(r.events), r.ended)
<1> DEFINE n == Len(r.events)
<1>1. n \in Nat /\ DOMAIN r.events = 1..n
    BY DEF Formed
<1>2. BytesOf(r) = FlattenSeq(Lines(n, r.ended))
    BY <1>1 DEF BytesOf, Lines
<1> QED  BY <1>1, <1>2, LinesFlatten

\* The usage after j events, and the function a reading of n events is.
Heard(r, j) == r.endpoint \in StreamEndpoints /\ r.events[j].mentionsUsage
UsageAfter(r, j, old) ==
    IF Heard(r, j) THEN UsageOfEvent(r.endpoint, r.events[j], old) ELSE old
Reads(r, u, n) ==
    u[0] = Absent /\ \A j \in Nat : j < n => u[j + 1] = UsageAfter(r, j + 1, u[j])
Completed(r, n) == \E j \in 1..n : Heard(r, j) /\ Completes(r.endpoint, r.events[j])

\* An extractor has all its fields.
Shaped(e) ==
    /\ DOMAIN e = {"consumed", "overflowed", "carry", "usage", "complete",
                   "mode", "escaped", "seen"}
    /\ e.overflowed = FALSE

Begun(k, q) == [i \in 1..q |-> <<k + 1, i>>]

\* e has read k events and q bytes of the next.
StreamAt(r, k, q, e) ==
    /\ Shaped(e) /\ e.mode = "outside" /\ e.carry = Begun(k, q)
    /\ \A u : Reads(r, u, k) => e.usage = u[k]
    /\ e.complete \in BOOLEAN /\ (e.complete <=> Completed(r, k))

\* A line that is not whole says nothing, a whole one what its event does.
LEMMA LineBegun ==
    ASSUME NEW r, NEW e, NEW k \in Nat, NEW q \in 0..3
    PROVE  ProcessLine(r, e, Begun(k, q)) = e
<1>1. CASE q = 0
    <2>1. Begun(k, q) = <<>>
        BY <1>1 DEF Begun
    <2> QED  BY <2>1 DEF ProcessLine
<1>2. CASE q # 0
    <2>1. Begun(k, q)[1][1] = k + 1
        BY <1>2 DEF Begun
    <2>2. Begun(k, q) # Line(k + 1)
        <3>1. DOMAIN Begun(k, q) = 1..q /\ DOMAIN Line(k + 1) = 1..4
            BY DEF Begun, Line
        <3>2. 4 \notin 1..q /\ 4 \in 1..4
            OBVIOUS
        <3> QED  BY <3>1, <3>2
    <2> QED  BY <2>1, <2>2 DEF ProcessLine
<1> QED  BY <1>1, <1>2

LEMMA LineWhole ==
    ASSUME NEW r, NEW e, NEW k \in Nat
    PROVE  ProcessLine(r, e, Begun(k, 4)) =
             IF Heard(r, k + 1)
             THEN [e EXCEPT !.usage = UsageOfEvent(r.endpoint, r.events[k + 1], @),
                            !.complete = @ \/ Completes(r.endpoint, r.events[k + 1])]
             ELSE e
<1>1. Begun(k, 4) = Line(k + 1)
    BY DEF Begun, Line
<1>2. Begun(k, 4)[1][1] = k + 1
    BY DEF Begun
<1>3. Line(k + 1) # <<>>
    <2>1. 1 \in DOMAIN Line(k + 1)
        BY DEF Line
    <2>2. DOMAIN <<>> = {}
        OBVIOUS
    <2> QED  BY <2>1, <2>2
<1> QED  BY <1>1, <1>2, <1>3, Zenon DEF ProcessLine, Heard

\* What the whole line makes of the extractor.
LEMMA LineRead ==
    ASSUME NEW r, NEW e, NEW k \in Nat, StreamAt(r, k, 4, e)
    PROVE  LET f == ProcessLine(r, e, e.carry)
           IN  /\ Shaped(f) /\ f.mode = "outside" /\ f.carry = e.carry
               /\ \A u : Reads(r, u, k + 1) => f.usage = u[k + 1]
               /\ f.complete \in BOOLEAN /\ (f.complete <=> Completed(r, k + 1))
<1> DEFINE f == ProcessLine(r, e, e.carry)
           usage == UsageOfEvent(r.endpoint, r.events[k + 1], e.usage)
           done == Completes(r.endpoint, r.events[k + 1])
<1>1. /\ Shaped(e) /\ e.mode = "outside" /\ e.carry = Begun(k, 4)
      /\ e.complete \in BOOLEAN
    BY DEF StreamAt
<1>2. f = IF Heard(r, k + 1)
          THEN [e EXCEPT !.usage = usage, !.complete = @ \/ done] ELSE e
    <2>1. ProcessLine(r, e, Begun(k, 4)) =
            IF Heard(r, k + 1)
            THEN [e EXCEPT !.usage = usage, !.complete = @ \/ done] ELSE e
        BY LineWhole
    <2> HIDE DEF usage, done
    <2> QED  BY <1>1, <2>1
<1> HIDE DEF f, usage, done
<1>3. /\ Shaped(f) /\ f.mode = "outside" /\ f.carry = e.carry
      /\ f.usage = IF Heard(r, k + 1) THEN usage ELSE e.usage
      /\ f.complete = IF Heard(r, k + 1) THEN e.complete \/ done ELSE e.complete
    <2>1. CASE Heard(r, k + 1)
        <3>1. f = [e EXCEPT !.usage = usage, !.complete = e.complete \/ done]
            BY <1>2, <2>1
        <3> QED  BY <1>1, <2>1, <3>1 DEF Shaped
    <2>2. CASE ~Heard(r, k + 1)
        BY <1>1, <1>2, <2>2
    <2> QED  BY <2>1, <2>2
<1>4. ASSUME NEW u, Reads(r, u, k + 1)
      PROVE  f.usage = u[k + 1]
    <2>1. k < k + 1 /\ \A j \in Nat : j < k => j < k + 1
        OBVIOUS
    <2>2. Reads(r, u, k) /\ u[k + 1] = UsageAfter(r, k + 1, u[k])
        BY <1>4, <2>1, Zenon DEF Reads
    <2>3. e.usage = u[k]
        BY <2>2, Zenon DEF StreamAt
    <2>4. f.usage = IF Heard(r, k + 1) THEN usage ELSE u[k]
        BY <1>3, <2>3
    <2>5. UsageAfter(r, k + 1, u[k]) =
            IF Heard(r, k + 1) THEN usage ELSE u[k]
        BY <2>3 DEF UsageAfter, usage
    <2> QED  BY <2>2, <2>4, <2>5
<1>5. Completed(r, k + 1) <=> Completed(r, k) \/ (Heard(r, k + 1) /\ done)
    <2>1. \A j : j \in 1..(k + 1) <=> j \in 1..k \/ j = k + 1
        OBVIOUS
    <2> QED  BY <2>1, Zenon DEF Completed, done
<1>6. f.complete \in BOOLEAN /\ (f.complete <=> Completed(r, k + 1))
    <2>1. e.complete <=> Completed(r, k)
        BY Zenon DEF StreamAt
    <2> QED  BY <1>1, <1>3, <1>5, <2>1, Zenon
<1> QED  BY <1>3, <1>4, <1>6, Zenon DEF f

\* A byte inside of a line is kept.
LEMMA StreamByte ==
    ASSUME NEW r, NEW e, NEW k \in Nat, NEW q \in 0..3, StreamAt(r, k, q, e)
    PROVE  StreamAt(r, k, q + 1, FeedStream(r, e, <<k + 1, q + 1>>))
<1> DEFINE f == FeedStream(r, e, <<k + 1, q + 1>>)
<1>1. Shaped(e) /\ e.mode = "outside" /\ e.carry = Begun(k, q)
    BY DEF StreamAt
<1>2. <<k + 1, q + 1>> # Newline
    BY DEF Newline
<1>3. f = [e EXCEPT !.carry = Append(@, <<k + 1, q + 1>>)]
    BY <1>2 DEF FeedStream
<1>4. Append(Begun(k, q), <<k + 1, q + 1>>) = Begun(k, q + 1)
    BY DEF Begun
<1>5. f = [e EXCEPT !.carry = Begun(k, q + 1)]
    BY <1>1, <1>3, <1>4
<1> HIDE DEF f
<1>6. /\ Shaped(f) /\ f.mode = "outside" /\ f.carry = Begun(k, q + 1)
      /\ f.usage = e.usage /\ f.complete = e.complete
    BY <1>1, <1>5 DEF Shaped
<1> QED  BY <1>6, Zenon DEF StreamAt, f

\* The newline ends it.
LEMMA StreamNewline ==
    ASSUME NEW r, NEW e, NEW k \in Nat, StreamAt(r, k, 4, e)
    PROVE  StreamAt(r, k + 1, 0, FeedStream(r, e, Newline))
<1> DEFINE f == ProcessLine(r, e, e.carry)
           g == FeedStream(r, e, Newline)
<1>1. /\ Shaped(f) /\ f.mode = "outside"
      /\ \A u : Reads(r, u, k + 1) => f.usage = u[k + 1]
      /\ f.complete \in BOOLEAN /\ (f.complete <=> Completed(r, k + 1))
    BY LineRead, Zenon
<1>2. g = [f EXCEPT !.carry = <<>>]
    BY DEF FeedStream
<1> HIDE DEF f, g
<1>3. Begun(k + 1, 0) = <<>>
    BY DEF Begun
<1>4. /\ Shaped(g) /\ g.mode = "outside" /\ g.carry = Begun(k + 1, 0)
      /\ g.usage = f.usage /\ g.complete = f.complete
    BY <1>1, <1>2, <1>3 DEF Shaped
<1> QED  BY <1>1, <1>4, Zenon DEF StreamAt, g

\* One byte more, wherever it is.
LEMMA StreamFed ==
    ASSUME NEW r, Formed(r), r.kind = "stream", NEW e, NEW k \in Nat, NEW q \in 0..4,
           5 * k + q < Len(BytesOf(r)), StreamAt(r, k, q, e)
    PROVE  LET f == Feed(r, e, BytesOf(r)[5 * k + q + 1])
           IN  IF q = 4 THEN StreamAt(r, k + 1, 0, f) ELSE StreamAt(r, k, q + 1, f)
<1> DEFINE n == Len(r.events)
<1>1. n \in Nat /\ LinesPlaced(BytesOf(r), n, r.ended)
    BY StreamPlaces
<1> HIDE DEF n
<1>2. Len(BytesOf(r)) = IF n # 0 /\ ~r.ended THEN 5 * n - 1 ELSE 5 * n
    BY <1>1, Zenon DEF LinesPlaced
<1>3. k \in 0..(n - 1)
    BY <1>1, <1>2
<1>4. \A b : Feed(r, e, b) = FeedStream(r, e, b)
    BY DEF Feed
<1>5. CASE q = 4
    <2>1. 5 * k + q + 1 = 5 * k + 5 /\ 5 * k + 5 <= Len(BytesOf(r))
        BY <1>1, <1>2, <1>5
    <2>2. BytesOf(r)[5 * k + 5] = Newline
        BY <1>1, <1>3, <2>1, Zenon DEF LinesPlaced
    <2>3. StreamAt(r, k + 1, 0, FeedStream(r, e, Newline))
        BY <1>5, StreamNewline, Zenon
    <2> QED  BY <1>4, <1>5, <2>1, <2>2, <2>3, Zenon
<1>6. CASE q # 4
    <2>1. q + 1 \in 1..4 /\ q \in 0..3 /\ 5 * k + q + 1 = 5 * k + (q + 1)
        BY <1>6
    <2>2. BytesOf(r)[5 * k + (q + 1)] = <<k + 1, q + 1>>
        BY <1>1, <1>3, <2>1, Zenon DEF LinesPlaced
    <2>3. StreamAt(r, k, q + 1, FeedStream(r, e, <<k + 1, q + 1>>))
        BY <2>1, StreamByte, Zenon
    <2> QED  BY <1>4, <1>6, <2>1, <2>2, <2>3, Zenon
<1> QED  BY <1>5, <1>6

\* What m lines and n lines have in common.
Agree(short, long) == \A p \in 1..Len(short) : p <= Len(long) => short[p] = long[p]
LEMMA LinesAgree ==
    ASSUME NEW j \in Nat, NEW n \in Nat, j <= n, NEW ended1, NEW ended2,
           NEW short, NEW long, LinesPlaced(short, j, ended1), LinesPlaced(long, n, ended2)
    PROVE  Agree(short, long)
<1> SUFFICES ASSUME NEW p \in 1..Len(short), p <= Len(long)
             PROVE  short[p] = long[p]
    BY DEF Agree
<1> DEFINE k == (p - 1) \div 5
           q == p - 5 * k
<1>1. Len(short) \in Nat /\ Len(long) \in Nat /\ Len(short) <= 5 * j
    BY DEF LinesPlaced
<1>2. k \in Int /\ q \in 1..5 /\ p = 5 * k + q /\ k \in Nat
    OBVIOUS
<1> HIDE DEF k, q
<1>3. k \in 0..(j - 1) /\ k \in 0..(n - 1)
    BY <1>1, <1>2
<1>4. CASE q \in 1..4
    <2>1. short[5 * k + q] = <<k + 1, q>>
        BY <1>3, <1>4, Zenon DEF LinesPlaced
    <2>2. long[5 * k + q] = <<k + 1, q>>
        BY <1>3, <1>4, Zenon DEF LinesPlaced
    <2> QED  BY <1>2, <2>1, <2>2
<1>5. CASE q = 5
    <2>0. 5 * k + 5 <= Len(short) /\ 5 * k + 5 <= Len(long)
        BY <1>1, <1>2, <1>5
    <2>1. short[5 * k + 5] = Newline
        BY <1>3, <2>0, Zenon DEF LinesPlaced
    <2>2. long[5 * k + 5] = Newline
        BY <1>3, <2>0, Zenon DEF LinesPlaced
    <2> QED  BY <1>2, <1>5, <2>1, <2>2
<1> QED  BY <1>2, <1>4, <1>5

\* An event is whole with the last byte of its line, its newline or not.
LEMMA WholeAre ==
    ASSUME Formed(resp), resp.kind = "stream", Arrived \in 0..Len(BytesOf(resp)),
           NEW j \in 1..Len(resp.events)
    PROVE  j \in WholeEvents <=> 5 * j - 1 <= Arrived
<1> DEFINE n == Len(resp.events)
           bytes == BytesOf(resp)
           short == BytesUpTo(j)
           a == Arrived
<1>1. n \in Nat /\ DOMAIN resp.events = 1..n /\ LinesPlaced(bytes, n, resp.ended)
    BY StreamPlaces
<1>2. short = FlattenSeq(Lines(j, FALSE))
    BY DEF BytesUpTo, Lines
<1>3. LinesPlaced(short, j, FALSE)
    <2>1. j \in Nat
        BY <1>1
    <2>2. LinesPlaced(FlattenSeq(Lines(j, FALSE)), j, FALSE)
        BY <2>1, LinesFlatten
    <2> QED  BY <1>2, <2>2, Zenon
<1>4. j \in WholeEvents <=> \E i \in 1..a : SubSeq(bytes, 1, i) = short
    BY <1>1 DEF WholeEvents
<1>5. j \in Nat /\ j <= n /\ j # 0 /\ a \in 0..Len(bytes)
    BY <1>1
<1> HIDE DEF n, bytes, short, a
<1> DEFINE S == (0..n) \X (0..4)
<1>6. bytes \in Seq(S) /\ Len(bytes) \in Nat
    BY <1>1 DEF LinesPlaced
<1>7. short \in Seq((0..j) \X (0..4)) /\ Len(short) = 5 * j - 1
    BY <1>3, <1>5 DEF LinesPlaced
<1> HIDE DEF S
<1>11. \A p \in 1..Len(short) : p <= Len(bytes) => short[p] = bytes[p]
    <2>1. n \in Nat /\ j \in Nat /\ j <= n
        BY <1>1, <1>5
    <2>2. LinesPlaced(short, j, FALSE)
        BY <1>3
    <2>3. LinesPlaced(bytes, n, resp.ended)
        BY <1>1
    <2>4. Agree(short, bytes)
        BY <2>1, <2>2, <2>3, LinesAgree
    <2> QED  BY <2>4 DEF Agree
<1>8. ASSUME NEW i \in 1..a
      PROVE  Len(SubSeq(bytes, 1, i)) = i /\ \A p \in 1..i : SubSeq(bytes, 1, i)[p] = bytes[p]
    BY <1>5, <1>6
<1>9. ASSUME NEW i \in 1..a, SubSeq(bytes, 1, i) = short
      PROVE  5 * j - 1 <= a
    BY <1>5, <1>7, <1>8, <1>9
<1>10. ASSUME 5 * j - 1 <= a
       PROVE  \E i \in 1..a : SubSeq(bytes, 1, i) = short
    <2> DEFINE i == 5 * j - 1
    <2>1. i \in 1..a /\ i <= Len(bytes)
        BY <1>5, <1>6, <1>10
    <2>2. ASSUME NEW p \in 1..i
          PROVE  SubSeq(bytes, 1, i)[p] = short[p]
        <3>1. p \in 1..Len(short) /\ p <= Len(bytes)
            BY <1>6, <1>7, <2>1
        <3>2. short[p] = bytes[p]
            BY <1>11, <3>1
        <3> QED  BY <1>8, <2>1, <3>2
    <2>3. Len(SubSeq(bytes, 1, i)) = i
        BY <1>8, <2>1
    <2> HIDE DEF i
    <2>4. SubSeq(bytes, 1, i) = [p \in 1..i |-> SubSeq(bytes, 1, i)[p]]
        BY <1>5, <1>6, <2>1
    <2>5. short = [p \in 1..i |-> short[p]]
        BY <1>7 DEF i
    <2>6. SubSeq(bytes, 1, i) = short
        BY <2>2, <2>4, <2>5
    <2> QED  BY <2>1, <2>6
<1> QED  BY <1>4, <1>9, <1>10 DEF a

\* The usage of a reading at once, event by event.
ReadUsage(u, n) ==
    u = [k \in 0..n |-> IF k = 0 THEN Absent
                        ELSE IF Told(k) THEN UsageOfEvent(resp.endpoint, resp.events[k], u[k - 1])
                        ELSE u[k - 1]]

LEMMA UsageExists ==
    ASSUME NEW n \in Nat
    PROVE  \E u : ReadUsage(u, n)
<1> DEFINE T == {m \in Nat : \E u : ReadUsage(u, m)}
           Following(k, old) == IF Told(k) THEN UsageOfEvent(resp.endpoint, resp.events[k], old)
                           ELSE old
<1>0. \A u, m : ReadUsage(u, m) <=> u = [k \in 0..m |-> IF k = 0 THEN Absent
                                                        ELSE Following(k, u[k - 1])]
    BY DEF ReadUsage
<1> HIDE DEF Following
<1>1. 0 \in T
    <2> DEFINE u == [k \in 0..0 |-> Absent]
    <2>1. u = [k \in 0..0 |-> IF k = 0 THEN Absent ELSE Following(k, u[k - 1])]
        OBVIOUS
    <2>2. ReadUsage(u, 0)
        BY <1>0, <2>1
    <2> QED  BY <2>2
<1>2. ASSUME NEW m \in Nat, m \in T
      PROVE  m + 1 \in T
    <2>1. PICK h : ReadUsage(h, m)
        BY <1>2
    <2>2. h = [k \in 0..m |-> IF k = 0 THEN Absent ELSE Following(k, h[k - 1])]
        BY <1>0, <2>1
    <2> DEFINE u == [k \in 0..(m + 1) |-> IF k = m + 1 THEN Following(k, h[m]) ELSE h[k]]
    <2>3. ASSUME NEW k \in 0..(m + 1)
          PROVE  u[k] = IF k = 0 THEN Absent ELSE Following(k, u[k - 1])
        <3>1. CASE k = m + 1
            <4>1. u[k] = Following(k, h[m]) /\ u[m] = h[m] /\ k - 1 = m /\ k # 0
                BY <3>1
            <4> HIDE DEF u
            <4> QED  BY <4>1
        <3>2. CASE k \in 0..m
            <4>1. u[k] = h[k] /\ (k # 0 => u[k - 1] = h[k - 1])
                BY <3>2
            <4>2. h[k] = IF k = 0 THEN Absent ELSE Following(k, h[k - 1])
                BY <2>2, <3>2
            <4> HIDE DEF u
            <4> QED  BY <4>1, <4>2
        <3> QED  BY <3>1, <3>2
    <2>4. u = [k \in 0..(m + 1) |-> IF k = 0 THEN Absent ELSE Following(k, u[k - 1])]
        <3>1. u = [k \in 0..(m + 1) |-> u[k]]
            OBVIOUS
        <3> HIDE DEF u
        <3> QED  BY <2>3, <3>1
    <2>5. ReadUsage(u, m + 1)
        <3> HIDE DEF u
        <3> QED  BY <1>0, <2>4
    <2> QED  BY <2>5
<1>3. \A m \in 0..n : m \in T
    <2> HIDE DEF T
    <2> QED  BY <1>1, <1>2, AllNumbers
<1> QED  BY <1>3

\* It reads the events that are whole, and nothing after them.
LEMMA UsageRead ==
    ASSUME NEW n \in Nat, NEW w \in 0..n, NEW u, ReadUsage(u, n),
           \A j \in 1..n : Told(j) <=> j <= w /\ Heard(resp, j)
    PROVE  Reads(resp, u, w) /\ u[n] = u[w]
<1>1. ASSUME NEW m \in Nat, m < n
      PROVE  u[m + 1] = IF m + 1 <= w THEN UsageAfter(resp, m + 1, u[m]) ELSE u[m]
    <2>1. PICK k \in 0..n : k = m + 1 /\ k # 0 /\ k - 1 = m /\ k \in 1..n
        BY <1>1
    <2>2. u[k] = IF Told(k) THEN UsageOfEvent(resp.endpoint, resp.events[k], u[k - 1])
                 ELSE u[k - 1]
        BY <2>1 DEF ReadUsage
    <2>3. Told(k) <=> k <= w /\ Heard(resp, k)
        BY <2>1
    <2> QED  BY <2>1, <2>2, <2>3 DEF UsageAfter
<1>2. u[0] = Absent
    BY DEF ReadUsage
<1>3. Reads(resp, u, w)
    <2>1. \A j \in Nat : j < w => j < n /\ j + 1 <= w
        OBVIOUS
    <2> QED  BY <1>1, <1>2, <2>1 DEF Reads
<1> DEFINE T == {m \in Nat : w <= m => u[m] = u[w]}
<1>4. 0 \in T
    OBVIOUS
<1>5. ASSUME NEW m \in Nat, m < n, m \in T
      PROVE  m + 1 \in T
    <2>1. u[m + 1] = IF m + 1 <= w THEN UsageAfter(resp, m + 1, u[m]) ELSE u[m]
        BY <1>1, <1>5
    <2>2. w <= m => u[m] = u[w]
        BY <1>5
    <2> QED  BY <2>1, <2>2
<1>6. \A m \in 0..n : m \in T
    <2> HIDE DEF T
    <2> QED  BY <1>4, <1>5, AllNumbers
<1> QED  BY <1>3, <1>6

\* The answer of an extractor that has read all that arrived.
LEMMA StreamAnswer ==
    ASSUME Formed(resp), resp.kind = "stream", NEW e, NEW k \in Nat, NEW q \in 0..4,
           StreamAt(resp, k, q, e), Arrived = 5 * k + q, Arrived <= Len(BytesOf(resp))
    PROVE  Finish(resp, e) = ReadAtOnce
<1> DEFINE n == Len(resp.events)
           w == IF q = 4 THEN k + 1 ELSE k
           last == ProcessLine(resp, e, e.carry)
           u == CHOOSE u : ReadUsage(u, n)
<1>1. n \in Nat /\ DOMAIN resp.events = 1..n /\ LinesPlaced(BytesOf(resp), n, resp.ended)
    BY StreamPlaces
<1>2. Len(BytesOf(resp)) = IF n # 0 /\ ~resp.ended THEN 5 * n - 1 ELSE 5 * n
    BY <1>1, Zenon DEF LinesPlaced
<1>3. w \in 0..n /\ Arrived \in 0..Len(BytesOf(resp))
    BY <1>1, <1>2
<1>4. ASSUME NEW j \in 1..n
      PROVE  Told(j) <=> j <= w /\ Heard(resp, j)
    <2>1. j \in WholeEvents <=> 5 * j - 1 <= Arrived
        BY <1>3, WholeAre
    <2>2. 5 * j - 1 <= 5 * k + q <=> j <= w
        BY <1>1
    <2> QED  BY <2>1, <2>2 DEF Told, Heard
<1>5. ReadUsage(u, n)
    BY <1>1, UsageExists
<1>6. /\ Shaped(last) /\ last.mode = "outside"
      /\ \A v : Reads(resp, v, w) => last.usage = v[w]
      /\ last.complete \in BOOLEAN /\ (last.complete <=> Completed(resp, w))
    <2>1. CASE q = 4
        BY <2>1, LineRead
    <2>2. CASE q # 4
        <3>1. last = e
            BY <2>2, LineBegun DEF StreamAt
        <3> QED  BY <2>2, <3>1, Zenon DEF StreamAt
    <2> QED  BY <2>1, <2>2
<1>7. ReadAtOnce = [usage |-> u[n], units |-> 0,
                    complete |-> \E j \in DOMAIN resp.events :
                                    Told(j) /\ Completes(resp.endpoint, resp.events[j])]
    BY DEF ReadAtOnce, ReadUsage
<1>8. Finish(resp, e) = [usage |-> last.usage, complete |-> last.complete, units |-> 0]
    BY DEF StreamAt, Shaped, Finish
<1> HIDE DEF last, u, n, w
<1>9. Reads(resp, u, w) /\ u[n] = u[w]
    BY <1>1, <1>3, <1>4, <1>5, UsageRead
<1>10. last.usage = u[n]
    BY <1>6, <1>9
<1>11. Completed(resp, w) <=> \E j \in DOMAIN resp.events :
                                 Told(j) /\ Completes(resp.endpoint, resp.events[j])
    <2>1. \A j : j \in 1..w <=> j \in 1..n /\ j <= w
        BY <1>1, <1>3
    <2> QED  BY <1>1, <1>4, <2>1, Zenon DEF Completed
<1> QED  BY <1>6, <1>7, <1>8, <1>10, <1>11

-----------------------------------------------------------------------------
(* A body that is no image: one object of four bytes.                      *)

BodyAt(n, e) == Shaped(e) /\ e.mode = "outside" /\ n \in 0..4 /\ e.carry = Begun(0, n)

LEMMA BodyFed ==
    ASSUME NEW r, r.kind = "body", NEW n \in 0..3, NEW e, BodyAt(n, e)
    PROVE  BodyAt(n + 1, Feed(r, e, BytesOf(r)[n + 1]))
<1> DEFINE b == BytesOf(r)[n + 1]
           f == Feed(r, e, b)
<1>1. b = <<1, n + 1>>
    BY DEF BytesOf, Line
<1>2. Append(Begun(0, n), b) = Begun(0, n + 1)
    BY <1>1 DEF Begun
<1> HIDE DEF b
<1>3. f = [e EXCEPT !.carry = Append(@, b)]
    BY DEF Feed
<1>4. f = [e EXCEPT !.carry = Begun(0, n + 1)]
    BY <1>2, <1>3 DEF BodyAt
<1> HIDE DEF f
<1>5. Shaped(f) /\ f.mode = "outside" /\ f.carry = Begun(0, n + 1)
    BY <1>4 DEF BodyAt, Shaped
<1> QED  BY <1>5 DEF BodyAt, f, b

LEMMA BodyAnswer ==
    ASSUME resp.kind = "body", NEW e, BodyAt(Arrived, e),
           remaining = <<>> <=> Arrived = Len(BytesOf(resp))
    PROVE  Finish(resp, e) = ReadAtOnce
<1> DEFINE n == Arrived
<1>1. Len(BytesOf(resp)) = 4
    BY DEF BytesOf, Line
<1>2. Finish(resp, e) = ExtractBodyUsage(resp, Begun(0, n)) /\ n \in 0..4
    BY DEF BodyAt, Shaped, Finish
<1>3. ReadAtOnce = IF remaining = <<>> THEN ExtractBodyUsage(resp, Line(1)) ELSE Nothing
    BY DEF ReadAtOnce
<1> HIDE DEF n
<1>4. CASE n = 4
    <2>1. Begun(0, n) = Line(1)
        BY <1>4 DEF Begun, Line
    <2> QED  BY <1>1, <1>2, <1>3, <1>4, <2>1 DEF n
<1>5. CASE n # 4
    <2>1. Begun(0, n) # Line(1)
        <3>1. DOMAIN Begun(0, n) = 1..n /\ DOMAIN Line(1) = 1..4
            BY DEF Begun, Line
        <3>2. 4 \in 1..4 /\ 4 \notin 1..n
            BY <1>2, <1>5
        <3> QED  BY <3>1, <3>2
    <2>2. ~Parses(resp, Begun(0, n))
        BY <2>1 DEF Parses
    <2>3. ExtractBodyUsage(resp, Begun(0, n)) = Nothing
        BY <2>2 DEF ExtractBodyUsage
    <2> QED  BY <1>1, <1>2, <1>3, <1>5, <2>3 DEF n
<1> QED  BY <1>4, <1>5

-----------------------------------------------------------------------------
(* An image body.                                                          *)

Token == [string : BOOLEAN, chars : Seq(STRING)]

\* What stands before token i is its neighbour, or the neighbour of spaces.
LEMMA BeforeNext ==
    ASSUME NEW ts, NEW i \in Nat
    PROVE  LastBefore(ts, (i + 1) + 1) =
             IF IsSpace(ts[i + 1]) THEN LastBefore(ts, i + 1) \cup {i + 1} ELSE {i + 1}
<1>1. ASSUME NEW j
      PROVE  j \in LastBefore(ts, (i + 1) + 1) <=>
               j = i + 1 \/ (j \in LastBefore(ts, i + 1) /\ IsSpace(ts[i + 1]))
    <2>1. j \in LastBefore(ts, (i + 1) + 1) <=>
            j \in 1..(i + 1) /\ \A k \in j..(i + 1) : k = j \/ IsSpace(ts[k])
        BY DEF LastBefore
    <2>2. j \in LastBefore(ts, i + 1) <=>
            j \in 1..i /\ \A k \in j..i : k = j \/ IsSpace(ts[k])
        BY DEF LastBefore
    <2>3. CASE j = i + 1
        BY <2>1, <2>3
    <2>4. CASE j # i + 1
        <3>1. j \in 1..(i + 1) <=> j \in 1..i
            BY <2>4
        <3>2. ASSUME j \in 1..i
              PROVE  (\A k \in j..(i + 1) : k = j \/ IsSpace(ts[k])) <=>
                       (\A k \in j..i : k = j \/ IsSpace(ts[k])) /\ IsSpace(ts[i + 1])
            <4>1. \A k : k \in j..(i + 1) <=> k \in j..i \/ k = i + 1
                BY <3>2
            <4> QED  BY <2>4, <4>1, Zenon
        <3> QED  BY <2>1, <2>2, <2>4, <3>1, <3>2, Zenon
    <2> QED  BY <2>3, <2>4
<1> QED  BY <1>1

\* After i tokens: the key of a picture, and then its colon.
AfterKey(ts, i) ==
    \E k \in LastBefore(ts, i + 1) : IsKey(ts[k]) /\ ~PictureAt(ts, k)
AfterColon(ts, i) ==
    \E j \in LastBefore(ts, i + 1) :
        IsColon(ts[j]) /\ \E k \in LastBefore(ts, j) : IsKey(ts[k])

LEMMA AfterNothing ==
    ASSUME NEW ts
    PROVE  ~AfterKey(ts, 0) /\ ~AfterColon(ts, 0)
<1>1. LastBefore(ts, 0 + 1) = {}
    BY DEF LastBefore
<1> QED  BY <1>1 DEF AfterKey, AfterColon

LEMMA AfterSpace ==
    ASSUME NEW ts, NEW i \in Nat, IsSpace(ts[i + 1])
    PROVE  /\ AfterKey(ts, i + 1) <=> AfterKey(ts, i)
           /\ AfterColon(ts, i + 1) <=> AfterColon(ts, i)
<1>1. LastBefore(ts, (i + 1) + 1) = LastBefore(ts, i + 1) \cup {i + 1}
    BY BeforeNext
<1>2. ~IsKey(ts[i + 1]) /\ ~IsColon(ts[i + 1])
    <2>1. <<" ">> # <<":">>
        OBVIOUS
    <2> QED  BY <2>1 DEF IsKey, IsColon, IsSpace
<1> QED  BY <1>1, <1>2, Zenon DEF AfterKey, AfterColon

LEMMA AfterOther ==
    ASSUME NEW ts, NEW i \in Nat, ~IsSpace(ts[i + 1])
    PROVE  /\ AfterKey(ts, i + 1) <=> IsKey(ts[i + 1]) /\ ~PictureAt(ts, i + 1)
           /\ AfterColon(ts, i + 1) <=>
                IsColon(ts[i + 1]) /\ \E k \in LastBefore(ts, i + 1) : IsKey(ts[k])
<1>1. LastBefore(ts, (i + 1) + 1) = {i + 1}
    BY BeforeNext
<1> QED  BY <1>1, Zenon DEF AfterKey, AfterColon

\* A string that is a value is no key: no colon follows it.
LEMMA ColonFollowsKey ==
    ASSUME NEW ts, WellFormed(ts), NEW i \in Nat, i + 1 \in DOMAIN ts, IsColon(ts[i + 1]),
           DOMAIN ts \in SUBSET Nat, LastBefore(ts, i + 1) \subseteq DOMAIN ts
    PROVE  AfterColon(ts, i + 1) <=> AfterKey(ts, i)
<1>1. ~IsSpace(ts[i + 1])
    <2>1. <<" ">> # <<":">>
        OBVIOUS
    <2> QED  BY <2>1 DEF IsColon, IsSpace
<1>2. AfterColon(ts, i + 1) <=> \E k \in LastBefore(ts, i + 1) : IsKey(ts[k])
    BY <1>1, AfterOther
<1>3. ASSUME NEW k \in LastBefore(ts, i + 1), IsKey(ts[k])
      PROVE  ~PictureAt(ts, k)
    <2>1. SUFFICES ASSUME PictureAt(ts, k)
                   PROVE  FALSE
        OBVIOUS
    <2>2. \E j \in LastBefore(ts, k) : IsColon(ts[j])
        BY <2>1, Zenon DEF PictureAt
    <2>3. ts[k].string /\ k \in DOMAIN ts
        BY <1>3 DEF IsKey
    <2>4. \A j \in DOMAIN ts : k \in LastBefore(ts, j) => ~IsColon(ts[j])
        BY <2>2, <2>3, Zenon DEF WellFormed
    <2> QED  BY <2>4
<1> QED  BY <1>2, <1>3, Zenon DEF AfterKey

\* Tokens as texts are made of them, a character outside of strings being one.
Plain(ts) ==
    /\ ts \in Seq([string : BOOLEAN, chars : Seq(STRING)])
    /\ \A i \in 1..Len(ts) : ~ts[i].string => Len(ts[i].chars) = 1

Chars(ts, i) == Len(ts[i].chars)
Width(ts, i) == IF ts[i].string THEN Chars(ts, i) + 2 ELSE 1

\* What a text is made of: the provers do not know that "Q" is a string.
Letters == STRING \cup {"Q"}

\* The bytes of a token that begins after the byte at.
TokenPlaced(text, at, token) ==
    IF token.string
    THEN /\ text[at + 1] = "Q" /\ text[at + Len(token.chars) + 2] = "Q"
         /\ \A p \in 1..Len(token.chars) : text[at + p + 1] = token.chars[p]
    ELSE text[at + 1] = token.chars[1]

TextPlaced(ts, pos) ==
    /\ pos \in [0..Len(ts) -> Nat] /\ pos[0] = 0
    /\ Text(ts) \in Seq(Letters) /\ Len(Text(ts)) = pos[Len(ts)]
    /\ \A i \in Nat : i < Len(ts) =>
          /\ pos[i + 1] = pos[i] + Width(ts, i + 1)
          /\ TokenPlaced(Text(ts), pos[i], ts[i + 1])

\* The places of a sequence hold members of its set.
LEMMA SeqHolds ==
    ASSUME NEW S, NEW s \in Seq(S)
    PROVE  Len(s) \in Nat /\ DOMAIN s = 1..Len(s) /\ \A i \in 1..Len(s) : s[i] \in S
OBVIOUS

LEMMA OneInSeq ==
    ASSUME NEW S, NEW x \in S
    PROVE  <<x>> \in Seq(S) /\ Len(<<x>>) = 1 /\ <<x>>[1] = x
OBVIOUS

LEMMA PlainHolds ==
    ASSUME NEW ts, Plain(ts)
    PROVE  /\ ts \in Seq(Token) /\ Len(ts) \in Nat /\ DOMAIN ts = 1..Len(ts)
           /\ \A i \in 1..Len(ts) : ts[i] \in Token /\ (~ts[i].string => Len(ts[i].chars) = 1)
<1>1. ts \in Seq(Token) /\ \A i \in 1..Len(ts) : ~ts[i].string => Len(ts[i].chars) = 1
    BY Zenon DEF Plain, Token
<1>2. Len(ts) \in Nat /\ DOMAIN ts = 1..Len(ts) /\ \A i \in 1..Len(ts) : ts[i] \in Token
    BY <1>1, SeqHolds
<1> QED  BY <1>1, <1>2

\* The bytes of one token.
LEMMA TokenBytes ==
    ASSUME NEW token \in [string : BOOLEAN, chars : Seq(STRING)],
           ~token.string => Len(token.chars) = 1
    PROVE  /\ TextOf(token) \in Seq(Letters)
           /\ Len(TextOf(token)) = IF token.string THEN Len(token.chars) + 2 ELSE 1
           /\ TokenPlaced(TextOf(token), 0, token)
<1> DEFINE s == token.chars
           q == <<"Q">>
<1>1. s \in Seq(Letters) /\ Len(s) \in Nat /\ token.string \in BOOLEAN
    <2>1. s \in Seq(STRING) /\ token.string \in BOOLEAN
        OBVIOUS
    <2>2. Len(s) \in Nat /\ s \in [1..Len(s) -> STRING]
        BY <2>1
    <2>3. s \in [1..Len(s) -> Letters]
        BY <2>2 DEF Letters
    <2> QED  BY <2>1, <2>2, <2>3
<1>2. q \in Seq(Letters) /\ Len(q) = 1 /\ q[1] = "Q"
    <2>1. "Q" \in Letters
        BY DEF Letters
    <2> QED  BY <2>1, OneInSeq
<1>3. CASE token.string
    <2>1. TextOf(token) = (q \o s) \o q
        <3>1. TextOf(token) = q \o s \o q
            BY <1>3 DEF TextOf
        <3> QED  BY <3>1
    <2> DEFINE h == q \o s
               t == h \o q
    <2> HIDE DEF s, q
    <2>2. /\ h \in Seq(Letters) /\ Len(h) = Len(q) + Len(s)
          /\ \A p \in 1..(Len(q) + Len(s)) : h[p] = IF p <= Len(q) THEN q[p] ELSE s[p - Len(q)]
        <3> DEFINE S == Letters
        <3> HIDE DEF S
        <3>1. q \in Seq(S) /\ s \in Seq(S)
            BY <1>1, <1>2 DEF S
        <3> QED  BY <3>1, ConcatProperties, Zenon DEF S
    <2>3. Len(h) = 1 + Len(s) /\ h[1] = "Q" /\ \A p \in 1..Len(s) : h[p + 1] = s[p]
        BY <1>1, <1>2, <2>2
    <2> HIDE DEF h
    <2>4. /\ t \in Seq(Letters) /\ Len(t) = Len(h) + Len(q)
          /\ \A p \in 1..(Len(h) + Len(q)) : t[p] = IF p <= Len(h) THEN h[p] ELSE q[p - Len(h)]
        <3>1. h \in Seq(Letters) /\ q \in Seq(Letters)
            BY <1>2, <2>2
        <3> QED  BY <3>1, ConcatProperties, Zenon
    <2> HIDE DEF t
    <2>5. /\ Len(t) = Len(s) + 2 /\ t[1] = "Q" /\ t[Len(s) + 2] = "Q"
          /\ \A p \in 1..Len(s) : t[p + 1] = s[p]
        BY <1>1, <1>2, <2>3, <2>4
    <2>6. 0 + 1 = 1 /\ 0 + Len(s) + 2 = Len(s) + 2 /\ \A p \in 1..Len(s) : 0 + p + 1 = p + 1
        BY <1>1
    <2>7. TokenPlaced(t, 0, token)
        BY <1>3, <2>5, <2>6 DEF TokenPlaced, s
    <2>8. TextOf(token) = t
        BY <2>1 DEF h, t
    <2> QED  BY <1>3, <2>4, <2>5, <2>7, <2>8 DEF s
<1>4. CASE ~token.string
    <2>1. TextOf(token) = s /\ Len(s) = 1
        BY <1>4 DEF TextOf
    <2> QED  BY <1>1, <1>4, <2>1 DEF TokenPlaced
<1> QED  BY <1>3, <1>4

\* A token placed in a part of a text is placed in the text.
LEMMA TokenMoved ==
    ASSUME NEW token \in [string : BOOLEAN, chars : Seq(STRING)],
           NEW part, NEW text, NEW at \in Nat, TokenPlaced(part, 0, token),
           NEW width \in Nat, width = IF token.string THEN Len(token.chars) + 2 ELSE 1,
           \A p \in 1..width : text[at + p] = part[p]
    PROVE  TokenPlaced(text, at, token)
<1>1. Len(token.chars) \in Nat
    OBVIOUS
<1>2. CASE token.string
    <2>1. /\ part[1] = "Q" /\ part[Len(token.chars) + 2] = "Q"
          /\ \A p \in 1..Len(token.chars) : part[p + 1] = token.chars[p]
        BY <1>1, <1>2 DEF TokenPlaced
    <2>2. 1 \in 1..width /\ Len(token.chars) + 2 \in 1..width
        BY <1>1, <1>2
    <2>3. text[at + 1] = "Q" /\ text[at + Len(token.chars) + 2] = "Q"
        BY <1>1, <2>1, <2>2
    <2>4. ASSUME NEW p \in 1..Len(token.chars)
          PROVE  text[at + p + 1] = token.chars[p]
        <3>1. p + 1 \in 1..width /\ at + p + 1 = at + (p + 1)
            BY <1>1, <1>2
        <3> QED  BY <2>1, <3>1
    <2> QED  BY <1>2, <2>3, <2>4 DEF TokenPlaced
<1>3. CASE ~token.string
    BY <1>3 DEF TokenPlaced
<1> QED  BY <1>2, <1>3

LEMMA TextPlaces ==
    ASSUME NEW ts, Plain(ts)
    PROVE  \E pos : TextPlaced(ts, pos)
<1> DEFINE n == Len(ts)
           parts == [i \in DOMAIN ts |-> TextOf(ts[i])]
           text == Text(ts)
<1>1. /\ ts \in Seq(Token) /\ n \in Nat /\ DOMAIN ts = 1..n
      /\ \A i \in 1..n : ts[i] \in Token /\ (~ts[i].string => Len(ts[i].chars) = 1)
    BY PlainHolds
<1>2. \A i \in 1..n : parts[i] = TextOf(ts[i])
    BY <1>1
<1>3. text = FlattenSeq(parts)
    BY DEF Text
<1>4. DOMAIN parts = 1..n /\ parts = [i \in 1..n |-> parts[i]]
    BY <1>1
<1> HIDE DEF parts, n, text
<1>5. ASSUME NEW i \in 1..n
      PROVE  /\ parts[i] \in Seq(Letters) /\ Size(parts, i) = Width(ts, i)
             /\ TokenPlaced(parts[i], 0, ts[i])
    <2>1. /\ TextOf(ts[i]) \in Seq(Letters)
          /\ Len(TextOf(ts[i])) = IF ts[i].string THEN Len(ts[i].chars) + 2 ELSE 1
          /\ TokenPlaced(TextOf(ts[i]), 0, ts[i])
        BY <1>1, TokenBytes DEF Token
    <2> QED  BY <1>2, <2>1, Zenon DEF Size, Width, Chars
<1>6. parts \in Seq(Seq(Letters)) /\ Len(parts) = n
    <2> DEFINE Elements == Seq(Letters)
    <2>1. \A i \in 1..n : parts[i] \in Elements
        BY <1>5
    <2> HIDE DEF Elements
    <2>2. parts \in Seq(Elements) /\ Len(parts) = n
        BY <1>1, <1>4, <2>1
    <2> QED  BY <2>2 DEF Elements
<1>7. PICK pos : Placed(parts, pos)
    BY <1>6, Places
<1>8. text \in Seq(Letters)
    BY <1>3, <1>6, Places
<1>9. /\ pos \in [0..n -> Nat] /\ pos[0] = 0 /\ Len(text) = pos[n]
      /\ \A i \in Nat : i < n =>
            /\ pos[i + 1] = pos[i] + Size(parts, i + 1)
            /\ \A p \in 1..Size(parts, i + 1) : text[pos[i] + p] = parts[i + 1][p]
    BY <1>3, <1>6, <1>7, Zenon DEF Placed
<1>10. ASSUME NEW i \in Nat, i < n
       PROVE  pos[i + 1] = pos[i] + Width(ts, i + 1) /\ TokenPlaced(text, pos[i], ts[i + 1])
    <2>1. i + 1 \in 1..n /\ i \in 0..n
        BY <1>1, <1>10
    <2>2. Size(parts, i + 1) = Width(ts, i + 1) /\ TokenPlaced(parts[i + 1], 0, ts[i + 1])
        BY <1>5, <2>1
    <2>3. pos[i] \in Nat /\ ts[i + 1] \in Token
        BY <1>1, <1>9, <2>1
    <2>4. Width(ts, i + 1) = IF ts[i + 1].string THEN Len(ts[i + 1].chars) + 2 ELSE 1
        BY Zenon DEF Width, Chars
    <2>5. Width(ts, i + 1) \in Nat
        BY <2>3, <2>4 DEF Token
    <2>6. \A p \in 1..Width(ts, i + 1) : text[pos[i] + p] = parts[i + 1][p]
        BY <1>9, <1>10, <2>2
    <2>7. TokenPlaced(text, pos[i], ts[i + 1])
        BY <2>2, <2>3, <2>4, <2>5, <2>6, TokenMoved DEF Token
    <2> QED  BY <1>9, <1>10, <2>2, <2>7
<1>11. TextPlaced(ts, pos)
    BY <1>8, <1>9, <1>10, Zenon DEF TextPlaced, n, text
<1> QED  BY <1>11

\* Widths are positive: every token has its own end, and the text the last.
LEMMA Ends ==
    ASSUME NEW ts, Plain(ts), NEW pos, TextPlaced(ts, pos)
    PROVE  /\ Len(ts) \in Nat
           /\ \A i \in 1..Len(ts) : Chars(ts, i) \in Nat /\ Width(ts, i) \in Nat \ {0}
           /\ \A i \in 0..Len(ts) : pos[i] \in Nat /\ pos[i] <= pos[Len(ts)]
           /\ \A i \in 0..Len(ts) : i # Len(ts) => pos[i] < pos[Len(ts)]
           /\ \A i \in Nat : i < Len(ts) => pos[i + 1] = pos[i] + Width(ts, i + 1)
<1> DEFINE n == Len(ts)
<1>1. n \in Nat /\ \A i \in 1..n : ts[i] \in [string : BOOLEAN, chars : Seq(STRING)]
    BY PlainHolds DEF Token
<1>2. \A i \in 1..n : Chars(ts, i) \in Nat
    BY <1>1 DEF Chars
<1>3. \A i \in 1..n : Width(ts, i) \in Nat \ {0}
    BY <1>2 DEF Width
<1>4. /\ pos \in [0..n -> Nat]
      /\ \A i \in Nat : i < n => pos[i + 1] = pos[i] + Width(ts, i + 1)
    BY Zenon DEF TextPlaced
<1> HIDE DEF n
<1> DEFINE T == {m \in Nat : \A i \in 0..m : i # m => pos[i] < pos[m]}
<1>5. 0 \in T
    OBVIOUS
<1>6. ASSUME NEW m \in Nat, m < n, m \in T
      PROVE  m + 1 \in T
    <2>1. pos[m + 1] = pos[m] + Width(ts, m + 1) /\ pos[m] \in Nat /\ pos[m + 1] \in Nat
        BY <1>1, <1>4, <1>6
    <2>2. Width(ts, m + 1) \in Nat \ {0}
        BY <1>1, <1>3, <1>6
    <2>3. ASSUME NEW i \in 0..(m + 1), i # m + 1
          PROVE  pos[i] < pos[m + 1]
        <3>1. i \in 0..m /\ pos[i] \in Nat
            BY <1>1, <1>4, <1>6, <2>3
        <3>2. i # m => pos[i] < pos[m]
            BY <1>6, <3>1
        <3> QED  BY <2>1, <2>2, <3>1, <3>2
    <2> QED  BY <2>3
<1>7. \A m \in 0..n : m \in T
    <2> HIDE DEF T
    <2> QED  BY <1>1, <1>5, <1>6, AllNumbers
<1>8. n \in T
    BY <1>1, <1>7
<1>9. \A i \in 0..n : i # n => pos[i] < pos[n]
    BY <1>8
<1>10. \A i \in 0..n : pos[i] \in Nat /\ pos[i] <= pos[n]
    <2>1. \A i \in 0..n : pos[i] \in Nat
        BY <1>4
    <2>2. n \in 0..n
        BY <1>1
    <2> QED  BY <1>9, <2>1, <2>2
<1> QED  BY <1>1, <1>2, <1>3, <1>4, <1>9, <1>10, Zenon DEF n

\* Without its pictures an image body has as many tokens.
LEMMA PlainTokens ==
    ASSUME NEW r, Formed(r), r.kind = "image"
    PROVE  /\ Plain(r.tokens) /\ Plain(WithoutPictures(r.tokens))
           /\ Len(WithoutPictures(r.tokens)) = Len(r.tokens)
<1> DEFINE ts == r.tokens
           ks == WithoutPictures(ts)
           n == Len(ts)
<1>1. ts \in Seq(Token) /\ WellFormed(ts)
    BY DEF Formed, Token
<1>2. n \in Nat /\ DOMAIN ts = 1..n /\ \A i \in 1..n : ts[i] \in Token
    BY <1>1
<1> HIDE DEF ts
<1>3. \A i \in 1..n : ~ts[i].string => Len(ts[i].chars) = 1
    BY <1>1, <1>2, Zenon DEF WellFormed
<1>4. Plain(ts)
    BY <1>1, <1>3 DEF Plain, Token
<1>5. ks = [i \in 1..n |-> IF PictureAt(ts, i) THEN [ts[i] EXCEPT !.chars = <<>>] ELSE ts[i]]
    BY <1>2 DEF WithoutPictures
<1> HIDE DEF ks
<1>6. ASSUME NEW i \in 1..n
      PROVE  ks[i] \in Token /\ (~ks[i].string => Len(ks[i].chars) = 1)
    <2>1. CASE PictureAt(ts, i)
        <3>1. ks[i] = [ts[i] EXCEPT !.chars = <<>>] /\ ts[i].string
            BY <1>5, <2>1, Zenon DEF PictureAt
        <3>2. ts[i] \in Token /\ <<>> \in Seq(STRING)
            BY <1>2
        <3> QED  BY <3>1, <3>2 DEF Token
    <2>2. CASE ~PictureAt(ts, i)
        BY <1>2, <1>3, <1>5, <2>2
    <2> QED  BY <2>1, <2>2
<1>7. ks \in Seq(Token) /\ Len(ks) = n
    <2> DEFINE tokens == Token
    <2>1. \A i \in 1..n : ks[i] \in tokens
        BY <1>6
    <2>2. DOMAIN ks = 1..n /\ ks = [i \in 1..n |-> ks[i]]
        BY <1>5
    <2> HIDE DEF tokens
    <2>3. ks \in Seq(tokens) /\ Len(ks) = n
        BY <1>2, <2>1, <2>2
    <2> QED  BY <2>3 DEF tokens
<1>8. Plain(ks)
    BY <1>6, <1>7 DEF Plain, Token
<1> QED  BY <1>4, <1>7, <1>8 DEF ks, ts

KeptText(r) == Text(WithoutPictures(r.tokens))

\* pos and kpos are the ends of the tokens in the text and in what is kept.
ImagePlaced(r, pos, kpos) ==
    /\ Formed(r) /\ r.kind = "image"
    /\ TextPlaced(r.tokens, pos) /\ TextPlaced(WithoutPictures(r.tokens), kpos)

LEMMA ImagePlaces ==
    ASSUME NEW r, Formed(r), r.kind = "image"
    PROVE  \E pos, kpos : ImagePlaced(r, pos, kpos)
<1>1. PICK pos : TextPlaced(r.tokens, pos)
    BY PlainTokens, TextPlaces
<1>2. PICK kpos : TextPlaced(WithoutPictures(r.tokens), kpos)
    BY PlainTokens, TextPlaces
<1> QED  BY <1>1, <1>2 DEF ImagePlaced

\* What is kept of token i + 1: the quotes of a picture, else all of it.
KeptAt(r, kpos, i) ==
    LET token == r.tokens[i + 1]
        kept  == KeptText(r)
    IN  IF ~token.string
        THEN kpos[i + 1] = kpos[i] + 1 /\ kept[kpos[i] + 1] = token.chars[1]
        ELSE /\ kept[kpos[i] + 1] = "Q"
             /\ PictureAt(r.tokens, i + 1) =>
                   kpos[i + 1] = kpos[i] + 2 /\ kept[kpos[i] + 2] = "Q"
             /\ ~PictureAt(r.tokens, i + 1) =>
                   /\ kpos[i + 1] = kpos[i] + Chars(r.tokens, i + 1) + 2
                   /\ kept[kpos[i] + Chars(r.tokens, i + 1) + 2] = "Q"
                   /\ \A p \in 1..Chars(r.tokens, i + 1) :
                         kept[kpos[i] + p + 1] = token.chars[p]

LEMMA KeptPlaces ==
    ASSUME NEW r, NEW pos, NEW kpos, ImagePlaced(r, pos, kpos),
           NEW i \in Nat, i < Len(r.tokens)
    PROVE  /\ KeptAt(r, kpos, i) /\ kpos[i] \in Nat /\ Chars(r.tokens, i + 1) \in Nat
           /\ r.tokens[i + 1] \in Token /\ i + 1 \in DOMAIN r.tokens
<1> DEFINE ts == r.tokens
           ks == WithoutPictures(ts)
           token == ts[i + 1]
           n == Len(ts)
<1>1. Plain(ts) /\ Plain(ks) /\ Len(ks) = n
    BY PlainTokens DEF ImagePlaced
<1>2. n \in Nat /\ DOMAIN ts = 1..n /\ \A k \in 1..n : ts[k] \in Token /\ ks[k] \in Token
    BY <1>1, PlainHolds
<1>3. i + 1 \in 1..n /\ i \in 0..n
    BY <1>2
<1>4. ks[i + 1] = IF PictureAt(ts, i + 1) THEN [token EXCEPT !.chars = <<>>] ELSE token
    BY <1>2, <1>3 DEF WithoutPictures
<1>5. kpos[i + 1] = kpos[i] + Width(ks, i + 1) /\ TokenPlaced(KeptText(r), kpos[i], ks[i + 1])
    BY <1>1, <1>3, Zenon DEF TextPlaced, ImagePlaced, KeptText
<1>6. kpos[i] \in Nat
    <2>1. TextPlaced(ks, kpos)
        BY DEF ImagePlaced
    <2> QED  BY <1>1, <1>3, <2>1, Ends
<1>7. token \in Token /\ token.string \in BOOLEAN /\ Chars(ts, i + 1) \in Nat
    BY <1>2, <1>3 DEF Token, Chars
<1> DEFINE kept == KeptText(r)
           picture == PictureAt(ts, i + 1)
<1>8. CASE picture
    <2>1. token.string
        BY <1>8, Zenon DEF PictureAt
    <2>2. ks[i + 1].string /\ ks[i + 1].chars = <<>>
        BY <1>4, <1>7, <1>8, <2>1 DEF Token
    <2>3. Width(ks, i + 1) = 2
        BY <2>2 DEF Width, Chars
    <2>4. kept[kpos[i] + 1] = "Q" /\ kept[kpos[i] + 2] = "Q"
        <3>1. kept[kpos[i] + 1] = "Q" /\ kept[kpos[i] + Len(<<>>) + 2] = "Q"
            BY <1>5, <2>2 DEF TokenPlaced
        <3>2. kpos[i] + Len(<<>>) + 2 = kpos[i] + 2
            BY <1>6
        <3> QED  BY <3>1, <3>2
    <2> QED  BY <1>3, <1>2, <1>5, <1>6, <1>7, <1>8, <2>1, <2>3, <2>4 DEF KeptAt
<1>9. CASE ~picture
    <2>1. ks[i + 1] = token
        BY <1>4, <1>9
    <2>2. Width(ks, i + 1) = IF token.string THEN Chars(ts, i + 1) + 2 ELSE 1
        BY <2>1 DEF Width, Chars
    <2>3. TokenPlaced(kept, kpos[i], token)
        BY <1>5, <2>1
    <2>4. KeptAt(r, kpos, i)
        <3>1. CASE token.string
            <4>1. /\ kept[kpos[i] + 1] = "Q" /\ kept[kpos[i] + Chars(ts, i + 1) + 2] = "Q"
                  /\ \A p \in 1..Chars(ts, i + 1) : kept[kpos[i] + p + 1] = token.chars[p]
                BY <2>3, <3>1, Zenon DEF TokenPlaced, Chars
            <4>2. kpos[i + 1] = kpos[i] + Chars(ts, i + 1) + 2
                BY <1>5, <1>6, <1>7, <2>2, <3>1
            <4> QED  BY <1>9, <3>1, <4>1, <4>2, Zenon DEF KeptAt
        <3>2. CASE ~token.string
            BY <1>5, <2>2, <2>3, <3>2, Zenon DEF KeptAt, TokenPlaced
        <3> QED  BY <3>1, <3>2
    <2> QED  BY <1>2, <1>3, <1>6, <1>7, <2>4
<1> QED  BY <1>8, <1>9

-----------------------------------------------------------------------------
(* Where the extractor of an image is.                                     *)

Prefix(text, m) == [p \in 1..m |-> text[p]]

LEMMA PrefixGrows ==
    ASSUME NEW text, NEW m \in Nat, NEW c, text[m + 1] = c
    PROVE  Append(Prefix(text, m), c) = Prefix(text, m + 1)
BY DEF Prefix

\* Between two tokens,
Between(r, kpos, i, e) ==
    /\ Shaped(e) /\ e.carry = Prefix(KeptText(r), kpos[i])
    /\ e.mode \in {"outside", "key", "colon"}
    /\ e.mode = "key" <=> AfterKey(r.tokens, i)
    /\ e.mode = "colon" <=> AfterColon(r.tokens, i)

\* and after o characters of token i + 1, a string.
Escapes(chars, escaped) ==
    /\ ~escaped[0] /\ ~escaped[Len(chars)]
    /\ \A n \in 1..Len(chars) :
          /\ escaped[n] \in BOOLEAN
          /\ escaped[n] = (~escaped[n - 1] /\ chars[n] = "B")
          /\ chars[n] = "Q" => escaped[n - 1]
Inside(r, kpos, i, o, e) ==
    LET picture == PictureAt(r.tokens, i + 1)
    IN  /\ Shaped(e)
        /\ e.carry = Prefix(KeptText(r), IF picture THEN kpos[i] + 1 ELSE kpos[i] + o + 1)
        /\ e.mode = IF picture THEN "skipping" ELSE "string"
        /\ e.escaped \in BOOLEAN
        /\ \A w : Escapes(r.tokens[i + 1].chars, w) => (e.escaped <=> w[o])
        /\ e.seen = IF picture \/ o = 0 THEN "nothing"
                    ELSE IF o = 1 /\ r.tokens[i + 1].chars[1] = "K" THEN "key" ELSE "other"

\* The escapes of a string are those of a well-formed text.
LEMMA EscapesExist ==
    ASSUME NEW r, Formed(r), r.kind = "image", NEW i \in DOMAIN r.tokens, r.tokens[i].string
    PROVE  \E w : Escapes(r.tokens[i].chars, w)
<1> DEFINE chars == r.tokens[i].chars
<1>1. PICK w \in [0..Len(chars) -> BOOLEAN] :
         /\ ~w[0] /\ ~w[Len(chars)]
         /\ \A n \in 1..Len(chars) : /\ w[n] = (~w[n - 1] /\ chars[n] = "B")
                                     /\ chars[n] = "Q" => w[n - 1]
    BY Zenon DEF Formed, WellFormed
<1>2. Len(chars) \in Nat
    <2>1. r.tokens[i] \in Token
        BY PlainTokens, PlainHolds
    <2> QED  BY <2>1 DEF Token
<1>3. \A n \in 1..Len(chars) : w[n] \in BOOLEAN
    BY <1>2
<1> QED  BY <1>1, <1>3 DEF Escapes

\* A character outside of strings.
LEMMA ImageChar ==
    ASSUME NEW r, NEW pos, NEW kpos, ImagePlaced(r, pos, kpos),
           NEW i \in Nat, i < Len(r.tokens), ~r.tokens[i + 1].string,
           NEW e, Between(r, kpos, i, e)
    PROVE  Between(r, kpos, i + 1, FeedImage(e, r.tokens[i + 1].chars[1]))
<1> DEFINE ts == r.tokens
           c == ts[i + 1].chars[1]
           kept == [e EXCEPT !.carry = Append(@, c)]
           f == FeedImage(e, c)
<1>1. /\ KeptAt(r, kpos, i) /\ kpos[i] \in Nat
      /\ ts[i + 1] \in Token /\ i + 1 \in DOMAIN ts
    BY KeptPlaces
<1>2. /\ Shaped(e) /\ e.carry = Prefix(KeptText(r), kpos[i])
      /\ e.mode \in {"outside", "key", "colon"}
      /\ e.mode = "key" <=> AfterKey(ts, i)
      /\ e.mode = "colon" <=> AfterColon(ts, i)
    BY Zenon DEF Between
<1>3. WellFormed(ts) /\ Plain(ts) /\ DOMAIN ts = 1..Len(ts) /\ Len(ts) \in Nat
    BY PlainTokens, PlainHolds DEF ImagePlaced, Formed
<1>4. Len(ts[i + 1].chars) = 1 /\ c # "Q"
    BY <1>1, <1>3, Zenon DEF WellFormed
<1>5. ts[i + 1].chars = <<c>>
    BY <1>1, <1>4 DEF Token
<1>6. Append(e.carry, c) = Prefix(KeptText(r), kpos[i + 1])
    <2>1. kpos[i + 1] = kpos[i] + 1 /\ KeptText(r)[kpos[i] + 1] = c
        BY <1>1, Zenon DEF KeptAt
    <2> QED  BY <1>1, <1>2, <2>1, PrefixGrows
<1>7. f = OutsideString(kept, c)
    BY <1>2 DEF FeedImage
<1>8. /\ Shaped(kept) /\ kept.carry = Prefix(KeptText(r), kpos[i + 1])
      /\ kept.mode = e.mode
    BY <1>2, <1>6 DEF Shaped
<1>9. (IsSpace(ts[i + 1]) <=> c = " ") /\ (IsColon(ts[i + 1]) <=> c = ":") /\ ~IsKey(ts[i + 1])
    <2> HIDE DEF c
    <2>1. \A d : <<c>> = <<d>> <=> c = d
        OBVIOUS
    <2> QED  BY <1>5, <2>1, Zenon DEF IsSpace, IsColon, IsKey
<1> HIDE DEF kept, f, c
<1>10. CASE c = " "
    <2>1. f = kept
        BY <1>4, <1>7, <1>10 DEF OutsideString
    <2>2. /\ AfterKey(ts, i + 1) <=> AfterKey(ts, i)
          /\ AfterColon(ts, i + 1) <=> AfterColon(ts, i)
        BY <1>9, <1>10, AfterSpace
    <2> QED  BY <1>2, <1>8, <2>1, <2>2, Zenon DEF Between, f, c
<1>11. CASE c # " " /\ c = ":"
    <2>1. f = Enter(kept, IF e.mode = "key" THEN "colon" ELSE "outside")
        BY <1>4, <1>7, <1>8, <1>11 DEF OutsideString
    <2>2. /\ Shaped(f) /\ f.carry = kept.carry
          /\ f.mode = IF e.mode = "key" THEN "colon" ELSE "outside"
        BY <1>8, <2>1 DEF Enter, Shaped
    <2>3. ~AfterKey(ts, i + 1)
        BY <1>9, <1>11, AfterOther
    <2>4. AfterColon(ts, i + 1) <=> AfterKey(ts, i)
        <3>1. LastBefore(ts, i + 1) \subseteq DOMAIN ts /\ DOMAIN ts \in SUBSET Nat
            BY <1>1, <1>3 DEF LastBefore
        <3> QED  BY <1>1, <1>3, <1>9, <1>11, <3>1, ColonFollowsKey
    <2>5. f.mode \in {"outside", "key", "colon"}
        BY <2>2
    <2>6. f.mode = "key" <=> AfterKey(ts, i + 1)
        BY <2>2, <2>3
    <2>7. f.mode = "colon" <=> AfterColon(ts, i + 1)
        BY <1>2, <2>2, <2>4
    <2> QED  BY <1>8, <2>2, <2>5, <2>6, <2>7, Zenon DEF Between, f, c
<1>12. CASE c # " " /\ c # ":"
    <2>1. f = Enter(kept, "outside")
        BY <1>4, <1>7, <1>8, <1>12 DEF OutsideString
    <2>2. Shaped(f) /\ f.carry = kept.carry /\ f.mode = "outside"
        BY <1>8, <2>1 DEF Enter, Shaped
    <2>3. ~AfterKey(ts, i + 1) /\ ~AfterColon(ts, i + 1)
        BY <1>9, <1>12, AfterOther
    <2>4. /\ f.mode \in {"outside", "key", "colon"}
          /\ f.mode = "key" <=> AfterKey(ts, i + 1)
          /\ f.mode = "colon" <=> AfterColon(ts, i + 1)
        BY <2>2, <2>3
    <2> QED  BY <1>8, <2>2, <2>4, Zenon DEF Between, f, c
<1> QED  BY <1>10, <1>11, <1>12

\* The first quote of a string.
LEMMA ImageOpens ==
    ASSUME NEW r, NEW pos, NEW kpos, ImagePlaced(r, pos, kpos),
           NEW i \in Nat, i < Len(r.tokens), r.tokens[i + 1].string,
           NEW e, Between(r, kpos, i, e)
    PROVE  Inside(r, kpos, i, 0, FeedImage(e, "Q"))
<1> DEFINE ts == r.tokens
           picture == PictureAt(ts, i + 1)
           kept == [e EXCEPT !.carry = Append(@, "Q")]
           f == FeedImage(e, "Q")
<1>1. KeptAt(r, kpos, i) /\ kpos[i] \in Nat
    BY KeptPlaces
<1>2. /\ Shaped(e) /\ e.carry = Prefix(KeptText(r), kpos[i])
      /\ e.mode \in {"outside", "key", "colon"}
      /\ e.mode = "colon" <=> AfterColon(ts, i)
    BY Zenon DEF Between
<1>3. picture <=> e.mode = "colon"
    BY <1>2, Zenon DEF PictureAt, AfterColon
<1>4. Append(e.carry, "Q") = Prefix(KeptText(r), kpos[i] + 1)
    <2>1. KeptText(r)[kpos[i] + 1] = "Q"
        BY <1>1, Zenon DEF KeptAt
    <2> QED  BY <1>1, <1>2, <2>1, PrefixGrows
<1>5. f = Enter(kept, IF e.mode = "colon" THEN "skipping" ELSE "string")
    BY <1>2 DEF FeedImage, OutsideString, Shaped
<1>6. /\ Shaped(kept) /\ kept.carry = Prefix(KeptText(r), kpos[i] + 1)
    BY <1>2, <1>4 DEF Shaped
<1> HIDE DEF kept, f, picture
<1>7. /\ Shaped(f) /\ f.carry = Prefix(KeptText(r), kpos[i] + 1)
      /\ f.mode = IF picture THEN "skipping" ELSE "string"
      /\ f.escaped = FALSE /\ f.seen = "nothing"
    BY <1>3, <1>5, <1>6 DEF Enter, Shaped
<1>8. ASSUME NEW w, Escapes(ts[i + 1].chars, w)
      PROVE  f.escaped <=> w[0]
    BY <1>7, <1>8, Zenon DEF Escapes
<1>9. kpos[i] + 0 + 1 = kpos[i] + 1
    BY <1>1
<1> QED  BY <1>7, <1>8, <1>9 DEF Inside, f, picture

\* A character of a string.
LEMMA ImageInside ==
    ASSUME NEW r, NEW pos, NEW kpos, ImagePlaced(r, pos, kpos),
           NEW i \in Nat, i < Len(r.tokens), r.tokens[i + 1].string,
           NEW o \in Nat, o < Chars(r.tokens, i + 1), NEW e, Inside(r, kpos, i, o, e)
    PROVE  Inside(r, kpos, i, o + 1, FeedImage(e, r.tokens[i + 1].chars[o + 1]))
<1> DEFINE ts == r.tokens
           picture == PictureAt(ts, i + 1)
           chars == ts[i + 1].chars
           c == chars[o + 1]
           kept == [e EXCEPT !.carry = Append(@, c)]
           f == FeedImage(e, c)
<1>1. /\ KeptAt(r, kpos, i) /\ kpos[i] \in Nat /\ Chars(ts, i + 1) \in Nat
      /\ i + 1 \in DOMAIN ts
    BY KeptPlaces
<1>2. /\ Shaped(e) /\ e.escaped \in BOOLEAN
      /\ e.carry = Prefix(KeptText(r), IF picture THEN kpos[i] + 1 ELSE kpos[i] + o + 1)
      /\ e.mode = IF picture THEN "skipping" ELSE "string"
      /\ \A w : Escapes(chars, w) => (e.escaped <=> w[o])
      /\ e.seen = IF picture \/ o = 0 THEN "nothing"
                  ELSE IF o = 1 /\ chars[1] = "K" THEN "key" ELSE "other"
    BY Zenon DEF Inside
<1>3. PICK w : Escapes(chars, w)
    BY <1>1, EscapesExist DEF ImagePlaced
<1> HIDE DEF chars
<1>4. ASSUME NEW v, Escapes(chars, v)
      PROVE  /\ v[o + 1] \in BOOLEAN
             /\ v[o + 1] <=> ~e.escaped /\ c = "B"
             /\ c = "Q" => e.escaped
    <2>1. PICK n \in 1..Len(chars) : n = o + 1 /\ n - 1 = o
        BY <1>1 DEF Chars, chars
    <2>2. /\ v[n] \in BOOLEAN /\ v[n] = (~v[n - 1] /\ chars[n] = "B")
          /\ chars[n] = "Q" => v[n - 1]
        BY <1>4, Zenon DEF Escapes
    <2>3. e.escaped <=> v[o]
        BY <1>2, <1>4
    <2> QED  BY <2>1, <2>2, <2>3
<1>5. (o = 0 => ~e.escaped) /\ (c = "Q" => e.escaped)
    <2>1. e.escaped <=> w[o]
        BY <1>2, <1>3
    <2>2. ~w[0]
        BY <1>3 DEF Escapes
    <2> QED  BY <1>3, <1>4, <2>1, <2>2
<1>6. CASE picture
    <2>1. f = Skip(e, c)
        BY <1>2, <1>6 DEF FeedImage
    <2> HIDE DEF f, c
    <2>3. /\ Shaped(f) /\ f.carry = e.carry /\ f.mode = "skipping" /\ f.seen = e.seen
          /\ f.escaped \in BOOLEAN /\ (f.escaped <=> ~e.escaped /\ c = "B")
        <3>1. CASE e.escaped
            <4>1. f = [e EXCEPT !.escaped = FALSE]
                BY <2>1, <3>1 DEF Skip
            <4> QED  BY <1>2, <1>6, <3>1, <4>1 DEF Shaped
        <3>2. CASE ~e.escaped /\ c = "B"
            <4>1. f = [e EXCEPT !.escaped = TRUE]
                BY <2>1, <3>2 DEF Skip
            <4> QED  BY <1>2, <1>6, <3>2, <4>1 DEF Shaped
        <3>3. CASE ~e.escaped /\ c # "B"
            <4>1. f = e
                BY <1>5, <2>1, <3>3 DEF Skip
            <4> QED  BY <1>2, <1>6, <3>3, <4>1
        <3> QED  BY <3>1, <3>2, <3>3
    <2>4. \A v : Escapes(chars, v) => (f.escaped <=> v[o + 1])
        BY <1>4, <2>3
    <2> QED  BY <1>2, <1>6, <2>3, <2>4, Zenon DEF Inside, f, chars, c
<1>7. CASE ~picture
    <2>1. f = InString(kept, c)
        BY <1>2, <1>7 DEF FeedImage
    <2>2. Append(e.carry, c) = Prefix(KeptText(r), kpos[i] + (o + 1) + 1)
        <3>1. o + 1 \in 1..Chars(ts, i + 1)
            BY <1>1
        <3>2. KeptText(r)[kpos[i] + (o + 1) + 1] = c
            BY <1>1, <1>7, <3>1, Zenon DEF KeptAt, chars
        <3>3. kpos[i] + o + 1 \in Nat /\ (kpos[i] + o + 1) + 1 = kpos[i] + (o + 1) + 1
            BY <1>1
        <3> QED  BY <1>2, <1>7, <3>2, <3>3, PrefixGrows
    <2>3. /\ Shaped(kept) /\ kept.carry = Prefix(KeptText(r), kpos[i] + (o + 1) + 1)
          /\ kept.mode = "string" /\ kept.escaped = e.escaped /\ kept.seen = e.seen
        BY <1>2, <1>7, <2>2 DEF Shaped
    <2> DEFINE said == IF o = 0 /\ c = "K" THEN "key" ELSE "other"
    <2>4. e.seen = "nothing" <=> o = 0
        BY <1>2, <1>7
    <2> HIDE DEF kept, f, c
    <2>5. /\ Shaped(f) /\ f.carry = kept.carry /\ f.mode = "string" /\ f.seen = said
          /\ f.escaped \in BOOLEAN /\ (f.escaped <=> ~e.escaped /\ c = "B")
        <3>1. CASE e.escaped
            <4>1. f = [kept EXCEPT !.escaped = FALSE, !.seen = "other"]
                BY <2>1, <2>3, <3>1 DEF InString
            <4>2. o # 0
                BY <1>5, <3>1
            <4> QED  BY <2>3, <3>1, <4>1, <4>2 DEF Shaped
        <3>2. CASE ~e.escaped /\ c = "B"
            <4>1. f = [kept EXCEPT !.escaped = TRUE, !.seen = "other"]
                BY <2>1, <2>3, <3>2 DEF InString
            <4> QED  BY <2>3, <3>2, <4>1 DEF Shaped
        <3>3. CASE ~e.escaped /\ c # "B"
            <4>1. f = [kept EXCEPT !.seen = IF c = "K" /\ @ = "nothing" THEN "key" ELSE "other"]
                BY <1>5, <2>1, <2>3, <3>3 DEF InString
            <4>2. f = [kept EXCEPT !.seen = said]
                BY <2>3, <2>4, <4>1
            <4> QED  BY <1>2, <2>3, <3>3, <4>2 DEF Shaped
        <3> QED  BY <3>1, <3>2, <3>3
    <2>6. \A v : Escapes(chars, v) => (f.escaped <=> v[o + 1])
        BY <1>4, <2>5
    <2>7. f.seen = IF o + 1 = 0 THEN "nothing"
                   ELSE IF o + 1 = 1 /\ chars[1] = "K" THEN "key" ELSE "other"
        <3>1. o = 0 => c = chars[1]
            BY DEF c
        <3>2. (o + 1 = 1 <=> o = 0) /\ o + 1 # 0
            OBVIOUS
        <3> QED  BY <2>5, <3>1, <3>2
    <2> QED  BY <1>7, <2>3, <2>5, <2>6, <2>7, Zenon DEF Inside, f, chars, c
<1> QED  BY <1>6, <1>7

\* Its last quote.
LEMMA ImageCloses ==
    ASSUME NEW r, NEW pos, NEW kpos, ImagePlaced(r, pos, kpos),
           NEW i \in Nat, i < Len(r.tokens), r.tokens[i + 1].string,
           NEW e, Inside(r, kpos, i, Chars(r.tokens, i + 1), e)
    PROVE  Between(r, kpos, i + 1, FeedImage(e, "Q"))
<1> DEFINE ts == r.tokens
           o == Chars(ts, i + 1)
           picture == PictureAt(ts, i + 1)
           chars == ts[i + 1].chars
           kept == [e EXCEPT !.carry = Append(@, "Q")]
           f == FeedImage(e, "Q")
<1>1. /\ KeptAt(r, kpos, i) /\ kpos[i] \in Nat /\ o \in Nat
      /\ ts[i + 1] \in Token /\ i + 1 \in DOMAIN ts
    BY KeptPlaces
<1>2. /\ Shaped(e) /\ e.escaped \in BOOLEAN
      /\ e.carry = Prefix(KeptText(r), IF picture THEN kpos[i] + 1 ELSE kpos[i] + o + 1)
      /\ e.mode = IF picture THEN "skipping" ELSE "string"
      /\ \A w : Escapes(chars, w) => (e.escaped <=> w[o])
      /\ e.seen = IF picture \/ o = 0 THEN "nothing"
                  ELSE IF o = 1 /\ chars[1] = "K" THEN "key" ELSE "other"
    BY Zenon DEF Inside
<1>3. PICK w : Escapes(chars, w)
    BY <1>1, EscapesExist DEF ImagePlaced
<1>4. e.escaped = FALSE
    <2>1. ~w[o]
        BY <1>3, Zenon DEF Escapes, Chars
    <2> QED  BY <1>2, <1>3, <2>1
<1>5. Append(e.carry, "Q") = Prefix(KeptText(r), kpos[i + 1])
    <2>1. CASE picture
        <3>1. kpos[i + 1] = kpos[i] + 2 /\ KeptText(r)[kpos[i] + 2] = "Q"
            BY <1>1, <2>1, Zenon DEF KeptAt
        <3>2. (kpos[i] + 1) + 1 = kpos[i] + 2 /\ kpos[i] + 1 \in Nat
            BY <1>1
        <3> QED  BY <1>2, <2>1, <3>1, <3>2, PrefixGrows
    <2>2. CASE ~picture
        <3>1. kpos[i + 1] = kpos[i] + o + 2 /\ KeptText(r)[kpos[i] + o + 2] = "Q"
            BY <1>1, <2>2, Zenon DEF KeptAt
        <3>2. (kpos[i] + o + 1) + 1 = kpos[i] + o + 2 /\ kpos[i] + o + 1 \in Nat
            BY <1>1
        <3> QED  BY <1>2, <2>2, <3>1, <3>2, PrefixGrows
    <2> QED  BY <2>1, <2>2
<1>6. Shaped(kept) /\ kept.carry = Prefix(KeptText(r), kpos[i + 1])
      /\ kept.escaped = FALSE /\ kept.seen = e.seen /\ kept.mode = e.mode
    BY <1>2, <1>4, <1>5 DEF Shaped
<1>7. f = IF picture THEN [kept EXCEPT !.mode = "outside"]
          ELSE [kept EXCEPT !.mode = IF e.seen = "key" THEN "key" ELSE "outside"]
    <2>1. CASE picture
        <3>1. f = Skip(e, "Q")
            BY <1>2, <2>1 DEF FeedImage
        <3>2. f = [e EXCEPT !.mode = "outside", !.carry = Append(@, "Q")]
            BY <1>4, <3>1 DEF Skip
        <3> QED  BY <1>2, <2>1, <3>2 DEF Shaped
    <2>2. CASE ~picture
        <3>1. f = InString(kept, "Q")
            BY <1>2, <2>2 DEF FeedImage
        <3> QED  BY <1>6, <2>2, <3>1 DEF InString
    <2> QED  BY <2>1, <2>2
<1>8. IsKey(ts[i + 1]) <=> o = 1 /\ chars[1] = "K"
    <2>1. chars \in Seq(STRING) /\ Len(chars) = o
        BY <1>1 DEF Token, Chars
    <2> HIDE DEF chars, o
    <2>2. chars = <<"K">> <=> o = 1 /\ chars[1] = "K"
        BY <2>1
    <2> QED  BY <2>2 DEF IsKey, chars
<1> HIDE DEF kept, f, picture, chars, o
<1>9. /\ Shaped(f) /\ f.carry = Prefix(KeptText(r), kpos[i + 1])
      /\ f.mode = IF ~picture /\ o = 1 /\ chars[1] = "K" THEN "key" ELSE "outside"
    <2>1. e.seen = "key" <=> ~picture /\ o = 1 /\ chars[1] = "K"
        BY <1>2
    <2> QED  BY <1>6, <1>7, <2>1 DEF Shaped
<1>10. ~IsSpace(ts[i + 1]) /\ ~IsColon(ts[i + 1])
    BY DEF IsSpace, IsColon
<1>11. /\ AfterKey(ts, i + 1) <=> IsKey(ts[i + 1]) /\ ~picture
       /\ ~AfterColon(ts, i + 1)
    BY <1>10, AfterOther DEF picture
<1>12. /\ f.mode \in {"outside", "key", "colon"}
       /\ f.mode = "key" <=> AfterKey(ts, i + 1)
       /\ f.mode = "colon" <=> AfterColon(ts, i + 1)
    BY <1>8, <1>9, <1>11
<1> QED  BY <1>9, <1>12, Zenon DEF Between, f

\* After n bytes.
ImageIn(r, pos, kpos, n, e) ==
    \E i \in 0..Len(r.tokens) :
        \/ n = pos[i] /\ Between(r, kpos, i, e)
        \/ /\ i < Len(r.tokens) /\ r.tokens[i + 1].string
           /\ \E o \in 0..Chars(r.tokens, i + 1) :
                n = pos[i] + o + 1 /\ Inside(r, kpos, i, o, e)

ImageAt(r, n, e) == \E pos, kpos : ImagePlaced(r, pos, kpos) /\ ImageIn(r, pos, kpos, n, e)

\* What the places of an image body are.
LEMMA ImageEnds ==
    ASSUME NEW r, NEW pos, NEW kpos, ImagePlaced(r, pos, kpos)
    PROVE  /\ Len(r.tokens) \in Nat
           /\ \A i \in 0..Len(r.tokens) : /\ pos[i] \in Nat /\ pos[i] <= Len(BytesOf(r))
                                          /\ kpos[i] \in Nat /\ kpos[i] <= Len(KeptText(r))
           /\ \A i \in 0..Len(r.tokens) : i # Len(r.tokens) =>
                 pos[i] < Len(BytesOf(r)) /\ kpos[i] < Len(KeptText(r))
           /\ pos[Len(r.tokens)] = Len(BytesOf(r))
           /\ kpos[Len(r.tokens)] = Len(KeptText(r))
           /\ BytesOf(r) \in Seq(Letters) /\ KeptText(r) \in Seq(Letters)
<1> DEFINE ts == r.tokens
           ks == WithoutPictures(ts)
<1>1. Plain(ts) /\ Plain(ks) /\ Len(ks) = Len(ts)
    BY PlainTokens DEF ImagePlaced
<1>2. TextPlaced(ts, pos) /\ TextPlaced(ks, kpos)
    BY DEF ImagePlaced
<1>3. BytesOf(r) = Text(ts) /\ KeptText(r) = Text(ks)
    BY DEF BytesOf, KeptText, ImagePlaced
<1>4. /\ Text(ts) \in Seq(Letters) /\ Len(Text(ts)) = pos[Len(ts)]
      /\ Text(ks) \in Seq(Letters) /\ Len(Text(ks)) = kpos[Len(ks)]
    BY <1>2, Zenon DEF TextPlaced
<1>5. /\ Len(ts) \in Nat
      /\ \A i \in 0..Len(ts) : pos[i] \in Nat /\ pos[i] <= pos[Len(ts)]
      /\ \A i \in 0..Len(ts) : i # Len(ts) => pos[i] < pos[Len(ts)]
    BY <1>1, <1>2, Ends, Zenon
<1>6. /\ \A i \in 0..Len(ks) : kpos[i] \in Nat /\ kpos[i] <= kpos[Len(ks)]
      /\ \A i \in 0..Len(ks) : i # Len(ks) => kpos[i] < kpos[Len(ks)]
    BY <1>1, <1>2, Ends, Zenon
<1> HIDE DEF ts, ks
<1>7. /\ Len(ts) \in Nat
      /\ \A i \in 0..Len(ts) : /\ pos[i] \in Nat /\ pos[i] <= Len(BytesOf(r))
                               /\ kpos[i] \in Nat /\ kpos[i] <= Len(KeptText(r))
      /\ \A i \in 0..Len(ts) : i # Len(ts) =>
            pos[i] < Len(BytesOf(r)) /\ kpos[i] < Len(KeptText(r))
    BY <1>1, <1>3, <1>4, <1>5, <1>6
<1> QED  BY <1>1, <1>3, <1>4, <1>7, Zenon DEF ts

LEMMA ImageBegins ==
    ASSUME NEW r, Formed(r), r.kind = "image"
    PROVE  ImageAt(r, 0, NewExtractor)
<1>1. PICK pos, kpos : ImagePlaced(r, pos, kpos)
    BY ImagePlaces
<1>2. pos[0] = 0 /\ kpos[0] = 0
    BY <1>1, Zenon DEF ImagePlaced, TextPlaced
<1>3. 0 \in 0..Len(r.tokens)
    BY <1>1, ImageEnds
<1>4. Shaped(NewExtractor) /\ NewExtractor.mode = "outside" /\ NewExtractor.carry = <<>>
    BY DEF Shaped, NewExtractor
<1>5. Prefix(KeptText(r), kpos[0]) = <<>>
    BY <1>2 DEF Prefix
<1>6. ~AfterKey(r.tokens, 0) /\ ~AfterColon(r.tokens, 0)
    BY AfterNothing
<1>7. Between(r, kpos, 0, NewExtractor)
    BY <1>4, <1>5, <1>6 DEF Between
<1> QED  BY <1>1, <1>2, <1>3, <1>7, Zenon DEF ImageAt, ImageIn

LEMMA ImageFed ==
    ASSUME NEW r, Formed(r), r.kind = "image", NEW n \in Nat, NEW e,
           n < Len(BytesOf(r)), ImageAt(r, n, e)
    PROVE  ImageAt(r, n + 1, Feed(r, e, BytesOf(r)[n + 1]))
<1>1. PICK pos, kpos : ImagePlaced(r, pos, kpos) /\ ImageIn(r, pos, kpos, n, e)
    BY Zenon DEF ImageAt
<1> DEFINE ts == r.tokens
           c == BytesOf(r)[n + 1]
<1>2. Len(ts) \in Nat /\ \A i \in 0..Len(ts) : pos[i] \in Nat
    BY <1>1, ImageEnds
<1>3. pos[Len(ts)] = Len(BytesOf(r))
    BY <1>1, ImageEnds
<1>4. \A i \in Nat : i < Len(ts) =>
         pos[i + 1] = pos[i] + Width(ts, i + 1) /\ TokenPlaced(BytesOf(r), pos[i], ts[i + 1])
    <2>1. BytesOf(r) = Text(ts)
        BY DEF BytesOf
    <2> QED  BY <1>1, <2>1, Zenon DEF ImagePlaced, TextPlaced
<1>5. \A b : Feed(r, e, b) = FeedImage(e, b)
    BY DEF Feed
<1>6. \A i \in Nat : i < Len(ts) => Chars(ts, i + 1) \in Nat
    BY <1>1, KeptPlaces
<1>7. ASSUME NEW i \in 0..Len(ts), n = pos[i], Between(r, kpos, i, e)
      PROVE  ImageIn(r, pos, kpos, n + 1, FeedImage(e, c))
    <2>1. i \in Nat /\ i < Len(ts) /\ i + 1 \in 0..Len(ts)
        BY <1>2, <1>3, <1>7
    <2>2. pos[i + 1] = pos[i] + Width(ts, i + 1) /\ TokenPlaced(BytesOf(r), pos[i], ts[i + 1])
        BY <1>4, <2>1
    <2>3. CASE ts[i + 1].string
        <3>1. c = "Q"
            BY <1>7, <2>2, <2>3, Zenon DEF TokenPlaced
        <3>2. Inside(r, kpos, i, 0, FeedImage(e, c))
            BY <1>1, <1>7, <2>1, <2>3, <3>1, ImageOpens
        <3>3. n + 1 = pos[i] + 0 + 1 /\ 0 \in 0..Chars(ts, i + 1)
            BY <1>2, <1>6, <1>7, <2>1
        <3> QED  BY <2>1, <2>3, <3>2, <3>3, Zenon DEF ImageIn
    <2>4. CASE ~ts[i + 1].string
        <3>1. c = ts[i + 1].chars[1] /\ pos[i + 1] = n + 1
            BY <1>7, <2>2, <2>4, Zenon DEF TokenPlaced, Width
        <3>2. Between(r, kpos, i + 1, FeedImage(e, c))
            BY <1>1, <1>7, <2>1, <2>4, <3>1, ImageChar
        <3> QED  BY <2>1, <3>1, <3>2, Zenon DEF ImageIn
    <2> QED  BY <2>3, <2>4
<1>8. ASSUME NEW i \in 0..Len(ts), i < Len(ts), ts[i + 1].string,
             NEW o \in 0..Chars(ts, i + 1), n = pos[i] + o + 1, Inside(r, kpos, i, o, e)
      PROVE  ImageIn(r, pos, kpos, n + 1, FeedImage(e, c))
    <2>1. /\ i \in Nat /\ i + 1 \in 0..Len(ts) /\ Chars(ts, i + 1) \in Nat /\ o \in Nat
          /\ pos[i] \in Nat
        BY <1>2, <1>6, <1>8
    <2>2. /\ pos[i + 1] = pos[i] + Chars(ts, i + 1) + 2
          /\ BytesOf(r)[pos[i] + Chars(ts, i + 1) + 2] = "Q"
          /\ \A p \in 1..Chars(ts, i + 1) : BytesOf(r)[pos[i] + p + 1] = ts[i + 1].chars[p]
        <3>1. pos[i + 1] = pos[i] + Width(ts, i + 1) /\ TokenPlaced(BytesOf(r), pos[i], ts[i + 1])
            BY <1>4, <1>8, <2>1
        <3>2. Width(ts, i + 1) = Chars(ts, i + 1) + 2
            BY <1>8, Zenon DEF Width
        <3>3. pos[i + 1] = pos[i] + Chars(ts, i + 1) + 2
            BY <2>1, <3>1, <3>2
        <3> QED  BY <1>8, <3>1, <3>3, Zenon DEF TokenPlaced, Chars
    <2>3. CASE o < Chars(ts, i + 1)
        <3>1. o + 1 \in 1..Chars(ts, i + 1) /\ n + 1 = pos[i] + (o + 1) + 1
            BY <1>8, <2>1, <2>3
        <3>2. c = ts[i + 1].chars[o + 1]
            BY <2>2, <3>1
        <3>3. Inside(r, kpos, i, o + 1, FeedImage(e, c))
            BY <1>1, <1>8, <2>1, <2>3, <3>2, ImageInside
        <3>4. o + 1 \in 0..Chars(ts, i + 1)
            BY <2>1, <3>1
        <3> QED  BY <1>8, <3>1, <3>3, <3>4, Zenon DEF ImageIn
    <2>4. CASE o = Chars(ts, i + 1)
        <3>1. n + 1 = pos[i + 1] /\ n + 1 = pos[i] + Chars(ts, i + 1) + 2
            BY <1>8, <2>1, <2>2, <2>4
        <3>2. c = "Q"
            BY <2>2, <3>1
        <3>3. Between(r, kpos, i + 1, FeedImage(e, c))
            BY <1>1, <1>8, <2>1, <2>4, <3>2, ImageCloses
        <3> QED  BY <2>1, <3>1, <3>3, Zenon DEF ImageIn
    <2> QED  BY <2>1, <2>3, <2>4
<1> HIDE DEF c
<1>9. ImageIn(r, pos, kpos, n + 1, FeedImage(e, c))
    BY <1>1, <1>7, <1>8, Zenon DEF ImageIn
<1> QED  BY <1>1, <1>5, <1>9, Zenon DEF ImageAt, c

\* What is kept is a prefix of what is there without the pictures.
LEMMA ImageKept ==
    ASSUME NEW r, NEW n, NEW e, ImageAt(r, n, e)
    PROVE  Len(e.carry) \in Nat /\ Len(e.carry) <= Len(KeptText(r))
<1>1. PICK pos, kpos : ImagePlaced(r, pos, kpos) /\ ImageIn(r, pos, kpos, n, e)
    BY Zenon DEF ImageAt
<1>2. Len(KeptText(r)) \in Nat
    BY <1>1, ImageEnds, SeqHolds
<1>3. PICK m \in Nat : m <= Len(KeptText(r)) /\ e.carry = Prefix(KeptText(r), m)
    <2>1. Len(r.tokens) \in Nat /\ \A i \in 0..Len(r.tokens) :
                                      kpos[i] \in Nat /\ kpos[i] <= Len(KeptText(r))
        BY <1>1, ImageEnds
    <2>2. ASSUME NEW i \in 0..Len(r.tokens), Between(r, kpos, i, e)
          PROVE  \E m \in Nat : m <= Len(KeptText(r)) /\ e.carry = Prefix(KeptText(r), m)
        BY <2>1, <2>2, Zenon DEF Between
    <2>3. ASSUME NEW i \in 0..Len(r.tokens), i < Len(r.tokens), r.tokens[i + 1].string,
                 NEW o \in 0..Chars(r.tokens, i + 1), Inside(r, kpos, i, o, e)
          PROVE  \E m \in Nat : m <= Len(KeptText(r)) /\ e.carry = Prefix(KeptText(r), m)
        <3> DEFINE picture == PictureAt(r.tokens, i + 1)
                   m == IF picture THEN kpos[i] + 1 ELSE kpos[i] + o + 1
        <3>1. i + 1 \in 0..Len(r.tokens) /\ i \in Nat
            BY <2>1, <2>3
        <3>2. /\ KeptAt(r, kpos, i) /\ kpos[i] \in Nat /\ Chars(r.tokens, i + 1) \in Nat
              /\ kpos[i + 1] \in Nat /\ kpos[i + 1] <= Len(KeptText(r))
            BY <1>1, <2>1, <2>3, <3>1, KeptPlaces
        <3>3. kpos[i + 1] = IF picture THEN kpos[i] + 2
                            ELSE kpos[i] + Chars(r.tokens, i + 1) + 2
            BY <2>3, <3>2, Zenon DEF KeptAt
        <3>4. e.carry = Prefix(KeptText(r), m)
            BY <2>3, Zenon DEF Inside
        <3> HIDE DEF picture
        <3>5. m \in Nat /\ m <= Len(KeptText(r))
            <4>1. o \in Nat /\ o <= Chars(r.tokens, i + 1)
                BY <3>2
            <4>2. CASE picture
                BY <1>2, <3>2, <3>3, <4>2
            <4>3. CASE ~picture
                BY <1>2, <3>2, <3>3, <4>1, <4>3
            <4> QED  BY <4>2, <4>3
        <3> QED  BY <3>4, <3>5
    <2> QED  BY <1>1, <2>2, <2>3, Zenon DEF ImageIn
<1>4. Len(e.carry) = m
    BY <1>3 DEF Prefix
<1> QED  BY <1>3, <1>4

\* The answer of an extractor that has read all that arrived.
LEMMA ImageAnswer ==
    ASSUME resp.kind = "image", NEW e, ImageAt(resp, Arrived, e),
           remaining = <<>> <=> Arrived = Len(BytesOf(resp))
    PROVE  Finish(resp, e) = ReadAtOnce
<1> DEFINE n == Arrived
           kept == KeptText(resp)
<1>1. PICK pos, kpos : ImagePlaced(resp, pos, kpos) /\ ImageIn(resp, pos, kpos, n, e)
    BY Zenon DEF ImageAt
<1> DEFINE ts == resp.tokens
<1>2. /\ Len(ts) \in Nat /\ \A i \in 0..Len(ts) : pos[i] \in Nat /\ kpos[i] \in Nat
      /\ \A i \in 0..Len(ts) : i # Len(ts) => pos[i] < Len(BytesOf(resp)) /\ kpos[i] < Len(kept)
      /\ pos[Len(ts)] = Len(BytesOf(resp)) /\ kpos[Len(ts)] = Len(kept)
      /\ kept \in Seq(Letters)
    BY <1>1, ImageEnds
<1>3. ReadAtOnce = IF n = Len(BytesOf(resp)) THEN ExtractBodyUsage(resp, kept) ELSE Nothing
    BY DEF ReadAtOnce, KeptText
<1>4. ASSUME NEW i \in 0..Len(ts), n = pos[i], Between(resp, kpos, i, e)
      PROVE  Finish(resp, e) = ReadAtOnce
    <2>1. /\ e.overflowed = FALSE /\ e.carry = Prefix(kept, kpos[i])
          /\ e.mode \in {"outside", "key", "colon"}
        BY <1>4, Zenon DEF Between, Shaped
    <2>2. Finish(resp, e) = ExtractBodyUsage(resp, e.carry)
        BY <2>1 DEF Finish
    <2> HIDE DEF kept
    <2>3. CASE i = Len(ts)
        <3>1. Prefix(kept, Len(kept)) = kept
            BY <1>2 DEF Prefix
        <3> QED  BY <1>2, <1>3, <1>4, <2>1, <2>2, <2>3, <3>1
    <2>4. CASE i # Len(ts)
        <3>1. n # Len(BytesOf(resp)) /\ kpos[i] # Len(kept) /\ kpos[i] \in Nat
            BY <1>2, <1>4, <2>4
        <3>2. Len(e.carry) = kpos[i]
            BY <2>1, <3>1 DEF Prefix
        <3>3. e.carry # kept
            BY <3>1, <3>2
        <3>4. ~Parses(resp, e.carry)
            BY <3>3 DEF Parses, kept, KeptText
        <3>5. ExtractBodyUsage(resp, e.carry) = Nothing
            BY <3>4 DEF ExtractBodyUsage
        <3> QED  BY <1>3, <2>2, <3>1, <3>5
    <2> QED  BY <2>3, <2>4
<1>5. ASSUME NEW i \in 0..Len(ts), i < Len(ts), ts[i + 1].string,
             NEW o \in 0..Chars(ts, i + 1), n = pos[i] + o + 1, Inside(resp, kpos, i, o, e)
      PROVE  Finish(resp, e) = ReadAtOnce
    <2>1. e.mode \in {"string", "skipping"}
        BY <1>5 DEF Inside
    <2>2. Finish(resp, e) = Nothing
        BY <2>1 DEF Finish
    <2>3. n # Len(BytesOf(resp))
        <3>1. i \in Nat /\ i + 1 \in 0..Len(ts)
            BY <1>2, <1>5
        <3>2. pos[i + 1] = pos[i] + Width(ts, i + 1) /\ Chars(ts, i + 1) \in Nat
            BY <1>1, <1>5, <3>1, KeptPlaces, Zenon DEF ImagePlaced, TextPlaced
        <3>3. Width(ts, i + 1) = Chars(ts, i + 1) + 2
            BY <1>5, Zenon DEF Width
        <3>4. pos[i + 1] \in Nat /\ pos[i] \in Nat /\ pos[i + 1] <= Len(BytesOf(resp))
            BY <1>1, <3>1, ImageEnds
        <3>5. Len(BytesOf(resp)) \in Nat
            BY <1>2
        <3> QED  BY <1>5, <3>2, <3>3, <3>4, <3>5
    <2> QED  BY <1>3, <2>2, <2>3
<1> QED  BY <1>1, <1>4, <1>5, Zenon DEF ImageIn

\* e has read the first n bytes of r.
At(r, n, e) ==
    /\ r.kind = "stream" => \E k \in Nat, q \in 0..4 : n = 5 * k + q /\ StreamAt(r, k, q, e)
    /\ r.kind = "body" => BodyAt(n, e)
    /\ r.kind = "image" => ImageAt(r, n, e)

LEMMA AtBegins ==
    ASSUME NEW r, Formed(r)
    PROVE  At(r, 0, NewExtractor)
<1>1. /\ Shaped(NewExtractor) /\ NewExtractor.mode = "outside"
      /\ NewExtractor.carry = <<>> /\ NewExtractor.usage = Absent
      /\ NewExtractor.complete = FALSE
    BY DEF Shaped, NewExtractor
<1>2. Begun(0, 0) = <<>> /\ 0 \in 0..4 /\ 0 = 5 * 0 + 0
    BY DEF Begun
<1>3. ~Completed(r, 0)
    <2>1. 1..0 = {}
        OBVIOUS
    <2> QED  BY <2>1 DEF Completed
<1>4. StreamAt(r, 0, 0, NewExtractor)
    BY <1>1, <1>2, <1>3 DEF StreamAt, Reads
<1>5. BodyAt(0, NewExtractor)
    BY <1>1, <1>2 DEF BodyAt
<1>6. \E k \in Nat, q \in 0..4 : 0 = 5 * k + q /\ StreamAt(r, k, q, NewExtractor)
    BY <1>2, <1>4
<1> QED  BY <1>5, <1>6, ImageBegins, Zenon DEF At

\* The next byte.
LEMMA AtFed ==
    ASSUME NEW r, Formed(r), NEW n \in Nat, n < Len(BytesOf(r)), NEW e, At(r, n, e)
    PROVE  At(r, n + 1, Feed(r, e, BytesOf(r)[n + 1]))
<1> DEFINE f == Feed(r, e, BytesOf(r)[n + 1])
<1>1. CASE r.kind = "stream"
    <2>1. PICK k \in Nat, q \in 0..4 : n = 5 * k + q /\ StreamAt(r, k, q, e)
        BY <1>1, Zenon DEF At
    <2>2. IF q = 4 THEN StreamAt(r, k + 1, 0, f) ELSE StreamAt(r, k, q + 1, f)
        BY <1>1, <2>1, StreamFed
    <2>3. \E i \in Nat, p \in 0..4 : n + 1 = 5 * i + p /\ StreamAt(r, i, p, f)
        <3>1. CASE q = 4
            <4>1. k + 1 \in Nat /\ 0 \in 0..4 /\ n + 1 = 5 * (k + 1) + 0
                BY <2>1, <3>1
            <4> QED  BY <2>2, <3>1, <4>1, Zenon
        <3>2. CASE q # 4
            <4>1. q + 1 \in 0..4 /\ n + 1 = 5 * k + (q + 1)
                BY <2>1, <3>2
            <4> QED  BY <2>2, <3>2, <4>1, Zenon
        <3> QED  BY <3>1, <3>2
    <2> QED  BY <1>1, <2>3 DEF At
<1>2. CASE r.kind = "body"
    <2>1. BodyAt(n, e) /\ Len(BytesOf(r)) = 4
        BY <1>2 DEF At, BytesOf, Line
    <2>2. n \in 0..3
        BY <2>1
    <2>3. BodyAt(n + 1, f)
        BY <1>2, <2>1, <2>2, BodyFed
    <2> QED  BY <1>2, <2>3 DEF At
<1>3. CASE r.kind = "image"
    <2>1. ImageAt(r, n, e)
        BY <1>3 DEF At
    <2>2. ImageAt(r, n + 1, f)
        BY <1>3, <2>1, ImageFed
    <2> QED  BY <1>3, <2>2 DEF At
<1> QED  BY <1>1, <1>2, <1>3 DEF Formed

LEMMA BytesAre ==
    ASSUME NEW r, Formed(r)
    PROVE  \E S : BytesOf(r) \in Seq(S)
<1>1. CASE r.kind = "stream"
    BY <1>1, StreamPlaces DEF LinesPlaced
<1>2. CASE r.kind = "body"
    <2>1. BytesOf(r) = Line(1) /\ 1 \in 1..1 /\ 1 \in Nat
        BY <1>2 DEF BytesOf
    <2>2. LinesOf(1, 1)
        BY <2>1, LineParts
    <2> QED  BY <2>1, <2>2, Zenon DEF LinesOf
<1>3. CASE r.kind = "image"
    <2>1. PICK pos, kpos : ImagePlaced(r, pos, kpos)
        BY <1>3, ImagePlaces
    <2> QED  BY <2>1, ImageEnds
<1> QED  BY <1>1, <1>2, <1>3 DEF Formed

\* A chunk of m bytes, after n.
Chunk(bytes, n, m) == [p \in 1..m |-> bytes[n + p]]

LEMMA AtChunk ==
    ASSUME NEW r, Formed(r), NEW n \in Nat, NEW e, At(r, n, e),
           NEW m \in Nat, n + m <= Len(BytesOf(r))
    PROVE  At(r, n + m, Fed(r, e, Chunk(BytesOf(r), n, m)))
<1> DEFINE bytes == BytesOf(r)
           T == {k \in Nat : k <= m => At(r, n + k, Fed(r, e, Chunk(bytes, n, k)))}
<1>1. 0 \in T
    <2>1. DOMAIN Chunk(bytes, n, 0) = {} /\ n + 0 = n
        BY DEF Chunk
    <2>2. Fed(r, e, Chunk(bytes, n, 0)) = e
        BY <2>1, FedNothing
    <2> QED  BY <2>1, <2>2
<1>2. ASSUME NEW k \in Nat, k < m, k \in T
      PROVE  k + 1 \in T
    <2> DEFINE s == Chunk(bytes, n, k)
               t == Chunk(bytes, n, k + 1)
    <2>1. At(r, n + k, Fed(r, e, s))
        BY <1>2
    <2>2. DOMAIN s = 1..k /\ DOMAIN t = 1..(k + 1) /\ \A i \in 1..k : t[i] = s[i]
        BY DEF Chunk
    <2>3. t[k + 1] = bytes[(n + k) + 1]
        BY DEF Chunk
    <2> HIDE DEF s, t, T
    <2>4. Fed(r, e, t) = Feed(r, Fed(r, e, s), t[k + 1])
        BY <2>2, FedOneMore
    <2>5. Len(bytes) \in Nat
        <3>1. PICK S : bytes \in Seq(S)
            BY BytesAre
        <3> QED  BY <3>1, SeqHolds
    <2>6. n + k \in Nat /\ n + k < Len(bytes) /\ (n + k) + 1 = n + (k + 1)
        BY <1>2, <2>5
    <2>7. At(r, (n + k) + 1, Feed(r, Fed(r, e, s), bytes[(n + k) + 1]))
        BY <2>1, <2>6, AtFed
    <2>8. At(r, n + (k + 1), Fed(r, e, t))
        BY <2>3, <2>4, <2>6, <2>7
    <2> QED  BY <2>8 DEF T, t
<1>3. \A k \in 0..m : k \in T
    <2> HIDE DEF T
    <2> QED  BY <1>1, <1>2, AllNumbers
<1>4. m \in T
    BY <1>3
<1> QED  BY <1>4

LEMMA AtShape ==
    ASSUME NEW r, Formed(r), NEW n, NEW e, At(r, n, e)
    PROVE  Shaped(e)
<1>1. CASE r.kind = "stream"
    BY <1>1, Zenon DEF At, StreamAt
<1>2. CASE r.kind = "body"
    BY <1>2, Zenon DEF At, BodyAt
<1>3. CASE r.kind = "image"
    BY <1>3, Zenon DEF At, ImageAt, ImageIn, Between, Inside
<1> QED  BY <1>1, <1>2, <1>3 DEF Formed

\* The count of bytes is no part of it.
LEMMA AtCounted ==
    ASSUME NEW r, Formed(r), NEW n, NEW e, At(r, n, e), NEW x
    PROVE  At(r, n, [e EXCEPT !.consumed = x])
<1> DEFINE f == [e EXCEPT !.consumed = x]
<1>1. Shaped(e)
    BY AtShape
<1>2. /\ Shaped(f) /\ f.carry = e.carry /\ f.usage = e.usage /\ f.complete = e.complete
      /\ f.mode = e.mode /\ f.escaped = e.escaped /\ f.seen = e.seen
    BY <1>1 DEF Shaped
<1> HIDE DEF f
<1>3. \A k, q : StreamAt(r, k, q, e) => StreamAt(r, k, q, f)
    BY <1>2, Zenon DEF StreamAt
<1>4. BodyAt(n, e) => BodyAt(n, f)
    BY <1>2, Zenon DEF BodyAt
<1>5. \A kpos, i : Between(r, kpos, i, e) => Between(r, kpos, i, f)
    BY <1>2, Zenon DEF Between
<1>6. \A kpos, i, o : Inside(r, kpos, i, o, e) => Inside(r, kpos, i, o, f)
    BY <1>2, Zenon DEF Inside
<1>7. ImageAt(r, n, e) => ImageAt(r, n, f)
    BY <1>5, <1>6, Zenon DEF ImageAt, ImageIn
<1> QED  BY <1>3, <1>4, <1>7, Zenon DEF At, f

\* The answer of an extractor that has read all that arrived.
LEMMA AtAnswer ==
    ASSUME Formed(resp), NEW e, At(resp, Arrived, e), Arrived \in 0..Len(BytesOf(resp)),
           remaining = <<>> <=> Arrived = Len(BytesOf(resp))
    PROVE  Finish(resp, e) = ReadAtOnce
<1>1. CASE resp.kind = "stream"
    <2>1. PICK k \in Nat, q \in 0..4 : Arrived = 5 * k + q /\ StreamAt(resp, k, q, e)
        BY <1>1, Zenon DEF At
    <2>2. Arrived <= Len(BytesOf(resp))
        BY DEF Arrived
    <2> QED  BY <1>1, <2>1, <2>2, StreamAnswer
<1>2. CASE resp.kind = "body"
    BY <1>2, BodyAnswer DEF At
<1>3. CASE resp.kind = "image"
    BY <1>3, ImageAnswer DEF At
<1> QED  BY <1>1, <1>2, <1>3 DEF Formed

\* What is left after n bytes, and a chunk of it.
Rest(bytes, n) == SubSeq(bytes, n + 1, Len(bytes))

LEMMA RestCut ==
    ASSUME NEW S, NEW bytes \in Seq(S), NEW n \in 0..Len(bytes)
    PROVE  /\ Len(Rest(bytes, n)) = Len(bytes) - n
           /\ Rest(bytes, n) = <<>> <=> n = Len(bytes)
           /\ \A m \in 1..(Len(bytes) - n) :
                 /\ SubSeq(Rest(bytes, n), 1, m) = Chunk(bytes, n, m)
                 /\ SubSeq(Rest(bytes, n), m + 1, Len(Rest(bytes, n))) = Rest(bytes, n + m)
<1> DEFINE r == Rest(bytes, n)
           k == Len(bytes) - n
<1>1. Len(bytes) \in Nat /\ k \in Nat /\ n \in Nat
    OBVIOUS
<1>2. r \in Seq(S) /\ Len(r) = k /\ \A p \in 1..k : r[p] = bytes[n + p]
    <2>1. r \in Seq(S) /\ Len(r) = k
        BY DEF Rest
    <2>2. \A p \in 1..k : r[p] = bytes[n + p]
        BY DEF Rest
    <2> QED  BY <2>1, <2>2
<1> HIDE DEF r
<1>3. ASSUME NEW m \in 1..k
      PROVE  /\ SubSeq(r, 1, m) = Chunk(bytes, n, m)
             /\ SubSeq(r, m + 1, Len(r)) = Rest(bytes, n + m)
    <2>1. SubSeq(r, 1, m) = [p \in 1..m |-> r[p]]
        BY <1>1, <1>2
    <2>2. \A p \in 1..m : r[p] = bytes[n + p]
        BY <1>1, <1>2
    <2>3. SubSeq(r, 1, m) = Chunk(bytes, n, m)
        BY <2>1, <2>2 DEF Chunk
    <2>4. SubSeq(r, m + 1, Len(r)) = [p \in 1..(k - m) |-> r[m + p]]
        BY <1>1, <1>2
    <2>5. Rest(bytes, n + m) = [p \in 1..(k - m) |-> bytes[(n + m) + p]]
        BY <1>1 DEF Rest
    <2>6. \A p \in 1..(k - m) : r[m + p] = bytes[(n + m) + p]
        <3> TAKE p \in 1..(k - m)
        <3>1. m + p \in 1..k /\ n + (m + p) = (n + m) + p
            BY <1>1
        <3> QED  BY <1>2, <3>1
    <2> QED  BY <2>3, <2>4, <2>5, <2>6
<1>4. r = <<>> <=> n = Len(bytes)
    BY <1>1, <1>2, EmptySeq
<1> QED  BY <1>2, <1>3, <1>4 DEF r

\* What an extractor that has not given up is after n bytes.
Reading(r, n, e) ==
    /\ At(r, n, e) /\ e.consumed <= MaxBuffer
    /\ r.kind # "image" => e.consumed = n

\* A chunk is read, or is too much.
LEMMA PushReads ==
    ASSUME NEW r, Formed(r), NEW n \in Nat, NEW m \in Nat, n + m <= Len(BytesOf(r)),
           NEW e, Reading(r, n, e)
    PROVE  LET f == Push(r, e, Chunk(BytesOf(r), n, m))
           IN  \/ f.overflowed /\ (IF r.kind = "image" THEN Len(KeptText(r)) ELSE n + m) > MaxBuffer
               \/ ~f.overflowed /\ Reading(r, n + m, f)
<1> DEFINE chunk == Chunk(BytesOf(r), n, m)
           fed == Fed(r, e, chunk)
           total == IF r.kind = "image" THEN Len(fed.carry) ELSE e.consumed + Len(chunk)
           f == Push(r, e, chunk)
<1>1. At(r, n, e) /\ (r.kind # "image" => e.consumed = n)
    BY DEF Reading
<1>2. e.overflowed = FALSE
    BY <1>1, AtShape DEF Shaped
<1>3. At(r, n + m, fed)
    BY <1>1, AtChunk
<1>4. Shaped(fed)
    BY <1>3, AtShape
<1>5. Len(chunk) = m
    BY DEF Chunk
<1>6. f = IF total > MaxBuffer THEN Overflow(e) ELSE [fed EXCEPT !.consumed = total]
    BY <1>2 DEF Push, Fed
<1> HIDE DEF chunk, fed, f
<1>7. CASE total > MaxBuffer
    <2>1. f.overflowed
        BY <1>6, <1>7 DEF Overflow, NewExtractor
    <2>2. CASE r.kind = "image"
        <3>1. Len(fed.carry) \in Nat /\ Len(fed.carry) <= Len(KeptText(r))
            BY <1>3, <2>2, ImageKept DEF At
        <3>2. MaxBuffer \in Nat /\ Len(KeptText(r)) \in Nat
            <4>1. PICK pos, kpos : ImagePlaced(r, pos, kpos)
                BY <2>2, ImagePlaces
            <4>2. KeptText(r) \in Seq(Letters)
                BY <4>1, ImageEnds
            <4> QED  BY <4>2, SeqHolds, UsageFlowAssumption
        <3> QED  BY <1>7, <2>1, <2>2, <3>1, <3>2 DEF f, chunk
    <2>3. CASE r.kind # "image"
        BY <1>1, <1>5, <1>7, <2>1, <2>3 DEF f, chunk
    <2> QED  BY <2>2, <2>3
<1>8. CASE ~(total > MaxBuffer)
    <2>1. f = [fed EXCEPT !.consumed = total]
        BY <1>6, <1>8
    <2>2. At(r, n + m, f)
        BY <1>3, <2>1, AtCounted
    <2>3. f.overflowed = FALSE /\ f.consumed = total
        BY <1>4, <2>1 DEF Shaped
    <2>4. total <= MaxBuffer
        <3>1. total \in Nat
            <4>1. CASE r.kind = "image"
                BY <1>3, <4>1, ImageKept DEF At
            <4>2. CASE r.kind # "image"
                BY <1>1, <1>5, <4>2
            <4> QED  BY <4>1, <4>2
        <3> HIDE DEF total
        <3> QED  BY <1>8, <3>1, UsageFlowAssumption
    <2>5. r.kind # "image" => total = n + m
        BY <1>1, <1>5
    <2> HIDE DEF total
    <2> QED  BY <2>2, <2>3, <2>4, <2>5 DEF Reading, f, chunk
<1> QED  BY <1>7, <1>8

-----------------------------------------------------------------------------
(* The handler and its extractor.                                          *)

ExtractionInv ==
    /\ Formed(resp)
    /\ ~finalized =>
          /\ Arrived \in 0..Len(BytesOf(resp))
          /\ remaining = Rest(BytesOf(resp), Arrived)
          /\ \/ ext.overflowed /\ KeptSize > MaxBuffer
             \/ ~ext.overflowed /\ Reading(resp, Arrived, ext)

LEMMA ExtractionInit == UsageInit => ExtractionInv
<1> SUFFICES ASSUME UsageInit
             PROVE  ExtractionInv
    OBVIOUS
<1>1. Formed(resp)
    BY ResponsesAssumption DEF UsageInit, Formed
<1>2. PICK S : BytesOf(resp) \in Seq(S)
    BY <1>1, BytesAre
<1>3. remaining = BytesOf(resp) /\ ext = NewExtractor
    BY DEF UsageInit
<1>4. Len(BytesOf(resp)) \in Nat
    BY <1>2, SeqHolds
<1>5. Arrived = 0
    BY <1>3, <1>4 DEF Arrived
<1>6. remaining = Rest(BytesOf(resp), 0)
    <2> DEFINE bytes == BytesOf(resp)
    <2> HIDE DEF bytes
    <2>1. SubSeq(bytes, 0 + 1, Len(bytes)) = bytes
        BY <1>2 DEF bytes
    <2> QED  BY <1>3, <2>1 DEF Rest, bytes
<1>7. Reading(resp, 0, NewExtractor)
    <2>1. At(resp, 0, NewExtractor)
        BY <1>1, AtBegins
    <2>2. NewExtractor.consumed = 0
        BY DEF NewExtractor
    <2> QED  BY <2>1, <2>2, UsageFlowAssumption DEF Reading
<1>8. ~ext.overflowed
    BY <1>3 DEF NewExtractor
<1> QED  BY <1>1, <1>3, <1>4, <1>5, <1>6, <1>7, <1>8 DEF ExtractionInv

LEMMA ReceiveKept ==
    ASSUME ExtractionInv, NEW m \in 1..Len(remaining), Receive(m)
    PROVE  ExtractionInv'
<1> DEFINE bytes == BytesOf(resp)
           n == Arrived
<1>1. /\ Formed(resp) /\ n \in 0..Len(bytes)
      /\ remaining = Rest(bytes, n)
      /\ \/ ext.overflowed /\ KeptSize > MaxBuffer
         \/ ~ext.overflowed /\ Reading(resp, n, ext)
    BY DEF ExtractionInv, Receive
<1>2. PICK S : bytes \in Seq(S)
    BY <1>1, BytesAre
<1>3. /\ resp' = resp
      /\ ext' = Push(resp, ext, SubSeq(remaining, 1, m))
      /\ remaining' = SubSeq(remaining, m + 1, Len(remaining))
    BY DEF Receive
<1>4. Len(bytes) \in Nat
    BY <1>2, SeqHolds
<1> HIDE DEF bytes, n
<1>5. Len(remaining) = Len(bytes) - n
    BY <1>1, <1>2, RestCut
<1>6. m \in 1..(Len(bytes) - n) /\ n + m \in 0..Len(bytes) /\ n \in Nat /\ m \in Nat
    BY <1>1, <1>4, <1>5
<1>7. ext' = Push(resp, ext, Chunk(bytes, n, m)) /\ remaining' = Rest(bytes, n + m)
    BY <1>1, <1>2, <1>3, <1>6, RestCut
<1>8. Len(Rest(bytes, n + m)) = Len(bytes) - (n + m)
    BY <1>2, <1>6, RestCut
<1>9. bytes' = bytes /\ n' = n + m
    <2>1. BytesOf(resp)' = BytesOf(resp)
        BY <1>3 DEF BytesOf
    <2>2. n' = Len(bytes) - Len(remaining')
        BY <2>1 DEF n, Arrived, bytes
    <2> QED  BY <1>1, <1>4, <1>6, <1>7, <1>8, <2>1, <2>2 DEF bytes
<1> DEFINE size == IF resp.kind = "image" THEN Len(KeptText(resp)) ELSE n + m
<1>10. KeptSize' = size /\ KeptSize = IF resp.kind = "image" THEN Len(KeptText(resp)) ELSE n
    BY <1>3, <1>9 DEF KeptSize, KeptText, n
<1> HIDE DEF size
<1>11. \/ ext'.overflowed /\ size > MaxBuffer
       \/ ~ext'.overflowed /\ Reading(resp, n + m, ext')
    <2>1. CASE ext.overflowed /\ KeptSize > MaxBuffer
        <3>1. ext' = ext
            BY <1>7, <2>1 DEF Push
        <3>2. size > MaxBuffer
            BY <1>6, <1>10, <2>1, UsageFlowAssumption DEF size
        <3> QED  BY <2>1, <3>1, <3>2
    <2>2. CASE ~ext.overflowed /\ Reading(resp, n, ext)
        BY <1>1, <1>6, <1>7, <2>2, PushReads DEF bytes, size
    <2> QED  BY <1>1, <2>1, <2>2
<1>12. Reading(resp, n + m, ext') => Reading(resp, n, ext)'
    BY <1>3, <1>9
<1>13. Formed(resp)'
    BY <1>1, <1>3
<1>14. n' \in 0..Len(bytes') /\ remaining' = Rest(bytes', n')
    BY <1>6, <1>7, <1>9
<1> QED
    <2>1. /\ Arrived' \in 0..Len(BytesOf(resp)') /\ remaining' = Rest(BytesOf(resp)', Arrived')
        BY <1>14 DEF bytes, n
    <2> QED  BY <1>10, <1>11, <1>12, <1>13, <2>1 DEF ExtractionInv, n

LEMMA ExtractionStep == ExtractionInv /\ [UsageNext]_usageVars => ExtractionInv'
<1> SUFFICES ASSUME ExtractionInv, [UsageNext]_usageVars
             PROVE  ExtractionInv'
    OBVIOUS
<1>1. ASSUME NEW m \in 1..Len(remaining), Receive(m)
      PROVE  ExtractionInv'
    BY <1>1, ReceiveKept
<1>2. ASSUME NEW interrupted \in BOOLEAN, Finalize(interrupted)
      PROVE  ExtractionInv'
    <2>1. resp' = resp /\ finalized'
        BY <1>2 DEF Finalize
    <2> QED  BY <2>1 DEF ExtractionInv
<1>3. ASSUME ReconcileSettled
      PROVE  ExtractionInv'
    BY <1>3 DEF ReconcileSettled, ExtractionInv, Arrived, KeptSize
<1>4. CASE UNCHANGED usageVars
    BY <1>4 DEF usageVars, ExtractionInv, Arrived, KeptSize
<1> QED  BY <1>1, <1>2, <1>3, <1>4 DEF UsageNext

(***************************************************************************)
(* However a response is cut into chunks and wherever it breaks off, the   *)
(* extractor answers what one reading of the arrived bytes would, for      *)
(* every response of any length and any buffer: an event counts once its   *)
(* line is whole, a body once all of it is there, and of an image body     *)
(* exactly the pictures are left out.                                      *)
(***************************************************************************)
THEOREM ExtractionsAreFaithful == UsageSpec => []ExtractionIsFaithful
<1>1. ExtractionInv => ExtractionIsFaithful
    <2> SUFFICES ASSUME ExtractionInv, ~finalized
                 PROVE  IF ext.overflowed THEN Finish(resp, ext) = Nothing /\ KeptSize > MaxBuffer
                        ELSE Finish(resp, ext) = ReadAtOnce /\ ext.consumed <= MaxBuffer
        BY DEF ExtractionIsFaithful
    <2>1. /\ Formed(resp) /\ Arrived \in 0..Len(BytesOf(resp))
          /\ remaining = Rest(BytesOf(resp), Arrived)
          /\ \/ ext.overflowed /\ KeptSize > MaxBuffer
             \/ ~ext.overflowed /\ Reading(resp, Arrived, ext)
        BY DEF ExtractionInv
    <2>2. CASE ext.overflowed /\ KeptSize > MaxBuffer
        BY <2>2 DEF Finish
    <2>3. CASE ~ext.overflowed /\ Reading(resp, Arrived, ext)
        <3>1. remaining = <<>> <=> Arrived = Len(BytesOf(resp))
            <4>1. PICK S : BytesOf(resp) \in Seq(S)
                BY <2>1, BytesAre
            <4> QED  BY <2>1, <4>1, RestCut
        <3>2. At(resp, Arrived, ext) /\ ext.consumed <= MaxBuffer
            BY <2>3 DEF Reading
        <3>3. Finish(resp, ext) = ReadAtOnce
            BY <2>1, <3>1, <3>2, AtAnswer
        <3> QED  BY <2>3, <3>2, <3>3
    <2> QED  BY <2>1, <2>2, <2>3
<1> QED  BY <1>1, ExtractionInit, ExtractionStep, PTL DEF UsageSpec
=============================================================================
