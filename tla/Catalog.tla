------------------------------ MODULE Catalog ------------------------------
(***************************************************************************)
(* What one model costs in one group: the listing and the pricing profiles *)
(* an administrator edits, the route and price versions that requests      *)
(* publish from them (catalog-route-snapshot.ts), and the requests that    *)
(* resolve a route, are admitted at a price and settled later at it.       *)
(*                                                                         *)
(* Every statement and every transaction of the database is one step, and  *)
(* whatever lies between two of them may be interleaved with other         *)
(* requests and with edits.  The position of a row in routes and prices is *)
(* its version.  Foreign keys are not enforced, which only adds steps.     *)
(***************************************************************************)
EXTENDS Pricing, Sequences, SequencesExt

CONSTANTS
    Requests,
    Profiles,       \* ids of the pricing profiles of the model
    Contents,       \* what a reviewed profile form may hold
    RequiredMeters, \* the token meters the model's category must price
    NewapiGroups,   \* the groups of New API a listing can name
    Discounts,      \* discount_rate_bps
    Listings,       \* what a saved listing form may hold
    Facts,          \* what a request may ask for, the argument of SKU rules
    Sizes,          \* estimated input tokens of a request
    Usages,         \* meters of a finished call, before long context
    Quantities,     \* units of a finished call
    None,           \* no listing, no profile, no configuration
    Unmapped,       \* the empty newapi_group
    FirstListings, FirstProfiles, \* the catalog before the first request
    MaxEdits        \* bound: edits of the catalog

ASSUME CatalogAssumption ==
    /\ \A c \in Contents : /\ c.basis \in {"token", "unit", "duration"}
                           /\ c.threshold \in Nat \cup {NoThreshold}
    /\ Listings \subseteq [callable : BOOLEAN, newapiGroup : NewapiGroups \cup {Unmapped},
                            profile : Profiles, bps : Discounts, allowLong : BOOLEAN]
    /\ None \notin Contents \cup Profiles /\ Unmapped \notin NewapiGroups
    /\ MaxEdits \in Nat
    /\ FirstListings \subseteq Listings \cup {None}
    /\ FirstProfiles \in [Profiles -> Contents \cup {None}]

VARIABLES
    listing,   \* catalog_model_listing of the model in the group, or None
    profiles,  \* catalog_model_pricing_profile with its rates, or None
    deleting,  \* the profile whose deletion has counted no references
    edits,
    routes,    \* model_route rows of the pair
    prices,    \* model_price_version rows of the pair
    req,       \* requests, see Idle
    seen       \* history: the configurations in force while a request resolved

catalogVars  == <<listing, profiles, deleting, edits>>
snapshotVars == <<routes, prices>>
vars         == <<catalogVars, snapshotVars, req, seen>>

TokenReady(spec, l, threshold) ==
    spec.basis = "token" =>
        /\ RequiredMeters \subseteq DOMAIN spec.rates
        /\ l.allowLong => /\ threshold > 0
                          /\ {"input_long", "output_long"} \subseteq DOMAIN spec.rates

(* The one join that decides whether a listing can be called, and what it  *)
(* promises.  A profile that is gone leaves the left join empty.           *)
AssessPublishReadiness(l, ps) ==
    IF l = None \/ ps[l.profile] = None THEN None
    ELSE LET profile == ps[l.profile]
             spec    == BuildEffectivePricingSpec(profile, l.bps)
             token   == spec.basis = "token"
         IN  IF /\ l.callable /\ l.newapiGroup # Unmapped
                /\ ValidatePricingSpec(spec)
                /\ TokenReady(spec, l, profile.threshold)
             THEN [newapiGroup |-> l.newapiGroup,
                   terms |-> [spec      |-> spec,
                              profile   |-> l.profile,
                              threshold |-> IF token /\ l.allowLong
                                            THEN profile.threshold ELSE NoThreshold,
                              admission |-> IF token THEN profile.threshold
                                            ELSE NoThreshold,
                              allowLong |-> l.allowLong]]
             ELSE None

Config == AssessPublishReadiness(listing, profiles)

(*   idle -> reading -> publishing -> resolved -> admitted -> settled      *)
(*   config is what was loaded, None when the listing is not ready; route  *)
(*   and price are versions, 0 for no row and Unread before the read.      *)
Unread == -1
Idle == [stage |-> "idle", config |-> None, route |-> Unread, price |-> Unread,
         tries |-> 0, sku |-> None, usage |-> None, charged |-> 0]
Resolving == {"reading", "retiring", "publishing"}
Done      == {"refused", "failed", "settled"}

Init ==
    /\ listing \in FirstListings /\ profiles = FirstProfiles
    /\ deleting = None /\ edits = 0
    /\ routes = <<>> /\ prices = <<>>
    /\ req = [r \in Requests |-> Idle]
    /\ seen = [r \in Requests |-> {}]

Move(r, stage) == req' = [req EXCEPT ![r].stage = stage]

ActiveOf(rows) == {v \in DOMAIN rows : rows[v].status = "active"}
Active(rows)   == IF ActiveOf(rows) = {} THEN 0 ELSE CHOOSE v \in ActiveOf(rows) : TRUE

\* A profile is taken for the same while it keeps its id.
ProfileMatches(v, c) == v # 0 /\ prices[v].terms.profile = c.terms.profile

RouteMatches(v, c) == v # 0 /\ routes[v].newapiGroup = c.newapiGroup

PriceMatches(v, c) == v # 0 /\ prices[v].terms = c.terms

Retired(rows) == [v \in DOMAIN rows |-> [rows[v] EXCEPT !.status = "retired"]]

----------------------------------------------------------------------------
(* A request: ensureCatalogRouteSnapshot, resolveActiveRoute, admission.   *)

LoadConfig(r) ==
    /\ req[r].stage = "idle"
    /\ req' = [req EXCEPT ![r].stage = "reading", ![r].config = Config]
    /\ seen' = [seen EXCEPT ![r] = {Config}]
    /\ UNCHANGED <<catalogVars, snapshotVars>>

(* activeSnapshots outside a transaction: two statements, in either order. *)
ReadRoute(r) ==
    /\ req[r].stage = "reading" /\ req[r].route = Unread
    /\ req' = [req EXCEPT ![r].route = Active(routes)]
    /\ UNCHANGED <<catalogVars, snapshotVars, seen>>

ReadPrice(r) ==
    /\ req[r].stage = "reading" /\ req[r].price = Unread
    /\ req' = [req EXCEPT ![r].price = Active(prices)]
    /\ UNCHANGED <<catalogVars, snapshotVars, seen>>

(* With both read: the hot path reuses what matches, a listing that is not *)
(* ready retires what it finds.                                            *)
Decide(r) ==
    /\ req[r].stage = "reading" /\ Unread \notin {req[r].route, req[r].price}
    /\ LET c == req[r].config IN
       Move(r, IF c = None
               THEN IF req[r].route = 0 /\ req[r].price = 0 THEN "refused" ELSE "retiring"
               ELSE IF RouteMatches(req[r].route, c) /\ PriceMatches(req[r].price, c)
               THEN "resolved" ELSE "publishing")
    /\ UNCHANGED <<catalogVars, snapshotVars, seen>>

\* Only the price is retired.
RetirePriceOnly(r) ==
    /\ req[r].stage = "retiring"
    /\ prices' = Retired(prices)
    /\ Move(r, "refused")
    /\ UNCHANGED <<catalogVars, routes, seen>>

RetireSnapshots(r) ==
    /\ req[r].stage = "retiring"
    /\ routes' = Retired(routes) /\ prices' = Retired(prices)
    /\ Move(r, "refused")
    /\ UNCHANGED <<catalogVars, seen>>

(* The publishing transaction reads again, so that the second of two       *)
(* requests with the same configuration takes what the first published.    *)
PublishSnapshots(r) ==
    /\ req[r].stage = "publishing"
    /\ LET c == req[r].config
           matches == RouteMatches(Active(routes), c) /\ PriceMatches(Active(prices), c)
       IN  /\ routes' = IF matches THEN routes
                        ELSE Append(Retired(routes),
                                    [newapiGroup |-> c.newapiGroup, status |-> "active"])
           /\ prices' = IF matches THEN prices
                        ELSE Append(Retired(prices), [terms |-> c.terms, status |-> "active"])
           /\ req' = [req EXCEPT ![r].stage = "resolved", ![r].route = Active(routes'),
                                 ![r].price = Active(prices')]
    /\ UNCHANGED <<catalogVars, seen>>

(* A transaction that finds the database busy: publishing tries three      *)
(* times, retiring once.  The request ends with an error.                  *)
TransactionFails(r) ==
    /\ req[r].stage \in {"retiring", "publishing"}
    /\ IF req[r].stage = "publishing" /\ req[r].tries < 2
       THEN req' = [req EXCEPT ![r].tries = @ + 1]
       ELSE Move(r, "failed")
    /\ UNCHANGED <<catalogVars, snapshotVars, seen>>

\* The rule's SKU is not looked up in the rates.
RuledSku(terms, fact, size) ==
    IF ~terms.allowLong /\ terms.admission # NoThreshold /\ size >= terms.admission
    THEN Rejected
    ELSE IF terms.spec.basis = "token" THEN None ELSE terms.spec.rule[fact]

(* The SKU a request is admitted for, None under token pricing; Rejected   *)
(* stands for the four ways of refusing.                                   *)
AdmissionSku(terms, fact, size) ==
    IF ~terms.allowLong /\ terms.admission # NoThreshold /\ size >= terms.admission
    THEN Rejected
    ELSE IF terms.spec.basis = "token" THEN None
    ELSE IF terms.spec.rule[fact] \in DOMAIN terms.spec.rates
    THEN terms.spec.rule[fact] ELSE Rejected

(* The ledger row takes the route's version and the price's id.  Between   *)
(* resolution and admission the gateway may refuse for its own reasons; a  *)
(* request that lists the callable models stops after resolving.           *)
Admit(r, fact, size) ==
    /\ req[r].stage = "resolved"
    /\ LET sku == AdmissionSku(prices[req[r].price].terms, fact, size)
       IN  IF sku = Rejected THEN Move(r, "refused")
           ELSE req' = [req EXCEPT ![r].stage = "admitted", ![r].sku = sku]
    /\ UNCHANGED <<catalogVars, snapshotVars, seen>>

Stop(r) ==
    /\ req[r].stage = "resolved"
    /\ Move(r, "refused")
    /\ UNCHANGED <<catalogVars, snapshotVars, seen>>

SkuOf(request) == IF request.sku = None THEN DefaultSku ELSE request.sku

(* Settlement reads the price the row was admitted at; the handler has     *)
(* chosen the long-context meters by the route it resolved.                *)
Settle(r, usage, quantity) ==
    /\ req[r].stage = "admitted"
    /\ LET price  == prices[req[r].price].terms
           meters == MeterByThreshold(usage, req[r].config.terms.threshold)
           sku    == SkuOf(req[r])
       IN  /\ Chargeable(price.spec, sku, quantity)
           /\ req' = [req EXCEPT ![r].stage = "settled",
                                 ![r].usage = [meters |-> usage, quantity |-> quantity],
                                 ![r].charged = ComputePricingCharge(price.spec, meters, 0,
                                                                     sku, quantity)]
    /\ UNCHANGED <<catalogVars, snapshotVars, seen>>

----------------------------------------------------------------------------
(* An administrator.  An edit is seen by every request that is resolving.  *)

Edit(l, ps) ==
    /\ edits < MaxEdits /\ edits' = edits + 1
    /\ listing' = l /\ profiles' = ps
    /\ seen' = [r \in Requests |->
                  IF req[r].stage \in Resolving
                  THEN seen[r] \cup {AssessPublishReadiness(l, ps)} ELSE seen[r]]
    /\ UNCHANGED <<snapshotVars, req>>

UpsertPricingProfile(p, content) ==
    /\ Edit(listing, [profiles EXCEPT ![p] = content])
    /\ UNCHANGED deleting

(* Counting the references and deleting are two statements.                *)
Referenced(p) == listing # None /\ listing.profile = p
CountReferences(p) ==
    /\ deleting = None /\ profiles[p] # None
    /\ ~Referenced(p)
    /\ deleting' = p
    /\ UNCHANGED <<listing, profiles, edits, snapshotVars, req, seen>>

DeletePricingProfile ==
    /\ deleting # None
    /\ Edit(listing, [profiles EXCEPT ![deleting] = None])
    /\ deleting' = None

(* The form offers the profiles there are.                                 *)
SaveListing(l) ==
    /\ profiles[l.profile] # None /\ l # listing
    /\ Edit(l, profiles)
    /\ UNCHANGED deleting

DeleteListing ==
    /\ listing # None
    /\ Edit(None, profiles)
    /\ UNCHANGED deleting

----------------------------------------------------------------------------
RequestStep(r) ==
    \/ LoadConfig(r) \/ ReadRoute(r) \/ ReadPrice(r) \/ Decide(r)
    \/ RetireSnapshots(r) \/ PublishSnapshots(r) \/ TransactionFails(r)
    \/ \E fact \in Facts, size \in Sizes : Admit(r, fact, size)
    \/ Stop(r)
    \/ \E usage \in Usages, quantity \in Quantities : Settle(r, usage, quantity)

AdminStep ==
    \/ \E p \in Profiles, c \in Contents : UpsertPricingProfile(p, c)
    \/ \E p \in Profiles : CountReferences(p)
    \/ DeletePricingProfile
    \/ \E l \in Listings : SaveListing(l)
    \/ DeleteListing

Next == (\E r \in Requests : RequestStep(r)) \/ AdminStep

Spec == Init /\ [][Next]_vars /\ \A r \in Requests : WF_vars(RequestStep(r))

----------------------------------------------------------------------------
Terms   == [spec : {BuildEffectivePricingSpec(c, b) : c \in Contents, b \in Discounts},
            profile : Profiles, threshold : Int, admission : Int, allowLong : BOOLEAN]
Configs == [newapiGroup : NewapiGroups, terms : Terms]

(* Types of the variables (schema.sqlite.ts:746 and 1318-1415).            *)
CatalogTypeOK ==
    /\ listing \in Listings \cup {None}
    /\ profiles \in [Profiles -> Contents \cup {None}]
    /\ deleting \in Profiles \cup {None} /\ edits \in 0..MaxEdits
    /\ routes \in Seq([newapiGroup : NewapiGroups, status : {"active", "retired"}])
    /\ prices \in Seq([terms : Terms, status : {"active", "retired"}])
    /\ \A r \in Requests :
         /\ req[r].stage \in Resolving \cup Done \cup {"idle", "resolved", "admitted"}
         /\ req[r].config \in Configs \cup {None}
         /\ {req[r].route, req[r].price} \subseteq {Unread} \cup 0..Len(routes)
         /\ req[r].tries \in 0..2 /\ req[r].charged \in Nat
         /\ seen[r] \subseteq Configs \cup {None}

(* Route and price are published and retired together: at any moment at    *)
(* most one version of each is active, and it is the same version, the     *)
(* last one (the two unique indices and the transactions of                *)
(* catalog-route-snapshot.ts:104-135 and 162-244).                         *)
SnapshotsPaired ==
    /\ Len(routes) = Len(prices)
    /\ ActiveOf(routes) = ActiveOf(prices)
    /\ ActiveOf(routes) \subseteq {Len(routes)}

(* What a settled request pays is the charge of its usage under one        *)
(* configuration of the catalog that was in force at some moment while the *)
(* request resolved, the same that routed it, whatever was edited or       *)
(* republished in between or before settlement (catalog-route-snapshot.ts: *)
(* 144-160, settlement.ts:129-156).  A listing that was never ready in     *)
(* that time admits nothing.                                               *)
ChargedAsQuoted ==
    \A r \in Requests : req[r].stage = "settled" =>
        \E c \in seen[r] \ {None} :
            LET usage == req[r].usage
                sku   == SkuOf(req[r])
            IN  /\ routes[req[r].route].newapiGroup = c.newapiGroup
                /\ Chargeable(c.terms.spec, sku, usage.quantity)
                /\ req[r].charged =
                     ComputePricingCharge(c.terms.spec,
                         MeterByThreshold(usage.meters, c.terms.threshold), 0,
                         sku, usage.quantity)

(* Published versions are immutable and numbered without gaps: a step may  *)
(* retire the active one and append one, and nothing else, so that a row   *)
(* of the ledger means the same price for ever (nextVersion,               *)
(* catalog-route-snapshot.ts:87-102).                                      *)
PublishedIsImmutable ==
    [][/\ \A v \in DOMAIN prices : prices'[v] \in {prices[v], Retired(prices)[v]}
       /\ \A v \in DOMAIN routes : routes'[v] \in {routes[v], Retired(routes)[v]}
       /\ Len(prices') \in {Len(prices), Len(prices) + 1}]_snapshotVars

(* Every request that has begun to resolve is refused, fails or is settled *)
(* in the end: the attempts to publish are bounded, and what was admitted  *)
(* can always be charged (admission.ts:124-139, pricing-spec.ts:238-247).  *)
RequestsEnd == \A r \in Requests : req[r].stage # "idle" ~> req[r].stage \in Done
=============================================================================
