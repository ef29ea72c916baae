------------------------------ MODULE Pricing ------------------------------
(***************************************************************************)
(* The pure arithmetic of a price: the discount of a profile's rates and   *)
(* the charge of a usage under a pricing specification.  A specification   *)
(* is a record                                                             *)
(*   basis  "token", "unit" or "duration";                                 *)
(*   rates  what each key costs, a function to [unit, price]: the keys are *)
(*          meters when the basis is "token" and SKUs otherwise;           *)
(*   rule   the SKU a request asks for, a function from the facts of a     *)
(*          request to a SKU or Rejected (the empty function for tokens).  *)
(* Meters are functions from meter names to positive quantities.           *)
(***************************************************************************)
EXTENDS Integers, FiniteSets, FiniteSetsExt

Rejected == "rejected"          \* an SKU rule whose outcome is "reject"
DefaultSku == "default"
WebSearch == "web_search"

CeilDiv(a, b) == (a + b - 1) \div b

ScaleMicroUsdByBps(value, bps) == (value * bps + 5000) \div 10000

(* The long-context meters: the meters without one keep their own.         *)
LongMeterMap == [input |-> "input_long", cached_input |-> "cached_input_long",
                 cache_write |-> "cache_write_long", output |-> "output_long"]
InputMeters == {"input", "cached_input", "cache_write", "cache_write_5m",
                "cache_write_1h"}

ToLongMeterKey(m) == IF m \in DOMAIN LongMeterMap THEN LongMeterMap[m] ELSE m

SumOf(meters, keys) ==
    MapThenSumSet(LAMBDA m : meters[m], keys \cap DOMAIN meters)

ApplyLongContextMeters(meters) ==
    [l \in {ToLongMeterKey(m) : m \in DOMAIN meters} |->
        SumOf(meters, {m \in DOMAIN meters : ToLongMeterKey(m) = l})]

(* A threshold is a positive number, or NoThreshold: never applied.        *)
NoThreshold == -1
LongContextApplied(meters, threshold) ==
    threshold # NoThreshold /\ SumOf(meters, InputMeters) >= threshold
MeterByThreshold(meters, threshold) ==
    IF LongContextApplied(meters, threshold)
    THEN ApplyLongContextMeters(meters) ELSE meters

AtLeastOne(charge) == IF charge > 0 THEN charge ELSE 1

(* A profile with the discount of a listing. *)
BuildEffectivePricingSpec(profile, bps) ==
    [basis |-> profile.basis,
     rates |-> [k \in DOMAIN profile.rates |->
                  [unit  |-> profile.rates[k].unit,
                   price |-> ScaleMicroUsdByBps(profile.rates[k].price, bps)]],
     rule  |-> profile.rule]

(* What the validator of a specification refuses and a discount can bring  *)
(* about: a price per unit or per duration that rounds down to nothing.    *)
ValidatePricingSpec(spec) ==
    spec.basis # "token" =>
        /\ DefaultSku \in DOMAIN spec.rates
        /\ \A k \in DOMAIN spec.rates : spec.rates[k].price > 0

\* Every meter is rounded up by itself.
RoundEachMeter(rates, quantities) ==
    AtLeastOne(MapThenSumSet(LAMBDA m : CeilDiv(quantities[m] * rates[m].price, rates[m].unit),
                             DOMAIN quantities \cap DOMAIN rates))

(* Meters of the same unit are added before one rounding up per unit.      *)
TokenCharge(rates, quantities) ==
    LET priced == DOMAIN quantities \cap DOMAIN rates
        part(u) == MapThenSumSet(LAMBDA m : quantities[m] * rates[m].price,
                                 {m \in priced : rates[m].unit = u})
    IN  AtLeastOne(MapThenSumSet(LAMBDA u : CeilDiv(part(u), u),
                                 {rates[m].unit : m \in priced}))

WithWebSearch(meters, count) ==
    IF count = 0 THEN meters
    ELSE [m \in DOMAIN meters \cup {WebSearch} |->
            IF m = WebSearch THEN count ELSE meters[m]]

(* Whether the charge is computed at all: outside token pricing a missing  *)
(* SKU or a quantity that is not positive throws.                          *)
Chargeable(spec, sku, quantity) ==
    spec.basis # "token" => sku \in DOMAIN spec.rates /\ quantity > 0

ComputePricingCharge(spec, meters, webSearches, sku, quantity) ==
    IF spec.basis = "token"
    THEN TokenCharge(spec.rates, WithWebSearch(meters, webSearches))
    ELSE AtLeastOne(CeilDiv(quantity * spec.rates[sku].price, spec.rates[sku].unit))
=============================================================================
