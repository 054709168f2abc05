------------------------------- MODULE Pricing -------------------------------
(***************************************************************************)
(* The price catalog (orm_pricing.rs): immutable versions of one route, a  *)
(* quote before transport under an exact version, and the settlement of    *)
(* the reported usage under the same version.  Token rates are microunits  *)
(* per Denominator tokens; every dimension is rounded up on its own.       *)
(***************************************************************************)
EXTENDS Naturals, FiniteSets, Sequences

CONSTANTS Denominator,      \* RATE_DENOMINATOR
          Rates,            \* price versions an administrator may create
          MaximumVersions,  \* maximum_versions_per_route
          MaximumRate,      \* deployment bound of a rate
          MaxTokens,        \* bound: tokens of a call
          MaxCalls,         \* bound: built-in calls (64 in the code)
          MaxCost           \* the largest number of microunits (2^64 - 1)

Builtins == {"web", "file"}
RateRecord == [fixed : Nat, input : Nat, cached : Nat, output : Nat, web : Nat, file : Nat]

ASSUME PricingAssumption ==
    /\ Denominator \in Nat \ {0} /\ MaximumVersions \in Nat /\ MaximumRate \in Nat
    /\ MaxTokens \in Nat /\ MaxCalls \in Nat \ {0} /\ MaxCost \in Nat
    /\ \A r \in Rates : r \in RateRecord

VARIABLES catalog,     \* the versions of the route, in order of creation
          quote,       \* the quote a call reserved, or NoQuote
          settled      \* its settlement, or NoCost

priceVars == <<catalog, quote, settled>>

NoCost == MaxCost + 1            \* also the failure of a checked operation
NoQuote == [version |-> 0, input |-> 0, output |-> 0, tools |-> {}, calls |-> 0, cost |-> NoCost]

PriceInit == catalog = <<>> /\ quote = NoQuote /\ settled = NoCost

(* price_dimension: rounded up, so that a unit that costs anything costs one *)
PriceDimension(units, rate) ==
    IF units = 0 \/ rate = 0 THEN 0 ELSE (units * rate + Denominator - 1) \div Denominator

PriceTokens(r, input, cached, output) ==
    r.fixed + PriceDimension(input - cached, r.input)
            + PriceDimension(cached, r.cached) + PriceDimension(output, r.output)

(* price_builtin_quote: every call at the greatest enabled rate *)
PriceBuiltinQuote(r, tools, calls) ==
    LET rate == [t \in Builtins |-> IF t = "web" THEN r.web ELSE r.file]
    IN IF tools = {} THEN 0
       ELSE calls * (CHOOSE x \in {rate[t] : t \in tools} : \A t \in tools : rate[t] <= x)

PriceBuiltinActual(r, web, file) == web * r.web + file * r.file

(* validate_rates: within the deployment bound, cached input no dearer *)
ValidRates(r) ==
    /\ \A rate \in {r.fixed, r.input, r.cached, r.output, r.web, r.file} : rate <= MaximumRate
    /\ r.cached <= r.input

CreatePricingPolicy ==
    /\ \E r \in Rates :
          /\ ValidRates(r)
          /\ Len(catalog) < MaximumVersions
          /\ catalog' = Append(catalog, r)
    /\ UNCHANGED <<quote, settled>>

(* quote: every input token uncached; the built-in calls and tools agree *)
Quote ==
    /\ quote = NoQuote
    /\ \E v \in 1..Len(catalog), input, output \in 0..MaxTokens,
          tools \in SUBSET Builtins, calls \in 0..MaxCalls :
          /\ tools = {} <=> calls = 0
          /\ LET cost == PriceTokens(catalog[v], input, 0, output)
                         + PriceBuiltinQuote(catalog[v], tools, calls)
             IN /\ cost <= MaxCost
                /\ quote' = [version |-> v, input |-> input, output |-> output,
                             tools |-> tools, calls |-> calls, cost |-> cost]
    /\ UNCHANGED <<catalog, settled>>

(* settle: the reported usage, under the version of the quote *)
SettleCost ==
    /\ quote # NoQuote /\ settled = NoCost
    /\ \E input \in 0..quote.input, output \in 0..quote.output, web, file \in 0..quote.calls :
       \E cached \in 0..input :
          /\ web + file <= quote.calls                  \* the provider kept to the ceilings
          /\ web > 0 => "web" \in quote.tools
          /\ file > 0 => "file" \in quote.tools
          /\ LET cost == PriceTokens(catalog[quote.version], input, cached, output)
                         + PriceBuiltinActual(catalog[quote.version], web, file)
             IN cost <= MaxCost /\ settled' = cost
    /\ UNCHANGED <<catalog, quote>>

PriceNext == CreatePricingPolicy \/ Quote \/ SettleCost

-----------------------------------------------------------------------------
(* A quote names a version that exists, and the catalog keeps its bound.    *)
PriceTypeOK ==
    /\ Len(catalog) <= MaximumVersions
    /\ quote = NoQuote \/ (quote.version \in 1..Len(catalog) /\ quote.cost <= MaxCost)
    /\ settled \in 0..NoCost

(* What a call that kept to its ceilings is charged exceeds its quote by at *)
(* most one microunit: the quote takes every input token as uncached and    *)
(* every built-in call at the greatest rate, and only the separate rounding *)
(* of cached input escapes it (validate_rates makes cached input no         *)
(* dearer).                                                                 *)
SettledWithinRounding == settled # NoCost => settled <= quote.cost + 1

(* No usage is free by rounding: a quote is never below the exact price of  *)
(* the tokens it was asked for.                                             *)
QuoteCoversTokens ==
    quote # NoQuote =>
        LET r == catalog[quote.version]
        IN quote.cost * Denominator >=
              r.fixed * Denominator + quote.input * r.input + quote.output * r.output
=============================================================================
