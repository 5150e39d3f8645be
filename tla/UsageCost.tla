----------------------------- MODULE UsageCost -----------------------------
(***************************************************************************)
(* What a usage record costs (internal/infra/gateway/usage/sink.go         *)
(* partitionDetail and eventOf, internal/app/usage_cost.go PriceUsage).    *)
(* Vendors count the same tokens in different ways: a prompt with or       *)
(* without its cached tokens, an output with or without its reasoning.     *)
(* The sink splits the counts into kinds that partition the request and    *)
(* prices each kind at its own rate, and prices nothing it would have to   *)
(* guess.  Rates are whole numbers per token; the estimate of what caching *)
(* saved is left out.                                                      *)
(***************************************************************************)
EXTENDS Integers

CONSTANT NoPrice, NoBreakdown, Unknown

Kinds == {"input", "output", "reasoning", "cacheRead", "cacheWrite"}

\* A split of a request's tokens, and the total it is a split of.
Nothing == [k \in Kinds |-> 0]
Classified(kinds) == kinds["input"] + kinds["output"] + kinds["reasoning"]
                     + kinds["cacheRead"] + kinds["cacheWrite"]

\* What a vendor reports, as upstream hands it over.
Detail == [input : Int, output : Int, reasoning : Int, cacheRead : Int,
           cacheWrite : Int, cached : Int, total : Int]

Rates == [input : Nat, output : Nat, cacheRead : Nat, cacheWrite : Nat]

Positive(n) == IF n > 0 THEN n ELSE 0
Greater(a, b) == IF a > b THEN a ELSE b

\* detailSemantics: what a protocol's counts include.
Protocols == {"openai", "gemini", "claude", "other"}
CacheInInput(protocol) == protocol \in {"openai", "gemini"}
ReasoningInOutput(protocol) == protocol \in {"openai", "claude"}
Known(protocol) == protocol # "other"

\* The cache reads of a detail.  The legacy count stands for them only when
\* neither cache count is set.
CacheRead(d) == IF Positive(d.cacheRead) = 0 /\ Positive(d.cacheWrite) = 0
                THEN Positive(d.cached) ELSE Positive(d.cacheRead)

\* The cached tokens a prompt count includes, and the reasoning an output
\* count does.
InPrompt(protocol, d) ==
    IF CacheInInput(protocol) THEN CacheRead(d) + Positive(d.cacheWrite) ELSE 0
InOutput(protocol, d) ==
    IF ReasoningInOutput(protocol) THEN Positive(d.reasoning) ELSE 0

Split(protocol, d) ==
    [k \in Kinds |->
        CASE k = "input" -> Positive(d.input) - InPrompt(protocol, d)
          [] k = "output" -> Positive(d.output) - InOutput(protocol, d)
          [] k = "reasoning" -> Positive(d.reasoning)
          [] k = "cacheRead" -> CacheRead(d)
          [] k = "cacheWrite" -> Positive(d.cacheWrite)]

\* Whether the counts of a known protocol can be split without a guess.
Consistent(protocol, d) ==
    /\ Known(protocol)
    /\ InPrompt(protocol, d) <= Positive(d.input)
    /\ InOutput(protocol, d) <= Positive(d.output)
    /\ d.total > 0 => Classified(Split(protocol, d)) <= d.total

\* The least number of tokens the counts imply.
Implied(d) ==
    Greater(Greater(Positive(d.input), CacheRead(d) + Positive(d.cacheWrite)),
            Positive(d.cached))
    + Greater(Positive(d.output), Positive(d.reasoning))

\* A variant of PartitionDetail that leaves the cached tokens in the prompt.
PartitionPrompt(protocol, d) ==
    LET kinds == [Split(protocol, d) EXCEPT !["input"] = Positive(d.input)]
    IN  IF Consistent(protocol, d)
        THEN [kinds |-> kinds,
              total |-> IF d.total > 0 THEN d.total ELSE Classified(kinds)]
        ELSE [kinds |-> Nothing,
              total |-> IF d.total > 0 THEN d.total ELSE Implied(d)]

\* partitionDetail: the split, or every token unclassified.
PartitionDetail(protocol, d) ==
    IF Consistent(protocol, d)
    THEN [kinds |-> Split(protocol, d),
          total |-> IF d.total > 0 THEN d.total
                    ELSE Classified(Split(protocol, d))]
    ELSE [kinds |-> Nothing,
          total |-> IF d.total > 0 THEN d.total ELSE Implied(d)]

\* eventOf: upstream's own breakdown when it is valid, else the raw detail.
EventOf(report) ==
    IF report.breakdown # NoBreakdown THEN report.breakdown
    ELSE PartitionDetail(report.protocol, report.detail)

\* A price without a cache-write rate bills written tokens as input.
CacheWriteRate(price) ==
    IF price.cacheWrite = 0 THEN price.input ELSE price.cacheWrite

\* What the tokens of each kind come to, at their own rates.
Cost(kinds, price) ==
    kinds["input"] * price.input
    + (kinds["output"] + kinds["reasoning"]) * price.output
    + kinds["cacheRead"] * price.cacheRead
    + kinds["cacheWrite"] * CacheWriteRate(price)

\* PriceUsage: without a price no token is priced, and with one the tokens
\* beyond the kinds are not.
PriceUsage(event, price) ==
    LET classified == Classified(event.kinds)
    IN  IF price = NoPrice
        THEN [usd |-> 0, priced |-> 0,
              unpriced |-> Positive(event.total - classified) + classified]
        ELSE [usd |-> Cost(event.kinds, price), priced |-> classified,
              unpriced |-> Positive(event.total - classified)]

-----------------------------------------------------------------------------
(* The reference: the kinds there really were, and how a vendor reports    *)
(* them.                                                                   *)

\* A vendor's truthful report of `kinds', with or without a total, its cache
\* in the counts made for it or, if it wrote none, in the legacy count.
Truthful(protocol, kinds, totals, legacy) ==
    [input |-> kinds["input"]
               + (IF CacheInInput(protocol)
                  THEN kinds["cacheRead"] + kinds["cacheWrite"] ELSE 0),
     output |-> kinds["output"]
                + (IF ReasoningInOutput(protocol)
                   THEN kinds["reasoning"] ELSE 0),
     reasoning |-> kinds["reasoning"],
     cacheRead |-> IF legacy /\ kinds["cacheWrite"] = 0
                   THEN 0 ELSE kinds["cacheRead"],
     cacheWrite |-> kinds["cacheWrite"],
     cached |-> IF kinds["cacheRead"] > 0 THEN kinds["cacheRead"]
                ELSE kinds["cacheWrite"],
     total |-> IF totals THEN Classified(kinds) ELSE 0]

\* A report is a raw detail, true of the kinds in `truth' or of none, or
\* upstream's valid breakdown, which leaves a rest of the total unclassified.
IsReport(report) ==
    /\ report.protocol \in Protocols
    /\ \/ /\ report.breakdown = NoBreakdown
          /\ report.detail \in Detail
          /\ \/ report.truth = Unknown
             \/ /\ report.truth \in [Kinds -> Nat]
                /\ Known(report.protocol)
                /\ \E totals, legacy \in BOOLEAN :
                      report.detail = Truthful(report.protocol, report.truth,
                                               totals, legacy)
       \/ /\ report.breakdown # NoBreakdown
          /\ report.breakdown \in [kinds : [Kinds -> Nat], total : Nat]
          /\ Classified(report.breakdown.kinds) <= report.breakdown.total
          /\ report.truth = Unknown

\* No token is priced twice and none is left out; what is priced of a request
\* whose vendor told the truth is what its tokens cost; and of an unknown
\* protocol nothing is.
PricedOnce(report, price) ==
    LET event == EventOf(report)
        cost == PriceUsage(event, price)
    IN  /\ cost.priced + cost.unpriced = event.total
        /\ price # NoPrice /\ report.truth # Unknown =>
              /\ cost.usd = Cost(report.truth, price)
              /\ cost.unpriced = 0
        /\ report.breakdown = NoBreakdown /\ ~ Known(report.protocol) =>
              cost.usd = 0
=============================================================================
