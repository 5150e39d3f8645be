----------------------------- MODULE MCUsageSink -----------------------------
(* A small instance of UsageSink for TLC.                                  *)
EXTENDS UsageSink

\* Responses do not complete in the order their requests are delivered in.
MCCompleted == [r \in 1 .. MaxRecords |-> IF r % 2 = 0 THEN r ELSE r + 2]

\* Requests with and without reasoning, cache reads and cache writes.
Truths == {[k \in Kinds |-> CASE k = "input" -> 1 [] k = "output" -> 2
                              [] k = "reasoning" -> r
                              [] k = "cacheRead" -> c[1]
                              [] k = "cacheWrite" -> c[2]] :
              r \in {0, 3}, c \in {<<0, 0>>, <<4, 0>>, <<0, 5>>, <<4, 5>>}}

Raw(protocol, detail, truth) ==
    [protocol |-> protocol, detail |-> detail, truth |-> truth,
     breakdown |-> NoBreakdown]

TrueReports(protocol) ==
    {Raw(protocol, Truthful(protocol, t, totals, legacy), t) :
        t \in Truths, totals \in BOOLEAN, legacy \in BOOLEAN}

\* Counts that contradict each other, are negative, or miss a part.
OddDetails ==
    [input : {-1, 2}, output : {2}, reasoning : {0, 3}, cacheRead : {0, 3},
     cacheWrite : {0}, cached : {0, 4}, total : {-1, 3, 9}]

Broken == {[protocol |-> "openai", detail |-> Unknown, truth |-> Unknown,
            breakdown |-> [kinds |-> t, total |-> Classified(t) + rest]] :
              t \in Truths, rest \in {0, 2}}

\* One protocol a record: its true reports, and the last two any others.
MCReports ==
    [x \in 1 .. MaxRecords |->
        CASE x = 1 -> TrueReports("openai")
          [] x = 2 -> TrueReports("gemini")
          [] x = 3 -> TrueReports("claude")
          [] x = 4 -> Broken \cup {Raw("other", d, Unknown) : d \in OddDetails}
          [] OTHER -> {Raw(p, d, Unknown) :
                         p \in {"openai", "gemini", "claude"},
                         d \in OddDetails}]

MCPrices == {NoPrice,
             [input |-> 2, output |-> 7, cacheRead |-> 1, cacheWrite |-> 3],
             [input |-> 2, output |-> 7, cacheRead |-> 1, cacheWrite |-> 0]}

=============================================================================
