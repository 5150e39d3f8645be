------------------------------ MODULE MCPrices ------------------------------
(* A small instance of Prices for TLC.                                     *)
EXTENDS Prices, TLC

MCKeys == Providers \X Models
MCSections == << <<"anthropic", "claude">>, <<"openai-codex", "chatgpt">>,
                 <<"openai", "chatgpt">> >>

Row(a, b, c) == <<[m \in Models |-> a], [m \in Models |-> b],
                  [m \in Models |-> c]>>

\* The two catalogs use the same tags for different documents; one serves a
\* document that prices everything at zero, one a document without prices,
\* and one repeats its rates under a new tag.
MCDocOf ==
    (<<"u1", "t1">> :> Row(1, NoPrice, 2)) @@
    (<<"u1", "t2">> :> Row(1, 1, 2)) @@
    (<<"u1", "t3">> :> Row(0, 0, NoPrice)) @@
    (<<"u2", "t1">> :> Row(2, 2, NoPrice)) @@
    (<<"u2", "t2">> :> Row(2, 2, 1)) @@
    (<<"u2", "t3">> :> Row(NoPrice, NoPrice, NoPrice))

MCOverrides ==
    {Empty, [Empty EXCEPT ![<<"claude", "m">>] = 0],
     [k \in Keys |-> 3]}

=============================================================================
