------------------------------- MODULE MCGate -------------------------------
(***************************************************************************)
(* A small instance of Gate for TLC.  "A(t)" is "a" in upper case and with *)
(* a thinking suffix, and "dd" is "b" as it is shown to Anthropic clients. *)
(* "a" is served by two providers and its full name by one, or it is only  *)
(* served by its full name.                                                *)
(***************************************************************************)
EXTENDS Gate

MCNames == {"a", "b", "A", "a(t)", "A(t)", "auto", "dd"}

MCBase == [n \in MCNames |-> CASE n = "a(t)" -> "a" [] n = "A(t)" -> "A"
                               [] OTHER -> n]
MCLower == [n \in MCNames |-> CASE n = "A" -> "a" [] n = "A(t)" -> "a(t)"
                                [] OTHER -> n]
MCUncloaked == [n \in MCNames |-> IF n = "dd" THEN "b" ELSE n]

MCPolicyProvider == [k \in {"codex", "claude"} |->
                        IF k = "codex" THEN "chatgpt" ELSE k]

\* Everything of one provider, and one model on all of them.
MCPolicies == {{[provider |-> "chatgpt", models |-> MCNames]},
               {[provider |-> "*", models |-> {"a"}]}}

Registry(a, at, b) ==
    [n \in MCNames |-> CASE n = "a" -> a [] n = "A(t)" -> at
                         [] n = "b" -> b [] OTHER -> {}]

MCRegistries == {Registry({"codex", "claude"}, {"codex"}, {}),
                 Registry({}, {"codex"}, {"codex"})}

\* Where it reads a name at all, an image route reads it as others do.
MCRoutes == {[kind |-> "model", source |-> "claude", decodes |-> FALSE],
             [kind |-> "model", source |-> "image", decodes |-> TRUE]}
            \cup [kind : {"listing"}, source : {"claude"},
                  decodes : {FALSE}]
            \cup [kind : {"public", "denied"}, source : {"body"},
                  decodes : {FALSE}]

MCBodies == {<<>>, <<"A(t)">>, <<"auto">>, <<"dd">>, <<"a", "b">>}

\* Calls, keys and owners are alike.
Symmetry == Permutations(Calls) \cup Permutations(TokenIds)
            \cup Permutations(Owners)
=============================================================================
