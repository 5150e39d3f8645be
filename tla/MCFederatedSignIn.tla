------------------------- MODULE MCFederatedSignIn -------------------------
(* A small instance of FederatedSignIn for TLC.                            *)
EXTENDS FederatedSignIn, TLC

CONSTANTS a1, a2, s1, s2, e1, e2, p1, p2, l1, l2

ProcSymmetry ==
    {f @@ g @@ h : f \in Permutations(Procs), g \in Permutations(Logins),
                   h \in Permutations(AdminIds)}

\* Nobody has the bootstrap address but s2, who may also show the address
\* s1 has.
MCEmailsOf == (s1 :> {e2}) @@ (s2 :> {e1, e2})

\* The address of the first administrator, none, or one that changed to
\* that of people administrators create.
MCConfigs ==
    {[email |-> e1, mapping |-> TRUE, signUp |-> TRUE],
     [email |-> NoEmail, mapping |-> FALSE, signUp |-> TRUE],
     [email |-> e2, mapping |-> TRUE, signUp |-> FALSE]}

Keep == [role |-> "keep", status |-> "keep", policy |-> "keep",
         name |-> "keep"]

MCChanges ==
    {[Keep EXCEPT !.role = "user"], [Keep EXCEPT !.role = "admin"],
     [Keep EXCEPT !.status = "blocked"],
     [Keep EXCEPT !.policy = "p1", !.name = "set"]}

MCNewUsers ==
    {[kind |-> "human", role |-> "admin", email |-> e2, signIn |-> "oidc",
      policy |-> "p1"],
     [kind |-> "human", role |-> "admin", email |-> e2,
      signIn |-> "password", policy |-> "p1"],
     [kind |-> "service", role |-> "user", email |-> NoEmail,
      signIn |-> "oidc", policy |-> "p1"]}

=============================================================================
