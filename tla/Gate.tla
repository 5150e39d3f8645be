-------------------------------- MODULE Gate --------------------------------
(***************************************************************************)
(* The policy gate of the proxied listener (internal/infra/gateway/        *)
(* policy_gate.go, with routes.go, access_provider.go, model_extract.go,   *)
(* catalog.go, listing.go, app/principal.go and domain/access/policy.go),  *)
(* composed with the keys it authenticates (Tokens).  A request is         *)
(* classified, authenticated in two reads, receives its body, is decided   *)
(* on, passes the spend step and is routed by upstream; a listing is       *)
(* written by upstream, held back and filtered.  Between any two of these  *)
(* steps keys are revoked, owners blocked, policies changed and accounts   *)
(* registered.  The body budget and the spend limits have modules of their *)
(* own (BodyBudget, SpendLimits); here each of them only refuses or lets   *)
(* pass.                                                                   *)
(***************************************************************************)
EXTENDS Tokens, Sequences, SequencesExt

CONSTANTS
    Requests,         \* requests in flight at a time
    Names,            \* model names, as requests and registrations write them
    AutoName,         \* the name "auto"
    DefaultImageModel,
    Base,             \* thinkingBase, trimmed: a name without its (suffix)
    Lower,            \* strings.ToLower
    Uncloaked,        \* decodeClaudeModelID
    Keys,             \* upstream's provider keys
    PolicyProvider,   \* the name policies give a provider key
    Policies,         \* the policies an owner may be given: sets of rules
    Registries,       \* the registrations upstream may hold
    Routes,           \* classified routes
    Bodies            \* bodies: the values of their "model" keys, in order

ASSUME GateAssumption ==
    /\ AutoName \in Names /\ DefaultImageModel \in Names
    /\ Base \in [Names -> Names]
    /\ Lower \in [Names -> Names]
    /\ Uncloaked \in [Names -> Names]
    /\ Registries \subseteq [Names -> SUBSET Keys]
    /\ Bodies \subseteq Seq(Names)

VARIABLES
    active,     \* owners whose account may use the API
    policy,     \* users.policy
    registry,   \* upstream's model registry: the keys serving each name
    request,    \* the requests in flight
    since       \* (ghost) what was true at some instant since a request came

gateVars == <<active, policy, registry, request, since>>
vars == <<tokenVars, gateVars>>

IdleRequest ==
    [step |-> "idle", route |-> None, candidates |-> <<>>, token |-> None,
     grant |-> {}, body |-> <<>>, model |-> None, could |-> {},
     list |-> {}, key |-> None, routed |-> None, served |-> None]

NoInstant == [live |-> {}, active |-> {}, policies |-> [o \in Owners |-> {}]]

\* A request remembers, for the property only, what upstream `could' have
\* chosen at the instant the gate admitted it, or an entry of its listing: the
\* model and the key of the provider.
Request ==
    [step : {"idle", "token", "owner", "body", "decide", "spend", "route",
             "served", "list", "filter", "listed"},
     route : Routes \cup {None}, candidates : Seq(TokenIds \cup {None}),
     token : TokenIds \cup {None}, grant : Policies \cup {{}},
     body : Seq(Names), model : Names \cup {None},
     could : SUBSET (Names \X Keys), list : SUBSET Names,
     key : Keys \cup {None}, routed : Names \cup {None},
     served : Names \cup {None}]

Instants == [live : SUBSET TokenIds, active : SUBSET Owners,
             policies : [Owners -> SUBSET Policies]]

TypeOK ==
    /\ TokensTypeOK
    /\ active \subseteq Owners
    /\ policy \in [Owners -> Policies]
    /\ registry \in Registries
    /\ request \in [Requests -> Request]
    /\ since \in [Requests -> Instants]

Init ==
    /\ TokensInit
    /\ active = Owners
    /\ policy \in [Owners -> Policies]
    /\ registry \in Registries
    /\ request = [r \in Requests |-> IdleRequest]
    /\ since = [r \in Requests |-> NoInstant]

-----------------------------------------------------------------------------
(* The policy and the catalogue.                                           *)

\* Rule.matches: a rule names one provider or all of them ("*"), and its
\* glob stands for the lower-cased names it matches.
Allows(p, provider, model) ==
    \E rule \in p : /\ rule.provider \in {"*", provider}
                    /\ Lower[model] \in rule.models

\* Catalog.ProvidersFor: the keys serving a name, looked up as it is and then
\* in lower case.
ProviderKeys(model) ==
    IF registry[model] # {} THEN registry[model] ELSE registry[Lower[model]]

ProvidersFor(model) == {PolicyProvider[k] : k \in ProviderKeys(model)}

\* A variant of Routed that looks the full name up first.
RoutedFullFirst(requested) ==
    IF AutoName \in {requested, Base[requested]} THEN None
    ELSE IF ProviderKeys(requested) # {} THEN requested ELSE Base[requested]

\* access.Routed: the registered model a request is routed by, if any.  The
\* name without its thinking suffix comes first; "auto" is never resolved.
Routed(requested) ==
    IF AutoName \in {requested, Base[requested]} THEN None
    ELSE IF ProviderKeys(Base[requested]) # {} THEN Base[requested]
    ELSE requested

\* Policy.Covers on the providers Routed found: every provider serving the
\* model is allowed, and there is one.
Covers(p, model) ==
    /\ model # None
    /\ ProvidersFor(model) # {}
    /\ \A provider \in ProvidersFor(model) : Allows(p, provider, model)

Admits(p, requested) == Covers(p, Routed(requested))

\* route.model: the one model the request names, as the route's handler reads
\* it; None refuses the request.
RequestedModel(source, body) ==
    IF Len(body) > 1 THEN None
    ELSE IF body = <<>> THEN IF source = "image" THEN DefaultImageModel ELSE None
    ELSE IF source = "claude" THEN Uncloaked[Head(body)] ELSE Head(body)

\* The name an entry of a listing stands for, in the format of the client.
ListedModel(source, entry) ==
    IF source = "claude" THEN Uncloaked[entry] ELSE entry

-----------------------------------------------------------------------------
(* External: upstream's own reading of a request, which starts from the    *)
(* body as it was sent and knows nothing of what the gate made of it.      *)

\* The name a handler routes by: that of the first "model" key, given back its
\* real name on an Anthropic route; an image route has a default.
UpstreamName(source, body) ==
    IF body = <<>> THEN DefaultImageModel
    ELSE IF source = "claude" THEN Uncloaked[body[1]] ELSE body[1]

\* GetProviderName: whoever is registered for the name, or else for the name
\* in lower case.
UpstreamKeys(name) ==
    registry[IF registry[name] = {} THEN Lower[name] ELSE name]

\* getRequestDetails and the choice of a credential: "auto" is any model that
\* is served; another name is tried without its thinking suffix, then in full.
UpstreamChoices(source, body) ==
    LET name == UpstreamName(source, body)
        tried == IF name = AutoName \/ Base[name] = AutoName THEN Names
                 ELSE {m \in {Base[name], name} :
                          m = Base[name] \/ UpstreamKeys(Base[name]) = {}}
    IN  {c \in tried \X Keys : c[2] \in UpstreamKeys(c[1])}

-----------------------------------------------------------------------------
(* Receiving and authenticating.                                           *)

At(r, step) == request[r].step = step

To(r, step) == request' = [request EXCEPT ![r].step = step]

\* The request is answered, and gone.
Answered(r) ==
    /\ request' = [request EXCEPT ![r] = IdleRequest]
    /\ since' = [since EXCEPT ![r] = NoInstant]

\* policyGate up to authenticate: a denied route (404), a body encoded for a
\* handler that does not decode it (415), the public route, and a request that
\* presents no credential (401) end here and touch nothing.
Accepted(route, encoded, candidates) ==
    /\ route.kind \in {"listing", "model"}
    /\ encoded => route.kind = "model" /\ route.decodes
    /\ candidates # <<>>

\* credentialCandidates: the secrets presented, in order, none twice.  Only a
\* secret that was returned can be presented; any other resolves to nothing.
Receive(r, route, encoded, candidates) ==
    /\ At(r, "idle")
    /\ Accepted(route, encoded, candidates)
    /\ request' = [request EXCEPT ![r] =
          [IdleRequest EXCEPT !.step = "token", !.route = route,
                              !.candidates = candidates]]
    /\ since' = [since EXCEPT ![r] =
          [live |-> {t \in TokenIds : t \in ToSet(candidates) /\ Active(t)},
           active |-> active,
           policies |-> [o \in Owners |-> {policy[o]}]]]
    /\ UNCHANGED <<tokenVars, active, policy, registry>>

\* authenticate goes on with the next candidate, or answers 401.
NextCandidate(r) ==
    IF Len(request[r].candidates) = 1
       THEN Answered(r)
       ELSE /\ request' = [request EXCEPT ![r].step = "token", ![r].token = None,
                                          ![r].candidates = Tail(@)]
            /\ UNCHANGED since

\* Resolve, the first read: ByHash and Token.Active.
ReadToken(r) ==
    /\ At(r, "token")
    /\ LET t == Head(request[r].candidates)
       IN  IF t \in TokenIds /\ Active(t)
              THEN /\ request' = [request EXCEPT ![r].step = "owner",
                                                 ![r].token = t]
                   /\ UNCHANGED since
              ELSE NextCandidate(r)
    /\ UNCHANGED <<tokenVars, active, policy, registry>>

Authenticated(r) ==
    request' = [request EXCEPT
        ![r].step = IF request[r].route.kind = "listing" THEN "list" ELSE "body",
        ![r].candidates = <<>>,
        ![r].grant = policy[row[request[r].token].owner]]

\* A variant of ReadOwner that takes the policy without asking CanUseAPI.
ReadOwnerAnyStatus(r) ==
    /\ At(r, "owner")
    /\ Authenticated(r)
    /\ UNCHANGED <<tokenVars, active, policy, registry, since>>

\* Resolve, the second read: users.ByID and CanUseAPI.  The grant is what
\* this read saw, and the request keeps it to its end.
ReadOwner(r) ==
    /\ At(r, "owner")
    /\ IF row[request[r].token].owner \in active
          THEN Authenticated(r) /\ UNCHANGED since
          ELSE NextCandidate(r)
    /\ UNCHANGED <<tokenVars, active, policy, registry>>

\* A lookup that fails is no refusal: 500, whatever candidates are left.
LookupFails(r) ==
    /\ request[r].step \in {"token", "owner"}
    /\ Answered(r)
    /\ UNCHANGED <<tokenVars, active, policy, registry>>

-----------------------------------------------------------------------------
(* A model route.                                                          *)

\* receiveBody and the model source: the body waits for its budget and for
\* the client.  RefuseBody is every way of not getting one (BodyBudget).
ReceiveBody(r, body) ==
    /\ At(r, "body")
    /\ LET model == RequestedModel(request[r].route.source, body)
       IN  IF model = None
              THEN Answered(r)
              ELSE /\ request' = [request EXCEPT ![r].step = "decide",
                                      ![r].body = body, ![r].model = model]
                   /\ UNCHANGED since
    /\ UNCHANGED <<tokenVars, active, policy, registry>>

RefuseBody(r) ==
    /\ At(r, "body")
    /\ Answered(r)
    /\ UNCHANGED <<tokenVars, active, policy, registry>>

\* The policy step, on the grant of the request and the catalogue of now.
Decide(r) ==
    /\ At(r, "decide")
    /\ IF Admits(request[r].grant, request[r].model)
          THEN /\ request' = [request EXCEPT ![r].step = "spend",
                     ![r].could = UpstreamChoices(request[r].route.source,
                                                  request[r].body)]
               /\ UNCHANGED since
          ELSE Answered(r)
    /\ UNCHANGED <<tokenVars, active, policy, registry>>

\* admitSpend, which SpendLimits models: no limits in force, or the window is
\* open (403 unpriced, 429 blocked and 500 failed are answers).
AdmitSpend(r) ==
    /\ At(r, "spend")
    /\ To(r, "route") /\ UNCHANGED since
    /\ UNCHANGED <<tokenVars, active, policy, registry>>

RefuseSpend(r) ==
    /\ At(r, "spend")
    /\ Answered(r)
    /\ UNCHANGED <<tokenVars, active, policy, registry>>

\* External: upstream accepts the principal of the gate (AccessProvider
\* .Authenticate), routes the request by what is registered now, and rewrites
\* the first "model" of the body; the vendor may read the last one.
UpstreamRoutes(r) ==
    /\ At(r, "route")
    /\ LET body == request[r].body
           choices == UpstreamChoices(request[r].route.source, body)
       IN  \/ choices = {} /\ Answered(r)
           \/ \E c \in choices :
                 /\ request' = [request EXCEPT ![r].step = "served",
                        ![r].route = None, ![r].routed = c[1], ![r].key = c[2],
                        ![r].served = IF Len(body) > 1 THEN Last(body)
                                      ELSE c[1]]
                 /\ UNCHANGED since
    /\ UNCHANGED <<tokenVars, active, policy, registry>>

-----------------------------------------------------------------------------
(* A listing route.                                                        *)

\* External: upstream's handler writes the models served now, each by the one
\* name the client's format gives it (a cloaked model only by that name); the
\* gate holds the response back.
UpstreamLists(r) ==
    /\ At(r, "list")
    /\ LET Listed(m) == ListedModel(request[r].route.source, m)
       IN  request' = [request EXCEPT ![r].step = "filter",
              ![r].list = {m \in Names : /\ registry[Listed(m)] # {}
                                         /\ \A n \in Names \ {m} : Listed(n) # m}]
    /\ UNCHANGED <<tokenVars, active, policy, registry, since>>

\* The response cannot be held, decoded or read as a list: 502.
ListingFails(r) ==
    /\ At(r, "filter")
    /\ Answered(r)
    /\ UNCHANGED <<tokenVars, active, policy, registry>>

\* filterArray asks listingFilter for every entry, each at its own instant.
\* An owner with limits also loses the unpriced ones.
FilterEntry(r, m, priced) ==
    /\ At(r, "filter")
    /\ m \in request[r].list
    /\ LET source == request[r].route.source
       IN  request' = [request EXCEPT ![r].list = @ \ {m},
              ![r].could =
                 IF Admits(request[r].grant, ListedModel(source, m)) /\ priced
                 THEN @ \cup UpstreamChoices(source, <<m>>) ELSE @]
    /\ UNCHANGED <<tokenVars, active, policy, registry, since>>

SendListing(r) ==
    /\ At(r, "filter")
    /\ request[r].list = {}
    /\ To(r, "listed")
    /\ UNCHANGED <<tokenVars, active, policy, registry, since>>

\* The handler has returned.
Finish(r) ==
    /\ request[r].step \in {"served", "listed"}
    /\ Answered(r)
    /\ UNCHANGED <<tokenVars, active, policy, registry>>

-----------------------------------------------------------------------------
(* What changes under the requests.                                        *)

\* users.UpdateAdminState: an administrator blocks or unblocks an account and
\* gives it a policy.
UpdateAdminState(o, on, p) ==
    /\ Event
    /\ <<on, p>> # <<o \in active, policy[o]>>
    /\ active' = IF on THEN active \cup {o} ELSE active \ {o}
    /\ policy' = [policy EXCEPT ![o] = p]
    /\ since' = [r \in Requests |->
          IF At(r, "idle") THEN since[r]
          ELSE [since[r] EXCEPT !.active = @ \cup active',
                                !.policies[o] = @ \cup {p}]]
    /\ UNCHANGED <<row, ownerLock, call, audit, warned, returned, severed,
                   registry, request>>

\* External: an account is registered, suspended or withdrawn.
Register(new) ==
    /\ Event
    /\ registry' = new
    /\ registry' # registry
    /\ UNCHANGED <<row, ownerLock, call, audit, warned, returned, severed,
                   active, policy, request, since>>

\* The process ends with every call and every request in it.
Crash ==
    /\ EndCalls
    /\ request' = [r \in Requests |-> IdleRequest]
    /\ since' = [r \in Requests |-> NoInstant]
    /\ UNCHANGED <<active, policy, registry>>

-----------------------------------------------------------------------------
\* The secrets a request may present, at most two: returned ones, and None for
\* a value that is the secret of no key (which, last, only adds a refusal).
Presented == {<<>>} \cup {<<s>> : s \in returned \cup {None}}
             \cup {cs \in (returned \cup {None}) \X returned : cs[1] # cs[2]}

Next ==
    \/ \E c \in Calls, actor \in Owners \cup {Admin} :
          \/ \E o \in Owners, t \in TokenIds :
                Issue(c, actor, o, t) /\ UNCHANGED gateVars
          \/ \E t \in TokenIds : Revoke(c, actor, t) /\ UNCHANGED gateVars
    \/ \E c \in Calls :
          \/ LockOwner(c) /\ UNCHANGED gateVars
          \/ CountLive(c) /\ UNCHANGED gateVars
          \/ InsertToken(c) /\ UNCHANGED gateVars
          \/ CreateFails(c) /\ UNCHANGED gateVars
          \/ RecordIssue(c) /\ UNCHANGED gateVars
          \/ RecordIssueFails(c) /\ UNCHANGED gateVars
          \/ Retract(c) /\ UNCHANGED gateVars
          \/ RetractFails(c) /\ UNCHANGED gateVars
          \/ SaveRevoked(c) /\ UNCHANGED gateVars
          \/ SaveRevokedFails(c) /\ UNCHANGED gateVars
          \/ RecordRevoke(c) /\ UNCHANGED gateVars
          \/ RecordRevokeFails(c) /\ UNCHANGED gateVars
    \/ Crash
    \/ \E r \in Requests :
          \/ \E route \in Routes, encoded \in BOOLEAN, cs \in Presented :
                Receive(r, route, encoded, cs)
          \/ ReadToken(r) \/ ReadOwner(r) \/ LookupFails(r)
          \/ \E body \in Bodies : ReceiveBody(r, body)
          \/ RefuseBody(r) \/ Decide(r) \/ AdmitSpend(r) \/ RefuseSpend(r)
          \/ UpstreamRoutes(r)
          \/ UpstreamLists(r) \/ ListingFails(r)
          \/ \E m \in Names, priced \in BOOLEAN : FilterEntry(r, m, priced)
          \/ SendListing(r) \/ Finish(r)
    \/ \E o \in Owners, on \in BOOLEAN, p \in Policies : UpdateAdminState(o, on, p)
    \/ \E new \in Registries : Register(new)

Spec == Init /\ [][Next]_vars

-----------------------------------------------------------------------------
\* What a request acted on was true after it came: its key was not revoked
\* before it arrived, its key's owner was active at some instant since, and
\* its grant is a policy the owner of that very key held at some instant
\* since (TokenResolver.Resolve, whose two reads are apart).
AuthenticatedInTime ==
    \A r \in Requests :
        request[r].step \in {"body", "decide", "spend", "route", "served",
                             "list", "filter", "listed"} =>
            LET o == row[request[r].token].owner
            IN  /\ request[r].token \in since[r].live
                /\ o \in since[r].active
                /\ request[r].grant \in since[r].policies[o]

\* Whatever upstream could make of a request at the instant the gate admits
\* it, or of a name a listing shows at the instant it is kept, is allowed by
\* the request's grant: the gate reads the name, drops its suffix, folds its
\* case and resolves it to the model and the providers upstream arrives at by
\* itself.  What a vendor then serves is allowed on the provider upstream
\* chose, unless the registry has changed in between so that upstream chose
\* what it could not have chosen when the gate looked (policyGate, Routed,
\* Policy.Covers, repeatsModelKey).
StaysInPolicy ==
    \A r \in Requests :
        LET Allowed(key, model) ==
                Allows(request[r].grant, PolicyProvider[key], model)
        IN  /\ \A c \in request[r].could : Allowed(c[2], c[1])
            /\ At(r, "served") =>
                  \/ Allowed(request[r].key, request[r].served)
                  \/ <<request[r].routed, request[r].key>>
                        \notin request[r].could
=============================================================================
