------------------------------ MODULE Shutdown ------------------------------
(***************************************************************************)
(* The stop of the process: serve (internal/boot/boot.go), the gateway's   *)
(* Shutdown (internal/infra/gateway/service.go) and its requestDrain       *)
(* (drain.go), with the proxied requests in flight, the web and metrics    *)
(* listeners, the price catalog's checks and the usage sink.               *)
(*                                                                         *)
(* Time is the order of events: a deadline may pass at any moment from the *)
(* start of the stop on.  The embedded service is external: Run builds it, *)
(* then listens, then hands over its reload callback (g.ready), and its    *)
(* stop closes every connection at once.  So is net/http: a listener's     *)
(* Shutdown waits for its handlers, its Close does not.                    *)
(***************************************************************************)
EXTENDS Integers, FiniteSets

CONSTANTS
    Proxied,     \* proxied requests, each made once
    Listeners    \* the metrics and the web listener

ASSUME ProxiedAssumption == IsFiniteSet(Proxied)

VARIABLES
    proxied,    \* where each proxied request is
    inFlight,   \* requestDrain.inFlight
    idle,       \* requestDrain.idle: "nil", "open", "closed"
    svc,        \* the embedded service; "returned" once Run has
    ready,      \* g.ready: the reload callback is there
    runErr,     \* what Run returned, once svc is "returned"; "quit" is a nil
                \* though nothing had stopped it
    listener,   \* the other listeners; "forced" was closed under its handlers
    handling,   \* the other listeners with a request in a handler
    catalog,    \* RunCatalog
    sink,       \* the usage sink
    main,       \* where serve is
    grace,      \* whether drainGrace is over
    drained,    \* what requestDrain.wait returned
    cause,      \* whether serve has an error to return
    cut         \* requests whose connection the stop closed in the chain

stopVars == <<proxied, inFlight, idle, svc, ready, runErr, listener, handling,
              catalog, sink, main, grace, drained, cause, cut>>

(***************************************************************************)
(* A request "arrived" has reached the server, not yet the drain's         *)
(* middleware; "in" is in the handler chain; "out" has returned from it,   *)
(* its last bytes not written yet.                                         *)
(***************************************************************************)
ReqState == {"none", "arrived", "in", "out", "done", "refused"}
SvcState == {"new", "building", "listening", "stopped", "returned"}
ListenerState == {"up", "failed", "closing", "down", "forced"}
MainPC == {"bind", "serving", "wait_reload", "wait_idle", "settle",
           "stop_service", "cancel_run", "wait_run", "wait_rest", "sink",
           "exit"}

StopTypeOK ==
    /\ proxied \in [Proxied -> ReqState]
    /\ inFlight \in Nat
    /\ idle \in {"nil", "open", "closed", "panic"}
    /\ svc \in SvcState
    /\ ready \in BOOLEAN
    /\ runErr \in {"nil", "error", "quit"}
    /\ listener \in [Listeners -> ListenerState]
    /\ handling \subseteq Listeners
    /\ catalog \in {"off", "running", "cancelled", "done"}
    /\ sink \in {"open", "draining"}
    /\ main \in MainPC
    /\ grace \in BOOLEAN
    /\ drained \in {"nil", "error"}
    /\ cause \in BOOLEAN
    /\ cut \subseteq Proxied

StopInit ==
    /\ proxied = [r \in Proxied |-> "none"]
    /\ inFlight = 0 /\ idle = "nil"
    /\ svc = "new" /\ ready = FALSE /\ runErr = "nil"
    /\ listener = [l \in Listeners |-> "up"] /\ handling = {}
    /\ catalog = "off" /\ sink = "open"
    /\ main = "bind" /\ grace = FALSE
    /\ drained = "nil" /\ cause = FALSE /\ cut = {}

InChain == {r \in Proxied : proxied[r] = "in"}

-----------------------------------------------------------------------------
(* Proxied requests.                                                       *)

requests == <<proxied, inFlight, idle, cut>>
service == <<svc, ready, runErr>>
stages == <<listener, handling, catalog, sink, main, grace, drained, cause>>

Serving == svc = "listening"

Arrive(r) ==
    /\ proxied[r] = "none"
    /\ Serving
    /\ proxied' = [proxied EXCEPT ![r] = "arrived"]
    /\ UNCHANGED <<inFlight, idle, service, stages, cut>>

\* A variant of Enter that counts every request in.
EnterAlways(r) ==
    /\ proxied[r] = "arrived"
    /\ proxied' = [proxied EXCEPT ![r] = "in"]
    /\ inFlight' = inFlight + 1
    /\ UNCHANGED <<idle, service, stages, cut>>

\* track and enter: a request that comes once the drain has started is
\* refused.
Enter(r) ==
    /\ proxied[r] = "arrived"
    /\ IF idle # "nil"
       THEN /\ proxied' = [proxied EXCEPT ![r] = "refused"]
            /\ UNCHANGED inFlight
       ELSE /\ proxied' = [proxied EXCEPT ![r] = "in"]
            /\ inFlight' = inFlight + 1
    /\ UNCHANGED <<idle, service, stages, cut>>

\* close(d.idle): closing twice panics.
Closed(channel) == IF channel = "open" THEN "closed" ELSE "panic"

\* leave: the handler chain returned or panicked.
Leave(r) ==
    /\ proxied[r] = "in"
    /\ proxied' = [proxied EXCEPT ![r] = "out"]
    /\ inFlight' = inFlight - 1
    /\ idle' = IF inFlight - 1 = 0 /\ idle # "nil" THEN Closed(idle) ELSE idle
    /\ UNCHANGED <<service, stages, cut>>

\* net/http writes the last of the response.
Written(r) ==
    /\ proxied[r] = "out"
    /\ proxied' = [proxied EXCEPT ![r] = "done"]
    /\ UNCHANGED <<inFlight, idle, service, stages, cut>>

-----------------------------------------------------------------------------
(* The embedded service.                                                   *)

\* Run goes on starting: built, listening, its reload callback handed over.
Started ==
    /\ \/ svc = "building" /\ svc' = "listening" /\ UNCHANGED ready
       \/ svc = "listening" /\ ready' = TRUE /\ UNCHANGED svc
    /\ UNCHANGED <<requests, runErr, stages>>

\* Run ends by itself: starting or listening failed, or its server stopped
\* without saying why.
RunFails(err) ==
    /\ svc \in {"building", "listening"}
    /\ svc' = "returned"
    /\ runErr' = err
    /\ UNCHANGED <<requests, ready, stages>>

\* Run returns once its service is stopped.
RunReturns ==
    /\ svc = "stopped"
    /\ svc' = "returned"
    /\ runErr' \in {"nil", "error"}
    /\ UNCHANGED <<requests, ready, stages>>

\* The stop closes the listener and every connection; it runs once.
StopService ==
    IF svc \in {"stopped", "returned"}
    THEN UNCHANGED <<svc, cut>>
    ELSE svc' = "stopped" /\ cut' = cut \cup InChain

-----------------------------------------------------------------------------
(* serve.                                                                  *)

others == <<listener, handling, catalog, sink, grace, drained>>

\* The listeners are bound before anything is served.
Bind ==
    /\ main = "bind"
    /\ \/ main' = "serving" /\ svc' = "building" /\ catalog' = "running"
          /\ UNCHANGED cause
       \/ main' = "exit" /\ cause' = TRUE /\ UNCHANGED <<svc, catalog>>
    /\ UNCHANGED <<requests, ready, runErr, listener, handling, sink, grace,
                   drained>>

ListenerFails(l) ==
    /\ main = "serving"
    /\ listener[l] = "up"
    /\ listener' = [listener EXCEPT ![l] = "failed"]
    /\ UNCHANGED <<requests, service, handling, catalog, sink, main, grace,
                   drained, cause>>

\* A signal, a failed listener or the gateway's return ends the serving.
\* The catalog's checks are cancelled, the listeners shut down, and the
\* gateway is shut down unless it had returned.
Stop(gatewayReturned) ==
    /\ main = "serving"
    /\ catalog' = "cancelled"
    /\ listener' = [l \in Listeners |-> "closing"]
    /\ IF gatewayReturned
       THEN /\ svc = "returned"
            /\ main' = "wait_rest"
            /\ cause' = TRUE
       ELSE /\ main' = "wait_reload"
            /\ cause' \in {FALSE, \E l \in Listeners : listener[l] = "failed"}
    /\ UNCHANGED <<requests, service, handling, sink, grace, drained>>

\* A deadline of drainGrace from the stop on.
GraceEnds ==
    /\ main \in {"wait_reload", "wait_idle", "settle"}
    /\ ~ grace
    /\ grace' = TRUE
    /\ UNCHANGED <<requests, service, listener, handling, catalog, sink, main,
                   drained, cause>>

\* Shutdown waits for the reload callback: once there, it starts the drain,
\* which is over at once with no request in flight.  If Run has returned
\* before, there is nothing to shut down; if the grace is over, its error is
\* serve's and the service is left to the cancellation of Run's context.
WaitReload ==
    /\ main = "wait_reload"
    /\ \/ /\ ready
          /\ main' = "wait_idle"
          /\ idle' = IF idle # "nil" THEN idle
                     ELSE IF inFlight = 0 THEN "closed" ELSE "open"
          /\ UNCHANGED cause
       \/ /\ grace \/ (~ ready /\ svc = "returned")
          /\ main' = "cancel_run"
          /\ cause' = (cause \/ svc # "returned")
          /\ UNCHANGED idle
    /\ UNCHANGED <<proxied, inFlight, cut, service, others>>

\* A variant of WaitIdle that waits without a deadline.
WaitIdleForever ==
    /\ main = "wait_idle"
    /\ idle = "closed" /\ main' = "settle" /\ UNCHANGED drained
    /\ UNCHANGED <<requests, service, listener, handling, catalog, sink, grace,
                   cause>>

\* A variant of WaitIdle that forgets the deadline's error.
WaitIdleSilent ==
    /\ main = "wait_idle"
    /\ \/ idle = "closed" /\ main' = "settle"
       \/ grace /\ main' = "stop_service"
    /\ UNCHANGED <<requests, service, listener, handling, catalog, sink, grace,
                   drained, cause>>

\* wait: for the last request in flight ...
WaitIdle ==
    /\ main = "wait_idle"
    /\ \/ idle = "closed" /\ main' = "settle" /\ UNCHANGED drained
       \/ grace /\ main' = "stop_service" /\ drained' = "error"
    /\ UNCHANGED <<requests, service, listener, handling, catalog, sink, grace,
                   cause>>

\* ... and for its response to be written, drainSettle long.
Settle ==
    /\ main = "settle"
    /\ main' = "stop_service"
    /\ \/ UNCHANGED drained
       \/ grace /\ drained' = "error"
    /\ UNCHANGED <<requests, service, listener, handling, catalog, sink, grace,
                   cause>>

\* Upstream's Shutdown, which may fail; Shutdown returns either error.
ShutdownService ==
    /\ main = "stop_service"
    /\ StopService
    /\ main' = "cancel_run"
    /\ cause' \in {cause \/ drained = "error", TRUE}
    /\ UNCHANGED <<proxied, inFlight, idle, ready, runErr, others>>

\* stopGateway cancels Run's context, and serve waits for Run to return.
CancelRun ==
    /\ main = "cancel_run"
    /\ main' = "wait_run"
    /\ UNCHANGED <<requests, service, others, cause>>

\* A cancelled Run stops the service, unless it was.
RunCancelled ==
    /\ main = "wait_run"
    /\ svc \in {"building", "listening"}
    /\ StopService
    /\ UNCHANGED <<proxied, inFlight, idle, ready, runErr, stages>>

WaitRun ==
    /\ main = "wait_run"
    /\ svc = "returned"
    /\ main' = "wait_rest"
    /\ cause' = (cause \/ runErr = "error")
    /\ UNCHANGED <<requests, service, others>>

\* A request of a listener that still has connections reaches its handler ...
Begin(l) ==
    /\ main # "bind"
    /\ listener[l] \in {"up", "failed", "closing"}
    /\ l \notin handling
    /\ handling' = handling \cup {l}
    /\ UNCHANGED <<requests, service, listener, catalog, sink, main, grace,
                   drained, cause>>

\* ... and the handler returns, however late.
End(l) ==
    /\ l \in handling
    /\ handling' = handling \ {l}
    /\ UNCHANGED <<requests, service, listener, catalog, sink, main, grace,
                   drained, cause>>

\* Its Shutdown returns once no handler is running ...
ListenerDown(l) ==
    /\ listener[l] = "closing"
    /\ l \notin handling
    /\ listener' = [listener EXCEPT ![l] = "down"]
    /\ UNCHANGED <<requests, service, handling, catalog, sink, main, grace,
                   drained, cause>>

\* ... or listenerGrace is over: Close closes what connections there are and
\* waits for no handler.
ListenerForced(l) ==
    /\ listener[l] = "closing"
    /\ listener' = [listener EXCEPT ![l] = "forced"]
    /\ UNCHANGED <<requests, service, handling, catalog, sink, main, grace,
                   drained, cause>>

CatalogDone ==
    /\ catalog = "cancelled"
    /\ catalog' = "done"
    /\ UNCHANGED <<requests, service, listener, handling, sink, main, grace,
                   drained, cause>>

\* A variant of WaitRest that waits for the catalog's check alone.
WaitCatalog ==
    /\ main = "wait_rest"
    /\ catalog = "done"
    /\ main' = "sink"
    /\ sink' = "draining"
    /\ UNCHANGED <<requests, service, listener, handling, catalog, grace,
                   drained, cause>>

\* stopped.Wait() and <-catalogDone; then the sink's Drain.
WaitRest ==
    /\ main = "wait_rest"
    /\ \A l \in Listeners : listener[l] \in {"down", "forced"}
    /\ catalog = "done"
    /\ main' = "sink"
    /\ sink' = "draining"
    /\ UNCHANGED <<requests, service, listener, handling, catalog, grace,
                   drained, cause>>

\* Drain returned, in time or not; Run's caller closes the pool.
Exit ==
    /\ main = "sink"
    /\ main' = "exit"
    /\ UNCHANGED <<requests, service, others, cause>>

RequestStep(r) == Arrive(r) \/ Enter(r) \/ Leave(r) \/ Written(r)

\* What goes on by itself once the stop has begun: the stop's own steps, its
\* deadlines, and what it waits for without a deadline.
StopStep ==
    \/ GraceEnds \/ WaitReload \/ WaitIdle \/ Settle \/ ShutdownService
    \/ CancelRun \/ WaitRun \/ WaitRest \/ Exit
    \/ RunCancelled \/ RunReturns \/ CatalogDone
    \/ \E l \in Listeners : ListenerDown(l) \/ ListenerForced(l)

StopNext ==
    \/ \E r \in Proxied : RequestStep(r)
    \/ Started
    \/ \E err \in {"quit", "error"} : RunFails(err)
    \/ Bind
    \/ \E l \in Listeners : ListenerFails(l) \/ Begin(l) \/ End(l)
    \/ \E returned \in BOOLEAN : Stop(returned)
    \/ StopStep

StopSpec == StopInit /\ [][StopNext]_stopVars

(* Handlers and the service's start may take for ever; the process is       *)
(* scheduled, its timers fire, a stopped or cancelled Run returns, and so   *)
(* does a cancelled check.                                                  *)
StopFairSpec == StopSpec /\ WF_stopVars(StopStep)

-----------------------------------------------------------------------------
(* Properties.                                                             *)

\* The drain's channel is closed when, and only when, the drain has started
\* and no request is in the handler chain, and it is never closed twice:
\* neither a request that comes late nor one that leaves late reopens it.
IdleIsExact ==
    /\ idle # "panic"
    /\ inFlight = Cardinality(InChain)
    /\ (idle = "closed") <=> (idle # "nil" /\ InChain = {})

\* A request the stop cut short in the handler chain is reported: serve
\* returns an error, though the drain, the service's stop and Run each end
\* in their own way.
CutIsReported == (main = "exit" /\ cut # {}) => cause

\* When the sink drains and the pool closes under them, no price check is
\* running, a web or metrics handler is only if listenerGrace ran out on its
\* listener, and a proxied request is in the handler chain only if serve
\* returns an error (or Run had ended by itself and reported none): each stage
\* of the stop waited for what uses the database, or gave up aloud.
NothingOutlivesThePool ==
    (sink = "draining") =>
        /\ catalog = "done"
        /\ \A l \in handling : listener[l] = "forced"
        /\ InChain # {} => (cause \/ runErr = "quit")

\* A stop that has begun ends, though a handler never returns and the service
\* may still be starting.
StopEnds == (main = "wait_reload") ~> (main = "exit")

=============================================================================
