------------------------------- MODULE Server -------------------------------
(***************************************************************************)
(* The API process of apps/api/src/main.ts: the steps of start(), the      *)
(* hooks, handlers and error handler that a request passes, and the two    *)
(* signal handlers that close the server, the job queues and the database  *)
(* pool.  A signal may come at any time, also before the server listens    *)
(* and more than once.  buildApp of app.ts makes the same server for       *)
(* tests, without queues, pool check and signals.  Fastify, BullMQ and pg  *)
(* are modelled by what the code relies on: close() waits for the requests *)
(* in flight, shutdown() for the jobs, end() for the queries.              *)
(***************************************************************************)
EXTENDS Integers, Sequences

CONSTANTS
    Environments,     \* [production, password, secret, salt : BOOLEAN]
    HttpRequests,     \* identities of requests
    Inputs,           \* what a request may be: [route, size, type, fields]
    Deliveries,       \* signals that the process receives
    MaxServerJobs,    \* bound: jobs that the workers take
    PeersMayFail      \* Redis and PostgreSQL may fail

ASSUME ServerAssumption ==
    /\ MaxServerJobs \in Nat /\ PeersMayFail \in BOOLEAN
    /\ \A e \in Environments : e \in [{"production", "password", "secret", "salt"} -> BOOLEAN]

VARIABLES
    boot,         \* what start() awaits
    httpServer,   \* "new", "listening", "closing", "closed"
    jobQueues,    \* "none", "open", "closing", "shut"
    dbPool,       \* "open", "ending", "ended"
    stop,         \* the signal handlers in progress
    http,         \* the requests
    running,      \* [now, taken]: jobs that the workers process and have taken
    exitCode      \* Alive, or the code the process has ended with

serverVars == <<boot, httpServer, jobQueues, dbPool, stop, http, running, exitCode>>

Alive == -2

-----------------------------------------------------------------------------
(* Configuration and routes                                                 *)

validateConfig(e) == e.production => e.password /\ e.secret /\ e.salt

\* The hooks of every route, and those of the plugin that a route is in.
GlobalHooks == <<"size", "type", "sanitize">>

RouteHooks(route) ==
    CASE route \in {"health", "ready", "status", "unknown"} -> <<>>
      [] route \in {"auth", "api", "anchor"} -> <<"limit">>
      [] route = "usage" -> <<"key", "limit">>

\* The errors that hooks and handlers throw.
StatusOf ==
    [ValidationError |-> 400, AuthenticationError |-> 401, AuthorizationError |-> 403,
     NotFoundError |-> 404, ConflictError |-> 409, RateLimitError |-> 429, InternalError |-> 500]

errorHandler(error) ==
    CASE error = "ZodError" -> 400
      [] error \in DOMAIN StatusOf -> StatusOf[error]
      [] OTHER -> 500

-----------------------------------------------------------------------------
(* What the hooks look at                                                   *)

\* A field is [key, place, text]; the sanitizer does not enter arrays.
Entered(input) == {f \in input.fields : f.place # "array"}

detectSQLInjection(input) == \E f \in Entered(input) : f.text = "sql"

sanitizeString(f) == [f EXCEPT !.text = IF @ = "markup" THEN "plain" ELSE @]

\* Passwords, hashes and proofs are checked but not rewritten.
requestSanitizer(input) ==
    [input EXCEPT !.fields =
        {IF f \in Entered(input) /\ f.key # "special" THEN sanitizeString(f) ELSE f : f \in @}]

requestSizeLimiter(input) == input.size # "over 10 MB"

validateContentType(input) == input.type \in {"json", "no body"}

-----------------------------------------------------------------------------
NoRequest == [left |-> <<>>, status |-> 0, input |-> CHOOSE i \in Inputs : TRUE, begun |-> FALSE]

\* pool exists from the import on; the process begins at validateConfig.
ServerInit ==
    /\ boot \in {"config", "factory"}
    /\ httpServer = "new" /\ jobQueues = "none" /\ dbPool = "open"
    /\ stop = [d \in Deliveries |-> "none"]
    /\ http = [r \in HttpRequests |-> NoRequest]
    /\ running = [now |-> 0, taken |-> 0]
    /\ exitCode = Alive

\* process.exit
Exit(code) == exitCode' = code /\ UNCHANGED <<boot, httpServer, jobQueues, dbPool, stop, http, running>>

Configure ==
    /\ boot = "config"
    /\ \E e \in Environments :
        IF validateConfig(e)
        THEN boot' = "redis" /\ UNCHANGED <<httpServer, jobQueues, dbPool, stop, http, running, exitCode>>
        ELSE Exit(1)

connectRedis ==
    /\ boot = "redis"
    /\ boot' = "queues"
    /\ UNCHANGED <<httpServer, jobQueues, dbPool, stop, http, running, exitCode>>

\* queueManager.initialize
openQueues ==
    /\ boot = "queues"
    /\ boot' = "database" /\ jobQueues' = "open"
    /\ UNCHANGED <<httpServer, dbPool, stop, http, running, exitCode>>

testDatabase ==
    /\ boot = "database" /\ dbPool = "open"
    /\ boot' = "routes"
    /\ UNCHANGED <<httpServer, jobQueues, dbPool, stop, http, running, exitCode>>

registerRoutes ==
    /\ boot = "routes" /\ httpServer = "new"
    /\ boot' = "listen"
    /\ UNCHANGED <<httpServer, jobQueues, dbPool, stop, http, running, exitCode>>

listen ==
    /\ boot = "listen" /\ httpServer = "new"
    /\ boot' = "up" /\ httpServer' = "listening"
    /\ UNCHANGED <<jobQueues, dbPool, stop, http, running, exitCode>>

\* An await of start() that rejects: a service is down, or a signal has closed what it uses.
StartFails ==
    /\ \/ PeersMayFail /\ boot \in {"redis", "database", "listen"}
       \/ boot = "database" /\ dbPool # "open"
       \/ boot \in {"routes", "listen"} /\ httpServer # "new"
    /\ Exit(1)

\* buildApp: requests are injected without a socket.
buildApp ==
    /\ boot = "factory" /\ httpServer = "new"
    /\ httpServer' = "listening"
    /\ UNCHANGED <<boot, jobQueues, dbPool, stop, http, running, exitCode>>

-----------------------------------------------------------------------------
(* Requests                                                                 *)

InFlight(r) == http[r].begun /\ http[r].status = 0

Reply(r, status) ==
    /\ http' = [http EXCEPT ![r].status = status]
    /\ UNCHANGED <<boot, httpServer, jobQueues, dbPool, stop, running, exitCode>>

\* onRequest sets headers; while the server closes Fastify answers 503 by itself.
Receive(r) ==
    /\ ~http[r].begun /\ httpServer \in {"listening", "closing"}
    /\ \E i \in Inputs :
        http' = [http EXCEPT ![r] =
            [left |-> GlobalHooks \o RouteHooks(i.route), input |-> i, begun |-> TRUE,
             status |-> IF httpServer = "closing" THEN 503 ELSE 0]]
    /\ UNCHANGED <<boot, httpServer, jobQueues, dbPool, stop, running, exitCode>>

Pass(r, input) ==
    /\ http' = [http EXCEPT ![r].left = Tail(@), ![r].input = input]
    /\ UNCHANGED <<boot, httpServer, jobQueues, dbPool, stop, running, exitCode>>

RunHook(r) ==
    /\ InFlight(r) /\ http[r].left # <<>>
    /\ LET i == http[r].input
           h == Head(http[r].left)
           refused == \/ h = "size" /\ ~requestSizeLimiter(i)
                      \/ h = "type" /\ ~validateContentType(i)
                      \/ h = "sanitize" /\ detectSQLInjection(i)
       IN  \/ refused /\ Reply(r, errorHandler("ValidationError"))
           \/ ~refused /\ Pass(r, IF h = "sanitize" THEN requestSanitizer(i) ELSE i)
           \/ h = "limit" /\ Reply(r, 429)
           \/ h = "key" /\ Reply(r, 401)

\* What a handler may answer with the services as they are.
Answers(route) ==
    CASE route = "unknown" -> {404}
      [] route \in {"health", "status"} -> {200}
      [] route = "ready" /\ boot = "factory" -> {200}
      [] route = "ready" ->
             (IF dbPool = "open" THEN {200} ELSE {errorHandler("Error")})
             \union (IF PeersMayFail THEN {errorHandler("Error")} ELSE {})
      [] OTHER ->
             (IF dbPool = "open" THEN {200} ELSE {})
             \union {errorHandler(e) : e \in DOMAIN StatusOf \union {"ZodError", "Error"}}

\* POST /blockchain/anchor and /batch wait for a transaction to be mined, without a time limit.
AwaitsBlock(r) == InFlight(r) /\ http[r].left = <<>> /\ http[r].input.route = "anchor"

Handle(r) ==
    /\ InFlight(r) /\ http[r].left = <<>>
    /\ \E status \in Answers(http[r].input.route) : Reply(r, status)

-----------------------------------------------------------------------------
(* Jobs, as far as stopping waits for them                                  *)

\* The workers close one after the other, so that a later one still takes jobs.
TakeJob ==
    /\ jobQueues \in {"open", "closing"} /\ running.taken < MaxServerJobs
    /\ running' = [now |-> running.now + 1, taken |-> running.taken + 1]
    /\ UNCHANGED <<boot, httpServer, jobQueues, dbPool, stop, http, exitCode>>

EndJob ==
    /\ running.now > 0
    /\ running' = [running EXCEPT !.now = @ - 1]
    /\ UNCHANGED <<boot, httpServer, jobQueues, dbPool, stop, http, exitCode>>

-----------------------------------------------------------------------------
(* Signals                                                                  *)

\* The handler begins with server.close(); tests install none.
Signal(d) ==
    /\ stop[d] = "none" /\ boot \notin {"config", "factory"}
    /\ stop' = [stop EXCEPT ![d] = "close"]
    /\ httpServer' = IF httpServer \in {"new", "listening"} THEN "closing" ELSE httpServer
    /\ UNCHANGED <<boot, jobQueues, dbPool, http, running, exitCode>>

\* Fastify has answered what was in flight.
ServerClosed ==
    /\ httpServer = "closing" /\ \A r \in HttpRequests : ~InFlight(r)
    /\ httpServer' = "closed"
    /\ UNCHANGED <<boot, jobQueues, dbPool, stop, http, running, exitCode>>

\* After await server.close(): queueManager.shutdown() begins.
ShutDown(d) ==
    /\ stop[d] = "close" /\ httpServer = "closed"
    /\ stop' = [stop EXCEPT ![d] = "queues"]
    /\ jobQueues' = IF jobQueues = "open" THEN "closing" ELSE jobQueues
    /\ UNCHANGED <<boot, httpServer, dbPool, http, running, exitCode>>

\* Queues that start() has opened since shutdown() looked stay open.
QueuesShut ==
    /\ jobQueues = "closing" /\ running.now = 0
    /\ jobQueues' = "shut"
    /\ UNCHANGED <<boot, httpServer, dbPool, stop, http, running, exitCode>>

\* Mutant: shutdown() is not awaited.
EndPoolEarly(d) ==
    /\ stop[d] = "queues"
    /\ IF dbPool = "open"
       THEN /\ stop' = [stop EXCEPT ![d] = "pool"] /\ dbPool' = "ending"
            /\ UNCHANGED <<boot, httpServer, jobQueues, http, running, exitCode>>
       ELSE Exit(1)

\* After await queueManager.shutdown(): the second pool.end() rejects, which nobody handles.
EndPool(d) ==
    /\ stop[d] = "queues" /\ jobQueues # "closing"
    /\ IF dbPool = "open"
       THEN /\ stop' = [stop EXCEPT ![d] = "pool"] /\ dbPool' = "ending"
            /\ UNCHANGED <<boot, httpServer, jobQueues, http, running, exitCode>>
       ELSE Exit(1)

PoolEnded ==
    /\ dbPool = "ending"
    /\ dbPool' = "ended"
    /\ UNCHANGED <<boot, httpServer, jobQueues, stop, http, running, exitCode>>

\* Mutant: without process.exit the open Redis connections keep the process.
LeaveOpen(d) ==
    /\ stop[d] = "pool" /\ dbPool = "ended"
    /\ stop' = [stop EXCEPT ![d] = "done"]
    /\ UNCHANGED <<boot, httpServer, jobQueues, dbPool, http, running, exitCode>>

Leave(d) ==
    /\ stop[d] = "pool" /\ dbPool = "ended"
    /\ Exit(0)

\* pool.on('error'): an idle connection breaks.
PoolError == PeersMayFail /\ boot = "up" /\ dbPool = "open" /\ Exit(-1)

-----------------------------------------------------------------------------
Start == Configure \/ connectRedis \/ openQueues \/ testDatabase \/ registerRoutes \/ listen \/ StartFails

Serve == \E r \in HttpRequests : RunHook(r) \/ Handle(r)

StopStep(d) == ShutDown(d) \/ EndPool(d) \/ Leave(d)

ServerNext ==
    /\ exitCode = Alive
    /\ \/ Start \/ buildApp
       \/ \E r \in HttpRequests : Receive(r)
       \/ Serve \/ TakeJob \/ EndJob
       \/ \E d \in Deliveries : Signal(d) \/ StopStep(d)
       \/ ServerClosed \/ QueuesShut \/ PoolEnded \/ PoolError

ServerSpec == ServerInit /\ [][ServerNext]_serverVars

-----------------------------------------------------------------------------
(***************************************************************************)
(* Nothing is cut off by a stop: as long as a request is handled the       *)
(* queues and the pool it may use are open, as long as a job runs the pool *)
(* is, and whoever ends the process, with whatever code, after the server  *)
(* was up, finds no request and no job in progress, also when two signals  *)
(* came and their handlers interleave.                                     *)
(***************************************************************************)
ServicesOutliveUse ==
    boot = "up" /\ exitCode # -1 =>
        /\ (\E r \in HttpRequests : InFlight(r)) =>
               jobQueues = "open" /\ dbPool = "open" /\ exitCode = Alive
        /\ running.now > 0 => dbPool = "open" /\ exitCode = Alive

\* A signal is obeyed: requests, jobs and the pool come to their ends, and the process with them,
\* unless a request waits for ever for the block of its transaction.
StopEnds ==
    \/ (\E d \in Deliveries : stop[d] # "none") ~> exitCode # Alive
    \/ <>[](\E r \in HttpRequests : AwaitsBlock(r))

\* Handlers that do not wait for a block answer, jobs end, and awaits that can resume do.
ServerFairness ==
    /\ WF_serverVars(exitCode = Alive /\ EndJob)
    /\ WF_serverVars(exitCode = Alive /\ (ServerClosed \/ QueuesShut \/ PoolEnded))
    /\ \A r \in HttpRequests :
        WF_serverVars(exitCode = Alive /\ ~AwaitsBlock(r) /\ (RunHook(r) \/ Handle(r)))
    /\ \A d \in Deliveries : WF_serverVars(exitCode = Alive /\ StopStep(d))
=============================================================================
