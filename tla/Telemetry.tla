----------------------------- MODULE Telemetry -----------------------------
(***************************************************************************)
(* telemetry/: the SDK that initializeTelemetry starts, the hooks of       *)
(* telemetryPlugin, the spans that withSpan puts around a job, and the     *)
(* counters of metrics.ts, which are made at their first use.  Requests    *)
(* and jobs interleave with SIGTERM, at which the SDK flushes what has     *)
(* ended and shuts down while requests may still be in progress.  The      *)
(* OpenTelemetry library is modelled by what the code uses of it: spans    *)
(* and instruments made before the SDK starts do nothing, and the code     *)
(* keeps its instruments for good; a span that has ended goes to the       *)
(* exporter while the SDK is up, and what is done to a span after its end  *)
(* changes nothing.  The program registers neither the SDK nor the plugin: *)
(* the module is about a program that registers both, with both exporters. *)
(***************************************************************************)
EXTENDS Integers, FiniteSets

CONSTANTS
    Traced,         \* requests and jobs
    IgnoredRoutes, Routes,
    EnableTracing, EnableMetrics

ASSUME TelemetryAssumption ==
    IsFiniteSet(Traced) /\ IgnoredRoutes \subseteq Routes /\ EnableTracing \in BOOLEAN /\ EnableMetrics \in BOOLEAN

VARIABLES
    sdk,        \* "none", "up", "down"
    metrics,    \* metricsInstance: how its instruments were made, and what its counters hold
    work,       \* the requests and jobs
    exported    \* spans that the exporter has received, by what they are of

telemetryVars == <<sdk, metrics, work, exported>>

\* The counters of which the model keeps the value: http_requests_total by class, business counters.
Unmade == [made |-> "unmade", success |-> 0, error |-> 0, business |-> 0, failures |-> 0]

\* Before the SDK has started, and after its shutdown, the meter is a no-op one, and so are its instruments.
initializeMetrics == [Unmade EXCEPT !.made = IF sdk = "up" THEN "live" ELSE "noop"]

\* The instruments of the first use are those of every later one.
getMetrics == IF metrics.made = "unmade" THEN initializeMetrics ELSE metrics

\* counter.add(1), twice in a mutant
AddTo(counter, times) ==
    metrics' = [getMetrics EXCEPT ![counter] = IF getMetrics.made = "live" THEN @ + times ELSE @]

\* tracer.startSpan
startSpan == IF sdk = "none" THEN "none" ELSE "open"

NoWork == [kind |-> "none", at |-> "idle", span |-> "none", status |-> "unset"]

TelemetryInit ==
    /\ sdk \in {"none", "up"}
    /\ metrics = Unmade
    /\ work = [w \in Traced |-> NoWork]
    /\ exported = [w \in Traced |-> 0]

initializeTelemetry ==
    /\ sdk = "none"
    /\ sdk' = "up"
    /\ UNCHANGED <<metrics, work, exported>>

\* The handler of SIGTERM, or shutdownTelemetry.
shutdownTelemetry ==
    /\ sdk = "up"
    /\ sdk' = "down"
    /\ UNCHANGED <<metrics, work, exported>>

\* span.end()
EndSpan(w, record) ==
    /\ work' = [work EXCEPT ![w] = [record EXCEPT !.span = IF @ = "open" THEN "ended" ELSE @]]
    /\ exported' = IF work[w].span = "open" /\ sdk = "up" THEN [exported EXCEPT ![w] = @ + 1] ELSE exported

-----------------------------------------------------------------------------
(* Requests                                                                 *)

\* onRequest: telemetryMiddleware
telemetryMiddleware(w) ==
    /\ work[w].at = "idle"
    /\ \E route \in Routes :
        work' = [work EXCEPT ![w] =
            IF route \in IgnoredRoutes THEN [NoWork EXCEPT !.kind = "untimed", !.at = "handling"]
            ELSE [NoWork EXCEPT !.kind = "request", !.at = "handling", !.span = IF EnableTracing THEN startSpan ELSE "none"]]
    /\ UNCHANGED <<sdk, metrics, exported>>

\* An onRequest hook added before the plugin's answers, or throws: onSend and onError find no start time.
EarlierHookAnswers(w) ==
    /\ work[w].at = "idle"
    /\ work' = [work EXCEPT ![w] = [NoWork EXCEPT !.kind = "untimed", !.at = "handling"]]
    /\ UNCHANGED <<sdk, metrics, exported>>

\* onError, before the error handler replies.
onError(w) ==
    /\ work[w].at = "handling" /\ work[w].kind \in {"request", "untimed"}
    /\ work' = [work EXCEPT ![w].at = "failing", ![w].status = IF work[w].span = "open" THEN "error" ELSE @]
    /\ UNCHANGED <<sdk, metrics, exported>>

\* Mutant: a request that has failed is counted by onError as well.
CountTwice(class) ==
    AddTo(class, IF class = "error" THEN 2 ELSE 1)

recordHttpRequest(class) == AddTo(class, 1)

\* onSend; an error handler replies with 400 or more, a handler may as well.  Untimed requests return at once.
onSend(w) ==
    /\ work[w].at \in {"handling", "failing"} /\ work[w].kind \in {"request", "untimed"}
    /\ \E class \in {"success", "error"} :
        /\ work[w].at = "failing" => class = "error"
        /\ IF work[w].kind = "request"
           THEN /\ EndSpan(w, [work[w] EXCEPT !.at = "sent", !.status = class])
                /\ IF EnableMetrics THEN recordHttpRequest(class) ELSE metrics' = metrics
           ELSE /\ work' = [work EXCEPT ![w].at = "sent"]
                /\ UNCHANGED <<metrics, exported>>
    /\ sdk' = sdk

-----------------------------------------------------------------------------
(* Jobs                                                                     *)

\* withSpan begins.
StartSpan(w) ==
    /\ work[w].at = "idle"
    /\ work' = [work EXCEPT ![w] = [NoWork EXCEPT !.kind = "job", !.at = "working", !.span = startSpan]]
    /\ UNCHANGED <<sdk, metrics, exported>>

\* recordVCIssued, recordVCVerified, recordDIDOperation: in fn, at most once.
RecordBusiness(w) ==
    /\ work[w].kind = "job" /\ work[w].at = "working"
    /\ \E counter \in {"business", "failures"} : AddTo(counter, 1)
    /\ work' = [work EXCEPT ![w].at = "recorded"]
    /\ UNCHANGED <<sdk, exported>>

\* fn returns or throws; the span ends in finally.
withSpan(w) ==
    /\ work[w].kind = "job" /\ work[w].at \in {"working", "recorded"}
    /\ \E status \in {"success", "error"} :
        EndSpan(w, [work[w] EXCEPT !.at = "sent", !.status = status])
    /\ UNCHANGED <<sdk, metrics>>

-----------------------------------------------------------------------------
TelemetryNext ==
    \/ initializeTelemetry \/ shutdownTelemetry
    \/ \E w \in Traced :
        \/ telemetryMiddleware(w) \/ EarlierHookAnswers(w) \/ onError(w) \/ onSend(w)
        \/ StartSpan(w) \/ RecordBusiness(w) \/ withSpan(w)

TelemetrySpec == TelemetryInit /\ [][TelemetryNext]_telemetryVars

Sent(kind, status) == {w \in Traced : work[w].kind = kind /\ work[w].at = "sent" /\ work[w].status = status}

(***************************************************************************)
(* Errors, jobs, a late start of the SDK and a shutdown do not falsify the *)
(* figures: the counters hold every answer to a request that reached the   *)
(* plugin once, under the class it was answered with, or, when they were   *)
(* first used without the SDK, nothing for good; never a part of them.  A   *)
(* span is open as long as its work is in progress, and none is exported   *)
(* twice.                                                                  *)
(***************************************************************************)
FiguresAreTrue ==
    /\ EnableMetrics => \A class \in {"success", "error"} :
           metrics[class] = IF metrics.made = "live" THEN Cardinality(Sent("request", class)) ELSE 0
    /\ EnableMetrics /\ metrics.made = "unmade" => \A class \in {"success", "error"} : Sent("request", class) = {}
    /\ \A w \in Traced : (work[w].span = "ended" => work[w].at = "sent") /\ (work[w].span = "open" => work[w].at # "sent")
    /\ \A w \in Traced : exported[w] <= 1
=============================================================================
