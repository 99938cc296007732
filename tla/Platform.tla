------------------------------ MODULE Platform ------------------------------
(***************************************************************************)
(* The pages of apps/platform in one browser tab: the session of NextAuth, *)
(* the middleware in front of the administrator's pages, the interceptors  *)
(* of api-client.ts, and the pages, which load when they are mounted, load *)
(* again when a filter changes, act on what they show and submit forms.    *)
(* No request is cancelled: answers come in any order, also to a page that *)
(* has been left, where setState does nothing but the code after an await  *)
(* still runs and still navigates.  The server behind API_URL is external, *)
(* and may answer, answer in another shape, refuse or not answer.          *)
(***************************************************************************)
EXTENDS Integers, FiniteSets

CONSTANTS
    Visited,       \* the pages that are visited
    MaxVisits,     \* bound: pages mounted, one after the other
    MaxFilter,     \* bound: changes of a filter
    MaxMade,       \* bound: what one visit to a form creates, and the answers that it takes for failures
    MaxPending     \* bound: requests without an answer

ASSUME PlatformAssumption == MaxVisits \in Nat /\ {MaxFilter, MaxMade, MaxPending} \subseteq Nat

VARIABLES
    session,    \* "none", "admin", or "other": a token without the role admin
    page,       \* the page that is mounted, or "login"
    pending,    \* requests in flight: [of, visit, does, filter]
    next        \* where router.push is going, or "nowhere"

platformVars == <<session, page, pending, next>>

-----------------------------------------------------------------------------
(* The pages                                                                *)

\* What a call of a service comes to: a value, undefined, an error, or a 401.  The interceptor has
\* already taken data out of the response, so that a service that takes it again returns undefined,
\* unless the server has wrapped its answer.
TakesDataAgain == {"value", "undefined", "error", "unauthorized"}

apiKeysService == TakesDataAgain

organizationsService == TakesDataAgain

paymentsService == TakesDataAgain

\* The administrator's figures.
analyticsService == TakesDataAgain

\* Every call of a client catches its error, also a 401, and returns empty figures: the window goes to
\* the login all the same.
credentialAnalytics == {"value", "undefined", "unauthorized"}

\* They use the response as it is, and parse it: no answer is undefined.
credentialsService == {"value", "error", "unauthorized"}

zkpService == {"value", "error", "unauthorized"}

\* They import { apiClient }, which api-client.ts exports only as its default: every call throws.
passportsService == {"error"}

attestationsService == {"error"}

\* loads: what is fetched when mounted; filters: loads again at a change; service: what it calls
\* through; clears, tells: a load sets error to null first, and to the message when it fails; form:
\* whether its button is disabled or enabled after a success, where it has one.
Page(guarded, service, filters, clears, acts) ==
    [guarded |-> guarded, service |-> service, loads |-> TRUE, filters |-> filters, clears |-> clears,
     tells |-> TRUE, acts |-> acts, form |-> "none", retry |-> FALSE]

Form(service, loads, button) ==
    [guarded |-> TRUE, service |-> service, loads |-> loads, filters |-> FALSE, clears |-> FALSE,
     tells |-> FALSE, acts |-> {}, form |-> button, retry |-> FALSE]

\* An act reloads, stays, or goes to a page; guarded buttons are disabled while it runs; a failure
\* replaces the page by an error, or is an alert.
Act(does, then, guarded, failure) == [does |-> does, then |-> then, guarded |-> guarded, failure |-> failure]

ApiKeysPage == Page(TRUE, apiKeysService, TRUE, TRUE, {})

ApiKeyDetailPage ==
    Page(TRUE, apiKeysService, FALSE, TRUE,
         {Act("revoke", "reload", FALSE, "alert"), Act("activate", "reload", FALSE, "alert"),
          Act("delete", "keys", FALSE, "alert")})

OrganizationsPage == Page(TRUE, organizationsService, TRUE, TRUE, {})

OrganizationDetailPage == Page(TRUE, organizationsService, FALSE, TRUE, {Act("status", "reload", FALSE, "alert")})

PaymentsPage == Page(TRUE, paymentsService, TRUE, TRUE, {})

PaymentDetailPage == Page(TRUE, paymentsService, FALSE, TRUE, {Act("status", "reload", FALSE, "alert")})

\* /analytics is not in the matcher of the middleware.
AdminAnalyticsPage == Page(FALSE, analyticsService, FALSE, TRUE, {})

CredentialsPage == Page(TRUE, credentialsService, FALSE, FALSE, {})

CredentialDetailPage == Page(TRUE, credentialsService, FALSE, FALSE, {Act("verify", "stay", TRUE, "error")})

DashboardPassportsPage ==
    Page(TRUE, passportsService, FALSE, FALSE, {Act("download", "stay", FALSE, "error")})

PassportDetailPage ==
    Page(TRUE, passportsService, FALSE, FALSE,
         {Act("add", "reload", TRUE, "error"), Act("remove", "reload", TRUE, "error"),
          Act("download", "stay", FALSE, "error")})

ZKPPage == Page(TRUE, zkpService, FALSE, FALSE, {})

ZKProofDetailPage == Page(TRUE, zkpService, FALSE, FALSE, {Act("verify", "stay", TRUE, "error")})

MyCredentialsPage == [Page(FALSE, attestationsService, TRUE, FALSE, {}) EXCEPT !.tells = FALSE]

MyCredentialDetailPage ==
    Page(FALSE, attestationsService, FALSE, TRUE,
         {Act("revoke", "reload", TRUE, "alert"), Act("download", "stay", FALSE, "alert")})

MyPassportPage ==
    [Page(FALSE, passportsService, FALSE, TRUE, {Act("download", "stay", TRUE, "alert")}) EXCEPT !.retry = TRUE]

MyAnalyticsPage == [Page(FALSE, credentialAnalytics, TRUE, TRUE, {}) EXCEPT !.retry = TRUE]

\* The key is shown once, in place of the form.
GenerateApiKeyPage == Form(apiKeysService, TRUE, "disabled")

NewOrganizationPage == Form(organizationsService, FALSE, "disabled")

NewPaymentPage == Form(paymentsService, TRUE, "disabled")

\* setLoading(false) in finally.
NewCredentialPage == Form(credentialsService, FALSE, "enabled")

NewZKProofPage == [Form(zkpService, TRUE, "enabled") EXCEPT !.tells = TRUE]

Pages ==
    [keys |-> ApiKeysPage, key |-> ApiKeyDetailPage, newKey |-> GenerateApiKeyPage,
     organizations |-> OrganizationsPage, organization |-> OrganizationDetailPage,
     newOrganization |-> NewOrganizationPage, payments |-> PaymentsPage, payment |-> PaymentDetailPage,
     newPayment |-> NewPaymentPage, analytics |-> AdminAnalyticsPage, credentials |-> CredentialsPage,
     credential |-> CredentialDetailPage, newCredential |-> NewCredentialPage,
     passports |-> DashboardPassportsPage, passport |-> PassportDetailPage, proofs |-> ZKPPage,
     proof |-> ZKProofDetailPage, newProof |-> NewZKProofPage, mine |-> MyCredentialsPage,
     myCredential |-> MyCredentialDetailPage, myPassport |-> MyPassportPage, myAnalytics |-> MyAnalyticsPage]

ASSUME VisitedAssumption == Visited \subseteq DOMAIN Pages

-----------------------------------------------------------------------------
\* loading and busy are two states of a page; a form has one for both, and its own load sets neither.
\* Of a form: done, whether a submission has succeeded; failed, the answers that it told as errors;
\* and made, what the server has created for it.
Mounted(name, visit) ==
    [name |-> name, visit |-> visit, filter |-> 0, error |-> FALSE, shown |-> "nothing", busy |-> FALSE,
     done |-> FALSE, failed |-> 0, made |-> 0, loading |-> name # "login" /\ Pages[name].loads /\ Pages[name].form = "none"]

PlatformInit ==
    /\ session = "none"
    /\ page = Mounted("login", 0)
    /\ pending = {} /\ next = "nowhere"

Here == Pages[page.name]

OnPage == page.name # "login"

Request(does) == [of |-> page.name, visit |-> page.visit, does |-> does, filter |-> page.filter]

Send(does) ==
    /\ Cardinality(pending) < MaxPending
    /\ pending' = pending \union {Request(does)}

\* window.location or the router: the load of the new page begins.
Mount(name, requests) ==
    /\ page' = Mounted(name, page.visit + 1)
    /\ pending' = IF name # "login" /\ Pages[name].loads
                  THEN requests \union {[of |-> name, visit |-> page.visit + 1, does |-> "load", filter |-> 0]}
                  ELSE requests
    /\ next' = "nowhere"

-----------------------------------------------------------------------------
(* Session                                                                  *)

\* authorize and the callbacks jwt and session: the role is what the server says.
SignIn ==
    /\ page.name = "login" /\ session = "none"
    /\ session' \in {"admin", "other"}
    /\ UNCHANGED <<page, pending, next>>

\* signOut and a token older than a day.
SignOut ==
    /\ session # "none"
    /\ session' = "none"
    /\ UNCHANGED <<page, pending, next>>

\* middleware: the administrator's pages need a token with the role.
MayEnter(name) == Pages[name].guarded => session = "admin"

Enter(name) == Mount(IF MayEnter(name) THEN name ELSE "login", pending)

Visit ==
    /\ page.visit < MaxVisits /\ Cardinality(pending) < MaxPending
    /\ \E name \in Visited : Enter(name)
    /\ UNCHANGED session

\* What router.push has asked for arrives later.
Arrive ==
    /\ next # "nowhere" /\ Cardinality(pending) < MaxPending
    /\ Enter(next)
    /\ UNCHANGED session

-----------------------------------------------------------------------------
(* Loading                                                                  *)

\* The effect of a filter, or of a button to try again: the earlier request goes on.
Load ==
    /\ OnPage /\ Send("load")
    /\ page' = [page EXCEPT !.loading = TRUE, !.error = IF Here.clears THEN FALSE ELSE @]
    /\ UNCHANGED <<session, next>>

ChangeFilter ==
    /\ OnPage /\ Here.filters /\ page.filter < MaxFilter
    /\ Cardinality(pending) < MaxPending
    /\ LET changed == [page EXCEPT !.filter = @ + 1]
       IN  /\ page' = [changed EXCEPT !.loading = TRUE, !.error = IF Here.clears THEN FALSE ELSE @]
           /\ pending' = pending \union {[Request("load") EXCEPT !.filter = changed.filter]}
    /\ UNCHANGED <<session, next>>

Retry == OnPage /\ Here.retry /\ page.error /\ ~page.loading /\ Load

IsMounted(request) == request.visit = page.visit

Outcomes(name) == Pages[name].service

\* The interceptor of responses sends the whole window to the login, from whatever page it is on.
Unauthorized == Mount("login", {})

\* Mutant: loading ends with the try block, and not in finally.
LoadedUnlessError(outcome) ==
    [page EXCEPT !.loading = (outcome # "value") /\ @,
                 !.shown = IF outcome = "value" THEN "value" ELSE @,
                 !.error = @ \/ (outcome # "value" /\ Here.tells)]

\* try, catch and finally of a page: what is undefined has no members, or is not found.
Loaded(outcome) ==
    [page EXCEPT !.loading = FALSE,
                 !.shown = IF outcome = "value" THEN "value" ELSE @,
                 !.error = @ \/ (outcome # "value" /\ Here.tells)]

LoadAnswer(request) ==
    /\ request.does = "load"
    /\ \E outcome \in Outcomes(request.of) :
        IF outcome = "unauthorized" THEN Unauthorized
        ELSE /\ page' = IF IsMounted(request) THEN Loaded(outcome) ELSE page
             /\ pending' = pending \ {request}
             /\ next' = next
    /\ UNCHANGED session

-----------------------------------------------------------------------------
(* Acting on what is shown                                                  *)

\* After confirm, where the page asks.
Press ==
    /\ OnPage /\ page.shown = "value" /\ ~page.loading /\ ~page.error
    /\ \E act \in Here.acts :
        /\ act.guarded => ~page.busy
        /\ Request(act.does) \notin pending
        /\ Send(act.does)
        /\ page' = [page EXCEPT !.busy = @ \/ act.guarded]
    /\ UNCHANGED <<session, next>>

\* An act that has succeeded goes on, on whatever page the tab is by then.
ActAnswer(request) ==
    /\ \E act \in Pages[request.of].acts, outcome \in Outcomes(request.of) :
        /\ act.does = request.does
        /\ IF outcome = "unauthorized" THEN Unauthorized
           ELSE /\ page' = IF ~IsMounted(request) THEN page
                           ELSE [page EXCEPT !.busy = @ /\ ~act.guarded,
                                             !.loading = @ \/ (outcome # "error" /\ act.then = "reload"),
                                             !.error = @ \/ (outcome = "error" /\ act.failure = "error")]
                /\ pending' = (pending \ {request}) \union
                       (IF outcome # "error" /\ act.then = "reload" THEN {[request EXCEPT !.does = "load"]} ELSE {})
                /\ next' = IF outcome # "error" /\ act.then \notin {"reload", "stay"} THEN act.then ELSE next
    /\ UNCHANGED session

-----------------------------------------------------------------------------
(* Forms                                                                    *)

\* handleSubmit, after its checks.
SubmitForm ==
    /\ OnPage /\ Here.form # "none" /\ ~page.busy /\ page.made < MaxMade /\ page.failed < MaxMade
    /\ Send("submit")
    /\ page' = [page EXCEPT !.busy = TRUE, !.error = FALSE]
    /\ UNCHANGED <<session, next>>

Detail == [newKey |-> "key", newOrganization |-> "organization", newPayment |-> "payment",
           newCredential |-> "credential", newProof |-> "proof"]

\* Whether the button is enabled again.
Enabled(of, outcome) == Pages[of].form = "enabled" \/ outcome # "value"

\* What the server has created by then, or will have: an answer that came has the entity, if in another
\* shape; one that is an error may be lost, after thirty seconds, or may not be understood.
Creations(outcome) == IF outcome = "error" THEN {0, 1} ELSE {1}

\* newOrg.id of undefined throws, so that the page takes it for a failure.
Submitted(of, outcome, created) ==
    [page EXCEPT !.busy = ~Enabled(of, outcome),
                 !.error = outcome # "value",
                 !.done = @ \/ outcome = "value",
                 !.failed = IF outcome = "value" THEN @ ELSE @ + 1,
                 !.made = @ + created]

SubmitAnswer(request) ==
    /\ request.does = "submit"
    /\ \E outcome \in Outcomes(request.of) :
        IF outcome = "unauthorized" THEN Unauthorized
        ELSE /\ \E created \in Creations(outcome) :
                    page' = IF IsMounted(request) THEN Submitted(request.of, outcome, created) ELSE page
             /\ pending' = pending \ {request}
             /\ next' = IF outcome = "value" /\ request.of # "newKey" THEN Detail[request.of] ELSE next
    /\ UNCHANGED session

-----------------------------------------------------------------------------
Answer == \E request \in pending : LoadAnswer(request) \/ ActAnswer(request) \/ SubmitAnswer(request)

PlatformNext ==
    \/ SignIn \/ SignOut \/ Visit \/ Arrive
    \/ ChangeFilter \/ Retry \/ Press \/ SubmitForm
    \/ Answer

PlatformSpec == PlatformInit /\ [][PlatformNext]_platformVars

(***************************************************************************)
(* Overlapping loads, failures and answers in another shape leave no page  *)
(* with a spinner that nothing will end: a page that says it loads has a   *)
(* request of its own in flight, and a form that is busy has one or has    *)
(* succeeded.                                                              *)
(***************************************************************************)
SpinnersEnd ==
    /\ page.loading => \E r \in pending : IsMounted(r) /\ r.does = "load"
    /\ page.busy => page.done \/ \E r \in pending : IsMounted(r) /\ r.does # "load"

(***************************************************************************)
(* A form that keeps its button disabled makes no more than one thing      *)
(* without having told of a failure, however long the router takes to      *)
(* leave it: every further one follows an answer that it took for one.     *)
(* (Whoever submits again after such an answer may make a second: a lost   *)
(* answer does not say what the server did.)                               *)
(***************************************************************************)
CreatedOnce == OnPage /\ Here.form = "disabled" => page.made <= 1 + page.failed

\* Whatever answers come, and in whatever order, a page settles and its form makes one thing for each attempt.
PagesSettle == SpinnersEnd /\ CreatedOnce
=============================================================================
