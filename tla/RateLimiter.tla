----------------------------- MODULE RateLimiter -----------------------------
(***************************************************************************)
(* The rate limiter of the API (apps/api/src/middleware/rate-limit.ts): a  *)
(* counter in Redis per identifier, whose key expires with the window.     *)
(* createRateLimiter is GET, then INCR, then PEXPIRE when the counter was  *)
(* new, or TTL when the limit is reached.  One step is one Redis command;  *)
(* the requests of one identifier interleave between their commands.       *)
(*                                                                         *)
(* Time is abstracted to the expiry of a key, which may come at any time   *)
(* once the key has one.  Redis outlives the API process.                  *)
(***************************************************************************)
EXTENDS Naturals, FiniteSets

CONSTANTS
    Identifiers,   \* user ids or addresses: what the key of a counter names
    Requests,      \* slots for requests that are being served at once
    Max,           \* config.max
    RedisMayFail,  \* whether a command may fail
    MaxRestarts    \* bound on the restarts of the API process

ASSUME RateLimiterAssumption ==
    /\ IsFiniteSet(Requests)
    /\ Max \in Nat \ {0}
    /\ RedisMayFail \in BOOLEAN
    /\ MaxRestarts \in Nat

Request == [pc : {"idle", "get", "incr", "expire", "ttl", "admitted", "refused"},
            id : Identifiers]

Busy == {"get", "incr", "expire", "ttl"}

VARIABLES
    count,     \* the counter in Redis, per identifier; 0 is no key
    expires,   \* whether the key has an expiry
    req,       \* the requests, each at its next Redis command
    restarts

vars == <<count, expires, req, restarts>>

Init ==
    /\ count = [i \in Identifiers |-> 0]
    /\ expires = [i \in Identifiers |-> FALSE]
    /\ req \in [Requests -> {q \in Request : q.pc = "idle"}]
    /\ restarts = 0

Goto(r, label) == req' = [req EXCEPT ![r].pc = label]

\* The command is done; its answer may be lost, which the catch block lets pass.
Answered(r, label) == Goto(r, label) \/ (RedisMayFail /\ Goto(r, "admitted"))

Arrive(r, i) ==
    /\ req[r].pc \notin Busy
    /\ req' = [req EXCEPT ![r] = [pc |-> "get", id |-> i]]
    /\ UNCHANGED <<count, expires, restarts>>

\* Mutant: a request more than the limit gets through.
UpToMax(i)       == count[i] > Max
LimitExceeded(i) == count[i] >= Max

Get(r) ==
    /\ req[r].pc = "get"
    /\ Goto(r, IF LimitExceeded(req[r].id) THEN "ttl" ELSE "incr")
    /\ UNCHANGED <<count, expires, restarts>>

\* Mutant: every request sets the expiry anew.
ExpireAlways(i)   == TRUE
FirstOfWindow(i)  == count[i] = 0

\* INCR creates a missing key and gives it no expiry; newCount === 1 tells.
Incr(r) ==
    LET i == req[r].id
    IN  /\ req[r].pc = "incr"
        /\ count' = [count EXCEPT ![i] = @ + 1]
        /\ Answered(r, IF FirstOfWindow(i) THEN "expire" ELSE "admitted")
        /\ UNCHANGED <<expires, restarts>>

PExpire(r) ==
    /\ req[r].pc = "expire"
    /\ expires' = [expires EXCEPT ![req[r].id] = count[req[r].id] > 0]
    /\ Goto(r, "admitted")
    /\ UNCHANGED <<count, restarts>>

\* The answer only words the refusal: it is negative when the key has expired since
\* or has no expiry.
Ttl(r) ==
    /\ req[r].pc = "ttl"
    /\ Goto(r, "refused")
    /\ UNCHANGED <<count, expires, restarts>>

\* An error of Redis, here without effect, is logged and the request goes on,
\* wherever it was.
RedisFails(r) ==
    /\ RedisMayFail
    /\ req[r].pc \in Busy
    /\ Goto(r, "admitted")
    /\ UNCHANGED <<count, expires, restarts>>

\* The window of an identifier ends: Redis drops the key.
Expire(i) ==
    /\ expires[i]
    /\ count' = [count EXCEPT ![i] = 0]
    /\ expires' = [expires EXCEPT ![i] = FALSE]
    /\ UNCHANGED <<req, restarts>>

Restart ==
    /\ restarts < MaxRestarts
    /\ restarts' = restarts + 1
    /\ req' = [r \in Requests |-> [req[r] EXCEPT !.pc = "idle"]]
    /\ UNCHANGED <<count, expires>>

Serve(r) == Get(r) \/ Incr(r) \/ PExpire(r) \/ Ttl(r)

Next ==
    \/ \E r \in Requests :
          \/ \E i \in Identifiers : Arrive(r, i)
          \/ Serve(r)
          \/ RedisFails(r)
    \/ \E i \in Identifiers : Expire(i)
    \/ Restart

Spec == Init /\ [][Next]_vars

\* Redis answers every command and drops every key whose time has come.
FairSpec ==
    /\ Spec
    /\ \A r \in Requests : WF_vars(Serve(r))
    /\ \A i \in Identifiers : WF_vars(Expire(i))

-----------------------------------------------------------------------------
Pending(i) == {r \in Requests : req[r].id = i /\ req[r].pc = "incr"}

\* Shapes of the counters and the requests.
TypeOK ==
    /\ count \in [Identifiers -> Nat]
    /\ expires \in [Identifiers -> BOOLEAN]
    /\ req \in [Requests -> Request]
    /\ restarts \in 0 .. MaxRestarts

\* The limit as GET and INCR keep it: requests that have read the counter but not
\* yet incremented it overshoot the limit, by at most one request each.
BoundedOvershoot ==
    \A i \in Identifiers : count[i] + Cardinality(Pending(i)) < Max + Cardinality(Requests)

\* A window is started once: while a request is about to set the expiry of a key,
\* the key exists without one and no other request will set it, so that the
\* window is neither cut short nor prolonged.
WindowStartedOnce ==
    \A r, s \in Requests :
        /\ req[r].pc = "expire" => count[req[r].id] > 0 /\ ~expires[req[r].id]
        /\ req[r].pc = "expire" /\ req[s].pc = "expire" /\ req[r].id = req[s].id => r = s

\* A limit is overshot by less than the requests served at once, in a window of the one length.
LimitIsKept == BoundedOvershoot /\ WindowStartedOnce

\* Every window ends, after which the identifier is served again.
WindowsEnd == \A i \in Identifiers : count[i] > 0 ~> count[i] = 0

=============================================================================
