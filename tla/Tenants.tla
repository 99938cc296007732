------------------------------ MODULE Tenants ------------------------------
(***************************************************************************)
(* Organizations, their API keys and the requests that carry a key:        *)
(* modules/admin/organizations, modules/admin/api-keys,                    *)
(* middleware/api-key-auth.ts, middleware/usage-tracking.ts and            *)
(* middleware/rbac.ts of apps/api/src.                                     *)
(*                                                                         *)
(* One step is one SQL statement.  authenticateAPIKey looks a row up, then *)
(* compares hashes and counts the records of the day; trackUsage inserts a *)
(* record after the response and leaves the aggregate to a query nobody    *)
(* waits for.  rotateAPIKey reads, inserts and deactivates in three        *)
(* statements, each committed by itself, and then answers.  A key is its   *)
(* row: the plain text is known to whoever got the answer, and the hash of *)
(* one key matches no other.                                               *)
(***************************************************************************)
EXTENDS Integers, FiniteSets

CONSTANTS
    Orgs, Keys,      \* rows that may come to exist
    Environments,    \* "live" and "test": what the prefix of a key tells
    Admins,          \* callers of the administration routes
    RoleOf,          \* the role in the token of each caller
    Calls,           \* slots for requests that carry an API key
    RequestsPerDay,  \* limit of each plan
    Statuses,        \* "active", "suspended", "cancelled"
    Operations,      \* what the requests do: operation types that cost credits
    LastDay,         \* bound on the days that pass
    MaxRecords,      \* bound on the usage records of an organization
    Absent

Unlimited == -1
Plans     == DOMAIN RequestsPerDay

CreditCosts ==
    [blockchain_anchor |-> 10, attestation_create |-> 5, passport_create |-> 3,
     zkp_generate |-> 20, api_call |-> 1]

Rank == [none |-> 0, user |-> 1, admin |-> 2, superadmin |-> 3]

Never    == 0
OrgRow   == [status : Statuses, plan : Plans]
KeyRow   == [stored : BOOLEAN, org : Orgs, env : Environments, active : BOOLEAN,
             expires : 0 .. LastDay]
Rotation == [pc : {"read", "inserted", "switched"}, old : Keys, new : Keys \cup {Absent}]
Gated    == [pc : {"found", "admitted", "recorded"}, presented : Keys,
             row : Keys, limit : Nat \cup {Unlimited}, op : Operations]

ASSUME TenantsAssumption ==
    /\ IsFiniteSet(Calls) /\ Calls # {} /\ Plans # {}
    /\ RequestsPerDay \in [Plans -> Nat \cup {Unlimited}]
    /\ {"active", "cancelled"} \subseteq Statuses
    /\ RoleOf \in [Admins -> DOMAIN Rank]
    /\ Operations \subseteq DOMAIN CreditCosts
    /\ LastDay \in Nat \ {0}
    /\ MaxRecords \in Nat
    /\ Absent \notin Orgs \cup Keys \cup Environments \cup Operations \cup Plans
    /\ Absent \notin OrgRow \cup KeyRow \cup Rotation \cup Gated

VARIABLES
    org,        \* organizations
    key,        \* api_keys
    delivered,  \* keys whose plain text was answered to an administrator
    paused,     \* keys that an administrator has deactivated since they were last active
    lost,       \* keys that replace one that is off, and whose plain text nobody was told
    origin,     \* the key that a rotation generated this one for
    rotation,   \* the calls of rotateAPIKey
    call,       \* the requests with an API key
    usage,      \* usage_records of an organization: of today, and all with their credits
    aggregate,  \* usage_aggregates of an organization, over all days
    day

keyVars    == <<key, delivered, paused, lost, origin, rotation>>
meterVars  == <<call, usage, aggregate, day>>
tenantVars == <<org, keyVars, meterVars>>

TenantInit ==
    /\ org = [o \in Orgs |-> Absent]
    /\ key = [k \in Keys |-> Absent]
    /\ delivered = {} /\ paused = {} /\ lost = {}
    /\ origin = [k \in Keys |-> Absent]
    /\ rotation = [a \in Admins |-> Absent]
    /\ call = [r \in Calls |-> Absent]
    /\ usage = [o \in Orgs |-> [today |-> 0, total |-> 0, credits |-> 0]]
    /\ aggregate = [o \in Orgs |-> [total |-> 0, credits |-> 0]]
    /\ day = 1

Exists(o) == org[o] # Absent
Stored(k) == key[k] # Absent /\ key[k].stored

Rotating(a, pc) == rotation[a] # Absent /\ rotation[a].pc = pc
Serving(r, pc)  == call[r] # Absent /\ call[r].pc = pc

hasRole(role, required) == Rank[role] >= Rank[required]

requireRole(a, required) == RoleOf[a] # "none" /\ hasRole(RoleOf[a], required)

requireAdmin(a) == requireRole(a, "admin")

-----------------------------------------------------------------------------
(* Organizations: the service functions and, in capitals, the routes to them *)

createOrganization(o, p) ==
    /\ ~Exists(o)
    /\ org' = [org EXCEPT ![o] = [status |-> "active", plan |-> p]]
    /\ UNCHANGED <<keyVars, meterVars>>

updateOrganizationPlan(o, p) ==
    /\ Exists(o)
    /\ org' = [org EXCEPT ![o].plan = p]
    /\ UNCHANGED <<keyVars, meterVars>>

updateOrganizationStatus(o, status) ==
    /\ Exists(o)
    /\ org' = [org EXCEPT ![o].status = status]
    /\ UNCHANGED <<keyVars, meterVars>>

\* A soft delete: the row and the keys stay.
deleteOrganization(o) == updateOrganizationStatus(o, "cancelled")

POSTOrganization(a, o, p)    == requireAdmin(a) /\ createOrganization(o, p)
PATCHPlan(a, o, p)           == requireAdmin(a) /\ updateOrganizationPlan(o, p)
PATCHStatus(a, o, status)    == requireAdmin(a) /\ updateOrganizationStatus(o, status)
DELETEOrganization(a, o)     == requireAdmin(a) /\ deleteOrganization(o)

-----------------------------------------------------------------------------
(* Keys *)

InsertKey(k, o, e, x) ==
    /\ key[k] = Absent
    /\ key' = [key EXCEPT ![k] = [stored |-> TRUE, org |-> o, env |-> e,
                                  active |-> TRUE, expires |-> x]]

generateAPIKey(k, o, e, x) ==
    /\ Exists(o)
    /\ InsertKey(k, o, e, x)
    /\ delivered' = delivered \cup {k}
    /\ UNCHANGED <<org, paused, lost, origin, rotation, meterVars>>

SetActive(k, value) ==
    /\ Stored(k)
    /\ key' = [key EXCEPT ![k].active = value]
    /\ UNCHANGED <<org, delivered, lost, origin, rotation, meterVars>>

deactivateAPIKey(k) == SetActive(k, FALSE) /\ paused' = paused \cup {k}

reactivateAPIKey(k) == SetActive(k, TRUE) /\ paused' = paused \ {k}

deleteAPIKey(k) ==
    /\ Stored(k)
    /\ key' = [key EXCEPT ![k].stored = FALSE]
    /\ UNCHANGED <<org, delivered, paused, lost, origin, rotation, meterVars>>

POSTAPIKey(a, k, o, e, x)  == requireAdmin(a) /\ generateAPIKey(k, o, e, x)
PATCHDeactivate(a, k)      == requireAdmin(a) /\ deactivateAPIKey(k)
PATCHReactivate(a, k)      == requireAdmin(a) /\ reactivateAPIKey(k)
DELETEAPIKey(a, k)         == requireAdmin(a) /\ deleteAPIKey(k)

\* Mutant: the old key is switched off before the new one is there.
RotateReadAndDeactivate(a, k) ==
    /\ rotation[a] = Absent /\ Stored(k)
    /\ rotation' = [rotation EXCEPT ![a] = [pc |-> "read", old |-> k, new |-> Absent]]
    /\ key' = [key EXCEPT ![k].active = FALSE]
    /\ UNCHANGED <<org, delivered, paused, lost, origin, meterVars>>

\* rotateAPIKey: getAPIKey, of an inactive key too.
RotateRead(a, k) ==
    /\ rotation[a] = Absent /\ Stored(k)
    /\ rotation' = [rotation EXCEPT ![a] = [pc |-> "read", old |-> k, new |-> Absent]]
    /\ UNCHANGED <<org, key, delivered, paused, lost, origin, meterVars>>

\* generateAPIKey with what was read: the environment and the expiry are the old key's.
RotateInsert(a, k) ==
    LET old == key[rotation[a].old]
    IN  /\ Rotating(a, "read")
        /\ InsertKey(k, old.org, old.env, old.expires)
        /\ rotation' = [rotation EXCEPT ![a].pc = "inserted", ![a].new = k]
        /\ origin' = [origin EXCEPT ![k] = rotation[a].old]
        /\ UNCHANGED <<org, delivered, paused, lost, meterVars>>

\* deactivateAPIKey, an UPDATE that commits by itself, finds no row when the old key has been
\* deleted; the caller is then told of an error, and not of the new key.
RotateDeactivate(a) ==
    LET old == rotation[a].old
    IN  /\ Rotating(a, "inserted")
        /\ IF Stored(old)
           THEN /\ key' = [key EXCEPT ![old].active = FALSE]
                /\ rotation' = [rotation EXCEPT ![a].pc = "switched"]
           ELSE /\ rotation' = [rotation EXCEPT ![a] = Absent]
                /\ UNCHANGED key
        /\ UNCHANGED <<org, delivered, paused, lost, origin, meterVars>>

\* The answer to the administrator: the only time that the plain text leaves the process.
RotateAnswer(a) ==
    /\ Rotating(a, "switched")
    /\ delivered' = delivered \cup {rotation[a].new}
    /\ rotation' = [rotation EXCEPT ![a] = Absent]
    /\ UNCHANGED <<org, key, paused, lost, origin, meterVars>>

\* A statement fails, its answer or the administrator's is lost, or the process ends: what is
\* written stays, and a key that nobody was told of is of no use.
RotateFails(a) ==
    /\ rotation[a] # Absent
    /\ rotation' = [rotation EXCEPT ![a] = Absent]
    /\ lost' = IF Rotating(a, "switched") THEN lost \cup {rotation[a].new} ELSE lost
    /\ UNCHANGED <<org, key, delivered, paused, origin, meterVars>>

-----------------------------------------------------------------------------
(* Calls that carry a key *)

\* The rows that the prefix, which is the environment, selects.
Candidates(e) == {k \in Keys : /\ Stored(k) /\ key[k].active /\ key[k].env = e
                               /\ org[key[k].org].status = "active"}

\* Calls of the organization that may yet insert a record.
Unanswered(o) == {r \in Calls : call[r] # Absent /\ call[r].pc # "recorded" /\ key[call[r].row].org = o}

\* SELECT ... LIMIT 1: any one of them, with the limit of its organization's plan.
LookUp(r, k, row, op) ==
    /\ call[r] = Absent
    /\ key[k] # Absent
    /\ row \in Candidates(key[k].env)
    /\ usage[key[row].org].total + Cardinality(Unanswered(key[row].org)) < MaxRecords
    /\ call' = [call EXCEPT ![r] =
                  [pc |-> "found", presented |-> k, row |-> row,
                   limit |-> RequestsPerDay[org[key[row].org].plan], op |-> op]]
    /\ UNCHANGED <<org, keyVars, usage, aggregate, day>>

Expired(k) == key[k].expires # Never /\ key[k].expires < day

\* Mutant: one request more than the plan's limit.
HasRoomAtLimit(r) == call[r].limit = Unlimited \/ usage[key[call[r].row].org].today <= call[r].limit

HasRoom(r) == call[r].limit = Unlimited \/ usage[key[call[r].row].org].today < call[r].limit

Matches(r) == call[r].presented = call[r].row

\* bcrypt.compare, the expiry and the count of the day's records; anything else is
\* answered 401 or 429.
Check(r) ==
    /\ Serving(r, "found")
    /\ LET ok == Matches(r) /\ ~Expired(call[r].row) /\ HasRoom(r)
       IN  call' = [call EXCEPT ![r] = IF ok THEN [@ EXCEPT !.pc = "admitted"] ELSE Absent]
    /\ UNCHANGED <<org, keyVars, usage, aggregate, day>>

\* The INSERT of trackUsage when the request is answered.
Record(r) ==
    LET o == key[call[r].row].org
    IN  /\ Serving(r, "admitted")
        /\ usage' = [usage EXCEPT ![o].today = @ + 1, ![o].total = @ + 1,
                                  ![o].credits = @ + CreditCosts[call[r].op]]
        /\ call' = [call EXCEPT ![r].pc = "recorded"]
        /\ UNCHANGED <<org, keyVars, aggregate, day>>

\* A route without the hook, an error of a statement, which is logged, or the end of
\* the process: the request leaves no record, or its record no trace in the aggregate.
Unrecorded(r) ==
    /\ call[r] # Absent
    /\ call' = [call EXCEPT ![r] = Absent]
    /\ UNCHANGED <<org, keyVars, usage, aggregate, day>>

\* Mutant: the aggregate is retried although the first try may have succeeded.
AggregateAndRetry(r) ==
    LET o == key[call[r].row].org
    IN  /\ Serving(r, "recorded")
        /\ aggregate' = [aggregate EXCEPT ![o].total = @ + 1,
                                          ![o].credits = @ + CreditCosts[call[r].op]]
        /\ UNCHANGED <<org, keyVars, call, usage, day>>

updateAggregates(r) ==
    LET o == key[call[r].row].org
    IN  /\ Serving(r, "recorded")
        /\ aggregate' = [aggregate EXCEPT ![o].total = @ + 1,
                                          ![o].credits = @ + CreditCosts[call[r].op]]
        /\ call' = [call EXCEPT ![r] = Absent]
        /\ UNCHANGED <<org, keyVars, usage, day>>

Midnight ==
    /\ day < LastDay
    /\ day' = day + 1
    /\ usage' = [o \in Orgs |-> [usage[o] EXCEPT !.today = 0]]
    /\ UNCHANGED <<org, keyVars, call, aggregate>>

-----------------------------------------------------------------------------
POSTRotate(a, k) == requireAdmin(a) /\ RotateRead(a, k)

AdminStep(a) ==
    \/ \E o \in Orgs, p \in Plans : POSTOrganization(a, o, p) \/ PATCHPlan(a, o, p)
    \/ \E o \in Orgs :
          (\E s \in Statuses : PATCHStatus(a, o, s)) \/ DELETEOrganization(a, o)
    \/ \E k \in Keys, o \in Orgs, e \in Environments, x \in {Never} \cup 1 .. LastDay - 1 :
          POSTAPIKey(a, k, o, e, x)
    \/ \E k \in Keys :
          \/ PATCHDeactivate(a, k) \/ PATCHReactivate(a, k) \/ DELETEAPIKey(a, k)
          \/ POSTRotate(a, k) \/ RotateInsert(a, k)
    \/ RotateDeactivate(a) \/ RotateAnswer(a) \/ RotateFails(a)

RequestStep(r) ==
    \/ \E k, row \in Keys, op \in Operations : LookUp(r, k, row, op)
    \/ Check(r) \/ Record(r) \/ Unrecorded(r) \/ updateAggregates(r)

TenantNext ==
    \/ \E a \in Admins : AdminStep(a)
    \/ \E r \in Calls : RequestStep(r)
    \/ Midnight

TenantSpec == TenantInit /\ [][TenantNext]_tenantVars
-----------------------------------------------------------------------------
InService(o) == {r \in Calls : Serving(r, "admitted") /\ key[call[r].row].org = o}
Lagging(o)   == {r \in Calls : Serving(r, "recorded") /\ key[call[r].row].org = o}

\* Shapes of the rows, the calls and the counters.
TenantTypeOK ==
    /\ org \in [Orgs -> OrgRow \cup {Absent}]
    /\ key \in [Keys -> KeyRow \cup {Absent}]
    /\ delivered \subseteq Keys /\ paused \subseteq Keys /\ lost \subseteq Keys
    /\ origin \in [Keys -> Keys \cup {Absent}]
    /\ rotation \in [Admins -> Rotation \cup {Absent}]
    /\ call \in [Calls -> Gated \cup {Absent}]
    /\ usage \in [Orgs -> [today : Nat, total : Nat, credits : Nat]]
    /\ aggregate \in [Orgs -> [total : Nat, credits : Nat]]
    /\ day \in 1 .. LastDay

\* The daily limit as authenticateAPIKey keeps it: the records of a day are counted
\* before the request and written after it, so that the requests in service come on top
\* of the limit, and never more than that; a limit is one the request's row was read with.
DailyBound ==
    (\A p \in Plans : RequestsPerDay[p] # Unlimited) =>
        \A o \in Orgs : \E p \in Plans :
            usage[o].today + Cardinality(InService(o)) < RequestsPerDay[p] + Cardinality(Calls)

\* Rotations that have switched their key off and not answered yet.
Answering(k) == {a \in Admins : Rotating(a, "switched") /\ rotation[a].old = k}

\* A key that is off although no administrator has deactivated it was rotated: there is a key
\* of the same organization, environment and expiry for it, and an administrator was given it,
\* is about to, or would have if the answer had not been lost after the switch.  No failure
\* before that, and no rotation of the same key at the same time, leaves a client without a key.
RotatedHasReplacement ==
    \A k \in Keys : Stored(k) /\ ~key[k].active /\ k \notin paused =>
        \E n \in delivered \cup lost \cup {rotation[a].new : a \in Answering(k)} :
            /\ origin[n] = k
            /\ key[n].org = key[k].org /\ key[n].env = key[k].env
            /\ key[n].expires = key[k].expires

\* The aggregates that are billed never run ahead of the usage records: a query that is
\* lost loses a request, none counts one twice, whatever overlaps.
AggregatesFollow ==
    \A o \in Orgs :
        /\ aggregate[o].total + Cardinality(Lagging(o)) <= usage[o].total
        /\ aggregate[o].credits <= usage[o].credits

=============================================================================
