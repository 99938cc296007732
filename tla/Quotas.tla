------------------------------- MODULE Quotas -------------------------------
(***************************************************************************)
(* The quota counters of an organization (services/quota.service.ts of     *)
(* apps/api/src and the /usage routes): per action one counter in Redis    *)
(* for the hour, the day and the month, under a key that names the period, *)
(* with a time to live that starts again with every use.                   *)
(*                                                                         *)
(* One step is one round trip to Redis; recordUsage is a MULTI and thus    *)
(* one.  Time is counted in ticks, several to an hour, so that a use may   *)
(* fall early or late in its hour.  Whoever performs an action asks        *)
(* checkQuota before and calls recordUsage after it.                       *)
(***************************************************************************)
EXTENDS Integers, FiniteSets

CONSTANTS
    Actions,        \* 'request', 'issue_credential', 'verify_credential'
    Users,          \* slots for the actions that are in progress
    Period,         \* the period that callers name for an action
    Limit,          \* TIER_LIMITS of the organization's tier: [Actions -> [Periods -> Nat]]
    Length,         \* of an hour, a day and a month, in ticks
    LastTick        \* bound on the time

Periods == {"hour", "day", "month"}

ASSUME QuotasAssumption ==
    /\ IsFiniteSet(Users) /\ Users # {}
    /\ Period \in [Actions -> Periods]
    /\ Limit \in [Actions -> [Periods -> Nat]]
    /\ Length \in [Periods -> Nat \ {0}]
    /\ Length["hour"] <= Length["day"] /\ Length["day"] <= Length["month"]
    /\ LastTick \in Nat
    /\ "none" \notin Actions

\* Mutant: all three keys live as long as the hour's.
TTLOfHour == [p \in Periods |-> Length["hour"]]

\* An hour, two days and 32 days, which is more than any month.
TTL == [hour  |-> Length["hour"],
        day   |-> 2 * Length["day"],
        month |-> Length["month"] + Length["day"]]

VARIABLES
    now,
    counter,   \* the keys of the current or a past period, with count and expiry
    user,      \* the actions in progress: none, or the action that was permitted
    listed,    \* what KEYS has returned to a resetUsage under way
    used       \* uses recorded in the current period that no reset has erased

quotaVars == <<now, counter, user, listed, used>>

Nobody == "none"

PeriodAt(t, p) == t \div Length[p]

CounterKey == Actions \X Periods

CounterRow == [of : Nat, count : Nat, expires : Nat]

QuotaInit ==
    /\ now = 0
    /\ counter = [k \in CounterKey |-> [of |-> 0, count |-> 0, expires |-> 0]]
    /\ user = [u \in Users |-> Nobody]
    /\ listed = {}
    /\ used = [k \in CounterKey |-> 0]

\* A key that is there: it names the current period and has not expired.
Live(k) == counter[k].of = PeriodAt(now, k[2]) /\ now < counter[k].expires

getUsage(k) == IF Live(k) THEN counter[k].count ELSE 0

\* Mutant: one more than the limit.
checkQuotaInclusive(a, p) == getUsage(<<a, p>>) <= Limit[a][p]

checkQuota(a, p) == getUsage(<<a, p>>) < Limit[a][p]

\* An action that the quota permits goes ahead.
Ask(u, a) ==
    /\ user[u] = Nobody
    /\ checkQuota(a, Period[a])
    /\ user' = [user EXCEPT ![u] = a]
    /\ UNCHANGED <<now, counter, listed, used>>

\* It fails, or the question was only GET /usage/check.
Abandon(u) ==
    /\ user[u] # Nobody
    /\ user' = [user EXCEPT ![u] = Nobody]
    /\ UNCHANGED <<now, counter, listed, used>>

\* INCR and EXPIRE of the three keys.
recordUsage(u) ==
    LET mine == {k \in CounterKey : k[1] = user[u]}
    IN  /\ user[u] # Nobody
        /\ counter' = [k \in CounterKey |->
              IF k \in mine
              THEN [of |-> PeriodAt(now, k[2]), count |-> getUsage(k) + 1,
                    expires |-> now + TTL[k[2]]]
              ELSE counter[k]]
        /\ used' = [k \in CounterKey |-> IF k \in mine THEN used[k] + 1 ELSE used[k]]
        /\ user' = [user EXCEPT ![u] = Nobody]
        /\ UNCHANGED <<now, listed>>

\* resetUsage: KEYS, then DEL of what it returned.
ResetKeys ==
    /\ listed = {}
    /\ listed' = {<<k, counter[k].of>> : k \in {k \in CounterKey : Live(k)}}
    /\ UNCHANGED <<now, counter, user, used>>

Erased(row) == [of |-> row.of, count |-> 0, expires |-> 0]

ResetDel ==
    LET deleted == {k \in CounterKey : <<k, counter[k].of>> \in listed}
    IN  /\ listed # {}
        /\ counter' = [k \in CounterKey |->
              IF k \in deleted THEN Erased(counter[k]) ELSE counter[k]]
        /\ used' = [k \in CounterKey |->
              IF k \in deleted /\ counter[k].of = PeriodAt(now, k[2]) THEN 0 ELSE used[k]]
        /\ listed' = {}
        /\ UNCHANGED <<now, user>>

\* A new period has a key of its own, which nobody has used.
Tick ==
    /\ now < LastTick
    /\ now' = now + 1
    /\ used' = [k \in CounterKey |-> IF PeriodAt(now + 1, k[2]) = PeriodAt(now, k[2])
                              THEN used[k] ELSE 0]
    /\ UNCHANGED <<counter, user, listed>>

UserStep(u) == (\E a \in Actions : Ask(u, a)) \/ Abandon(u) \/ recordUsage(u)

QuotaNext == (\E u \in Users : UserStep(u)) \/ ResetKeys \/ ResetDel \/ Tick

QuotaSpec == QuotaInit /\ [][QuotaNext]_quotaVars

-----------------------------------------------------------------------------
InProgress(a) == {u \in Users : user[u] = a}

\* Shapes of the counters and the actions.
QuotaTypeOK ==
    /\ now \in 0 .. LastTick
    /\ counter \in [CounterKey -> CounterRow]
    /\ user \in [Users -> Actions \cup {Nobody}]
    /\ listed \subseteq CounterKey \X Nat
    /\ used \in [CounterKey -> Nat]

\* A counter is exact for as long as its period lasts: whatever the hour of the last
\* use, its key does not expire within the period that it names, nor does a reset that
\* began before it was created delete it.
CountersLast == \A k \in CounterKey : getUsage(k) = used[k]

\* checkQuota and recordUsage are two calls: the actions in progress at once come on
\* top of the limit of the period that was asked about, and never more.
QuotaBound ==
    \A a \in Actions :
        LET p == Period[a]
        IN  getUsage(<<a, p>>) + Cardinality(InProgress(a)) < Limit[a][p] + Cardinality(Users)

\* What an action costs is neither forgotten within its period nor let past its limit.
QuotasHold == CountersLast /\ QuotaBound

=============================================================================
