------------------------------ MODULE MC_Limits ------------------------------
(***************************************************************************)
(* Constants for model checking RateLimiter, Tenants, Quotas and Payments  *)
(* in one run.  The four share no state: a behaviour is one of one of them *)
(* and leaves the other three where they start, so that the states of the  *)
(* run are the sum of theirs and not the product.                          *)
(***************************************************************************)
EXTENDS RateLimiter, Tenants, Quotas, Payments, TLC

\* The rows k1 and k2 are of api_keys or of payments, the callers c1 and c2 requests
\* with a key, users of a quota or clerks.  i1 is the identifier that requests name first.
CONSTANTS i1, k1, k2, c1, c2, m1, o1, o2

\* Tenants
TwoPlans   == [free |-> 0, basic |-> 1]
AdminRole  == [a \in Admins |-> "admin"]

\* Quotas: two ticks are an hour, two hours a day, two days a month
Calendar   == [hour |-> 2, day |-> 4, month |-> 8]
ByTheHour  == [a \in Actions |-> "hour"]
FewPerHour == [a \in Actions |-> [p \in Periods |-> IF p = "hour" THEN 1 ELSE 2]]

VARIABLE part

mcVars == <<vars, tenantVars, quotaVars, paymentVars, part>>

MCInit ==
    /\ Init /\ TenantInit /\ QuotaInit /\ PaymentInit
    /\ part \in {"rate limiter", "tenants", "quotas", "payments"}
    /\ part # "rate limiter" => \A r \in Requests : req[r].id = i1

MCNext ==
    \/ part = "rate limiter" /\ Next /\ UNCHANGED <<tenantVars, quotaVars, paymentVars, part>>
    \/ part = "tenants" /\ TenantNext /\ UNCHANGED <<vars, quotaVars, paymentVars, part>>
    \/ part = "quotas" /\ QuotaNext /\ UNCHANGED <<vars, tenantVars, paymentVars, part>>
    \/ part = "payments" /\ PaymentNext /\ UNCHANGED <<vars, tenantVars, quotaVars, part>>

MCSpec == MCInit /\ [][MCNext]_mcVars

RowSymmetry == Permutations({k1, k2}) \cup Permutations({c1, c2})
=============================================================================
