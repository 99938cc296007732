---------------------------- MODULE LimitsProofs ----------------------------
(***************************************************************************)
(* Theorems about RateLimiter, Payments, Quotas and Tenants, for every set *)
(* of identifiers, organizations, rows and callers, any number of requests *)
(* at once, any limits and any calendar.                                   *)
(*                                                                         *)
(* That a window is started once needs a strengthening: only a key that    *)
(* exists has an expiry, so that the INCR that makes one finds none set.   *)
(* The overshoot bound needs no strengthening but the type invariant: what *)
(* it counts, the counter plus the requests about to increment it, grows   *)
(* only when a GET has seen the counter below the limit, and then at most  *)
(* the other requests are about to increment it.                           *)
(***************************************************************************)
EXTENDS RateLimiter, Tenants, Quotas, Payments, FiniteSetTheorems, TLAPS

-----------------------------------------------------------------------------
(* The rate limiter                                                         *)

\* Redis keeps no expiry for a key it does not have.
ExpiryHasKey == \A i \in Identifiers : expires[i] => count[i] > 0
WindowInv    == ExpiryHasKey /\ WindowStartedOnce

\* The requests about to increment a counter are finitely many.
LEMMA PendingFinite ==
    ASSUME NEW i
    PROVE  /\ IsFiniteSet(Pending(i))
           /\ Cardinality(Pending(i)) \in Nat
           /\ Cardinality(Pending(i)) <= Cardinality(Requests)
           /\ Cardinality(Requests) \in Nat
<1>1. Pending(i) \subseteq Requests
    BY DEF Pending
<1>. QED
    BY <1>1, RateLimiterAssumption, FS_Subset, FS_CardinalityType DEF RateLimiterAssumption

\* A request that is not about to increment leaves room for one more.
LEMMA PendingLeavesRoom ==
    ASSUME NEW i, NEW r \in Requests, req[r].pc # "incr"
    PROVE  Cardinality(Pending(i)) < Cardinality(Requests)
<1>1. Pending(i) \subseteq Requests /\ Pending(i) # Requests
    BY DEF Pending
<1>. QED
    BY <1>1, PendingFinite, RateLimiterAssumption, FS_Subset, FS_CardinalityType
       DEF RateLimiterAssumption

\* The bound is untouched by a step that adds no pending request and does not
\* raise a counter.
LEMMA BoundShrinks ==
    ASSUME TypeOK, TypeOK', BoundedOvershoot,
           \A i \in Identifiers : Pending(i)' \subseteq Pending(i) /\ count'[i] <= count[i]
    PROVE  BoundedOvershoot'
<1>. SUFFICES ASSUME NEW i \in Identifiers
              PROVE  count'[i] + Cardinality(Pending(i)') < Max + Cardinality(Requests)
    BY DEF BoundedOvershoot
<1>1. Cardinality(Pending(i)') \in Nat /\ Cardinality(Pending(i)') <= Cardinality(Pending(i))
    BY PendingFinite, FS_Subset, FS_CardinalityType
<1>2. count[i] \in Nat /\ count'[i] \in Nat
    BY DEF TypeOK
<1>. QED
    BY <1>1, <1>2, PendingFinite, RateLimiterAssumption
       DEF BoundedOvershoot, RateLimiterAssumption

LEMMA InitHolds == Init => TypeOK /\ WindowInv /\ BoundedOvershoot
<1>. SUFFICES ASSUME Init PROVE TypeOK /\ WindowInv /\ BoundedOvershoot
    OBVIOUS
<1>1. TypeOK
    BY RateLimiterAssumption DEF Init, TypeOK, RateLimiterAssumption
<1>2. WindowInv
    BY DEF Init, WindowInv, ExpiryHasKey, WindowStartedOnce
<1>3. BoundedOvershoot
  <2>. SUFFICES ASSUME NEW i \in Identifiers
                PROVE  count[i] + Cardinality(Pending(i)) < Max + Cardinality(Requests)
      BY DEF BoundedOvershoot
  <2>1. Pending(i) = {}
      BY DEF Init, Pending
  <2>2. Cardinality(Pending(i)) = 0
      BY <2>1, FS_EmptySet
  <2>. QED
      BY <2>2, PendingFinite, RateLimiterAssumption DEF Init, RateLimiterAssumption
<1>. QED
    BY <1>1, <1>2, <1>3

LEMMA TypeStep == TypeOK /\ [Next]_vars => TypeOK'
<1>. SUFFICES ASSUME TypeOK, [Next]_vars PROVE TypeOK'
    OBVIOUS
<1>. USE DEF TypeOK, Request
<1>1. ASSUME NEW r \in Requests, NEW i \in Identifiers, Arrive(r, i) PROVE TypeOK'
    BY <1>1 DEF Arrive
<1>2. ASSUME NEW r \in Requests, Get(r) PROVE TypeOK'
    BY <1>2 DEF Get, Goto
<1>3. ASSUME NEW r \in Requests, Incr(r) PROVE TypeOK'
    BY <1>3 DEF Incr, Answered, Goto
<1>4. ASSUME NEW r \in Requests, PExpire(r) PROVE TypeOK'
    BY <1>4 DEF PExpire, Goto
<1>5. ASSUME NEW r \in Requests, Ttl(r) PROVE TypeOK'
    BY <1>5 DEF Ttl, Goto
<1>6. ASSUME NEW r \in Requests, RedisFails(r) PROVE TypeOK'
    BY <1>6 DEF RedisFails, Goto
<1>7. ASSUME NEW i \in Identifiers, Expire(i) PROVE TypeOK'
    BY <1>7 DEF Expire
<1>8. CASE Restart
  <2>1. restarts' \in 0 .. MaxRestarts
    <3>1. restarts < MaxRestarts /\ restarts' = restarts + 1
        BY <1>8, Zenon DEF Restart
    <3>2. restarts \in 0 .. MaxRestarts /\ MaxRestarts \in Nat
        BY RateLimiterAssumption DEF RateLimiterAssumption
    <3>. QED
        BY <3>1, <3>2
  <2>2. req' \in [Requests -> Request]
    <3>1. req' = [r \in Requests |-> [req[r] EXCEPT !.pc = "idle"]]
        BY <1>8 DEF Restart
    <3>2. \A q \in Request : [q EXCEPT !.pc = "idle"] \in Request
        OBVIOUS
    <3>. QED
        BY <3>1, <3>2, Zenon
  <2>. QED
      BY <1>8, <2>1, <2>2 DEF Restart
<1>9. CASE UNCHANGED vars
    BY <1>9 DEF vars
<1>. QED
    BY <1>1, <1>2, <1>3, <1>4, <1>5, <1>6, <1>7, <1>8, <1>9 DEF Next, Serve

\* A window is started by the request whose INCR made the key: no other one
\* is about to set an expiry then, for that would need the key to exist.
LEMMA WindowStep == TypeOK /\ WindowInv /\ [Next]_vars => WindowInv'
<1>. SUFFICES ASSUME TypeOK, WindowInv, [Next]_vars PROVE WindowInv'
    OBVIOUS
<1>. USE DEF TypeOK, Request, WindowInv, ExpiryHasKey, WindowStartedOnce
<1>1. ASSUME NEW r \in Requests, NEW i \in Identifiers, Arrive(r, i) PROVE WindowInv'
    BY <1>1 DEF Arrive
<1>2. ASSUME NEW r \in Requests, Get(r) PROVE WindowInv'
    BY <1>2 DEF Get, Goto
<1>3. ASSUME NEW r \in Requests, Incr(r) PROVE WindowInv'
  <2>1. \A s \in Requests : s # r => req'[s] = req[s]
      BY <1>3 DEF Incr, Answered, Goto
  <2>2. /\ req'[r].id = req[r].id /\ expires' = expires /\ req[r].pc = "incr"
        /\ count'[req[r].id] = count[req[r].id] + 1
        /\ \A i \in Identifiers : count'[i] \in Nat /\ count'[i] >= count[i]
      BY <1>3 DEF Incr, Answered, Goto
  <2>3. CASE FirstOfWindow(req[r].id)
    <3>0. req'[r].pc \in {"expire", "admitted"} /\ count[req[r].id] = 0
        BY <1>3, <2>3 DEF Incr, Answered, Goto, FirstOfWindow
    <3>1. \A s \in Requests : s # r /\ req[s].id = req[r].id => req[s].pc # "expire"
        BY <3>0
    <3>2. ~expires[req[r].id]
        BY <3>0
    <3>. QED
        BY <2>1, <2>2, <3>0, <3>1, <3>2
  <2>4. CASE ~FirstOfWindow(req[r].id)
    <3>1. req'[r].pc = "admitted"
        BY <1>3, <2>4 DEF Incr, Answered, Goto
    <3>. QED
        BY <2>1, <2>2, <3>1
  <2>. QED
      BY <2>3, <2>4
<1>4. ASSUME NEW r \in Requests, PExpire(r) PROVE WindowInv'
    BY <1>4 DEF PExpire, Goto
<1>5. ASSUME NEW r \in Requests, Ttl(r) PROVE WindowInv'
    BY <1>5 DEF Goto, Ttl
<1>6. ASSUME NEW r \in Requests, RedisFails(r) PROVE WindowInv'
    BY <1>6 DEF RedisFails, Goto
<1>7. ASSUME NEW i \in Identifiers, Expire(i) PROVE WindowInv'
    BY <1>7 DEF Expire
<1>8. CASE Restart
    BY <1>8 DEF Restart
<1>9. CASE UNCHANGED vars
    BY <1>9 DEF vars
<1>. QED
    BY <1>1, <1>2, <1>3, <1>4, <1>5, <1>6, <1>7, <1>8, <1>9 DEF Next, Serve

LEMMA BoundStep == TypeOK /\ BoundedOvershoot /\ [Next]_vars => BoundedOvershoot'
<1>. SUFFICES ASSUME TypeOK, BoundedOvershoot, [Next]_vars PROVE BoundedOvershoot'
    OBVIOUS
<1>0. TypeOK'
    BY TypeStep
<1>. USE DEF TypeOK, Request
<1>1. ASSUME NEW r \in Requests, NEW i \in Identifiers, Arrive(r, i) PROVE BoundedOvershoot'
    BY <1>0, <1>1, BoundShrinks DEF Pending, Arrive
<1>2. ASSUME NEW r \in Requests, Get(r) PROVE BoundedOvershoot'
  <2>1. CASE LimitExceeded(req[r].id)
      BY <1>0, <1>2, <2>1, BoundShrinks DEF Pending, Get, Goto
  <2>2. CASE ~LimitExceeded(req[r].id)
    <3>. SUFFICES ASSUME NEW i \in Identifiers
                  PROVE  count'[i] + Cardinality(Pending(i)') < Max + Cardinality(Requests)
        BY DEF BoundedOvershoot
    <3>0. count'[i] = count[i] /\ count[i] \in Nat /\ Max \in Nat
        BY <1>2, RateLimiterAssumption DEF Get, RateLimiterAssumption
    <3>1. CASE i = req[r].id
      <4>1. Pending(i)' = Pending(i) \cup {r} /\ r \notin Pending(i)
          BY <1>2, <2>2, <3>1 DEF Get, Goto, Pending
      <4>2. Cardinality(Pending(i)') = Cardinality(Pending(i)) + 1
          BY <4>1, PendingFinite, FS_AddElement
      <4>3. Cardinality(Pending(i)) < Cardinality(Requests)
          BY <1>2, PendingLeavesRoom DEF Get
      <4>4. count[i] < Max
          BY <2>2, <3>0, <3>1 DEF LimitExceeded
      <4>. QED
          BY <3>0, <4>2, <4>3, <4>4, PendingFinite
    <3>2. CASE i # req[r].id
      <4>1. Pending(i)' = Pending(i)
          BY <1>2, <3>2 DEF Get, Goto, Pending
      <4>. QED
          BY <3>0, <4>1 DEF BoundedOvershoot
    <3>. QED
        BY <3>1, <3>2
  <2>. QED
      BY <2>1, <2>2
<1>3. ASSUME NEW r \in Requests, Incr(r) PROVE BoundedOvershoot'
  <2>. SUFFICES ASSUME NEW i \in Identifiers
                PROVE  count'[i] + Cardinality(Pending(i)') < Max + Cardinality(Requests)
      BY DEF BoundedOvershoot
  <2>0. count[i] \in Nat /\ Max \in Nat
      BY RateLimiterAssumption DEF RateLimiterAssumption
  <2>1. CASE i = req[r].id
    <3>1. Pending(i)' = Pending(i) \ {r} /\ r \in Pending(i)
        BY <1>3, <2>1 DEF Incr, Answered, Goto, Pending
    <3>2. Cardinality(Pending(i)') = Cardinality(Pending(i)) - 1
        BY <3>1, PendingFinite, FS_RemoveElement
    <3>3. count'[i] = count[i] + 1
        BY <1>3, <2>1 DEF Incr
    <3>. QED
        BY <2>0, <3>2, <3>3, PendingFinite DEF BoundedOvershoot
  <2>2. CASE i # req[r].id
    <3>1. Pending(i)' = Pending(i) /\ count'[i] = count[i]
        BY <1>3, <2>2 DEF Incr, Answered, Goto, Pending
    <3>. QED
        BY <3>1 DEF BoundedOvershoot
  <2>. QED
      BY <2>1, <2>2
<1>4. ASSUME NEW r \in Requests, PExpire(r) PROVE BoundedOvershoot'
    BY <1>0, <1>4, BoundShrinks DEF Pending, PExpire, Goto
<1>5. ASSUME NEW r \in Requests, Ttl(r) PROVE BoundedOvershoot'
    BY <1>0, <1>5, BoundShrinks DEF Pending, Ttl, Goto
<1>6. ASSUME NEW r \in Requests, RedisFails(r) PROVE BoundedOvershoot'
    BY <1>0, <1>6, BoundShrinks DEF Pending, RedisFails, Goto
<1>7. ASSUME NEW i \in Identifiers, Expire(i) PROVE BoundedOvershoot'
    BY <1>0, <1>7, BoundShrinks DEF Pending, Expire
<1>8. CASE Restart
  <2>0. req' = [r \in Requests |-> [req[r] EXCEPT !.pc = "idle"]]
      BY <1>8 DEF Restart
  <2>1. \A r \in Requests : req'[r].pc = "idle"
      BY <2>0
  <2>2. \A i \in Identifiers : Pending(i)' \subseteq Pending(i)
      BY <2>1 DEF Pending
  <2>3. \A i \in Identifiers : count'[i] <= count[i]
    <3>1. count' = count
        BY <1>8, Zenon DEF Restart
    <3>. QED
        BY <3>1
  <2>. QED
      BY <1>0, <2>2, <2>3, BoundShrinks
<1>9. CASE UNCHANGED vars
    BY <1>0, <1>9, BoundShrinks DEF Pending, vars
<1>. QED
    BY <1>1, <1>2, <1>3, <1>4, <1>5, <1>6, <1>7, <1>8, <1>9 DEF Next, Serve

-----------------------------------------------------------------------------
\* The three invariants together, of which two need the types.
THEOREM LimiterInvariance == Spec => [](TypeOK /\ WindowInv /\ BoundedOvershoot)
<1>1. TypeOK /\ WindowInv /\ BoundedOvershoot /\ [Next]_vars
      => (TypeOK /\ WindowInv /\ BoundedOvershoot)'
    BY TypeStep, WindowStep, BoundStep
<1>. QED
    BY <1>1, InitHolds, PTL DEF Spec

\* Counters, expiries and requests keep their shapes (createRateLimiter).
THEOREM LimiterTypeCorrect == Spec => []TypeOK
BY LimiterInvariance, PTL

\* However many requests of an identifier arrive at once, fewer of them than
\* Max plus the number of requests served at once are counted in a window.
THEOREM OvershootBounded == Spec => []BoundedOvershoot
BY LimiterInvariance, PTL

\* The expiry of a key is set once, by the request whose INCR created it.
THEOREM OneStartPerWindow == Spec => []WindowStartedOnce
BY LimiterInvariance, PTL DEF WindowInv

\* With any limit, any number of requests and failing commands, a window of one length is overshot
\* by less than the requests served at once.
THEOREM LimitKept == Spec => []LimitIsKept
<1>1. BoundedOvershoot /\ WindowStartedOnce => LimitIsKept
  BY DEF LimitIsKept
<1> QED
  BY <1>1, OvershootBounded, OneStartPerWindow, PTL

-----------------------------------------------------------------------------
(* Payments                                                                 *)

\* A call that has inserted its payment finds it, with the date it will copy.
EntriesPaid ==
    \A c \in DOMAIN entry : entry[c].pc = "inserted" =>
        /\ entry[c].id \in Recorded
        /\ payment[entry[c].id].org = entry[c].payment.org
        /\ payment[entry[c].id].end = entry[c].payment.end

\* The parts of a report that have been read are not more than there is now.
ReportSoFar ==
    /\ report.pc = "method" => report.total <= Cardinality(Recorded)
    /\ ReportGrows

PaymentInv == PaymentTypeOK /\ EndIsPaidFor /\ EntriesPaid /\ ReportSoFar

LEMMA PaymentInit0 == PaymentInit => PaymentInv
<1> SUFFICES ASSUME PaymentInit PROVE PaymentInv
  OBVIOUS
<1>1. DOMAIN payment = {} /\ DOMAIN entry = {} /\ payment = [x \in {} |-> x] /\ entry = [x \in {} |-> x]
  BY DEF PaymentInit
<1>2. payment \in [Recorded -> Payment] /\ entry \in [DOMAIN entry -> Entry]
  BY <1>1 DEF Recorded
<1>3. PaymentTypeOK
  BY <1>1, <1>2, PaymentsAssumption DEF PaymentInit, PaymentTypeOK, Recorded, Report, Dates
<1>4. EndIsPaidFor /\ EntriesPaid /\ ReportSoFar
  BY <1>1, PaymentsAssumption DEF PaymentInit, EndIsPaidFor, EntriesPaid, ReportSoFar, ReportGrows
<1> QED
  BY <1>3, <1>4 DEF PaymentInv

\* The table of payments is finite.
LEMMA RecordedFinite ==
  ASSUME PaymentTypeOK
  PROVE  IsFiniteSet(Recorded) /\ Cardinality(Recorded) \in Nat
  BY PaymentsAssumption, FS_Subset, FS_CardinalityType DEF PaymentTypeOK

\* Steps that keep every row with its organization and date keep what rests on them.
LEMMA RowsStay ==
  ASSUME PaymentInv, PaymentTypeOK',
         Recorded \subseteq Recorded',
         \A i \in Recorded : payment'[i].org = payment[i].org /\ payment'[i].end = payment[i].end,
         \A c \in DOMAIN entry' : entry'[c].pc = "inserted" =>
            c \in DOMAIN entry /\ entry'[c] = entry[c],
         UNCHANGED <<end, agreed, report>>
  PROVE  PaymentInv'
<1>1. EndIsPaidFor' /\ EntriesPaid'
  BY DEF PaymentInv, EndIsPaidFor, EntriesPaid, PaymentTypeOK
<1>2. Cardinality(Recorded) <= Cardinality(Recorded') /\ Cardinality(Recorded') \in Nat
      /\ Cardinality(Recorded) \in Nat
  <2>1. PaymentTypeOK
    BY DEF PaymentInv
  <2>2. IsFiniteSet(Recorded') /\ Cardinality(Recorded') \in Nat
    <3>1. Recorded' \subseteq PaymentIds
      BY DEF PaymentTypeOK
    <3> QED
      BY <3>1, PaymentsAssumption, FS_Subset, FS_CardinalityType
  <2> QED
    BY <2>1, <2>2, RecordedFinite, FS_Subset
<1>3. ReportSoFar'
  BY <1>2 DEF PaymentInv, ReportSoFar, ReportGrows, PaymentTypeOK, Report
<1> QED
  BY <1>1, <1>3 DEF PaymentInv

LEMMA PaymentStep == PaymentInv /\ [PaymentNext]_paymentVars => PaymentInv'
<1> SUFFICES ASSUME PaymentInv, [PaymentNext]_paymentVars PROVE PaymentInv'
  OBVIOUS
<1>0. PaymentTypeOK
  BY DEF PaymentInv
<1>1. ASSUME NEW c \in Clerks, NEW o \in Subscribers, NEW d \in Dates, NEW x \in BOOLEAN,
             POSTPayment(c, o, d, x)
      PROVE  PaymentInv'
  <2>1. PICK i \in PaymentIds \ Recorded :
           entry' = With(entry, c, [pc |-> "asked", id |-> i, extend |-> x,
                                    payment |-> [org |-> o, end |-> d, status |-> "confirmed"]])
    BY <1>1 DEF POSTPayment
  <2>2. PaymentTypeOK'
    BY <1>0, <1>1, <2>1 DEF POSTPayment, PaymentTypeOK, With, Entry, Payment, Recorded
  <2>3. \A b \in DOMAIN entry' : entry'[b].pc = "inserted" => b \in DOMAIN entry /\ entry'[b] = entry[b]
    BY <2>1 DEF With
  <2> QED
    BY <1>1, <2>2, <2>3, RowsStay DEF POSTPayment, Recorded
<1>2. ASSUME NEW c \in Clerks, InsertPayment(c) PROVE PaymentInv'
  <2> DEFINE e == entry[c]
  <2>1. /\ c \in DOMAIN entry /\ e \in Entry /\ e.pc = "asked" /\ e.id \notin Recorded
        /\ payment' = With(payment, e.id, e.payment)
        /\ UNCHANGED <<end, agreed, report>>
        /\ e.id \in PaymentIds /\ e.payment \in Payment
    BY <1>0, <1>2 DEF InsertPayment, PaymentTypeOK, Entry
  <2>2. /\ Recorded' = Recorded \cup {e.id}
        /\ \A i \in Recorded : payment'[i] = payment[i]
        /\ payment'[e.id] = e.payment
    BY <2>1 DEF With, Recorded
  <2>3. CASE ~Extends(c)
    <3>1. entry' = Without(entry, c)
      BY <1>2, <2>3 DEF InsertPayment, Done
    <3>2. PaymentTypeOK'
      BY <1>0, <2>1, <2>2, <3>1 DEF PaymentTypeOK, With, Without, Recorded
    <3> QED
      BY <2>1, <2>2, <3>1, <3>2, RowsStay DEF Without
  <2>4. CASE Extends(c)
    <3>1. entry' = [entry EXCEPT ![c].pc = "inserted"]
      BY <1>2, <2>4 DEF InsertPayment
    <3>2. /\ DOMAIN entry' = DOMAIN entry
          /\ entry'[c] = [e EXCEPT !.pc = "inserted"]
          /\ \A b \in DOMAIN entry : b # c => entry'[b] = entry[b]
      BY <2>1, <3>1
    <3>3. /\ entry'[c] \in Entry /\ entry'[c].id = e.id /\ entry'[c].payment = e.payment
      BY <2>1, <3>2 DEF Entry
    <3>4. PaymentTypeOK'
      BY <1>0, <2>1, <2>2, <3>1, <3>2, <3>3 DEF PaymentTypeOK, With, Recorded
    <3>5. EntriesPaid' /\ EndIsPaidFor'
      <4>1. ASSUME NEW o \in Subscribers, NEW i \in Recorded,
                   payment[i].org = o /\ payment[i].end = end[o]
            PROVE  i \in Recorded' /\ payment'[i].org = o /\ payment'[i].end = end'[o]
        BY <2>1, <2>2, <4>1
      <4>2. EndIsPaidFor'
        BY <2>1, <4>1 DEF PaymentInv, EndIsPaidFor
      <4>3. ASSUME NEW b \in DOMAIN entry', entry'[b].pc = "inserted"
            PROVE  /\ entry'[b].id \in Recorded'
                   /\ payment'[entry'[b].id].org = entry'[b].payment.org
                   /\ payment'[entry'[b].id].end = entry'[b].payment.end
        <5>1. CASE b = c
          BY <2>2, <3>3, <5>1
        <5>2. CASE b # c
          <6>1. b \in DOMAIN entry /\ entry'[b] = entry[b]
            BY <3>2, <4>3, <5>2
          <6> QED
            BY <2>2, <4>3, <6>1 DEF PaymentInv, EntriesPaid
        <5> QED
          BY <5>1, <5>2
      <4> QED
        BY <4>2, <4>3 DEF EntriesPaid
    <3>6. Cardinality(Recorded') = Cardinality(Recorded) + 1 /\ Cardinality(Recorded) \in Nat
      <4>1. IsFiniteSet(Recorded) /\ Cardinality(Recorded) \in Nat
        BY <1>0, RecordedFinite
      <4> QED
        BY <2>1, <2>2, <4>1, FS_AddElement
    <3>7. ReportSoFar'
      BY <1>0, <2>1, <3>6 DEF PaymentInv, ReportSoFar, ReportGrows, PaymentTypeOK, Report
    <3> QED
      BY <3>4, <3>5, <3>7 DEF PaymentInv
  <2> QED
    BY <2>3, <2>4
<1>3. ASSUME NEW c \in Clerks, ExtendSubscription(c) PROVE PaymentInv'
  <2> DEFINE e == entry[c]
  <2>1. /\ c \in DOMAIN entry /\ e \in Entry /\ e.pc = "inserted" /\ e.payment \in Payment
        /\ e.payment.org \in Subscribers /\ e.payment.end \in Dates
    BY <1>0, <1>3 DEF ExtendSubscription, PaymentTypeOK, Entry, Payment
  <2>2. /\ end' = [end EXCEPT ![e.payment.org] = e.payment.end]
        /\ agreed' = [agreed EXCEPT ![e.payment.org] = FALSE]
        /\ entry' = Without(entry, c)
        /\ UNCHANGED <<payment, report>>
    BY <1>3 DEF ExtendSubscription, Done
  <2>3. PaymentTypeOK'
    BY <1>0, <2>1, <2>2 DEF PaymentTypeOK, Without, Recorded
  <2>4. EndIsPaidFor'
    <3>1. \A o \in Subscribers : o # e.payment.org => agreed'[o] = agreed[o] /\ end'[o] = end[o]
      BY <1>0, <2>2 DEF PaymentTypeOK
    <3>2. end'[e.payment.org] = e.payment.end
      BY <1>0, <2>1, <2>2 DEF PaymentTypeOK
    <3> QED
      BY <2>1, <2>2, <3>1, <3>2 DEF PaymentInv, EndIsPaidFor, EntriesPaid, Recorded
  <2>5. EntriesPaid' /\ ReportSoFar'
    BY <2>2 DEF PaymentInv, EntriesPaid, ReportSoFar, ReportGrows, Without, Recorded
  <2> QED
    BY <2>3, <2>4, <2>5 DEF PaymentInv
<1>4. ASSUME NEW c \in Clerks, EntryFails(c) PROVE PaymentInv'
  <2>1. entry' = Without(entry, c) /\ UNCHANGED <<payment, end, agreed, report>>
    BY <1>4 DEF EntryFails, Done
  <2>2. PaymentTypeOK'
    BY <1>0, <2>1 DEF PaymentTypeOK, Without, Recorded
  <2> QED
    BY <2>1, <2>2, RowsStay DEF Without, Recorded
<1>5. ASSUME NEW i \in PaymentIds, NEW s \in {"pending", "confirmed", "rejected"},
             PATCHPaymentStatus(i, s)
      PROVE  PaymentInv'
  <2>1. /\ i \in Recorded /\ payment' = [payment EXCEPT ![i].status = s]
        /\ UNCHANGED <<end, agreed, entry, report>>
    BY <1>5 DEF PATCHPaymentStatus
  <2>2. /\ Recorded' = Recorded
        /\ \A j \in Recorded : payment'[j] \in Payment /\ payment'[j].org = payment[j].org
                               /\ payment'[j].end = payment[j].end
    BY <1>0, <2>1 DEF Recorded, PaymentTypeOK, Payment
  <2>3. PaymentTypeOK'
    BY <1>0, <2>1, <2>2 DEF PaymentTypeOK, Recorded
  <2> QED
    BY <2>1, <2>2, <2>3, RowsStay
<1>6. ASSUME NEW o \in Subscribers, NEW d \in Dates, ChangePlan(o, d) PROVE PaymentInv'
  BY <1>0, <1>6 DEF ChangePlan, PaymentInv, PaymentTypeOK, EndIsPaidFor, EntriesPaid,
     ReportSoFar, ReportGrows, Recorded
<1>7. CASE ReportTotal
  <2>1. Cardinality(Recorded) \in Nat /\ report \in Report
    BY <1>0, RecordedFinite DEF PaymentTypeOK
  <2>2. /\ report' = [report EXCEPT !.pc = "method", !.total = Cardinality(Recorded)]
        /\ UNCHANGED <<payment, end, agreed, entry>>
    BY <1>7 DEF ReportTotal
  <2>3. /\ report'.pc = "method" /\ report'.total = Cardinality(Recorded)
        /\ report'.method = report.method /\ report' \in Report
    BY <2>1, <2>2 DEF Report
  <2>4. ReportSoFar'
    BY <2>1, <2>2, <2>3, <1>7 DEF ReportTotal, PaymentInv, ReportSoFar, ReportGrows, Recorded
  <2> QED
    BY <1>0, <2>2, <2>3, <2>4 DEF PaymentInv, PaymentTypeOK, EndIsPaidFor, EntriesPaid, Recorded
<1>8. CASE ReportByMethod
  <2>1. Cardinality(Recorded) \in Nat /\ report \in Report
    BY <1>0, RecordedFinite DEF PaymentTypeOK
  <2>2. /\ report' = [report EXCEPT !.pc = "status", !.method = Cardinality(Recorded)]
        /\ UNCHANGED <<payment, end, agreed, entry>>
    BY <1>8 DEF ReportByMethod
  <2>3. /\ report'.pc = "status" /\ report'.method = Cardinality(Recorded)
        /\ report'.total = report.total /\ report' \in Report
    BY <2>1, <2>2 DEF Report
  <2>4. ReportSoFar'
    BY <2>1, <2>2, <2>3, <1>8 DEF ReportByMethod, PaymentInv, ReportSoFar, ReportGrows, Recorded
  <2> QED
    BY <1>0, <2>2, <2>3, <2>4 DEF PaymentInv, PaymentTypeOK, EndIsPaidFor, EntriesPaid, Recorded
<1>9. CASE ReportByStatus
  BY <1>0, <1>9 DEF ReportByStatus, PaymentInv, PaymentTypeOK, EndIsPaidFor,
     EntriesPaid, ReportSoFar, ReportGrows, Recorded, Report
<1>10. CASE UNCHANGED paymentVars
  BY <1>0, <1>10 DEF paymentVars, PaymentInv, PaymentTypeOK, EndIsPaidFor,
     EntriesPaid, ReportSoFar, ReportGrows, Recorded
<1> QED
  BY <1>1, <1>2, <1>3, <1>4, <1>5, <1>6, <1>7, <1>8, <1>9, <1>10 DEF PaymentNext

\* Rows, calls and reports keep their shapes.
THEOREM PaymentTypeCorrect == PaymentSpec => []PaymentTypeOK
<1>1. PaymentInv => PaymentTypeOK
  BY DEF PaymentInv
<1> QED
  BY <1>1, PaymentInit0, PaymentStep, PTL DEF PaymentSpec

\* Whatever fails between the two statements of createPayment, and whoever else enters
\* payments meanwhile, no subscription is extended to a date that nobody paid for.
THEOREM EndsArePaid == PaymentSpec => []EndIsPaidFor
<1>1. PaymentInv => EndIsPaidFor
  BY DEF PaymentInv
<1> QED
  BY <1>1, PaymentInit0, PaymentStep, PTL DEF PaymentSpec

\* The parts of the statistics that are read later cover those read before.
THEOREM ReportsGrow == PaymentSpec => []ReportGrows
<1>1. PaymentInv => ReportGrows
  BY DEF PaymentInv, ReportSoFar
<1> QED
  BY <1>1, PaymentInit0, PaymentStep, PTL DEF PaymentSpec

-----------------------------------------------------------------------------
(* Quotas                                                                   *)

\* A number is a multiple of the length of a period and a rest.
LEMMA Division ==
  ASSUME NEW L \in Nat \ {0}, NEW t \in Nat
  PROVE  t \div L \in Nat /\ t % L \in 0 .. L - 1 /\ t = L * (t \div L) + (t % L)
  BY SMT

\* Periods follow each other in time.
LEMMA PeriodsFollow ==
  ASSUME NEW L \in Nat \ {0}, NEW s \in Nat, NEW t \in Nat, s <= t
  PROVE  s \div L <= t \div L
  BY SMT

\* Two moments of one period are less than its length apart.
LEMMA SamePeriod ==
  ASSUME NEW L \in Nat \ {0}, NEW s \in Nat, NEW t \in Nat, s \div L = t \div L
  PROVE  t < s + L
<1>1. s = L * (s \div L) + (s % L) /\ s % L \in 0 .. L - 1 /\ s \div L \in Nat
  BY Division
<1>2. t = L * (s \div L) + (t % L) /\ t % L \in 0 .. L - 1
  BY Division
<1>3. PICK m \in Int : m = L * (s \div L)
  BY <1>1
<1>4. s = m + (s % L) /\ t = m + (t % L)
  BY <1>1, <1>2, <1>3
<1> QED
  BY <1>1, <1>2, <1>4

\* No key expires within the period that it is used in.
LEMMA TTLCovers ==
  ASSUME NEW p \in Periods
  PROVE  Length[p] \in Nat \ {0} /\ TTL[p] \in Nat /\ TTL[p] >= Length[p]
  BY QuotasAssumption DEF TTL, Periods

\* A counter that counts was last used at some time of the period that it names.
CounterDated ==
    \A k \in CounterKey : counter[k].count # 0 =>
        \E s \in 0 .. now : /\ counter[k].of = s \div Length[k[2]]
                            /\ counter[k].expires = s + TTL[k[2]]

QuotaInv == QuotaTypeOK /\ CounterDated /\ CountersLast /\ QuotaBound

LEMMA KeyPeriod == ASSUME NEW k \in CounterKey PROVE k[1] \in Actions /\ k[2] \in Periods /\ k = <<k[1], k[2]>>
  BY DEF CounterKey

\* Counting is by naturals.
LEMMA UsageType ==
  ASSUME QuotaTypeOK, NEW k \in CounterKey
  PROVE  /\ getUsage(k) \in Nat /\ counter[k] \in CounterRow /\ used[k] \in Nat
         /\ counter[k].count = 0 => getUsage(k) = 0
  BY DEF QuotaTypeOK, getUsage, CounterRow

\* A counter that counts has not expired as long as its period lasts.
LEMMA CountedIsLive ==
  ASSUME QuotaTypeOK, CounterDated, NEW k \in CounterKey,
         counter[k].of = PeriodAt(now, k[2])
  PROVE  getUsage(k) = counter[k].count
<1>1. CASE counter[k].count = 0
  BY <1>1 DEF getUsage
<1>2. CASE counter[k].count # 0
  <2>1. PICK s \in 0 .. now : counter[k].of = s \div Length[k[2]] /\ counter[k].expires = s + TTL[k[2]]
    BY <1>2 DEF CounterDated
  <2>2. s \in Nat /\ now \in Nat
    BY QuotasAssumption DEF QuotaTypeOK
  <2>3. now < s + Length[k[2]]
    BY <2>1, <2>2, SamePeriod, TTLCovers, KeyPeriod DEF PeriodAt
  <2>4. now < s + TTL[k[2]]
    BY <2>2, <2>3, TTLCovers, KeyPeriod
  <2> QED
    BY <2>1, <2>4 DEF getUsage, Live
<1> QED
  BY <1>1, <1>2

\* The users whose action is in progress are no more than there are users.
LEMMA FewInProgress ==
  ASSUME NEW a
  PROVE  /\ IsFiniteSet(InProgress(a)) /\ Cardinality(InProgress(a)) \in Nat
         /\ Cardinality(Users) \in Nat \ {0}
         /\ Cardinality(InProgress(a)) <= Cardinality(Users)
  BY QuotasAssumption, FS_Subset, FS_CardinalityType, FS_EmptySet DEF InProgress

LEMMA QuotaInit0 == QuotaInit => QuotaInv
<1> SUFFICES ASSUME QuotaInit PROVE QuotaInv
  OBVIOUS
<1>1. QuotaTypeOK
  BY QuotasAssumption DEF QuotaInit, QuotaTypeOK, CounterRow
<1>2. \A k \in CounterKey : counter[k].count = 0 /\ getUsage(k) = 0 /\ used[k] = 0
  BY DEF QuotaInit, getUsage
<1>3. CounterDated /\ CountersLast
  BY <1>2 DEF CounterDated, CountersLast
<1>4. ASSUME NEW a \in Actions
      PROVE  getUsage(<<a, Period[a]>>) + Cardinality(InProgress(a))
                < Limit[a][Period[a]] + Cardinality(Users)
  <2>1. InProgress(a) = {} \/ a = Nobody
    BY DEF QuotaInit, InProgress
  <2>2. Period[a] \in Periods /\ Limit[a][Period[a]] \in Nat
    BY QuotasAssumption
  <2>3. getUsage(<<a, Period[a]>>) = 0
    BY <1>2, <2>2 DEF CounterKey
  <2>4. a # Nobody
    BY QuotasAssumption DEF Nobody
  <2> QED
    BY <2>1, <2>2, <2>3, <2>4, FewInProgress, FS_EmptySet
<1> QED
  BY <1>1, <1>3, <1>4 DEF QuotaInv, QuotaBound

\* The bound of an action holds after a step when its counter is below the limit, or
\* when neither the counter nor the actions in progress have become more.
LEMMA BoundKept ==
  ASSUME QuotaInv, QuotaTypeOK', NEW a \in Actions,
         LET k == <<a, Period[a]>>
         IN  \/ getUsage(k)' < Limit[a][Period[a]]
             \/ getUsage(k)' <= getUsage(k) /\ InProgress(a)' \subseteq InProgress(a)
  PROVE  (getUsage(<<a, Period[a]>>) + Cardinality(InProgress(a))
                < Limit[a][Period[a]] + Cardinality(Users))'
<1> DEFINE k == <<a, Period[a]>>
<1>1. Period[a] \in Periods /\ Limit[a][Period[a]] \in Nat
  BY QuotasAssumption
<1>2. k \in CounterKey
  BY <1>1 DEF CounterKey
<1>3. getUsage(k) \in Nat
  BY <1>2, UsageType DEF QuotaInv
<1>4. getUsage(k)' \in Nat
  BY <1>2 DEF QuotaTypeOK, getUsage, CounterRow
<1>5. /\ InProgress(a)' \subseteq Users
      /\ IsFiniteSet(InProgress(a)') /\ Cardinality(InProgress(a)') \in Nat
      /\ Cardinality(InProgress(a)') <= Cardinality(Users)
  <2>1. InProgress(a)' \subseteq Users
    BY DEF InProgress
  <2> QED
    BY <2>1, QuotasAssumption, FS_Subset, FS_CardinalityType
<1>6. getUsage(k) + Cardinality(InProgress(a)) < Limit[a][Period[a]] + Cardinality(Users)
  BY DEF QuotaInv, QuotaBound
<1>7. CASE getUsage(k)' < Limit[a][Period[a]]
  BY <1>1, <1>4, <1>5, <1>7, FewInProgress
<1>8. CASE getUsage(k)' <= getUsage(k) /\ InProgress(a)' \subseteq InProgress(a)
  <2>1. Cardinality(InProgress(a)') <= Cardinality(InProgress(a))
    BY <1>8, FewInProgress, FS_Subset
  <2> QED
    BY <1>1, <1>3, <1>4, <1>5, <1>6, <1>8, <2>1, FewInProgress
<1> QED
  BY <1>7, <1>8

\* Steps that leave the counters and the time alone.
LEMMA CountersAlone ==
  ASSUME QuotaInv, UNCHANGED <<now, counter, used>>
  PROVE  CounterDated' /\ CountersLast' /\ \A k : getUsage(k)' = getUsage(k)
  BY DEF QuotaInv, CounterDated, CountersLast, getUsage, Live

LEMMA AskStep ==
  ASSUME QuotaInv, NEW u \in Users, NEW a \in Actions, Ask(u, a)
  PROVE  QuotaInv'
<1>1. QuotaTypeOK'
  BY DEF QuotaInv, QuotaTypeOK, Ask
<1>2. CounterDated' /\ CountersLast' /\ \A k : getUsage(k)' = getUsage(k)
  BY CountersAlone DEF Ask
<1>3. ASSUME NEW b \in Actions
      PROVE  (getUsage(<<b, Period[b]>>) + Cardinality(InProgress(b))
                < Limit[b][Period[b]] + Cardinality(Users))'
  <2>1. CASE b = a
    BY <1>1, <1>2, <2>1, BoundKept DEF Ask, checkQuota
  <2>2. CASE b # a
    <3>1. InProgress(b)' \subseteq InProgress(b)
      BY <2>2 DEF InProgress, Ask, QuotaInv, QuotaTypeOK
    <3>2. Period[b] \in Periods /\ getUsage(<<b, Period[b]>>) \in Nat
      BY QuotasAssumption, UsageType DEF QuotaInv, CounterKey
    <3> QED
      BY <1>1, <1>2, <3>1, <3>2, BoundKept
  <2> QED
    BY <2>1, <2>2
<1> QED
  BY <1>1, <1>2, <1>3 DEF QuotaInv, QuotaBound

LEMMA AbandonStep ==
  ASSUME QuotaInv, NEW u \in Users, Abandon(u)
  PROVE  QuotaInv'
<1>1. QuotaTypeOK'
  BY DEF QuotaInv, QuotaTypeOK, Abandon
<1>2. CounterDated' /\ CountersLast' /\ \A k : getUsage(k)' = getUsage(k)
  BY CountersAlone DEF Abandon
<1>3. ASSUME NEW b \in Actions
      PROVE  (getUsage(<<b, Period[b]>>) + Cardinality(InProgress(b))
                < Limit[b][Period[b]] + Cardinality(Users))'
  <2>1. InProgress(b)' \subseteq InProgress(b)
    BY QuotasAssumption DEF InProgress, Abandon, QuotaInv, QuotaTypeOK, Nobody
  <2>2. getUsage(<<b, Period[b]>>) \in Nat
    BY QuotasAssumption, UsageType DEF QuotaInv, CounterKey
  <2> QED
    BY <1>1, <1>2, <2>1, <2>2, BoundKept
<1> QED
  BY <1>1, <1>2, <1>3 DEF QuotaInv, QuotaBound

\* recordUsage counts one, and the action is no longer in progress.
LEMMA RecordStep ==
  ASSUME QuotaInv, NEW u \in Users, recordUsage(u)
  PROVE  QuotaInv'
<1> DEFINE mine == {k \in CounterKey : k[1] = user[u]}
<1>0. QuotaTypeOK /\ now \in Nat
  BY QuotasAssumption DEF QuotaInv, QuotaTypeOK
<1>1. user[u] \in Actions
  BY <1>0 DEF recordUsage, QuotaTypeOK
<1>2. \A k \in CounterKey :
         counter'[k] = IF k[1] = user[u]
                       THEN [of |-> now \div Length[k[2]], count |-> getUsage(k) + 1,
                             expires |-> now + TTL[k[2]]]
                       ELSE counter[k]
  BY DEF recordUsage, PeriodAt
<1>3. \A k \in CounterKey : now \div Length[k[2]] \in Nat /\ TTL[k[2]] \in Nat /\ TTL[k[2]] > 0
  <2> SUFFICES ASSUME NEW k \in CounterKey
               PROVE  now \div Length[k[2]] \in Nat /\ TTL[k[2]] \in Nat /\ TTL[k[2]] > 0
    OBVIOUS
  <2>1. Length[k[2]] \in Nat \ {0} /\ TTL[k[2]] \in Nat /\ TTL[k[2]] >= Length[k[2]]
    BY KeyPeriod, TTLCovers
  <2>2. now \div Length[k[2]] \in Nat
    BY <1>0, <2>1, Division
  <2> QED
    BY <2>1, <2>2
<1>4. QuotaTypeOK'
  <2>1. ASSUME NEW k \in CounterKey PROVE counter'[k] \in CounterRow
    <3>1. getUsage(k) + 1 \in Nat /\ counter[k] \in CounterRow
      BY <1>0, UsageType
    <3>2. PICK n, x \in Nat : n = now \div Length[k[2]] /\ x = now + TTL[k[2]]
      BY <1>0, <1>3
    <3>3. counter'[k] = counter[k] \/ counter'[k] = [of |-> n, count |-> getUsage(k) + 1, expires |-> x]
      BY <1>2, <3>2
    <3> QED
      BY <3>1, <3>3 DEF CounterRow
  <2>2. counter' \in [CounterKey -> CounterRow]
    BY <2>1 DEF recordUsage
  <2>3. used' \in [CounterKey -> Nat]
    BY <1>0 DEF recordUsage, QuotaTypeOK
  <2> QED
    BY <1>0, <2>2, <2>3 DEF recordUsage, QuotaTypeOK
<1>5. \A k \in CounterKey :
         getUsage(k)' = IF k[1] = user[u] THEN getUsage(k) + 1 ELSE getUsage(k)
  <2> SUFFICES ASSUME NEW k \in CounterKey
               PROVE  getUsage(k)' = IF k[1] = user[u] THEN getUsage(k) + 1 ELSE getUsage(k)
    OBVIOUS
  <2>1. now' = now
    BY DEF recordUsage
  <2>2. CASE k[1] = user[u]
    <3>1. /\ counter'[k].of = PeriodAt(now', k[2]) /\ now' < counter'[k].expires
          /\ counter'[k].count = getUsage(k) + 1
      <4>1. counter'[k] = [of |-> now \div Length[k[2]], count |-> getUsage(k) + 1,
                           expires |-> now + TTL[k[2]]]
        BY <1>2, <2>2
      <4>2. now < now + TTL[k[2]]
        BY <1>0, <1>3
      <4> QED
        BY <2>1, <4>1, <4>2 DEF PeriodAt
    <3> QED
      BY <2>2, <3>1 DEF getUsage, Live
  <2>3. CASE k[1] # user[u]
    BY <1>2, <2>1, <2>3 DEF getUsage, Live
  <2> QED
    BY <2>2, <2>3
<1>6. CountersLast'
  BY <1>5 DEF QuotaInv, CountersLast, recordUsage
<1>7. CounterDated'
  <2> SUFFICES ASSUME NEW k \in CounterKey, counter'[k].count # 0
               PROVE  \E s \in 0 .. now' : /\ counter'[k].of = s \div Length[k[2]]
                                           /\ counter'[k].expires = s + TTL[k[2]]
    BY DEF CounterDated
  <2>1. CASE k[1] = user[u]
    <3>1. /\ counter'[k].of = now \div Length[k[2]]
          /\ counter'[k].expires = now + TTL[k[2]]
      <4>1. counter'[k] = [of |-> now \div Length[k[2]], count |-> getUsage(k) + 1,
                           expires |-> now + TTL[k[2]]]
        BY <1>2, <2>1
      <4> QED
        BY <4>1
    <3>2. now \in 0 .. now'
      BY <1>0 DEF recordUsage
    <3> QED
      BY <3>1, <3>2
  <2>2. CASE k[1] # user[u]
    BY <1>2, <2>2 DEF recordUsage, QuotaInv, CounterDated
  <2> QED
    BY <2>1, <2>2
<1>8. ASSUME NEW b \in Actions
      PROVE  (getUsage(<<b, Period[b]>>) + Cardinality(InProgress(b))
                < Limit[b][Period[b]] + Cardinality(Users))'
  <2> DEFINE k == <<b, Period[b]>>
  <2>1. k \in CounterKey /\ k[1] = b /\ getUsage(k) \in Nat /\ Period[b] \in Periods
        /\ Limit[b][Period[b]] \in Nat
    BY QuotasAssumption, UsageType DEF QuotaInv, CounterKey
  <2>2. CASE user[u] # b
    <3>1. InProgress(b)' \subseteq InProgress(b)
      BY QuotasAssumption, <2>2 DEF InProgress, recordUsage, QuotaInv, QuotaTypeOK, Nobody
    <3> QED
      BY <1>4, <1>5, <2>1, <2>2, <3>1, BoundKept
  <2>3. CASE user[u] = b
    <3>1. InProgress(b)' = InProgress(b) \ {u} /\ u \in InProgress(b)
      BY QuotasAssumption, <2>3 DEF InProgress, recordUsage, QuotaInv, QuotaTypeOK, Nobody
    <3>2. Cardinality(InProgress(b)') = Cardinality(InProgress(b)) - 1
      BY <3>1, FewInProgress, FS_RemoveElement
    <3>3. getUsage(k)' = getUsage(k) + 1
      BY <1>5, <2>1, <2>3
    <3>4. getUsage(k) + Cardinality(InProgress(b)) < Limit[b][Period[b]] + Cardinality(Users)
      BY DEF QuotaInv, QuotaBound
    <3> QED
      BY <2>1, <3>2, <3>3, <3>4, FewInProgress
  <2> QED
    BY <2>2, <2>3
<1> QED
  BY <1>4, <1>6, <1>7, <1>8 DEF QuotaInv, QuotaBound

LEMMA ResetKeysStep ==
  ASSUME QuotaInv, ResetKeys
  PROVE  QuotaInv'
<1>1. QuotaTypeOK'
  <2>1. \A k \in CounterKey : counter[k].of \in Nat
    BY DEF QuotaInv, QuotaTypeOK, CounterRow
  <2> QED
    BY <2>1 DEF QuotaInv, QuotaTypeOK, ResetKeys
<1>2. CounterDated' /\ CountersLast' /\ \A k : getUsage(k)' = getUsage(k)
  BY CountersAlone DEF ResetKeys
<1>3. \A b : InProgress(b)' = InProgress(b)
  BY DEF InProgress, ResetKeys
<1> QED
  BY <1>1, <1>2, <1>3 DEF QuotaInv, QuotaBound

\* DEL erases what KEYS has listed and leaves the others alone.
LEMMA ResetDelStep ==
  ASSUME QuotaInv, ResetDel
  PROVE  QuotaInv'
<1> DEFINE deleted == {k \in CounterKey : <<k, counter[k].of>> \in listed}
<1>0. QuotaTypeOK /\ now \in Nat
  BY QuotasAssumption DEF QuotaInv, QuotaTypeOK
<1>1. \A k \in CounterKey :
         /\ k \in deleted => counter'[k] = Erased(counter[k])
         /\ k \notin deleted => counter'[k] = counter[k] /\ used'[k] = used[k]
         /\ k \in deleted /\ counter[k].of = PeriodAt(now, k[2]) => used'[k] = 0
         /\ k \in deleted /\ counter[k].of # PeriodAt(now, k[2]) => used'[k] = used[k]
  BY DEF ResetDel
<1> HIDE DEF deleted
<1>2. now' = now
  BY DEF ResetDel
<1>3. QuotaTypeOK'
  <2>1. ASSUME NEW k \in CounterKey PROVE counter'[k] \in CounterRow
    <3>1. counter[k] \in CounterRow
      BY <1>0 DEF QuotaTypeOK
    <3>2. \/ counter'[k] = counter[k]
          \/ counter'[k] = Erased(counter[k])
      BY <1>1
    <3> QED
      BY <3>1, <3>2 DEF CounterRow, Erased
  <2>2. counter' \in [CounterKey -> CounterRow]
    BY <2>1 DEF ResetDel
  <2>3. used' \in [CounterKey -> Nat]
    BY <1>0 DEF ResetDel, QuotaTypeOK
  <2> QED
    BY <1>0, <2>2, <2>3 DEF ResetDel, QuotaTypeOK
<1>4. ASSUME NEW k \in CounterKey
      PROVE  getUsage(k)' = used'[k] /\ (getUsage(k)' = getUsage(k) \/ getUsage(k)' = 0)
  <2>1. getUsage(k) = used[k]
    BY DEF QuotaInv, CountersLast
  <2>2. CASE k \notin deleted
    BY <1>1, <1>2, <2>1, <2>2 DEF getUsage, Live
  <2>3. CASE k \in deleted
    <3>1. counter'[k].expires = 0
      <4>1. counter'[k] = Erased(counter[k])
        BY <1>1, <2>3
      <4> QED
        BY <4>1 DEF Erased
    <3>2. getUsage(k)' = 0
      BY <1>0, <1>2, <3>1 DEF getUsage, Live
    <3>3. counter[k].of # PeriodAt(now, k[2]) => used[k] = 0
      BY <2>1 DEF getUsage, Live
    <3> QED
      BY <1>1, <2>3, <3>2, <3>3
  <2> QED
    BY <2>2, <2>3
<1>5. CountersLast'
  BY <1>4 DEF CountersLast
<1>6. CounterDated'
  <2> SUFFICES ASSUME NEW k \in CounterKey, counter'[k].count # 0
               PROVE  \E s \in 0 .. now' : /\ counter'[k].of = s \div Length[k[2]]
                                           /\ counter'[k].expires = s + TTL[k[2]]
    BY DEF CounterDated
  <2>1. counter[k] \in CounterRow
    BY <1>0 DEF QuotaTypeOK
  <2>2. Erased(counter[k]).count = 0
    BY <2>1 DEF CounterRow, Erased
  <2>3. k \notin deleted
    BY <1>1, <2>2
  <2> QED
    BY <1>1, <1>2, <2>3 DEF QuotaInv, CounterDated
<1>7. ASSUME NEW b \in Actions
      PROVE  (getUsage(<<b, Period[b]>>) + Cardinality(InProgress(b))
                < Limit[b][Period[b]] + Cardinality(Users))'
  <2>1. InProgress(b)' = InProgress(b)
    BY DEF InProgress, ResetDel
  <2>2. <<b, Period[b]>> \in CounterKey /\ getUsage(<<b, Period[b]>>) \in Nat
    BY QuotasAssumption, UsageType DEF QuotaInv, CounterKey
  <2> QED
    BY <1>3, <1>4, <2>1, <2>2, BoundKept
<1> QED
  BY <1>3, <1>5, <1>6, <1>7 DEF QuotaInv, QuotaBound

\* As time passes a counter either still counts its period or is left behind.
LEMMA TickStep ==
  ASSUME QuotaInv, Tick
  PROVE  QuotaInv'
<1>0. /\ QuotaTypeOK /\ now \in Nat /\ now' = now + 1 /\ now + 1 <= LastTick
      /\ UNCHANGED <<counter, user, listed>>
  BY QuotasAssumption DEF QuotaInv, QuotaTypeOK, Tick
<1>1. QuotaTypeOK'
  BY <1>0, QuotasAssumption DEF QuotaTypeOK, Tick
<1>2. CounterDated'
  BY <1>0 DEF QuotaInv, CounterDated
<1>3. ASSUME NEW k \in CounterKey
      PROVE  getUsage(k)' = used'[k] /\ (getUsage(k)' = getUsage(k) \/ getUsage(k)' = 0)
  <2> DEFINE L == Length[k[2]]
  <2>1. L \in Nat \ {0}
    BY KeyPeriod, TTLCovers
  <2>2. getUsage(k) = used[k]
    BY DEF QuotaInv, CountersLast
  <2>3. counter'[k].of = PeriodAt(now', k[2]) => getUsage(k)' = counter[k].count
    <3> SUFFICES ASSUME counter'[k].of = PeriodAt(now', k[2]), counter[k].count # 0
                 PROVE  now' < counter'[k].expires
      BY <1>0 DEF getUsage, Live
    <3>1. PICK s \in 0 .. now' : counter'[k].of = s \div L /\ counter'[k].expires = s + TTL[k[2]]
      BY <1>0, <1>2 DEF CounterDated
    <3>2. s \in Nat /\ now' \in Nat
      BY <1>0, <3>1
    <3>3. now' < s + L
      BY <2>1, <3>1, <3>2, SamePeriod DEF PeriodAt
    <3>4. TTL[k[2]] \in Nat /\ TTL[k[2]] >= L
      BY KeyPeriod, TTLCovers
    <3> QED
      BY <2>1, <3>1, <3>2, <3>3, <3>4
  <2>4. CASE PeriodAt(now + 1, k[2]) = PeriodAt(now, k[2])
    <3>1. used'[k] = used[k]
      BY <2>4 DEF Tick
    <3>2. CASE counter[k].of = PeriodAt(now, k[2])
      <4>1. getUsage(k) = counter[k].count
        BY <1>0, <3>2, CountedIsLive DEF QuotaInv
      <4> QED
        BY <1>0, <2>2, <2>3, <2>4, <3>1, <3>2, <4>1
    <3>3. CASE counter[k].of # PeriodAt(now, k[2])
      BY <1>0, <2>2, <2>4, <3>1, <3>3 DEF getUsage, Live
    <3> QED
      BY <3>2, <3>3
  <2>5. CASE PeriodAt(now + 1, k[2]) # PeriodAt(now, k[2])
    <3>1. used'[k] = 0
      BY <2>5 DEF Tick
    <3>2. CASE counter[k].count = 0
      BY <1>0, <3>1, <3>2 DEF getUsage
    <3>3. CASE counter[k].count # 0
      <4>1. PICK s \in 0 .. now : counter[k].of = s \div L
        BY <3>3 DEF QuotaInv, CounterDated
      <4>2. s \div L <= now \div L /\ now \div L <= (now + 1) \div L
        <5>1. s \in Nat /\ s <= now
          BY <1>0, <4>1
        <5>2. s \div L <= now \div L
          BY <1>0, <2>1, <5>1, PeriodsFollow
        <5>3. now \div L <= (now + 1) \div L
          BY <1>0, <2>1, PeriodsFollow
        <5> QED
          BY <5>2, <5>3
      <4>3. PICK a, b, c \in Nat : a = s \div L /\ b = now \div L /\ c = (now + 1) \div L
        <5>1. s \in Nat /\ now + 1 \in Nat
          BY <1>0, <4>1
        <5>2. s \div L \in Nat
          BY <2>1, <5>1, Division
        <5>3. now \div L \in Nat
          BY <1>0, <2>1, Division
        <5>4. (now + 1) \div L \in Nat
          BY <2>1, <5>1, Division
        <5> QED
          BY <5>2, <5>3, <5>4
      <4>4. a <= b /\ b <= c /\ b # c
        BY <2>5, <4>2, <4>3 DEF PeriodAt
      <4>5. a # c
        BY <4>3, <4>4
      <4>6. counter'[k].of # PeriodAt(now', k[2])
        BY <1>0, <4>1, <4>3, <4>5 DEF PeriodAt
      <4> QED
        BY <3>1, <4>6 DEF getUsage, Live
    <3> QED
      BY <3>2, <3>3
  <2> QED
    BY <2>4, <2>5
<1>4. CountersLast'
  BY <1>3 DEF CountersLast
<1>5. ASSUME NEW b \in Actions
      PROVE  (getUsage(<<b, Period[b]>>) + Cardinality(InProgress(b))
                < Limit[b][Period[b]] + Cardinality(Users))'
  <2>1. InProgress(b)' = InProgress(b)
    BY <1>0 DEF InProgress
  <2>2. <<b, Period[b]>> \in CounterKey /\ getUsage(<<b, Period[b]>>) \in Nat
    BY QuotasAssumption, UsageType DEF QuotaInv, CounterKey
  <2> QED
    BY <1>1, <1>3, <2>1, <2>2, BoundKept
<1> QED
  BY <1>1, <1>2, <1>4, <1>5 DEF QuotaInv, QuotaBound

LEMMA QuotaStep == QuotaInv /\ [QuotaNext]_quotaVars => QuotaInv'
<1> SUFFICES ASSUME QuotaInv, [QuotaNext]_quotaVars PROVE QuotaInv'
  OBVIOUS
<1>1. CASE UNCHANGED quotaVars
  BY <1>1 DEF quotaVars, QuotaInv, QuotaTypeOK, CounterDated, CountersLast, QuotaBound, getUsage,
     Live, InProgress
<1>2. CASE QuotaNext
  BY <1>2, AskStep, AbandonStep, RecordStep, ResetKeysStep, ResetDelStep, TickStep
     DEF QuotaNext, UserStep
<1> QED
  BY <1>1, <1>2

\* Counters, users and listings keep their shapes.
THEOREM QuotaTypeCorrect == QuotaSpec => []QuotaTypeOK
<1>1. QuotaInv => QuotaTypeOK
  BY DEF QuotaInv
<1> QED
  BY <1>1, QuotaInit0, QuotaStep, PTL DEF QuotaSpec

\* Whatever the lengths of the periods and whenever the uses fall, a counter has what
\* was used in its period, although each use gives its key a new time to live.
THEOREM CountersAreExact == QuotaSpec => []CountersLast
<1>1. QuotaInv => CountersLast
  BY DEF QuotaInv
<1> QED
  BY <1>1, QuotaInit0, QuotaStep, PTL DEF QuotaSpec

\* A quota is exceeded by no more than the actions that were in progress at once.
THEOREM QuotasBound == QuotaSpec => []QuotaBound
<1>1. QuotaInv => QuotaBound
  BY DEF QuotaInv
<1> QED
  BY <1>1, QuotaInit0, QuotaStep, PTL DEF QuotaSpec

\* What an action costs is neither forgotten within its period nor let past its limit.
THEOREM QuotasAreKept == QuotaSpec => []QuotasHold
<1>1. CountersLast /\ QuotaBound => QuotasHold
  BY DEF QuotasHold
<1> QED
  BY <1>1, CountersAreExact, QuotasBound, PTL

-----------------------------------------------------------------------------
(* Tenants                                                                  *)

SameUse(n, k) ==
    /\ key[n].org = key[k].org /\ key[n].env = key[k].env /\ key[n].expires = key[k].expires

\* Keys belong to organizations that exist, and what refers to a key finds it.
KeysSound ==
    /\ \A k \in Keys : key[k] # Absent => org[key[k].org] # Absent
    /\ \A k \in delivered \cup lost : key[k] # Absent
    /\ \A k \in Keys : origin[k] # Absent => key[k] # Absent

\* A rotation under way knows the old key, and the new one once it is there.
RotationsSound ==
    \A a \in Admins : rotation[a] # Absent =>
        /\ key[rotation[a].old] # Absent
        /\ rotation[a].pc # "read" =>
              /\ rotation[a].new \in Keys /\ key[rotation[a].new] # Absent
              /\ origin[rotation[a].new] = rotation[a].old
              /\ SameUse(rotation[a].new, rotation[a].old)

\* A call was read with a row that is there, and with the limit of some plan.
CallsSound ==
    \A r \in Calls : call[r] # Absent =>
        /\ key[call[r].row] # Absent
        /\ \E p \in Plans : call[r].limit = RequestsPerDay[p]

KeyTypeOK ==
    /\ key \in [Keys -> KeyRow \cup {Absent}]
    /\ delivered \subseteq Keys /\ paused \subseteq Keys /\ lost \subseteq Keys
    /\ origin \in [Keys -> Keys \cup {Absent}]
    /\ rotation \in [Admins -> Rotation \cup {Absent}]

MeterTypeOK ==
    /\ call \in [Calls -> Gated \cup {Absent}]
    /\ usage \in [Orgs -> [today : Nat, total : Nat, credits : Nat]]
    /\ aggregate \in [Orgs -> [total : Nat, credits : Nat]]
    /\ day \in 1 .. LastDay

OrgTypeOK == org \in [Orgs -> OrgRow \cup {Absent}]

KeyInv   == KeyTypeOK /\ KeysSound /\ RotationsSound /\ RotatedHasReplacement
MeterInv == MeterTypeOK /\ CallsSound /\ DailyBound

TenantInv == OrgTypeOK /\ KeyInv /\ MeterInv

LEMMA TypesTogether == TenantTypeOK <=> OrgTypeOK /\ KeyTypeOK /\ MeterTypeOK
  BY DEF TenantTypeOK, OrgTypeOK, KeyTypeOK, MeterTypeOK

LEMMA FewInService ==
  ASSUME NEW o
  PROVE  /\ IsFiniteSet(InService(o)) /\ Cardinality(InService(o)) \in Nat
         /\ Cardinality(Calls) \in Nat \ {0}
         /\ Cardinality(InService(o)) <= Cardinality(Calls)
  BY TenantsAssumption, FS_Subset, FS_CardinalityType, FS_EmptySet DEF InService

LEMMA TenantInit0 == TenantInit => TenantInv
<1> SUFFICES ASSUME TenantInit PROVE TenantInv
  OBVIOUS
<1>1. OrgTypeOK /\ KeyTypeOK /\ MeterTypeOK
  BY TenantsAssumption DEF TenantInit, OrgTypeOK, KeyTypeOK, MeterTypeOK
<1>2. KeysSound /\ RotationsSound /\ CallsSound /\ RotatedHasReplacement
  BY DEF TenantInit, KeysSound, RotationsSound, CallsSound, RotatedHasReplacement, Stored
<1>3. DailyBound
  <2> SUFFICES ASSUME NEW o \in Orgs, \A p \in Plans : RequestsPerDay[p] # Unlimited
               PROVE  \E p \in Plans : usage[o].today + Cardinality(InService(o))
                                          < RequestsPerDay[p] + Cardinality(Calls)
    BY DEF DailyBound
  <2>1. InService(o) = {}
    BY DEF TenantInit, InService, Serving
  <2>2. usage[o].today = 0
    BY DEF TenantInit
  <2>3. PICK p \in Plans : RequestsPerDay[p] \in Nat
    BY TenantsAssumption
  <2> QED
    BY <2>1, <2>2, <2>3, FewInService, FS_EmptySet
<1> QED
  BY <1>1, <1>2, <1>3 DEF TenantInv, KeyInv, MeterInv

\* Who was given, is to be given or would have been given another key.
Told(k) == delivered \cup lost \cup {rotation[a].new : a \in Answering(k)}

\* Who is told of what is a matter of the keys alone.
LEMMA KeysAlone ==
  ASSUME RotatedHasReplacement, UNCHANGED keyVars
  PROVE  RotatedHasReplacement'
<1>1. UNCHANGED <<key, delivered, paused, lost, origin, rotation>>
  BY DEF keyVars
<1>2. \A k \in Keys : Told(k)' = Told(k)
  BY <1>1 DEF Told, Answering, Rotating
<1>3. \A k \in Keys : Stored(k)' = Stored(k)
  BY <1>1 DEF Stored
<1>4. SUFFICES ASSUME NEW k \in Keys, Stored(k), ~key[k].active, k \notin paused
               PROVE  \E n \in Told(k) : origin[n] = k /\ SameUse(n, k)
  BY <1>1, <1>2, <1>3 DEF RotatedHasReplacement, Told, SameUse
<1> QED
  BY <1>4 DEF RotatedHasReplacement, Told, SameUse

\* What an administrator does to an organization.
LEMMA OrgStep ==
  ASSUME TenantInv, UNCHANGED <<keyVars, meterVars>>, NEW o \in Orgs,
         NEW row \in OrgRow, org' = [org EXCEPT ![o] = row]
  PROVE  TenantInv'
<1>1. OrgTypeOK'
  BY DEF TenantInv, OrgTypeOK
<1>2. \A x \in Orgs : org[x] # Absent => org'[x] # Absent
  BY TenantsAssumption DEF TenantInv, OrgTypeOK
<1>3. KeyInv'
  <2>1. \A k \in Keys : key[k] # Absent => key[k].org \in Orgs
    BY DEF TenantInv, KeyInv, KeyTypeOK, KeyRow
  <2>2. KeysSound'
    BY <1>2, <2>1 DEF TenantInv, KeyInv, KeysSound, keyVars
  <2>3. RotatedHasReplacement'
    BY KeysAlone DEF TenantInv, KeyInv
  <2> QED
    BY <2>2, <2>3 DEF TenantInv, KeyInv, KeyTypeOK, RotationsSound, SameUse, keyVars
<1>4. MeterInv'
  BY DEF TenantInv, MeterInv, MeterTypeOK, CallsSound, DailyBound, InService, Serving,
     keyVars, meterVars
<1> QED
  BY <1>1, <1>3, <1>4 DEF TenantInv

\* Rows of keys endure, with their organization: what the meters rest on.
KeysEndure ==
    \A k \in Keys : key[k] # Absent => /\ key'[k] # Absent
                                       /\ key'[k].org = key[k].org
                                       /\ key'[k].env = key[k].env
                                       /\ key'[k].expires = key[k].expires

LEMMA MetersAside ==
  ASSUME TenantInv, KeysEndure, UNCHANGED <<org, meterVars>>
  PROVE  OrgTypeOK' /\ MeterInv'
<1>1. \A r \in Calls : call[r] # Absent =>
         call[r].row \in Keys /\ key'[call[r].row] # Absent
         /\ key'[call[r].row].org = key[call[r].row].org
  BY DEF TenantInv, MeterInv, MeterTypeOK, Gated, CallsSound, KeysEndure
<1>2. OrgTypeOK' /\ MeterTypeOK' /\ CallsSound'
  BY <1>1 DEF TenantInv, MeterInv, OrgTypeOK, MeterTypeOK, CallsSound, meterVars
<1>3. \A o : InService(o)' = InService(o)
  BY <1>1 DEF InService, Serving, meterVars
<1>4. DailyBound'
  BY <1>3 DEF TenantInv, MeterInv, DailyBound, meterVars
<1> QED
  BY <1>2, <1>4 DEF MeterInv

\* A rotation as RotationsSound asks.
SoundRotation(r) ==
    /\ key[r.old] # Absent
    /\ r.pc # "read" =>
          /\ r.new \in Keys /\ key[r.new] # Absent
          /\ origin[r.new] = r.old
          /\ SameUse(r.new, r.old)

Replaced(k) == \E n \in Told(k) : origin[n] = k /\ SameUse(n, k)

\* What a step on the keys must show: rows endure, nothing new is without a foundation,
\* and a key that it switches off is paused or replaced.
LEMMA KeyStep ==
  ASSUME TenantInv, KeyTypeOK', KeysEndure, UNCHANGED <<org, meterVars>>,
         \A k \in Keys : key[k] = Absent /\ key'[k] # Absent => org[key'[k].org] # Absent,
         delivered \cup lost \subseteq delivered' \cup lost',
         \A k \in (delivered' \cup lost') \ (delivered \cup lost) : key'[k] # Absent,
         \A k \in Keys : key[k] # Absent => origin'[k] = origin[k],
         \A k \in Keys : origin'[k] # origin[k] => key'[k] # Absent,
         \A a \in Admins : \/ rotation'[a] \in {Absent, rotation[a]}
                           \/ SoundRotation(rotation[a])' ,
         \A a \in Admins : Rotating(a, "switched") =>
            rotation'[a] = rotation[a] \/ rotation[a].new \in delivered' \cup lost',
         \A k \in Keys : Stored(k)' /\ ~key'[k].active /\ k \notin paused' =>
            (Stored(k) /\ ~key[k].active /\ k \notin paused) \/ Replaced(k)'
  PROVE  TenantInv'
<1>0. /\ KeyTypeOK /\ KeysSound /\ RotationsSound /\ RotatedHasReplacement
  BY DEF TenantInv, KeyInv
<1>1. KeysSound'
  <2>1. \A k \in Keys : key'[k] # Absent => org'[key'[k].org] # Absent
    BY <1>0 DEF KeysSound, KeysEndure
  <2>2. \A k \in delivered' \cup lost' : key'[k] # Absent
    BY <1>0 DEF KeysSound, KeysEndure, KeyTypeOK
  <2>3. \A k \in Keys : origin'[k] # Absent => key'[k] # Absent
    BY <1>0 DEF KeysSound, KeysEndure
  <2> QED
    BY <2>1, <2>2, <2>3 DEF KeysSound
<1>2. RotationsSound'
  <2> SUFFICES ASSUME NEW a \in Admins, rotation'[a] # Absent
               PROVE  SoundRotation(rotation[a])'
    BY DEF RotationsSound, SoundRotation
  <2>1. CASE rotation'[a] = rotation[a]
    <3>1. rotation[a].old \in Keys /\ SoundRotation(rotation[a])
      BY <1>0, <2>1, TenantsAssumption DEF RotationsSound, SoundRotation, KeyTypeOK, Rotation
    <3>2. key'[rotation[a].old] # Absent
      BY <3>1 DEF SoundRotation, KeysEndure
    <3>3. rotation[a].pc # "read" =>
             /\ rotation[a].new \in Keys /\ key'[rotation[a].new] # Absent
             /\ origin'[rotation[a].new] = rotation[a].old
             /\ SameUse(rotation[a].new, rotation[a].old)'
      BY <2>1, <3>1 DEF SoundRotation, KeysEndure, SameUse
    <3> QED
      BY <2>1, <3>2, <3>3 DEF SoundRotation
  <2> QED
    BY <2>1
<1>3. RotatedHasReplacement'
  <2> SUFFICES ASSUME NEW k \in Keys, Stored(k)', ~key'[k].active, k \notin paused'
               PROVE  Replaced(k)'
    BY DEF RotatedHasReplacement, Replaced, Told, SameUse
  <2>1. CASE Stored(k) /\ ~key[k].active /\ k \notin paused
    <3>1. PICK n \in Told(k) : origin[n] = k /\ SameUse(n, k)
      BY <1>0, <2>1 DEF RotatedHasReplacement, Told, SameUse
    <3>2. n \in Keys /\ key[n] # Absent /\ key[k] # Absent
      <4>1. CASE n \in delivered \cup lost
        BY <1>0, <2>1, <4>1 DEF KeyTypeOK, KeysSound, Stored
      <4>2. CASE \E a \in Answering(k) : n = rotation[a].new
        BY <1>0, <2>1, <4>2 DEF RotationsSound, Answering, Rotating, Stored
      <4> QED
        BY <3>1, <4>1, <4>2 DEF Told
    <3>3. origin'[n] = k /\ SameUse(n, k)'
      BY <3>1, <3>2 DEF KeysEndure, SameUse
    <3>4. n \in Told(k)'
      <4>1. CASE n \in delivered \cup lost
        BY <4>1 DEF Told
      <4>2. ASSUME NEW a \in Answering(k), n = rotation[a].new PROVE n \in Told(k)'
        <5>1. a \in Admins /\ Rotating(a, "switched") /\ rotation[a].old = k
          BY DEF Answering
        <5>2. rotation'[a] = rotation[a] => a \in Answering(k)' /\ n = rotation'[a].new
          BY <4>2, <5>1 DEF Answering, Rotating
        <5> QED
          BY <4>2, <5>1, <5>2 DEF Told
      <4> QED
        BY <3>1, <4>1, <4>2 DEF Told
    <3> QED
      BY <3>3, <3>4 DEF Replaced
  <2> QED
    BY <2>1
<1> QED
  BY <1>0, <1>1, <1>2, <1>3, MetersAside DEF TenantInv, KeyInv

\* A step that only rewrites row k, and not what the others rest on.
LEMMA RowRewritten ==
  ASSUME TenantInv, UNCHANGED <<org, delivered, lost, origin, rotation, meterVars>>,
         NEW k \in Keys, Stored(k), NEW row \in KeyRow, key' = [key EXCEPT ![k] = row],
         row.org = key[k].org /\ row.env = key[k].env /\ row.expires = key[k].expires,
         paused' \subseteq Keys, paused \ {k} \subseteq paused',
         row.active \/ ~row.stored \/ k \in paused'
  PROVE  TenantInv'
<1>1. KeyTypeOK /\ key[k] # Absent /\ row # Absent
  BY TenantsAssumption DEF TenantInv, KeyInv, Stored
<1>2. key'[k] = row /\ \A j \in Keys : j # k => key'[j] = key[j]
  BY <1>1 DEF KeyTypeOK
<1>3. KeyTypeOK'
  BY <1>1, <1>2 DEF KeyTypeOK
<1>4. KeysEndure
  BY <1>1, <1>2 DEF KeysEndure
<1>5. ASSUME NEW j \in Keys, Stored(j)', ~key'[j].active, j \notin paused'
      PROVE  Stored(j) /\ ~key[j].active /\ j \notin paused
  <2>1. j # k
    BY <1>2, <1>5 DEF Stored
  <2> QED
    BY <1>2, <1>5, <2>1 DEF Stored
<1> QED
  BY <1>1, <1>2, <1>3, <1>4, <1>5, KeyStep

LEMMA SetActiveStep ==
  ASSUME TenantInv, NEW k \in Keys, deactivateAPIKey(k) \/ reactivateAPIKey(k)
  PROVE  TenantInv'
<1>1. Stored(k) /\ key[k] \in KeyRow
  BY DEF deactivateAPIKey, reactivateAPIKey, SetActive, Stored, TenantInv, KeyInv, KeyTypeOK
<1>2. paused \subseteq Keys
  BY DEF TenantInv, KeyInv, KeyTypeOK
<1>3. CASE deactivateAPIKey(k)
  <2> DEFINE row == [key[k] EXCEPT !.active = FALSE]
  <2>1. row \in KeyRow /\ row.org = key[k].org /\ row.env = key[k].env
        /\ row.expires = key[k].expires
    BY <1>1 DEF KeyRow
  <2>2. key' = [key EXCEPT ![k] = row]
    BY <1>3 DEF deactivateAPIKey, SetActive
  <2> HIDE DEF row
  <2> QED
    BY <1>1, <1>2, <1>3, <2>1, <2>2, RowRewritten DEF deactivateAPIKey, SetActive
<1>4. CASE reactivateAPIKey(k)
  <2> DEFINE row == [key[k] EXCEPT !.active = TRUE]
  <2>1. row \in KeyRow /\ row.org = key[k].org /\ row.env = key[k].env
        /\ row.expires = key[k].expires /\ row.active
    BY <1>1 DEF KeyRow
  <2>2. key' = [key EXCEPT ![k] = row]
    BY <1>4 DEF reactivateAPIKey, SetActive
  <2> HIDE DEF row
  <2> QED
    BY <1>1, <1>2, <1>4, <2>1, <2>2, RowRewritten DEF reactivateAPIKey, SetActive
<1> QED
  BY <1>3, <1>4

LEMMA DeleteKeyStep ==
  ASSUME TenantInv, NEW k \in Keys, deleteAPIKey(k)
  PROVE  TenantInv'
<1> DEFINE row == [key[k] EXCEPT !.stored = FALSE]
<1>1. Stored(k) /\ key[k] \in KeyRow /\ paused \subseteq Keys
  BY DEF deleteAPIKey, Stored, TenantInv, KeyInv, KeyTypeOK
<1>2. row \in KeyRow /\ row.org = key[k].org /\ row.env = key[k].env
      /\ row.expires = key[k].expires /\ ~row.stored
  BY <1>1 DEF KeyRow
<1>3. key' = [key EXCEPT ![k] = row]
  BY DEF deleteAPIKey
<1> HIDE DEF row
<1> QED
  BY <1>1, <1>2, <1>3, RowRewritten DEF deleteAPIKey

\* The row that both callers of the INSERT add.
LEMMA Inserted ==
  ASSUME TenantInv, NEW k \in Keys, NEW o \in Orgs, NEW e \in Environments,
         NEW x \in 0 .. LastDay, InsertKey(k, o, e, x)
  PROVE  /\ key' \in [Keys -> KeyRow \cup {Absent}]
         /\ KeysEndure
         /\ key[k] = Absent /\ key'[k] # Absent
         /\ key'[k].org = o /\ key'[k].env = e /\ key'[k].expires = x
         /\ Stored(k)' /\ key'[k].active
         /\ \A j \in Keys : j # k => key'[j] = key[j]
<1> DEFINE row == [stored |-> TRUE, org |-> o, env |-> e, active |-> TRUE, expires |-> x]
<1>1. row \in KeyRow /\ row # Absent /\ row.org = o /\ row.env = e /\ row.expires = x
      /\ row.stored /\ row.active
  <2>1. row \in KeyRow
    BY DEF KeyRow
  <2>2. row # Absent
    BY <2>1, TenantsAssumption
  <2> QED
    BY <2>1, <2>2
<1>2. key \in [Keys -> KeyRow \cup {Absent}] /\ key[k] = Absent /\ key' = [key EXCEPT ![k] = row]
  BY DEF TenantInv, KeyInv, KeyTypeOK, InsertKey
<1> HIDE DEF row
<1>3. key'[k] = row /\ \A j \in Keys : j # k => key'[j] = key[j]
  BY <1>2
<1> QED
  BY <1>1, <1>2, <1>3 DEF KeysEndure, Stored

LEMMA GenerateStep ==
  ASSUME TenantInv, NEW k \in Keys, NEW o \in Orgs, NEW e \in Environments,
         NEW x \in 0 .. LastDay, generateAPIKey(k, o, e, x)
  PROVE  TenantInv'
<1>1. /\ InsertKey(k, o, e, x) /\ org[o] # Absent /\ delivered' = delivered \cup {k}
      /\ UNCHANGED <<org, paused, lost, origin, rotation, meterVars>>
  BY DEF generateAPIKey, Exists
<1>2. KeyTypeOK' /\ KeysEndure /\ key'[k] # Absent /\ key'[k].org = o /\ key'[k].active
      /\ key[k] = Absent /\ \A j \in Keys : j # k => key'[j] = key[j]
  BY <1>1, Inserted DEF TenantInv, KeyInv, KeyTypeOK
<1>3. ASSUME NEW j \in Keys, Stored(j)', ~key'[j].active, j \notin paused'
      PROVE  Stored(j) /\ ~key[j].active /\ j \notin paused
  BY <1>1, <1>2, <1>3 DEF Stored
<1>4. \A j \in Keys : key[j] = Absent /\ key'[j] # Absent => org[key'[j].org] # Absent
  BY <1>1, <1>2
<1> QED
  BY <1>1, <1>2, <1>3, <1>4, KeyStep

LEMMA RotateReadStep ==
  ASSUME TenantInv, NEW a \in Admins, NEW k \in Keys, RotateRead(a, k)
  PROVE  TenantInv'
<1> DEFINE r == [pc |-> "read", old |-> k, new |-> Absent]
<1>1. /\ r \in Rotation /\ key[k] # Absent /\ rotation' = [rotation EXCEPT ![a] = r]
      /\ UNCHANGED <<org, key, delivered, paused, lost, origin, meterVars>>
      /\ r.old = k /\ r.pc = "read" /\ ~Rotating(a, "switched")
  BY DEF RotateRead, Rotation, Rotating, Stored
<1> HIDE DEF r
<1>2. KeyTypeOK /\ KeyTypeOK'
  BY <1>1 DEF TenantInv, KeyInv, KeyTypeOK
<1>3. rotation'[a] = r /\ \A b \in Admins : b # a => rotation'[b] = rotation[b]
  BY <1>1, <1>2 DEF KeyTypeOK
<1>4. SoundRotation(rotation[a])'
  BY <1>1, <1>3 DEF SoundRotation
<1>5. \A b \in Admins : Rotating(b, "switched") => rotation'[b] = rotation[b]
  BY <1>1, <1>3
<1> QED
  BY <1>1, <1>2, <1>3, <1>4, <1>5, KeyStep DEF KeysEndure, Stored

LEMMA RotateInsertStep ==
  ASSUME TenantInv, NEW a \in Admins, NEW k \in Keys, RotateInsert(a, k)
  PROVE  TenantInv'
<1> DEFINE old == rotation[a].old
<1>1. /\ KeyTypeOK /\ KeysSound /\ rotation[a] # Absent /\ rotation[a] \in Rotation
      /\ old \in Keys /\ key[old] # Absent /\ key[old] \in KeyRow
  BY TenantsAssumption DEF TenantInv, KeyInv, KeyTypeOK, RotateInsert, Rotating, RotationsSound, Rotation
<1>2. /\ InsertKey(k, key[old].org, key[old].env, key[old].expires)
      /\ rotation' = [rotation EXCEPT ![a].pc = "inserted", ![a].new = k]
      /\ origin' = [origin EXCEPT ![k] = old]
      /\ UNCHANGED <<org, delivered, paused, lost, meterVars>>
  BY DEF RotateInsert
<1>3. key[old].org \in Orgs /\ key[old].env \in Environments /\ key[old].expires \in 0 .. LastDay
      /\ org[key[old].org] # Absent
  BY <1>1 DEF KeyRow, KeysSound
<1>4. /\ key' \in [Keys -> KeyRow \cup {Absent}]
      /\ KeysEndure /\ key[k] = Absent /\ key'[k] # Absent /\ key'[k].active
      /\ key'[k].org = key[old].org /\ key'[k].env = key[old].env
      /\ key'[k].expires = key[old].expires
      /\ \A j \in Keys : j # k => key'[j] = key[j]
  BY <1>2, <1>3, Inserted
<1>5. /\ rotation'[a] \in Rotation /\ rotation'[a].pc = "inserted" /\ rotation'[a].new = k
      /\ rotation'[a].old = old /\ \A b \in Admins : b # a => rotation'[b] = rotation[b]
      /\ rotation' \in [Admins -> Rotation \cup {Absent}]
  <2>1. rotation' = [rotation EXCEPT ![a] = [rotation[a] EXCEPT !.pc = "inserted", !.new = k]]
    BY <1>2
  <2>2. rotation'[a] = [rotation[a] EXCEPT !.pc = "inserted", !.new = k]
        /\ \A b \in Admins : b # a => rotation'[b] = rotation[b]
    BY <1>1, <2>1 DEF KeyTypeOK
  <2>3. /\ rotation'[a] \in Rotation /\ rotation'[a].pc = "inserted" /\ rotation'[a].new = k
        /\ rotation'[a].old = old
    BY <1>1, <2>2 DEF Rotation
  <2> QED
    BY <1>1, <2>1, <2>2, <2>3 DEF KeyTypeOK
<1>6. origin'[k] = old /\ (\A j \in Keys : j # k => origin'[j] = origin[j])
      /\ origin' \in [Keys -> Keys \cup {Absent}]
  BY <1>1, <1>2 DEF KeyTypeOK
<1>7. KeyTypeOK'
  BY <1>1, <1>2, <1>4, <1>5, <1>6 DEF KeyTypeOK
<1>8. SoundRotation(rotation[a])'
  BY <1>1, <1>4, <1>5, <1>6 DEF SoundRotation, SameUse
<1>9. ASSUME NEW j \in Keys, Stored(j)', ~key'[j].active, j \notin paused'
      PROVE  Stored(j) /\ ~key[j].active /\ j \notin paused
  BY <1>2, <1>4, <1>9 DEF Stored
<1>10. \A j \in Keys : key[j] = Absent /\ key'[j] # Absent => org[key'[j].org] # Absent
  BY <1>3, <1>4
<1> HIDE DEF old
<1>11. /\ \A j \in Keys : key[j] # Absent => origin'[j] = origin[j]
       /\ \A j \in Keys : origin'[j] # origin[j] => key'[j] # Absent
       /\ \A b \in Admins : rotation'[b] \in {Absent, rotation[b]} \/ SoundRotation(rotation[b])'
       /\ delivered' = delivered /\ lost' = lost /\ UNCHANGED <<org, meterVars>> /\ KeysEndure
  BY <1>2, <1>4, <1>5, <1>6, <1>8
<1>12. \A b \in Admins : Rotating(b, "switched") => rotation'[b] = rotation[b]
  BY <1>5 DEF RotateInsert, Rotating
<1> QED
  BY <1>7, <1>9, <1>10, <1>11, <1>12, KeyStep

LEMMA RotateDeactivateStep ==
  ASSUME TenantInv, NEW a \in Admins, RotateDeactivate(a)
  PROVE  TenantInv'
<1>0. PICK old \in Keys, new \in Keys :
         /\ old = rotation[a].old /\ new = rotation[a].new
         /\ key[new] # Absent /\ key[old] # Absent
         /\ origin[new] = old /\ SameUse(new, old)
  BY DEF TenantInv, KeyInv, KeyTypeOK, RotateDeactivate, Rotating, RotationsSound, Rotation
<1>1. KeyTypeOK /\ rotation[a] # Absent /\ rotation[a] \in Rotation /\ rotation[a].pc = "inserted"
  BY DEF TenantInv, KeyInv, KeyTypeOK, RotateDeactivate, Rotating
<1>2. UNCHANGED <<org, delivered, paused, lost, origin, meterVars>>
  BY DEF RotateDeactivate
<1>4. CASE Stored(old)
  <2> DEFINE row  == [key[old] EXCEPT !.active = FALSE]
             here == [rotation[a] EXCEPT !.pc = "switched"]
  <2>1. key' = [key EXCEPT ![old] = row] /\ rotation' = [rotation EXCEPT ![a] = here]
    BY <1>0, <1>4 DEF RotateDeactivate
  <2>2. row \in KeyRow /\ row.org = key[old].org /\ row.env = key[old].env
        /\ row.expires = key[old].expires
    BY <1>0, <1>1 DEF KeyTypeOK, KeyRow
  <2>3. row # Absent
    BY <2>2, TenantsAssumption
  <2>10. here \in Rotation /\ here.pc = "switched" /\ here.old = old /\ here.new = new
    BY <1>0, <1>1 DEF Rotation
  <2>11. here # Absent
    BY <2>10, TenantsAssumption
  <2> HIDE DEF row, here
  <2>4. key'[old] = row /\ \A j \in Keys : j # old => key'[j] = key[j]
    BY <1>1, <2>1 DEF KeyTypeOK
  <2>12. rotation'[a] = here /\ \A b \in Admins : b # a => rotation'[b] = rotation[b]
    BY <1>1, <2>1 DEF KeyTypeOK
  <2>5. KeyTypeOK'
    BY <1>1, <1>2, <2>1, <2>2, <2>10 DEF KeyTypeOK
  <2>6. KeysEndure
    BY <2>2, <2>3, <2>4 DEF KeysEndure
  <2>13. SameUse(new, old)'
    BY <1>0, <2>6 DEF SameUse, KeysEndure
  <2>7. Replaced(old)'
    <3>1. a \in Answering(old)' /\ rotation'[a].new = new
      BY <2>10, <2>11, <2>12 DEF Answering, Rotating
    <3> QED
      BY <1>0, <1>2, <2>13, <3>1 DEF Replaced, Told
  <2>14. SoundRotation(rotation[a])'
    BY <1>0, <1>2, <2>6, <2>10, <2>12, <2>13 DEF SoundRotation, KeysEndure
  <2>8. ASSUME NEW j \in Keys, Stored(j)', ~key'[j].active, j \notin paused'
        PROVE  (Stored(j) /\ ~key[j].active /\ j \notin paused) \/ Replaced(j)'
    BY <1>2, <2>4, <2>7, <2>8 DEF Stored
  <2>9. /\ \A j \in Keys : key[j] = Absent => key'[j] = Absent
        /\ \A b \in Admins : Rotating(b, "switched") => rotation'[b] = rotation[b]
    BY <1>0, <1>1, <2>4, <2>12 DEF Rotating
  <2> QED
    BY <1>2, <2>5, <2>6, <2>8, <2>9, <2>12, <2>14, KeyStep
<1>5. CASE ~Stored(old)
  <2>1. UNCHANGED key /\ rotation' = [rotation EXCEPT ![a] = Absent]
    BY <1>0, <1>5 DEF RotateDeactivate
  <2>2. KeyTypeOK' /\ KeysEndure /\ \A b \in Admins : rotation'[b] \in {Absent, rotation[b]}
    BY <1>1, <1>2, <2>1 DEF KeyTypeOK, KeysEndure
  <2>3. \A b \in Admins : Rotating(b, "switched") => rotation'[b] = rotation[b]
    BY <1>1, <2>1 DEF Rotating, KeyTypeOK
  <2> QED
    BY <1>2, <2>1, <2>2, <2>3, KeyStep DEF Stored
<1> QED
  BY <1>4, <1>5

\* The end of a rotation, answered or not: who was to be told has been told, or will never be.
LEMMA RotationEnds ==
  ASSUME TenantInv, NEW a \in Admins, RotateAnswer(a) \/ RotateFails(a)
  PROVE  TenantInv'
<1>1. /\ rotation[a] # Absent /\ rotation' = [rotation EXCEPT ![a] = Absent]
      /\ UNCHANGED <<org, key, paused, origin, meterVars>>
  BY DEF RotateAnswer, RotateFails, Rotating
<1>2. KeyTypeOK /\ RotationsSound
  BY DEF TenantInv, KeyInv
<1>3. /\ delivered \cup lost \subseteq delivered' \cup lost'
      /\ (delivered' \cup lost') \ (delivered \cup lost) \subseteq {rotation[a].new}
      /\ Rotating(a, "switched") => rotation[a].new \in delivered' \cup lost'
      /\ ~Rotating(a, "switched") => delivered' = delivered /\ lost' = lost
  BY DEF RotateAnswer, RotateFails
<1>4. Rotating(a, "switched") => rotation[a].new \in Keys /\ key[rotation[a].new] # Absent
  BY <1>1, <1>2 DEF RotationsSound, Rotating
<1>5. delivered' \subseteq Keys /\ lost' \subseteq Keys
  BY <1>2, <1>3, <1>4 DEF KeyTypeOK
<1>6. KeyTypeOK' /\ KeysEndure /\ \A b \in Admins : rotation'[b] \in {Absent, rotation[b]}
  BY <1>1, <1>2, <1>5 DEF KeyTypeOK, KeysEndure
<1>7. \A b \in Admins : Rotating(b, "switched") =>
          rotation'[b] = rotation[b] \/ rotation[b].new \in delivered' \cup lost'
  BY <1>1, <1>2, <1>3 DEF KeyTypeOK
<1>8. \A k \in (delivered' \cup lost') \ (delivered \cup lost) : key'[k] # Absent
  BY <1>1, <1>3, <1>4
<1> QED
  BY <1>1, <1>3, <1>6, <1>7, <1>8, KeyStep DEF Stored

\* The rows that the organizations' administrators rewrite.
LEMMA AdminOrgStep ==
  ASSUME TenantInv, NEW o \in Orgs, NEW p \in Plans, NEW s \in Statuses,
         \/ createOrganization(o, p) \/ updateOrganizationPlan(o, p)
         \/ updateOrganizationStatus(o, s)
  PROVE  TenantInv'
<1>1. CASE createOrganization(o, p)
  <2>1. [status |-> "active", plan |-> p] \in OrgRow
    BY TenantsAssumption DEF OrgRow
  <2> QED
    BY <1>1, <2>1, OrgStep DEF createOrganization
<1>2. CASE updateOrganizationPlan(o, p)
  <2>1. org[o] \in OrgRow /\ UNCHANGED <<keyVars, meterVars>>
        /\ org' = [org EXCEPT ![o] = [org[o] EXCEPT !.plan = p]]
    BY <1>2 DEF updateOrganizationPlan, Exists, TenantInv, OrgTypeOK
  <2>2. [org[o] EXCEPT !.plan = p] \in OrgRow
    BY <2>1 DEF OrgRow
  <2> QED
    BY <2>1, <2>2, OrgStep
<1>3. CASE updateOrganizationStatus(o, s)
  <2>1. org[o] \in OrgRow /\ UNCHANGED <<keyVars, meterVars>>
        /\ org' = [org EXCEPT ![o] = [org[o] EXCEPT !.status = s]]
    BY <1>3 DEF updateOrganizationStatus, Exists, TenantInv, OrgTypeOK
  <2>2. [org[o] EXCEPT !.status = s] \in OrgRow
    BY <2>1 DEF OrgRow
  <2> QED
    BY <2>1, <2>2, OrgStep
<1> QED
  BY <1>1, <1>2, <1>3

LEMMA AdminKeepsInv ==
  ASSUME TenantInv, NEW a \in Admins, AdminStep(a)
  PROVE  TenantInv'
<1> USE DEF POSTOrganization, PATCHPlan, PATCHStatus, DELETEOrganization, POSTAPIKey,
        PATCHDeactivate, PATCHReactivate, DELETEAPIKey, POSTRotate
<1>1. ASSUME NEW o \in Orgs, NEW p \in Plans, POSTOrganization(a, o, p) \/ PATCHPlan(a, o, p)
      PROVE  TenantInv'
  BY <1>1, AdminOrgStep, TenantsAssumption
<1>2. ASSUME NEW o \in Orgs, NEW s \in Statuses, PATCHStatus(a, o, s)
      PROVE  TenantInv'
  BY <1>2, AdminOrgStep, TenantsAssumption
<1>3. ASSUME NEW o \in Orgs, DELETEOrganization(a, o) PROVE TenantInv'
  BY <1>3, AdminOrgStep, TenantsAssumption DEF deleteOrganization
<1>4. ASSUME NEW k \in Keys, NEW o \in Orgs, NEW e \in Environments,
             NEW x \in {Never} \cup 1 .. LastDay - 1, POSTAPIKey(a, k, o, e, x)
      PROVE  TenantInv'
  <2>1. x \in 0 .. LastDay
    BY TenantsAssumption DEF Never
  <2> QED
    BY <1>4, <2>1, GenerateStep
<1>5. ASSUME NEW k \in Keys,
             \/ PATCHDeactivate(a, k) \/ PATCHReactivate(a, k) \/ DELETEAPIKey(a, k)
             \/ POSTRotate(a, k) \/ RotateInsert(a, k)
      PROVE  TenantInv'
  BY <1>5, SetActiveStep, DeleteKeyStep, RotateReadStep, RotateInsertStep
<1> QED
  BY <1>1, <1>2, <1>3, <1>4, <1>5, RotateDeactivateStep, RotationEnds DEF AdminStep

\* What a step on the meters must show of the organizations' day.
DailyKept ==
    (\A p \in Plans : RequestsPerDay[p] # Unlimited) =>
        \A o \in Orgs :
            \/ usage'[o].today + Cardinality(InService(o)') <= usage[o].today + Cardinality(InService(o))
            \/ \E p \in Plans : usage'[o].today < RequestsPerDay[p]

LEMMA MeterStep ==
  ASSUME TenantInv, UNCHANGED <<org, keyVars>>, MeterTypeOK', CallsSound', DailyKept
  PROVE  TenantInv'
<1>1. KeyInv' /\ OrgTypeOK'
  <2>1. RotatedHasReplacement'
    BY KeysAlone DEF TenantInv, KeyInv
  <2> QED
    BY <2>1 DEF TenantInv, OrgTypeOK, KeyInv, KeyTypeOK, KeysSound, RotationsSound, SameUse, keyVars
<1>2. DailyBound'
  <2> SUFFICES ASSUME \A p \in Plans : RequestsPerDay[p] # Unlimited, NEW o \in Orgs
               PROVE  \E p \in Plans : usage'[o].today + Cardinality(InService(o)')
                                         < RequestsPerDay[p] + Cardinality(Calls)
    BY DEF DailyBound
  <2>1. \A p \in Plans : RequestsPerDay[p] \in Nat
    BY TenantsAssumption
  <2>2. /\ usage[o].today \in Nat /\ usage'[o].today \in Nat
        /\ Cardinality(Calls) \in Nat /\ Cardinality(InService(o)) \in Nat
    BY FewInService DEF TenantInv, MeterInv, MeterTypeOK
  <2>3. /\ Cardinality(InService(o)') \in Nat /\ Cardinality(InService(o)') <= Cardinality(Calls)
    <3>1. InService(o)' \subseteq Calls
      BY DEF InService
    <3> QED
      BY <3>1, TenantsAssumption, FS_Subset, FS_CardinalityType
  <2>4. PICK p \in Plans :
           usage[o].today + Cardinality(InService(o)) < RequestsPerDay[p] + Cardinality(Calls)
    BY DEF TenantInv, MeterInv, DailyBound
  <2>5. CASE usage'[o].today + Cardinality(InService(o)') <= usage[o].today + Cardinality(InService(o))
    BY <2>1, <2>2, <2>3, <2>4, <2>5
  <2>6. CASE \E q \in Plans : usage'[o].today < RequestsPerDay[q]
    BY <2>1, <2>2, <2>3, <2>6
  <2> QED
    BY <2>5, <2>6 DEF DailyKept
<1> QED
  BY <1>1, <1>2 DEF TenantInv, MeterInv

\* A step that only moves one call on, not into service, needs to show little.
LEMMA CallMoves ==
  ASSUME TenantInv, NEW r \in Calls, NEW g \in Gated \cup {Absent},
         UNCHANGED <<org, keyVars, usage, day>>, call' = [call EXCEPT ![r] = g],
         aggregate' \in [Orgs -> [total : Nat, credits : Nat]],
         g # Absent =>
            /\ key[g.row] # Absent /\ \E p \in Plans : g.limit = RequestsPerDay[p]
            /\ g.pc # "admitted"
  PROVE  TenantInv'
<1>1. MeterTypeOK
  BY DEF TenantInv, MeterInv
<1>2. call'[r] = g /\ \A s \in Calls : s # r => call'[s] = call[s]
  BY <1>1 DEF MeterTypeOK
<1>3. MeterTypeOK'
  BY <1>1 DEF MeterTypeOK
<1>4. key' = key
  BY DEF keyVars
<1>5. CallsSound'
  BY <1>2, <1>4 DEF TenantInv, MeterInv, CallsSound
<1>6. DailyKept
  <2> SUFFICES ASSUME NEW o \in Orgs
               PROVE  usage'[o].today + Cardinality(InService(o)')
                        <= usage[o].today + Cardinality(InService(o))
    BY DEF DailyKept
  <2>1. InService(o)' \subseteq InService(o)
    BY <1>2, <1>4 DEF InService, Serving
  <2>2. Cardinality(InService(o)') <= Cardinality(InService(o)) /\ Cardinality(InService(o)') \in Nat
        /\ Cardinality(InService(o)) \in Nat
    BY <2>1, FewInService, FS_Subset, FS_CardinalityType
  <2> QED
    BY <1>1, <2>2 DEF MeterTypeOK
<1> QED
  BY <1>3, <1>5, <1>6, MeterStep

LEMMA LookUpStep ==
  ASSUME TenantInv, NEW r \in Calls, NEW k \in Keys, NEW row \in Keys, NEW op \in Operations,
         LookUp(r, k, row, op)
  PROVE  TenantInv'
<1> DEFINE p == org[key[row].org].plan
           g == [pc |-> "found", presented |-> k, row |-> row, limit |-> RequestsPerDay[p], op |-> op]
<1>1. key[row] # Absent /\ key[row].org \in Orgs /\ org[key[row].org] \in OrgRow
  <2>1. key[row] # Absent /\ key[row] \in KeyRow
    BY DEF LookUp, Candidates, Stored, TenantInv, KeyInv, KeyTypeOK
  <2>2. org[key[row].org] # Absent /\ key[row].org \in Orgs
    BY <2>1 DEF KeyRow, TenantInv, KeyInv, KeysSound
  <2> QED
    BY <2>1, <2>2 DEF TenantInv, OrgTypeOK
<1>2. p \in Plans
  BY <1>1 DEF OrgRow
<1>3. RequestsPerDay[p] \in Nat \cup {Unlimited}
  BY <1>2, TenantsAssumption
<1>4. g \in Gated /\ g.row = row /\ g.limit = RequestsPerDay[p] /\ g.pc = "found"
  BY <1>3 DEF Gated
<1>5. call' = [call EXCEPT ![r] = g] /\ UNCHANGED <<org, keyVars, usage, aggregate, day>>
  BY DEF LookUp
<1>6. aggregate' \in [Orgs -> [total : Nat, credits : Nat]]
  BY <1>5 DEF TenantInv, MeterInv, MeterTypeOK
<1> HIDE DEF p, g
<1> QED
  BY <1>1, <1>2, <1>4, <1>5, <1>6, CallMoves

LEMMA CallIsSound ==
  ASSUME TenantInv, NEW r \in Calls, call[r] # Absent
  PROVE  /\ call[r] \in Gated /\ call[r].row \in Keys /\ key[call[r].row] # Absent
         /\ key[call[r].row].org \in Orgs
         /\ \E p \in Plans : call[r].limit = RequestsPerDay[p]
         /\ aggregate \in [Orgs -> [total : Nat, credits : Nat]]
<1>1. call[r] \in Gated /\ call[r].row \in Keys
  BY DEF TenantInv, MeterInv, MeterTypeOK, Gated
<1>2. key[call[r].row] # Absent /\ \E p \in Plans : call[r].limit = RequestsPerDay[p]
  BY DEF TenantInv, MeterInv, CallsSound
<1>3. key[call[r].row].org \in Orgs
  BY <1>1, <1>2 DEF TenantInv, KeyInv, KeyTypeOK, KeyRow
<1> QED
  BY <1>1, <1>2, <1>3 DEF TenantInv, MeterInv, MeterTypeOK

LEMMA EndsStep ==
  ASSUME TenantInv, NEW r \in Calls, Unrecorded(r) \/ updateAggregates(r)
  PROVE  TenantInv'
<1>1. call[r] # Absent /\ call' = [call EXCEPT ![r] = Absent] /\ UNCHANGED <<org, keyVars, usage, day>>
  BY DEF Unrecorded, updateAggregates, Serving
<1>2. aggregate' \in [Orgs -> [total : Nat, credits : Nat]]
  <2>1. CASE Unrecorded(r)
    BY <1>1, <2>1, CallIsSound DEF Unrecorded
  <2>2. CASE updateAggregates(r)
    <3>1. PICK o \in Orgs, n \in Nat : o = key[call[r].row].org /\ n = CreditCosts[call[r].op]
      BY <1>1, CallIsSound, TenantsAssumption DEF Gated, CreditCosts
    <3>2. aggregate' = [aggregate EXCEPT ![o].total = @ + 1, ![o].credits = @ + n]
      BY <2>2, <3>1 DEF updateAggregates
    <3>3. aggregate \in [Orgs -> [total : Nat, credits : Nat]]
      BY <1>1, CallIsSound
    <3> DEFINE counted == [aggregate EXCEPT ![o].total = @ + 1]
    <3>4. counted \in [Orgs -> [total : Nat, credits : Nat]]
      BY <3>3
    <3>5. aggregate' = [counted EXCEPT ![o].credits = @ + n]
      BY <3>2
    <3> HIDE DEF counted
    <3> QED
      BY <3>4, <3>5
  <2> QED
    BY <2>1, <2>2
<1> QED
  BY <1>1, <1>2, CallMoves

LEMMA CheckStep ==
  ASSUME TenantInv, NEW r \in Calls, Check(r)
  PROVE  TenantInv'
<1> DEFINE o == key[call[r].row].org
           ok == Matches(r) /\ ~Expired(call[r].row) /\ HasRoom(r)
<1>1. /\ call[r] # Absent /\ call[r].pc = "found" /\ UNCHANGED <<org, keyVars, usage, aggregate, day>>
      /\ call' = [call EXCEPT ![r] = IF ok THEN [call[r] EXCEPT !.pc = "admitted"] ELSE Absent]
  BY DEF Check, Serving
<1>2. MeterTypeOK /\ MeterTypeOK'
  <2>1. [call[r] EXCEPT !.pc = "admitted"] \in Gated
    BY <1>1, CallIsSound DEF Gated
  <2> QED
    BY <1>1, <2>1 DEF TenantInv, MeterInv, MeterTypeOK
<1>3. CASE ~ok
  BY <1>1, <1>2, <1>3, CallMoves DEF MeterTypeOK
<1>4. CASE ok
  <2> DEFINE g == [call[r] EXCEPT !.pc = "admitted"]
  <2>1. /\ call' = [call EXCEPT ![r] = g] /\ g \in Gated
        /\ g.row = call[r].row /\ g.limit = call[r].limit
    BY <1>1, <1>4, CallIsSound DEF Gated
  <2> HIDE DEF g
  <2>2. call'[r] = g /\ \A s \in Calls : s # r => call'[s] = call[s]
    BY <1>2, <2>1 DEF MeterTypeOK
  <2>3. key' = key
    BY <1>1 DEF keyVars
  <2>4. CallsSound'
    BY <1>1, <2>1, <2>2, <2>3, CallIsSound DEF TenantInv, MeterInv, CallsSound
  <2>5. DailyKept
    <3> SUFFICES ASSUME \A p \in Plans : RequestsPerDay[p] # Unlimited, NEW c \in Orgs
                 PROVE  \/ usage'[c].today + Cardinality(InService(c)')
                             <= usage[c].today + Cardinality(InService(c))
                        \/ \E p \in Plans : usage'[c].today < RequestsPerDay[p]
      BY DEF DailyKept
    <3>1. CASE c = o
      <4>1. usage[o].today < call[r].limit \/ call[r].limit = Unlimited
        BY <1>4 DEF HasRoom
      <4>2. PICK p \in Plans : call[r].limit = RequestsPerDay[p]
        BY <1>1, CallIsSound
      <4> QED
        BY <1>1, <3>1, <4>1, <4>2
    <3>2. CASE c # o
      <4>1. InService(c)' = InService(c)
        BY <2>1, <2>2, <2>3, <3>2, <1>1 DEF InService, Serving
      <4> QED
        BY <1>1, <1>2, <4>1, FewInService DEF MeterTypeOK
    <3> QED
      BY <3>1, <3>2
  <2> QED
    BY <1>1, <1>2, <2>4, <2>5, MeterStep
<1> QED
  BY <1>3, <1>4

LEMMA RecordStep0 ==
  ASSUME TenantInv, NEW r \in Calls, Record(r)
  PROVE  TenantInv'
<1>1. /\ call[r] # Absent /\ call[r].pc = "admitted" /\ UNCHANGED <<org, keyVars, aggregate, day>>
      /\ call' = [call EXCEPT ![r].pc = "recorded"]
  BY DEF Record, Serving
<1>2. PICK o \in Orgs, n \in Nat : o = key[call[r].row].org /\ n = CreditCosts[call[r].op]
  BY <1>1, CallIsSound, TenantsAssumption DEF Gated, CreditCosts
<1>3. usage' = [usage EXCEPT ![o].today = @ + 1, ![o].total = @ + 1, ![o].credits = @ + n]
  BY <1>2 DEF Record
<1>4. MeterTypeOK /\ key' = key
  BY <1>1 DEF TenantInv, MeterInv, keyVars
<1>5. /\ usage' \in [Orgs -> [today : Nat, total : Nat, credits : Nat]]
      /\ usage'[o].today = usage[o].today + 1
      /\ \A c \in Orgs : c # o => usage'[c] = usage[c]
  <2> DEFINE Row == [today : Nat, total : Nat, credits : Nat]
             first  == [usage EXCEPT ![o].today = @ + 1]
             second == [first EXCEPT ![o].total = @ + 1]
  <2>1. /\ first \in [Orgs -> Row] /\ first[o].today = usage[o].today + 1
        /\ \A c \in Orgs : c # o => first[c] = usage[c]
    BY <1>4 DEF MeterTypeOK
  <2> HIDE DEF first
  <2>2. /\ second \in [Orgs -> Row] /\ second[o].today = first[o].today
        /\ \A c \in Orgs : c # o => second[c] = first[c]
    BY <2>1
  <2>3. usage' = [second EXCEPT ![o].credits = @ + n]
    BY <1>3 DEF first
  <2> HIDE DEF second
  <2>4. /\ usage' \in [Orgs -> Row] /\ usage'[o].today = second[o].today
        /\ \A c \in Orgs : c # o => usage'[c] = second[c]
    BY <2>2, <2>3
  <2> QED
    BY <2>1, <2>2, <2>4
<1>6. PICK g \in Gated : /\ g = [call[r] EXCEPT !.pc = "recorded"] /\ g.pc = "recorded"
                         /\ g.row = call[r].row /\ g.limit = call[r].limit
  <2>1. call[r] \in Gated
    BY <1>1, CallIsSound
  <2> DEFINE h == [call[r] EXCEPT !.pc = "recorded"]
  <2>2. h \in Gated /\ h.pc = "recorded" /\ h.row = call[r].row /\ h.limit = call[r].limit
    BY <2>1 DEF Gated
  <2> QED
    BY <2>2
<1>7. call'[r] = g /\ \A s \in Calls : s # r => call'[s] = call[s]
  BY <1>1, <1>4, <1>6 DEF MeterTypeOK
<1>8. MeterTypeOK'
  <2>1. call' = [call EXCEPT ![r] = g]
    BY <1>1, <1>6
  <2> QED
    BY <1>1, <1>4, <1>5, <2>1 DEF MeterTypeOK
<1>9. CallsSound'
  BY <1>1, <1>4, <1>6, <1>7, CallIsSound DEF TenantInv, MeterInv, CallsSound
<1>10. DailyKept
  <2> SUFFICES ASSUME NEW c \in Orgs
               PROVE  usage'[c].today + Cardinality(InService(c)')
                        <= usage[c].today + Cardinality(InService(c))
    BY DEF DailyKept
  <2>1. CASE c = o
    <3>1. InService(o)' = InService(o) \ {r} /\ r \in InService(o)
      BY <1>1, <1>2, <1>4, <1>6, <1>7 DEF InService, Serving
    <3>2. Cardinality(InService(o)') = Cardinality(InService(o)) - 1
      BY <3>1, FewInService, FS_RemoveElement
    <3> QED
      BY <1>4, <1>5, <2>1, <3>2, FewInService DEF MeterTypeOK
  <2>2. CASE c # o
    <3>1. InService(c)' = InService(c)
      BY <1>1, <1>2, <1>4, <1>6, <1>7, <2>2 DEF InService, Serving
    <3> QED
      BY <1>4, <1>5, <2>2, <3>1, FewInService DEF MeterTypeOK
  <2> QED
    BY <2>1, <2>2
<1> QED
  BY <1>1, <1>8, <1>9, <1>10, MeterStep

LEMMA MidnightStep ==
  ASSUME TenantInv, Midnight
  PROVE  TenantInv'
<1>1. /\ usage' = [o \in Orgs |-> [usage[o] EXCEPT !.today = 0]]
      /\ day' = day + 1 /\ day < LastDay /\ UNCHANGED <<org, keyVars, call, aggregate>> /\ key' = key
  BY DEF Midnight, keyVars
<1>2. MeterTypeOK
  BY DEF TenantInv, MeterInv
<1>3. MeterTypeOK' /\ \A o \in Orgs : usage'[o].today = 0
  <2>1. \A o \in Orgs : /\ [usage[o] EXCEPT !.today = 0] \in [today : Nat, total : Nat, credits : Nat]
                        /\ [usage[o] EXCEPT !.today = 0].today = 0
    BY <1>2 DEF MeterTypeOK
  <2>2. day' \in 1 .. LastDay
    BY <1>1, <1>2, TenantsAssumption DEF MeterTypeOK
  <2> QED
    BY <1>1, <1>2, <2>1, <2>2 DEF MeterTypeOK
<1>4. CallsSound'
  BY <1>1 DEF TenantInv, MeterInv, CallsSound
<1>5. DailyKept
  <2> SUFFICES ASSUME NEW o \in Orgs
               PROVE  usage'[o].today + Cardinality(InService(o)')
                        <= usage[o].today + Cardinality(InService(o))
    BY DEF DailyKept
  <2>1. InService(o)' = InService(o)
    BY <1>1 DEF InService, Serving
  <2> QED
    BY <1>2, <1>3, <2>1, FewInService DEF MeterTypeOK
<1> QED
  BY <1>1, <1>3, <1>4, <1>5, MeterStep

LEMMA TenantStep == TenantInv /\ [TenantNext]_tenantVars => TenantInv'
<1> SUFFICES ASSUME TenantInv, [TenantNext]_tenantVars PROVE TenantInv'
  OBVIOUS
<1>1. ASSUME NEW r \in Calls, RequestStep(r) PROVE TenantInv'
  BY <1>1, LookUpStep, CheckStep, RecordStep0, EndsStep DEF RequestStep
<1>2. CASE UNCHANGED tenantVars
  <2>1. UNCHANGED <<org, keyVars, meterVars>> /\ KeyTypeOK'
    BY <1>2 DEF tenantVars, keyVars, TenantInv, KeyInv, KeyTypeOK
  <2>2. KeysEndure
    BY <2>1 DEF keyVars, KeysEndure
  <2> QED
    BY <2>1, <2>2, KeyStep DEF keyVars, Stored
<1> QED
  BY <1>1, <1>2, AdminKeepsInv, MidnightStep DEF TenantNext

\* Rows of organizations and keys, calls and counters keep their shapes.
THEOREM TenantTypeCorrect == TenantSpec => []TenantTypeOK
<1>1. TenantInv => TenantTypeOK
  BY TypesTogether DEF TenantInv, KeyInv, MeterInv
<1> QED
  BY <1>1, TenantInit0, TenantStep, PTL DEF TenantSpec

\* Whatever the plans are changed to and however many requests overlap, the day's
\* records and the requests in service exceed the limit of some plan by fewer than the
\* requests that the server has at once.
THEOREM DailyLimitBound == TenantSpec => []DailyBound
<1>1. TenantInv => DailyBound
  BY DEF TenantInv, MeterInv
<1> QED
  BY <1>1, TenantInit0, TenantStep, PTL DEF TenantSpec

\* Wherever a rotation stops and whatever other administrators do meanwhile, it leaves
\* no key switched off without a replacement that somebody was given.
THEOREM RotatedReplaced == TenantSpec => []RotatedHasReplacement
<1>1. TenantInv => RotatedHasReplacement
  BY DEF TenantInv, KeyInv
<1> QED
  BY <1>1, TenantInit0, TenantStep, PTL DEF TenantSpec

-----------------------------------------------------------------------------
(* Aggregates of usage                                                      *)

\* Requests of an organization whose record is there and whose aggregation is not over,
\* by what they did.
LaggingFor(o, op) == {r \in Lagging(o) : call[r].op = op}

LaggingOf(o) == [op \in DOMAIN CreditCosts |-> Cardinality(LaggingFor(o, op))]

\* The credits of so many requests of each operation.
Credits(n) ==
    10 * n["blockchain_anchor"] + 5 * n["attestation_create"] + 3 * n["passport_create"]
    + 20 * n["zkp_generate"] + n["api_call"]

\* What is recorded covers what is aggregated and what is yet to be: AggregatesFollow, with
\* the credits of the requests whose aggregation is under way.
AggregatesCovered ==
    \A o \in Orgs :
        /\ aggregate[o].total + Cardinality(Lagging(o)) <= usage[o].total
        /\ aggregate[o].credits + Credits(LaggingOf(o)) <= usage[o].credits

CostedOps == DOMAIN CreditCosts

LEMMA CostOfAll == CostedOps = {"blockchain_anchor", "attestation_create", "passport_create",
                               "zkp_generate", "api_call"}
  BY DEF CostedOps, CreditCosts

LEMMA CreditsCount ==
  ASSUME NEW n \in [CostedOps -> Nat]
  PROVE  Credits(n) \in Nat
  BY CostOfAll DEF Credits

LEMMA CreditsOfOneMore ==
  ASSUME NEW n \in [CostedOps -> Nat], NEW op \in CostedOps, NEW m \in [CostedOps -> Nat],
         m[op] = n[op] + 1, \A x \in CostedOps \ {op} : m[x] = n[x]
  PROVE  Credits(m) = Credits(n) + CreditCosts[op]
<1>1. CASE op = "blockchain_anchor"
  BY <1>1, CostOfAll DEF Credits, CreditCosts
<1>2. CASE op = "attestation_create"
  BY <1>2, CostOfAll DEF Credits, CreditCosts
<1>3. CASE op = "passport_create"
  BY <1>3, CostOfAll DEF Credits, CreditCosts
<1>4. CASE op = "zkp_generate"
  BY <1>4, CostOfAll DEF Credits, CreditCosts
<1>5. CASE op = "api_call"
  BY <1>5, CostOfAll DEF Credits, CreditCosts
<1> QED
  BY <1>1, <1>2, <1>3, <1>4, <1>5, CostOfAll

LEMMA LaggingCounts ==
  ASSUME NEW o
  PROVE  /\ IsFiniteSet(Lagging(o)) /\ Cardinality(Lagging(o)) \in Nat
         /\ \A op : IsFiniteSet(LaggingFor(o, op)) /\ Cardinality(LaggingFor(o, op)) \in Nat
         /\ LaggingOf(o) \in [CostedOps -> Nat]
<1>1. IsFiniteSet(Lagging(o)) /\ Cardinality(Lagging(o)) \in Nat
  BY TenantsAssumption, FS_Subset, FS_CardinalityType DEF Lagging
<1>2. \A op : IsFiniteSet(LaggingFor(o, op)) /\ Cardinality(LaggingFor(o, op)) \in Nat
  BY <1>1, FS_Subset, FS_CardinalityType DEF LaggingFor
<1> QED
  BY <1>1, <1>2 DEF LaggingOf, CostedOps

LEMMA LaggingCountsNext ==
  ASSUME NEW o
  PROVE  /\ IsFiniteSet(Lagging(o)') /\ Cardinality(Lagging(o)') \in Nat
         /\ \A op : IsFiniteSet(LaggingFor(o, op)') /\ Cardinality(LaggingFor(o, op)') \in Nat
         /\ LaggingOf(o)' \in [CostedOps -> Nat]
<1>1. IsFiniteSet(Lagging(o)') /\ Cardinality(Lagging(o)') \in Nat
  <2>1. Lagging(o)' \subseteq Calls
    BY DEF Lagging
  <2> QED
    BY <2>1, TenantsAssumption, FS_Subset, FS_CardinalityType
<1>2. \A op : IsFiniteSet(LaggingFor(o, op)') /\ Cardinality(LaggingFor(o, op)') \in Nat
  <2>1. \A op : LaggingFor(o, op)' \subseteq Lagging(o)'
    BY DEF LaggingFor
  <2> QED
    BY <1>1, <2>1, FS_Subset, FS_CardinalityType
<1> QED
  BY <1>1, <1>2 DEF LaggingOf, CostedOps

\* A request that comes to lag is one more of its operation and of all.
LEMMA OneLagsMore ==
  ASSUME NEW o, NEW r, NEW op \in CostedOps, r \notin Lagging(o),
         Lagging(o)' = Lagging(o) \cup {r},
         LaggingFor(o, op)' = LaggingFor(o, op) \cup {r},
         \A x \in CostedOps \ {op} : LaggingFor(o, x)' = LaggingFor(o, x)
  PROVE  /\ Cardinality(Lagging(o)') = Cardinality(Lagging(o)) + 1
         /\ Credits(LaggingOf(o)') = Credits(LaggingOf(o)) + CreditCosts[op]
<1>1. Cardinality(Lagging(o)') = Cardinality(Lagging(o)) + 1
  BY LaggingCounts, FS_AddElement
<1>2. r \notin LaggingFor(o, op)
  BY DEF LaggingFor
<1>3. Cardinality(LaggingFor(o, op)') = Cardinality(LaggingFor(o, op)) + 1
  <2>1. IsFiniteSet(LaggingFor(o, op))
    BY LaggingCounts
  <2>2. Cardinality(LaggingFor(o, op) \cup {r}) = Cardinality(LaggingFor(o, op)) + 1
    BY <1>2, <2>1, FS_AddElement
  <2> QED
    BY <2>2
<1>4. LaggingOf(o)'[op] = LaggingOf(o)[op] + 1
  BY <1>3 DEF LaggingOf, CostedOps
<1>5. \A x \in CostedOps \ {op} : LaggingOf(o)'[x] = LaggingOf(o)[x]
  BY DEF LaggingOf, CostedOps
<1> QED
  BY <1>1, <1>4, <1>5, LaggingCounts, LaggingCountsNext, CreditsOfOneMore

LEMMA OneLagsLess ==
  ASSUME NEW o, NEW r, NEW op \in CostedOps, r \in LaggingFor(o, op),
         Lagging(o)' = Lagging(o) \ {r},
         LaggingFor(o, op)' = LaggingFor(o, op) \ {r},
         \A x \in CostedOps \ {op} : LaggingFor(o, x)' = LaggingFor(o, x)
  PROVE  /\ Cardinality(Lagging(o)) = Cardinality(Lagging(o)') + 1
         /\ Credits(LaggingOf(o)) = Credits(LaggingOf(o)') + CreditCosts[op]
<1>1. r \in Lagging(o)
  BY DEF LaggingFor
<1>2. Cardinality(Lagging(o)) = Cardinality(Lagging(o)') + 1
  <2>1. Cardinality(Lagging(o) \ {r}) = Cardinality(Lagging(o)) - 1
    BY <1>1, LaggingCounts, FS_RemoveElement
  <2> QED
    BY <2>1, LaggingCounts, LaggingCountsNext
<1>3. Cardinality(LaggingFor(o, op)) = Cardinality(LaggingFor(o, op)') + 1
  <2>1. IsFiniteSet(LaggingFor(o, op)) /\ Cardinality(LaggingFor(o, op)) \in Nat
    BY LaggingCounts
  <2>2. Cardinality(LaggingFor(o, op) \ {r}) = Cardinality(LaggingFor(o, op)) - 1
    BY <2>1, FS_RemoveElement
  <2> QED
    BY <2>1, <2>2
<1>4. LaggingOf(o)[op] = LaggingOf(o)'[op] + 1
  BY <1>3 DEF LaggingOf, CostedOps
<1>5. \A x \in CostedOps \ {op} : LaggingOf(o)[x] = LaggingOf(o)'[x]
  BY DEF LaggingOf, CostedOps
<1> QED
  BY <1>2, <1>4, <1>5, LaggingCounts, LaggingCountsNext, CreditsOfOneMore

\* Sums stay under sums: no counter is negative.
LEMMA CountsAreNumbers ==
  ASSUME NEW o \in Orgs, MeterTypeOK
  PROVE  /\ usage[o].total \in Nat /\ usage[o].credits \in Nat
         /\ aggregate[o].total \in Nat /\ aggregate[o].credits \in Nat
         /\ Cardinality(Lagging(o)) \in Nat /\ Cardinality(Lagging(o)') \in Nat
         /\ Credits(LaggingOf(o)) \in Nat /\ Credits(LaggingOf(o)') \in Nat
<1>1. Cardinality(Lagging(o)) \in Nat /\ Credits(LaggingOf(o)) \in Nat
  BY LaggingCounts, CreditsCount
<1>2. Cardinality(Lagging(o)') \in Nat /\ Credits(LaggingOf(o)') \in Nat
  BY LaggingCountsNext, CreditsCount
<1> QED
  BY <1>1, <1>2 DEF MeterTypeOK

LEMMA LaggingAside ==
  ASSUME NEW o \in Orgs, AggregatesCovered, Lagging(o)' = Lagging(o),
         \A x \in CostedOps : LaggingFor(o, x)' = LaggingFor(o, x),
         UNCHANGED aggregate[o], usage'[o].total = usage[o].total, usage'[o].credits = usage[o].credits
  PROVE  /\ aggregate'[o].total + Cardinality(Lagging(o)') <= usage'[o].total
         /\ aggregate'[o].credits + Credits(LaggingOf(o)') <= usage'[o].credits
<1>1. LaggingOf(o)' = LaggingOf(o)
  BY DEF LaggingOf, CostedOps
<1> QED
  BY <1>1 DEF AggregatesCovered


\* Whatever an administrator does, the meters stay and a key stays its organization's.
LEMMA AdminLeavesMeters ==
  ASSUME KeyTypeOK, NEW a \in Admins, AdminStep(a)
  PROVE  /\ UNCHANGED meterVars
         /\ \A k \in Keys : key[k] # Absent => key'[k].org = key[k].org
<1> USE DEF KeyTypeOK
<1> DEFINE Settled == /\ UNCHANGED meterVars
                      /\ \A k \in Keys : key[k] # Absent => key'[k].org = key[k].org
<1>1. ASSUME NEW o \in Orgs, NEW p \in Plans, POSTOrganization(a, o, p) \/ PATCHPlan(a, o, p)
      PROVE  Settled
  BY <1>1 DEF POSTOrganization, PATCHPlan, createOrganization, updateOrganizationPlan, keyVars
<1>2. ASSUME NEW o \in Orgs, (\E s \in Statuses : PATCHStatus(a, o, s)) \/ DELETEOrganization(a, o)
      PROVE  Settled
  BY <1>2 DEF PATCHStatus, DELETEOrganization, deleteOrganization, updateOrganizationStatus, keyVars
<1>3. ASSUME NEW k \in Keys, NEW value \in BOOLEAN, SetActive(k, value) PROVE Settled
  <2>1. key[k] \in KeyRow /\ UNCHANGED meterVars
    BY <1>3 DEF SetActive, Stored
  <2>2. key' = [key EXCEPT ![k] = [key[k] EXCEPT !.active = value]]
    BY <1>3 DEF SetActive
  <2>3. [key[k] EXCEPT !.active = value].org = key[k].org
    BY <2>1 DEF KeyRow
  <2> QED
    BY <2>1, <2>2, <2>3
<1>4. ASSUME NEW k \in Keys, deleteAPIKey(k) PROVE Settled
  <2>1. key[k] \in KeyRow /\ UNCHANGED meterVars
    BY <1>4 DEF deleteAPIKey, Stored
  <2>2. key' = [key EXCEPT ![k] = [key[k] EXCEPT !.stored = FALSE]]
    BY <1>4 DEF deleteAPIKey
  <2>3. [key[k] EXCEPT !.stored = FALSE].org = key[k].org
    BY <2>1 DEF KeyRow
  <2> QED
    BY <2>1, <2>2, <2>3
<1>5. ASSUME NEW k \in Keys, NEW o, NEW e, NEW x, InsertKey(k, o, e, x), UNCHANGED meterVars
      PROVE  Settled
  <2>1. \A j \in Keys : j # k => key'[j] = key[j]
    BY <1>5 DEF InsertKey
  <2> QED
    BY <1>5, <2>1 DEF InsertKey
<1>6. ASSUME NEW k \in Keys, POSTRotate(a, k) PROVE Settled
  BY <1>6 DEF POSTRotate, RotateRead
<1>7. ASSUME NEW k \in Keys, RotateInsert(a, k) PROVE Settled
  BY <1>7, <1>5 DEF RotateInsert
<1>8. ASSUME RotateDeactivate(a) PROVE Settled
  <2>1. UNCHANGED meterVars
    BY <1>8 DEF RotateDeactivate
  <2>2. CASE UNCHANGED key
    BY <2>1, <2>2
  <2>3. CASE key' # key
    <3> DEFINE k == rotation[a].old
    <3>1. Stored(k) /\ key' = [key EXCEPT ![k] = [key[k] EXCEPT !.active = FALSE]]
      BY <1>8, <2>3 DEF RotateDeactivate
    <3>2. k \in Keys
      BY <1>8, TenantsAssumption DEF RotateDeactivate, Rotating, Rotation
    <3>3. key[k] \in KeyRow
      BY <3>1, <3>2 DEF Stored
    <3> HIDE DEF k
    <3>4. [key[k] EXCEPT !.active = FALSE].org = key[k].org
      BY <3>3 DEF KeyRow
    <3> QED
      BY <2>1, <3>1, <3>2, <3>4
  <2> QED
    BY <2>2, <2>3
<1>9. ASSUME RotateAnswer(a) \/ RotateFails(a) PROVE Settled
  BY <1>9 DEF RotateAnswer, RotateFails
<1>10. ASSUME NEW k \in Keys, PATCHDeactivate(a, k) \/ PATCHReactivate(a, k) \/ DELETEAPIKey(a, k)
       PROVE  Settled
  BY <1>10, <1>3, <1>4 DEF PATCHDeactivate, PATCHReactivate, DELETEAPIKey, deactivateAPIKey,
     reactivateAPIKey
<1>11. ASSUME NEW k \in Keys, NEW o \in Orgs, NEW e \in Environments,
              NEW x \in {Never} \cup 1 .. LastDay - 1, POSTAPIKey(a, k, o, e, x)
       PROVE  Settled
  BY <1>11, <1>5 DEF POSTAPIKey, generateAPIKey
<1> HIDE DEF Settled
<1>12. Settled
  BY <1>1, <1>2, <1>6, <1>7, <1>8, <1>9, <1>10, <1>11 DEF AdminStep
<1> QED
  BY <1>12 DEF Settled

LEMMA CoveredInit == TenantInit => AggregatesCovered
<1> SUFFICES ASSUME TenantInit, NEW o \in Orgs
             PROVE  /\ aggregate[o].total + Cardinality(Lagging(o)) <= usage[o].total
                    /\ aggregate[o].credits + Credits(LaggingOf(o)) <= usage[o].credits
  BY DEF AggregatesCovered
<1>1. Lagging(o) = {} /\ \A op : LaggingFor(o, op) = {}
  BY DEF TenantInit, Lagging, LaggingFor, Serving
<1>2. Cardinality(Lagging(o)) = 0 /\ \A op : Cardinality(LaggingFor(o, op)) = 0
  BY <1>1, FS_EmptySet
<1>3. \A op \in CostedOps : LaggingOf(o)[op] = 0
  BY <1>2 DEF LaggingOf, CostedOps
<1>4. Credits(LaggingOf(o)) = 0
  BY <1>3, CostOfAll DEF Credits
<1>5. aggregate[o] = [total |-> 0, credits |-> 0] /\ usage[o] = [today |-> 0, total |-> 0, credits |-> 0]
  BY DEF TenantInit
<1> QED
  BY <1>2, <1>4, <1>5

\* The counters of an organization as AggregatesCovered asks.
Covered(o) ==
    /\ aggregate[o].total + Cardinality(Lagging(o)) <= usage[o].total
    /\ aggregate[o].credits + Credits(LaggingOf(o)) <= usage[o].credits

\* A call that is not recorded, before or after, moves no counter.
LEMMA LaggingStays ==
  ASSUME NEW o, \A r \in Calls : Serving(r, "recorded")' <=> Serving(r, "recorded"),
         \A r \in Calls : Serving(r, "recorded") =>
            call'[r] = call[r] /\ key'[call[r].row].org = key[call[r].row].org
  PROVE  Lagging(o)' = Lagging(o) /\ \A op : LaggingFor(o, op)' = LaggingFor(o, op)
<1>1. Lagging(o)' = Lagging(o)
  BY DEF Lagging
<1> QED
  BY <1>1 DEF LaggingFor, Lagging

LEMMA CoveredStep == TenantInv /\ AggregatesCovered /\ [TenantNext]_tenantVars => AggregatesCovered'
<1> SUFFICES ASSUME TenantInv, AggregatesCovered, [TenantNext]_tenantVars, NEW o \in Orgs
             PROVE  Covered(o)'
  BY DEF AggregatesCovered, Covered
<1> USE DEF Covered
<1>0. /\ call \in [Calls -> Gated \cup {Absent}]
      /\ usage \in [Orgs -> [today : Nat, total : Nat, credits : Nat]]
      /\ aggregate \in [Orgs -> [total : Nat, credits : Nat]]
      /\ KeyTypeOK
  BY DEF TenantInv, MeterInv, MeterTypeOK, KeyInv
<1>12. /\ usage[o].total \in Nat /\ usage[o].credits \in Nat
       /\ aggregate[o].total \in Nat /\ aggregate[o].credits \in Nat
       /\ Cardinality(Lagging(o)) \in Nat /\ Cardinality(Lagging(o)') \in Nat
       /\ Credits(LaggingOf(o)) \in Nat /\ Credits(LaggingOf(o)') \in Nat
  BY CountsAreNumbers DEF TenantInv, MeterInv
<1>1. ASSUME NEW r \in Calls, call[r] # Absent
      PROVE  /\ call[r] \in Gated /\ call[r].row \in Keys /\ key[call[r].row] # Absent
             /\ call[r].op \in CostedOps
  BY <1>1, CallIsSound, TenantsAssumption DEF Gated, CostedOps
<1>2. ASSUME NEW a \in Admins, AdminStep(a) PROVE Covered(o)'
  <2>1. UNCHANGED meterVars /\ \A k \in Keys : key[k] # Absent => key'[k].org = key[k].org
    BY <1>0, <1>2, AdminLeavesMeters
  <2>2. Lagging(o)' = Lagging(o) /\ \A op : LaggingFor(o, op)' = LaggingFor(o, op)
    BY <1>1, <2>1, LaggingStays DEF meterVars, Serving
  <2> QED
    BY <2>1, <2>2, LaggingAside DEF meterVars
<1>3. ASSUME NEW r \in Calls, NEW k \in Keys, NEW row \in Keys, NEW op \in Operations, LookUp(r, k, row, op)
      PROVE  Covered(o)'
  <2>1. Lagging(o)' = Lagging(o) /\ \A x : LaggingFor(o, x)' = LaggingFor(o, x)
    BY <1>0, <1>3, LaggingStays DEF LookUp, Serving, keyVars
  <2> QED
    BY <1>3, <2>1, LaggingAside DEF LookUp
<1>4. ASSUME NEW r \in Calls, Check(r) PROVE Covered(o)'
  <2>1. call[r] # Absent /\ call[r].pc = "found" /\ UNCHANGED <<key, usage, aggregate>>
        /\ \A s \in Calls \ {r} : call'[s] = call[s]
    BY <1>0, <1>4 DEF Check, Serving, keyVars
  <2>2. call'[r] = Absent \/ call'[r].pc = "admitted"
    <3>1. [call[r] EXCEPT !.pc = "admitted"].pc = "admitted"
      BY <1>1, <2>1 DEF Gated
    <3> QED
      BY <1>0, <1>4, <3>1 DEF Check
  <2>3. Lagging(o)' = Lagging(o) /\ \A x : LaggingFor(o, x)' = LaggingFor(o, x)
    BY <2>1, <2>2, LaggingStays DEF Serving
  <2> QED
    BY <2>1, <2>3, LaggingAside
<1>5. ASSUME NEW r \in Calls, Record(r) PROVE Covered(o)'
  <2> DEFINE c == key[call[r].row].org
  <2>0. PICK op \in CostedOps : op = call[r].op
    BY <1>1, <1>5 DEF Record, Serving
  <2>1. /\ call[r] # Absent /\ call[r].pc = "admitted" /\ UNCHANGED <<key, aggregate>>
        /\ call' = [call EXCEPT ![r].pc = "recorded"]
        /\ usage' = [usage EXCEPT ![c].today = @ + 1, ![c].total = @ + 1,
                                  ![c].credits = @ + CreditCosts[op]]
    BY <1>5, <2>0 DEF Record, Serving, keyVars
  <2>2. \A s \in Calls \ {r} : call'[s] = call[s]
    BY <1>0, <2>1
  <2>3. call'[r] # Absent /\ call'[r].pc = "recorded" /\ call'[r].row = call[r].row /\ call'[r].op = op
    <3>1. call'[r] = [call[r] EXCEPT !.pc = "recorded"]
      BY <1>0, <2>1
    <3>2. call[r] \in Gated
      BY <1>1, <2>1
    <3> DEFINE g == [call[r] EXCEPT !.pc = "recorded"]
    <3>3. g \in Gated /\ g.pc = "recorded" /\ g.row = call[r].row /\ g.op = call[r].op
      BY <3>2 DEF Gated
    <3>4. Absent \notin Gated
      BY TenantsAssumption
    <3> HIDE DEF g
    <3> QED
      BY <2>0, <3>1, <3>3, <3>4 DEF g
  <2>5. r \notin Lagging(o)
    BY <2>1 DEF Lagging, Serving
  <2>6. CASE c # o
    <3>1. Lagging(o)' = Lagging(o)
      BY <2>1, <2>2, <2>3, <2>5, <2>6 DEF Lagging, Serving
    <3>2. \A x : LaggingFor(o, x)' = LaggingFor(o, x)
      BY <2>2, <2>5, <3>1 DEF LaggingFor, Lagging
    <3>3. usage'[o] = usage[o]
      BY <1>0, <2>1, <2>6
    <3> QED
      BY <2>1, <3>1, <3>2, <3>3, LaggingAside
  <2>7. CASE c = o
    <3>1. Lagging(o)' = Lagging(o) \cup {r}
      BY <2>1, <2>2, <2>3, <2>5, <2>7 DEF Lagging, Serving
    <3>2. /\ LaggingFor(o, op)' = LaggingFor(o, op) \cup {r}
          /\ \A x \in CostedOps \ {op} : LaggingFor(o, x)' = LaggingFor(o, x)
      BY <2>2, <2>0, <2>3, <2>5, <3>1 DEF LaggingFor, Lagging
    <3>3. /\ Cardinality(Lagging(o)') = Cardinality(Lagging(o)) + 1
          /\ Credits(LaggingOf(o)') = Credits(LaggingOf(o)) + CreditCosts[op]
      BY <2>5, <3>1, <3>2, OneLagsMore
    <3>4. usage'[o].total = usage[o].total + 1 /\ usage'[o].credits = usage[o].credits + CreditCosts[op]
      BY <1>0, <2>1, <2>7
    <3>5. CreditCosts[op] \in Nat
      BY CostOfAll DEF CreditCosts
    <3>6. aggregate'[o] = aggregate[o] /\ Covered(o)
      BY <2>1 DEF AggregatesCovered
    <3> QED
      BY <1>12, <3>3, <3>4, <3>5, <3>6
  <2> QED
    BY <2>6, <2>7
<1>6. ASSUME NEW r \in Calls, Serving(r, "recorded"), call' = [call EXCEPT ![r] = Absent], UNCHANGED key,
             NEW op, op = call[r].op, key[call[r].row].org = o
      PROVE  /\ Cardinality(Lagging(o)) = Cardinality(Lagging(o)') + 1
             /\ Credits(LaggingOf(o)) = Credits(LaggingOf(o)') + CreditCosts[op]
             /\ CreditCosts[op] \in Nat
  <2>1. call'[r] = Absent /\ \A s \in Calls \ {r} : call'[s] = call[s]
    BY <1>0, <1>6
  <2>2. op \in CostedOps
    BY <1>1, <1>6 DEF Serving
  <2>3. Lagging(o)' = Lagging(o) \ {r} /\ r \in Lagging(o)
    BY <1>6, <2>1 DEF Lagging, Serving
  <2>4. /\ LaggingFor(o, op)' = LaggingFor(o, op) \ {r} /\ r \in LaggingFor(o, op)
        /\ \A x \in CostedOps \ {op} : LaggingFor(o, x)' = LaggingFor(o, x)
    BY <1>6, <2>1, <2>3 DEF LaggingFor, Lagging
  <2> QED
    BY <2>2, <2>3, <2>4, OneLagsLess, CostOfAll DEF CreditCosts
<1>7. ASSUME NEW r \in Calls, call[r] # Absent, ~Serving(r, "recorded") \/ key[call[r].row].org # o,
             call' = [call EXCEPT ![r] = Absent], UNCHANGED key
      PROVE  Lagging(o)' = Lagging(o) /\ \A x : LaggingFor(o, x)' = LaggingFor(o, x)
  <2>1. call'[r] = Absent /\ \A s \in Calls \ {r} : call'[s] = call[s]
    BY <1>0, <1>7
  <2>2. Lagging(o)' = Lagging(o) /\ r \notin Lagging(o)
    BY <1>7, <2>1 DEF Lagging, Serving
  <2> QED
    BY <2>1, <2>2 DEF LaggingFor, Lagging
<1>10. ASSUME NEW r \in Calls, Unrecorded(r) PROVE Covered(o)'
  <2>1. call[r] # Absent /\ call' = [call EXCEPT ![r] = Absent] /\ UNCHANGED <<key, usage, aggregate>>
    BY <1>10 DEF Unrecorded, keyVars
  <2>2. CASE Serving(r, "recorded") /\ key[call[r].row].org = o
    <3>1. PICK n \in Nat : /\ Cardinality(Lagging(o)) = Cardinality(Lagging(o)') + 1
                           /\ Credits(LaggingOf(o)) = Credits(LaggingOf(o)') + n
      BY <1>6, <2>1, <2>2
    <3>2. aggregate'[o] = aggregate[o] /\ usage'[o] = usage[o] /\ Covered(o)
      BY <2>1 DEF AggregatesCovered
    <3> QED
      BY <1>12, <3>1, <3>2
  <2>3. CASE ~(Serving(r, "recorded") /\ key[call[r].row].org = o)
    BY <1>7, <2>1, <2>3, LaggingAside
  <2> QED
    BY <2>2, <2>3
<1>11. ASSUME NEW r \in Calls, updateAggregates(r) PROVE Covered(o)'
  <2> DEFINE c == key[call[r].row].org
             op == call[r].op
  <2>1. /\ Serving(r, "recorded") /\ call[r] # Absent /\ call' = [call EXCEPT ![r] = Absent]
        /\ UNCHANGED <<key, usage>>
        /\ aggregate' = [aggregate EXCEPT ![c].total = @ + 1, ![c].credits = @ + CreditCosts[op]]
    BY <1>11 DEF updateAggregates, Serving, keyVars
  <2>2. CASE c = o
    <3>1. /\ aggregate'[o].total = aggregate[o].total + 1
          /\ aggregate'[o].credits = aggregate[o].credits + CreditCosts[op]
      BY <1>0, <2>1, <2>2
    <3>2. /\ Cardinality(Lagging(o)) = Cardinality(Lagging(o)') + 1
          /\ Credits(LaggingOf(o)) = Credits(LaggingOf(o)') + CreditCosts[op]
          /\ CreditCosts[op] \in Nat
      BY <1>6, <2>1, <2>2
    <3>3. usage'[o] = usage[o] /\ Covered(o)
      BY <2>1 DEF AggregatesCovered
    <3> HIDE DEF op
    <3> QED
      BY <1>12, <3>1, <3>2, <3>3
  <2>3. CASE c # o
    <3>1. aggregate'[o] = aggregate[o]
      BY <1>0, <2>1, <2>3
    <3> QED
      BY <1>7, <2>1, <2>3, <3>1, LaggingAside
  <2> QED
    BY <2>2, <2>3
<1>8. CASE Midnight
  <2>1. UNCHANGED <<key, call, aggregate>> /\ usage'[o] = [usage[o] EXCEPT !.today = 0]
    BY <1>8 DEF Midnight, keyVars
  <2>2. usage'[o].total = usage[o].total /\ usage'[o].credits = usage[o].credits
    BY <1>0, <2>1
  <2>3. Lagging(o)' = Lagging(o) /\ \A op : LaggingFor(o, op)' = LaggingFor(o, op)
    BY <2>1, LaggingStays DEF Serving
  <2> QED
    BY <2>1, <2>2, <2>3, LaggingAside
<1>9. CASE UNCHANGED tenantVars
  <2>1. UNCHANGED <<key, call, usage, aggregate>>
    BY <1>9 DEF tenantVars, keyVars, meterVars
  <2>2. Lagging(o)' = Lagging(o) /\ \A op : LaggingFor(o, op)' = LaggingFor(o, op)
    BY <2>1, LaggingStays DEF Serving
  <2> QED
    BY <2>1, <2>2, LaggingAside
<1> QED
  BY <1>2, <1>3, <1>4, <1>5, <1>8, <1>9, <1>10, <1>11 DEF TenantNext, RequestStep

\* The aggregates that are billed never run ahead of the usage records, in requests or in
\* credits, however the aggregations of overlapping requests are delayed and lost.
THEOREM AggregatesNeverAhead == TenantSpec => []AggregatesFollow
<1>1. TenantInv /\ AggregatesCovered => AggregatesFollow
  <2> SUFFICES ASSUME TenantInv, AggregatesCovered, NEW o \in Orgs
               PROVE  /\ aggregate[o].total + Cardinality(Lagging(o)) <= usage[o].total
                      /\ aggregate[o].credits <= usage[o].credits
    BY DEF AggregatesFollow
  <2>1. aggregate[o].credits \in Nat /\ usage[o].credits \in Nat /\ Credits(LaggingOf(o)) \in Nat
    BY LaggingCounts, CreditsCount DEF TenantInv, MeterInv, MeterTypeOK
  <2> QED
    BY <2>1 DEF AggregatesCovered
<1> QED
  BY <1>1, TenantInit0, CoveredInit, TenantStep, CoveredStep, PTL DEF TenantSpec

=============================================================================
