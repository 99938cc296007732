------------------------------ MODULE Payments ------------------------------
(***************************************************************************)
(* Payments and the subscriptions they extend (modules/admin/payments of   *)
(* apps/api/src, with what modules/admin/organizations does to             *)
(* subscription_end).  One step is one SQL statement: createPayment        *)
(* inserts the payment and then, in a statement of its own, extends the    *)
(* subscription; getPaymentStats adds up in three statements.  Amounts    *)
(* and confirmed_at are left out: a payment counts one.  Dates are         *)
(* numbers, zero is no date.                                               *)
(***************************************************************************)
EXTENDS Naturals, FiniteSets

CONSTANTS
    Subscribers,   \* organizations
    PaymentIds,    \* rows that may come to exist
    Clerks,        \* callers of POST /payments
    LastDate       \* bound on the dates

ASSUME PaymentsAssumption == IsFiniteSet(PaymentIds) /\ LastDate \in Nat

Dates    == 0 .. LastDate
Payment  == [org : Subscribers, end : Dates, status : {"pending", "confirmed", "rejected"}]
Entry    == [pc : {"asked", "inserted"}, payment : Payment, id : PaymentIds, extend : BOOLEAN]
Report   == [pc : {"total", "method", "status"}, total : Nat, method : Nat]

VARIABLES
    payment,   \* the rows of payments, by id
    end,       \* subscription_end of each organization
    agreed,    \* whether that date was last set by a change of plan
    entry,     \* the calls of createPayment
    report     \* a call of getPaymentStats

paymentVars == <<payment, end, agreed, entry, report>>

PaymentInit ==
    /\ payment = <<>>
    /\ end = [o \in Subscribers |-> 0]
    /\ agreed = [o \in Subscribers |-> TRUE]
    /\ entry = <<>>
    /\ report = [pc |-> "total", total |-> 0, method |-> 0]

Recorded == DOMAIN payment

With(f, x, v)  == [y \in DOMAIN f \cup {x} |-> IF y = x THEN v ELSE f[y]]
Without(f, x)  == [y \in DOMAIN f \ {x} |-> f[y]]

POSTPayment(c, o, d, extend) ==
    /\ c \notin DOMAIN entry
    /\ \E i \in PaymentIds \ Recorded :
          entry' = With(entry, c, [pc |-> "asked", id |-> i, extend |-> extend,
                                   payment |-> [org |-> o, end |-> d, status |-> "confirmed"]])
    /\ UNCHANGED <<payment, end, agreed, report>>

Done(c) == entry' = Without(entry, c)

Extends(c) == entry[c].extend /\ entry[c].payment.end # 0

InsertPayment(c) ==
    LET e == entry[c]
    IN  /\ c \in DOMAIN entry /\ e.pc = "asked" /\ e.id \notin Recorded
        /\ payment' = With(payment, e.id, e.payment)
        /\ IF Extends(c) THEN entry' = [entry EXCEPT ![c].pc = "inserted"] ELSE Done(c)
        /\ UNCHANGED <<end, agreed, report>>

\* Mutant: the subscription is extended first.
ExtendFirst(c) ==
    LET e == entry[c]
    IN  /\ c \in DOMAIN entry /\ e.pc = "asked" /\ Extends(c)
        /\ end' = [end EXCEPT ![e.payment.org] = e.payment.end]
        /\ agreed' = [agreed EXCEPT ![e.payment.org] = FALSE]
        /\ UNCHANGED <<payment, entry, report>>

\* The date of the payment replaces whatever is there, be it later.
ExtendSubscription(c) ==
    LET e == entry[c]
    IN  /\ c \in DOMAIN entry /\ e.pc = "inserted"
        /\ end' = [end EXCEPT ![e.payment.org] = e.payment.end]
        /\ agreed' = [agreed EXCEPT ![e.payment.org] = FALSE]
        /\ Done(c)
        /\ UNCHANGED <<payment, report>>

\* A statement fails or the process ends; the payment stays if it was inserted.
EntryFails(c) ==
    /\ c \in DOMAIN entry
    /\ Done(c)
    /\ UNCHANGED <<payment, end, agreed, report>>

\* Any status may follow any other.
PATCHPaymentStatus(i, status) ==
    /\ i \in Recorded
    /\ payment' = [payment EXCEPT ![i].status = status]
    /\ UNCHANGED <<end, agreed, entry, report>>

\* updateOrganizationPlan sets the date, to none when the caller names none.
ChangePlan(o, d) ==
    /\ end' = [end EXCEPT ![o] = d]
    /\ agreed' = [agreed EXCEPT ![o] = TRUE]
    /\ UNCHANGED <<payment, entry, report>>

\* getPaymentStats: the total, then by method, then by status.
ReportTotal ==
    /\ report.pc = "total"
    /\ report' = [report EXCEPT !.pc = "method", !.total = Cardinality(Recorded)]
    /\ UNCHANGED <<payment, end, agreed, entry>>

ReportByMethod ==
    /\ report.pc = "method"
    /\ report' = [report EXCEPT !.pc = "status", !.method = Cardinality(Recorded)]
    /\ UNCHANGED <<payment, end, agreed, entry>>

ReportByStatus ==
    /\ report.pc = "status"
    /\ report' = [pc |-> "total", total |-> 0, method |-> 0]
    /\ UNCHANGED <<payment, end, agreed, entry>>

PaymentNext ==
    \/ \E c \in Clerks :
          \/ \E o \in Subscribers, d \in Dates, x \in BOOLEAN : POSTPayment(c, o, d, x)
          \/ InsertPayment(c) \/ ExtendSubscription(c) \/ EntryFails(c)
    \/ \E i \in PaymentIds, s \in {"pending", "confirmed", "rejected"} : PATCHPaymentStatus(i, s)
    \/ \E o \in Subscribers, d \in Dates : ChangePlan(o, d)
    \/ ReportTotal \/ ReportByMethod \/ ReportByStatus

PaymentSpec == PaymentInit /\ [][PaymentNext]_paymentVars
-----------------------------------------------------------------------------
\* Shapes of the rows, the calls and the report.
PaymentTypeOK ==
    /\ Recorded \subseteq PaymentIds /\ payment \in [Recorded -> Payment]
    /\ end \in [Subscribers -> Dates] /\ agreed \in [Subscribers -> BOOLEAN]
    /\ DOMAIN entry \subseteq Clerks /\ entry \in [DOMAIN entry -> Entry]
    /\ report \in Report

\* A subscription runs to a date that was agreed with the plan or that a recorded
\* payment of that organization covers: no failure between the two statements of
\* createPayment, and no other payment meanwhile, leaves it extended for nothing.
EndIsPaidFor ==
    \A o \in Subscribers : agreed[o] \/
        \E i \in Recorded : payment[i].org = o /\ payment[i].end = end[o]

\* The three statements of the statistics see the table grow: a part read later never
\* adds up to less than the total read before it.
ReportGrows ==
    report.pc = "status" => /\ report.total <= report.method
                            /\ report.method <= Cardinality(Recorded)

=============================================================================
