------------------------------ MODULE MC_Proofs ------------------------------
(***************************************************************************)
(* Constants for model checking ReplayProtection, ZKProofs, Anchoring,     *)
(* Accounts and Templates in one run.  The five share no state: a          *)
(* behaviour is one of one of them and leaves the other four where they    *)
(* start, so that the states of the run are the sum of theirs and not the  *)
(* product.                                                                *)
(***************************************************************************)
EXTENDS ReplayProtection, ZKProofs, Anchoring, Accounts, Templates, TLC

CONSTANTS t1, t2, c1, c2, c3, u1, u2, a1, i1, g1, w1, w2, h1, h2, k1, k2, q1

\* ReplayProtection: a token in PostgreSQL and one in memory.
OneToken   == {t1}
TwoTokens  == {t1, t2}
ThreeCalls == {c1, c2, c3}

\* ZKProofs

HeldByFirst == [x \in {a1} |-> u1]

number(n)   == [kind |-> "number", text |-> n]
fraction(n) == [kind |-> "fraction", text |-> n]
digits(n)   == [kind |-> "digits", text |-> n]
word(n)     == [kind |-> "word", text |-> n]
other(n)    == [kind |-> "other", text |-> n]

\* The strings as JavaScript orders them.
Ordered == <<digits(10), digits(2), digits(40), digits(9), word(1)>>

BeforeInOrder ==
    {pair \in ToSet(Ordered) \X ToSet(Ordered) :
        \E i, j \in 1 .. Len(Ordered) : i < j /\ pair = <<Ordered[i], Ordered[j]>>}

Ask(circuit, bounds, members) == [circuit |-> circuit, bounds |-> bounds, members |-> members]

\* Bounds that are negative, that cross, that are too far for two bits, that are no integers and that are
\* texts, one of them so far that it wraps around; a set of one element that is padded, ones with a string
\* or a fraction, and one too long for the circuit.
SomeStatements ==
    {Ask("threshold", <<b>>, <<>>) :
         b \in {number(-2), number(0), number(3), fraction(2), digits(9), digits(40), other(1)}}
    \cup {Ask("range", r, <<>>) :
             r \in {<<number(-1), number(1)>>, <<number(0), number(4)>>, <<number(2), number(1)>>,
                    <<digits(2), number(4)>>}}
    \cup {Ask("set_membership", <<>>, s) :
             s \in {<<number(1)>>, <<word(1), number(2)>>, <<number(2), fraction(2)>>,
                    <<number(0), number(1), number(2)>>}}

SomeValues == {number(n) : n \in -1 .. 3}
              \cup {fraction(2), digits(2), digits(9), digits(10), word(1), other(1)}

TextElements == [n \in {1, 2, 9, 10, 40} |-> 5 + (n % 7)]

OneOfEither == {<<"stellar">>, <<"optimism">>}

\* Templates
Schema(required, known) == [required |-> required, known |-> known]

TwoBuiltIn ==
    [t \in {"farm-origin", "product-passport"} |->
        IF t = "farm-origin" THEN Schema({"a"}, {"a", "b"})
        ELSE Schema({"credentials", "lifecycle"}, {"credentials", "lifecycle", "b"})]

\* One that drops a field of the built-in one, and one that requires the id.
CustomSchemas == {Schema({"b"}, {"a", "b"}), Schema({"id"}, {"id", "b"})}

SomeClaims == {{"a"}, {"b", "id", "lifecycle", "x"}}

VARIABLE part

mcVars == <<vars, zkVars, anchorVars, accountVars, templateVars, part>>

MCInit ==
    /\ Init /\ ZKInit /\ AnchorInit /\ AccountInit /\ TemplateInit
    /\ part \in {"replay protection", "proofs", "anchoring", "accounts", "templates"}
    /\ part # "anchoring" => configured = <<"stellar">>

MCNext ==
    \/ /\ part = "replay protection" /\ Next
       /\ UNCHANGED <<zkVars, anchorVars, accountVars, templateVars, part>>
    \/ /\ part = "proofs" /\ ZKNext
       /\ UNCHANGED <<vars, anchorVars, accountVars, templateVars, part>>
    \/ /\ part = "anchoring" /\ AnchorNext
       /\ UNCHANGED <<vars, zkVars, accountVars, templateVars, part>>
    \/ /\ part = "accounts" /\ AccountNext
       /\ UNCHANGED <<vars, zkVars, anchorVars, templateVars, part>>
    \/ /\ part = "templates" /\ TemplateNext
       /\ UNCHANGED <<vars, zkVars, anchorVars, accountVars, part>>

MCSpec == MCInit /\ [][MCNext]_mcVars

LedgerSymmetry == Permutations({h1, h2}) \cup Permutations({k1, k2})
=============================================================================
