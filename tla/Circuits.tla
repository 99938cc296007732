------------------------------ MODULE Circuits ------------------------------
(***************************************************************************)
(* The simplified proofs of packages/zk-toolkit/src/circuits.ts, which the *)
(* index of the package no longer exports: a commitment to the value and   *)
(* the time, and an HMAC, keyed by the commitment, over the public         *)
(* statement.  Proof and public inputs are two results, so that a verifier *)
(* may get those of two generations, which have one commitment when they   *)
(* are of one value at one millisecond, or public inputs and a proof that  *)
(* whoever presents them has computed: the commitment is public, and the   *)
(* HMAC needs nothing else.  A hash stands for what is hashed.             *)
(***************************************************************************)
EXTENDS Integers, Sequences, FiniteSets, SequencesExt, Ordering

CONSTANTS
    Numbers,      \* values, thresholds and bounds
    Lists,        \* lists that callers hold: sequences of items [key, json]
    MaxProofs,    \* bound: proofs that are generated
    LastTime      \* bound: milliseconds

\* Keys are numbers in the order of the strings, and so are texts.
ASSUME CircuitsAssumption ==
    /\ Numbers \subseteq Int /\ MaxProofs \in Nat /\ LastTime \in Nat
    /\ Lists \subseteq Seq([key : Int, json : Int])

VARIABLES
    time,      \* Date.now()
    heldList,  \* the list that a caller holds
    made,      \* what has been generated: [type, proof, public]
    judged     \* what the last verifier said: [type, proof, public, accepted], or nothing

circuitVars == <<time, heldList, made, judged>>

CircuitTypes == {"threshold", "range", "set_membership"}

Undefined == <<>>

Field(public, name) == IF name \in DOMAIN public THEN public[name] ELSE Undefined

-----------------------------------------------------------------------------
(* Commitments and texts                                                    *)

\* sha256 of `${value}-${Date.now()}`
commitmentOf(value) == <<"number", value, time>>

\* sha256 of JSON.stringify(value) + Date.now()
commitmentOfJson(item) == <<"json", item.json, time>>

Hmac(commitment, text) == [key |-> commitment, text |-> text]

\* Array.prototype.sort compares strings and is stable: objects, which are all one string, stay as they are.
SortsBefore(items) ==
    {p \in (DOMAIN items) \X (DOMAIN items) :
        \/ items[p[1]].key < items[p[2]].key
        \/ items[p[1]].key = items[p[2]].key /\ p[1] < p[2]}

Sort(items) ==
    LET order == InOrder(DOMAIN items, SortsBefore(items))
    IN  [i \in DOMAIN items |-> items[order[i]]]

Generated(type, commitment, text, public) ==
    [type |-> type, public |-> public,
     proof |-> [type |-> type, commitment |-> commitment, validityProof |-> Hmac(commitment, text)]]

-----------------------------------------------------------------------------
CircuitInit == time = 0 /\ heldList \in Lists /\ made = {} /\ judged = {}

Keep(generation) ==
    /\ Cardinality(made) < MaxProofs
    /\ made' = made \union {generation}
    /\ judged' = {} /\ UNCHANGED time

\* Each throws when its statement does not hold.
generateThresholdProof(value, threshold) ==
    /\ value >= threshold
    /\ LET c == commitmentOf(value)
       IN  Keep(Generated("threshold", c, <<threshold>>, [threshold |-> <<threshold>>, commitment |-> c]))
    /\ heldList' = heldList

generateRangeProof(value, min, max) ==
    /\ value >= min /\ value <= max
    /\ LET c == commitmentOf(value)
       IN  Keep(Generated("range", c, <<min, max>>, [min |-> <<min>>, max |-> <<max>>, commitment |-> c]))
    /\ heldList' = heldList

\* set.sort() sorts the list of the caller.
generateSetMembershipProof(item) ==
    /\ \E i \in DOMAIN heldList : heldList[i].json = item.json
    /\ LET c == commitmentOfJson(item)
           set == Sort(heldList)
       IN  /\ Keep(Generated("set_membership", c, <<set>>, [setHash |-> set, commitment |-> c, setSize |-> Len(set)]))
           /\ heldList' = set

\* External: the caller holds the same items in another order.
Reorder ==
    /\ heldList' \in {l \in Lists : ToSet(l) = ToSet(heldList)}
    /\ judged' = {} /\ UNCHANGED <<time, made>>

Tick == time < LastTime /\ time' = time + 1 /\ judged' = {} /\ UNCHANGED <<heldList, made>>

-----------------------------------------------------------------------------
(* Verification                                                             *)

\* What the HMAC of a circuit is made over, read from the public inputs.
StatementText(type, public) ==
    CASE type = "threshold" -> Field(public, "threshold")
      [] type = "range" -> Field(public, "min") \o Field(public, "max")
      [] type = "set_membership" -> IF "setHash" \in DOMAIN public THEN <<public.setHash>> ELSE Undefined

\* Mutant: the commitment of the proof is not compared.
FitsAnyCommitment(type, proof, public) ==
    /\ proof.type = type
    /\ proof.validityProof = Hmac(proof.commitment, StatementText(type, public))

Fits(type, proof, public) ==
    /\ proof.type = type
    /\ proof.commitment = public.commitment
    /\ proof.validityProof = Hmac(proof.commitment, StatementText(type, public))

verifyThresholdProof(proof, public) == Fits("threshold", proof, public)

verifyRangeProof(proof, public) == Fits("range", proof, public)

\* update(undefined) throws, which is a no.
verifySetMembershipProof(proof, public) ==
    "setHash" \in DOMAIN public /\ Fits("set_membership", proof, public)

verifyProof(type, proof, public) ==
    CASE type = "threshold" -> verifyThresholdProof(proof, public)
      [] type = "range" -> verifyRangeProof(proof, public)
      [] type = "set_membership" -> verifySetMembershipProof(proof, public)

\* External: public inputs of a generation, or those of any statement, with the
\* commitment of a generation or a text of one's own.
Commitments == {g.public.commitment : g \in made} \union {<<"text", 0, 0>>}

Publics ==
    {g.public : g \in made}
    \union {[threshold |-> <<n>>, commitment |-> c] : n \in Numbers, c \in Commitments}
    \union {[min |-> <<n>>, max |-> <<m>>, commitment |-> c] : n, m \in Numbers, c \in Commitments}
    \union {[setHash |-> l, commitment |-> c, setSize |-> Len(l)] : l \in Lists, c \in Commitments}

\* External: a proof of a generation, or one that is computed for the public inputs.
Computed(type, public) ==
    [type |-> type, commitment |-> public.commitment,
     validityProof |-> Hmac(public.commitment, StatementText(type, public))]

ProofsFor(type, public) == {g.proof : g \in made} \union {Computed(type, public)}

\* Bound: the next judgement is after another step.
Verify ==
    /\ judged = {}
    /\ \E type \in CircuitTypes, public \in Publics : \E proof \in ProofsFor(type, public) :
        /\ judged' = {[type |-> type, proof |-> proof, public |-> public,
                       accepted |-> verifyProof(type, proof, public)]}
        /\ UNCHANGED <<time, heldList, made>>

CircuitNext ==
    \/ \E value, threshold \in Numbers : generateThresholdProof(value, threshold)
    \/ \E value, min, max \in Numbers : generateRangeProof(value, min, max)
    \/ \E item \in ToSet(heldList) : generateSetMembershipProof(item)
    \/ Reorder \/ Tick \/ Verify

CircuitSpec == CircuitInit /\ [][CircuitNext]_circuitVars

-----------------------------------------------------------------------------
\* No two items have one text as sort compares them, so that their order is that of their texts.
Plain(items) == \A i, j \in DOMAIN items : items[i].key = items[j].key => i = j

(***************************************************************************)
(* A proof that was generated is accepted with the statement and the       *)
(* commitment of its generation, by its circuit, and with no other, also   *)
(* when several were made of one value at one time; and two lists of the   *)
(* same plain items, none of them repeated, have one hash, in whatever     *)
(* order and however often they were sorted.  Nothing follows from the     *)
(* acceptance of a proof alone: a computed one is accepted as well.        *)
(***************************************************************************)
ProofsKeepTheirStatement ==
    /\ \A j \in judged, g \in made : j.proof = g.proof =>
        (j.accepted <=> /\ j.type = g.type
                        /\ j.public.commitment = g.public.commitment
                        /\ StatementText(j.type, j.public) = StatementText(g.type, g.public))
    /\ \A g, h \in made :
        /\ g.type = "set_membership" /\ h.type = "set_membership"
        /\ Plain(g.public.setHash) /\ Plain(h.public.setHash) /\ ToSet(g.public.setHash) = ToSet(h.public.setHash)
        => g.public.setHash = h.public.setHash
=============================================================================
