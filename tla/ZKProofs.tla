------------------------------ MODULE ZKProofs ------------------------------
(***************************************************************************)
(* Zero-knowledge proofs (modules/zkp of apps/api/src and snark-proofs.ts  *)
(* of packages/zk-toolkit).  A proof is generated for an attestation of    *)
(* the caller, stored as verified, and verified again by whoever asks;     *)
(* each verification writes its finding when it differs from what it read. *)
(* One step is one await.                                                  *)
(*                                                                         *)
(* The circuits compute in a field and compare numbers of Bits bits.       *)
(* The routes take any JSON for values and bounds: here a record of its    *)
(* kind and a number.  The number is the value of an integer ("number")    *)
(* and of the text of one ("digits"), what is before the point of a number *)
(* that is no integer ("fraction", taken to end in .5), and otherwise it   *)
(* names the text that is hashed: of a string ("word") or of the JSON of   *)
(* anything else ("other").  A number is the one that its decimal text     *)
(* says, which for those beyond 2^53 is not what a double holds.           *)
(***************************************************************************)
EXTENDS Integers, Sequences, FiniteSets, SequencesExt

CONSTANTS
    Holders,            \* users
    HeldBy,             \* the owner of each attestation
    ProofIds,           \* rows that may come to exist
    Proofs,             \* calls of POST /zkp/proofs
    Checks,             \* calls of GET /zkp/proofs/:id/verify
    Statements,         \* public inputs that the calls bring
    PrivateValues,      \* and their private values
    Bits, Field,        \* width of the comparators and size of the field
    HashOf,             \* field element of each text
    TextBefore,         \* pairs of strings of which JavaScript puts the first before the second
    SetSize,            \* length of the set in the circuit: 10
    SnarkMayFail,       \* artefacts unreadable, a query that fails
    Nil

ASSUME ZKAssumption ==
    /\ Bits \in Nat \ {0} /\ Field \in Nat \ {0} /\ SetSize \in Nat \ {0}
    /\ \A t \in DOMAIN HashOf : HashOf[t] \in 1 .. Field - 1
    /\ SnarkMayFail \in BOOLEAN
    /\ Nil \notin ProofIds

Json(x) == x.kind \in {"number", "fraction", "digits", "word", "other"} /\ x.text \in Int

ASSUME StatementsAssumption ==
    /\ \A q \in Statements :
          \/ q.circuit = "threshold" /\ Json(q.bounds[1])
          \/ q.circuit = "range" /\ Json(q.bounds[1]) /\ Json(q.bounds[2])
          \/ q.circuit = "set_membership" /\ Len(q.members) \in Nat /\ DOMAIN q.members = 1 .. Len(q.members)
    /\ \A v \in PrivateValues : Json(v)

VARIABLES
    row,          \* zk_proofs, by id
    generation,   \* calls that generate
    check         \* calls that verify

zkVars == <<row, generation, check>>

ZKInit ==
    /\ row = <<>>
    /\ generation = [g \in Proofs |-> Nil]
    /\ check = [v \in Checks |-> Nil]

-----------------------------------------------------------------------------
(* Comparisons of JavaScript, and what BigInt reads                         *)

Texts   == {"digits", "word"}
Numeric == {"number", "fraction", "digits"}

\* Twice what it is worth.
Worth(x) == 2 * x.text + (IF x.kind = "fraction" THEN 1 ELSE 0)

\* a < b; what is neither text nor number is refused by BigInt, whatever the comparison says.
Less(a, b) ==
    IF {a.kind, b.kind} \subseteq Texts THEN <<a, b>> \in TextBefore
    ELSE {a.kind, b.kind} \subseteq Numeric /\ Worth(a) < Worth(b)

\* BigInt, which fullProve applies to every input, throws at any other.
Readable(x) == x.kind \in {"number", "digits"}

-----------------------------------------------------------------------------
(* The circuits                                                             *)

valueToFieldElement(v) == IF v.kind = "number" THEN v.text % Field ELSE HashOf[v.text]

\* LessThan of circomlib: a + 2^Bits - b has to fit Bits + 1 bits, the highest unset.
LessThan(a, b)      == (a + 2 ^ Bits - b) % Field < 2 ^ Bits
GreaterEqThan(a, b) == LessThan(b, a + 1)
LessEqThan(a, b)    == LessThan(a, b + 1)

ThresholdCircuit(value, threshold) == GreaterEqThan(value, threshold)
RangeCircuit(value, low, high)     == GreaterEqThan(value, low) /\ LessEqThan(value, high)

\* The set is padded with the element '0'; a longer one does not fit the circuit.
PaddedSet(members) ==
    [i \in 1 .. IF Len(members) < SetSize THEN SetSize ELSE Len(members) |->
        IF i <= Len(members) THEN valueToFieldElement(members[i]) ELSE 0]

SetMembershipCircuit(element, elements) ==
    Len(elements) = SetSize /\ element \in ToSet(elements)

\* Proofs are refused before the circuit when the value does not do what is claimed.
generateThresholdProof(q, v) ==
    /\ ~Less(v, q.bounds[1])
    /\ Readable(v) /\ Readable(q.bounds[1])
    /\ ThresholdCircuit(v.text % Field, q.bounds[1].text % Field)

Between(q, v) == ~Less(v, q.bounds[1]) /\ ~Less(q.bounds[2], v)

\* Mutant: the upper bound is handed to the circuit twice.
RangeBoundTwice(q, v) ==
    /\ Between(q, v)
    /\ Readable(v) /\ Readable(q.bounds[1]) /\ Readable(q.bounds[2])
    /\ RangeCircuit(v.text % Field, q.bounds[2].text % Field, q.bounds[2].text % Field)

generateRangeProof(q, v) ==
    /\ Between(q, v)
    /\ Readable(v) /\ Readable(q.bounds[1]) /\ Readable(q.bounds[2])
    /\ RangeCircuit(v.text % Field, q.bounds[1].text % Field, q.bounds[2].text % Field)

\* Items are compared by their JSON text, elements by their hash; fractions are not hashed.
generateSetMembershipProof(q, v) ==
    /\ v \in ToSet(q.members)
    /\ \A m \in ToSet(q.members) : m.kind # "fraction"
    /\ SetMembershipCircuit(valueToFieldElement(v), PaddedSet(q.members))

Provable(q, v) ==
    CASE q.circuit = "threshold"      -> generateThresholdProof(q, v)
      [] q.circuit = "range"          -> generateRangeProof(q, v)
      [] q.circuit = "set_membership" -> generateSetMembershipProof(q, v)

-----------------------------------------------------------------------------
(* Generation                                                               *)

\* generateZKProof: the attestation has to be the caller's.
Generate(g, u, a, q, v) ==
    /\ generation[g] = Nil
    /\ HeldBy[a] = u
    /\ generation' = [generation EXCEPT ![g] =
          [pc |-> "read", user |-> u, attestation |-> a, question |-> q, value |-> v]]
    /\ UNCHANGED <<row, check>>

Generating(g, pc) == generation[g] # Nil /\ generation[g].pc = pc

Prove(g) ==
    /\ Generating(g, "read")
    /\ generation' = [generation EXCEPT ![g].pc =
          IF Provable(generation[g].question, generation[g].value) THEN "proved" ELSE "refused"]
    /\ UNCHANGED <<row, check>>

InsertProof(g) ==
    /\ Generating(g, "proved")
    /\ \E i \in ProofIds \ DOMAIN row :
          row' = [j \in DOMAIN row \cup {i} |->
                     IF j = i THEN [asked |-> generation[g], verified |-> TRUE] ELSE row[j]]
    /\ generation' = [generation EXCEPT ![g] = Nil]
    /\ UNCHANGED check

\* The answer 400: the statement was refused, or a file or a query failed.
GenerationFails(g) ==
    /\ generation[g] # Nil
    /\ SnarkMayFail \/ Generating(g, "refused")
    /\ generation' = [generation EXCEPT ![g] = Nil]
    /\ UNCHANGED <<row, check>>

-----------------------------------------------------------------------------
(* Verification                                                             *)

Failing == {v \in Checks : check[v] # Nil /\ check[v].found = FALSE}

\* verifyZKProof reads the row and verifies what it says; every error on the way reads
\* as "not verified".  quiet: no verification that overlaps this one has failed.
VerifyProof(v, i) ==
    /\ check[v] = Nil
    /\ i \in DOMAIN row
    /\ \E found \in IF SnarkMayFail THEN BOOLEAN ELSE {TRUE} :
          check' = [w \in Checks |->
              IF w = v THEN [id |-> i, read |-> row[i].verified, found |-> found,
                             quiet |-> \A x \in Failing : check[x].id # i]
              ELSE IF check[w] # Nil /\ check[w].id = i /\ ~found
                   THEN [check[w] EXCEPT !.quiet = FALSE]
                   ELSE check[w]]
    /\ UNCHANGED <<row, generation>>

\* Mutant: only a verification that fails is written.
RecordFailure(v) ==
    /\ check[v] # Nil
    /\ row' = IF check[v].found THEN row ELSE [row EXCEPT ![check[v].id].verified = FALSE]
    /\ check' = [check EXCEPT ![v] = Nil]
    /\ UNCHANGED generation

\* The UPDATE, when the finding differs from what was read at the start.
RecordFinding(v) ==
    LET c == check[v]
    IN  /\ c # Nil
        /\ row' = IF c.found # c.read THEN [row EXCEPT ![c.id].verified = c.found] ELSE row
        /\ check' = [check EXCEPT ![v] = Nil]
        /\ UNCHANGED generation

\* The process or the query fails: nothing is written.
CheckFails(v) ==
    /\ check[v] # Nil /\ SnarkMayFail
    /\ check' = [check EXCEPT ![v] = Nil]
    /\ UNCHANGED <<row, generation>>

ZKNext ==
    \/ \E g \in Proofs :
          \/ \E u \in Holders, a \in DOMAIN HeldBy, q \in Statements, v \in PrivateValues :
                Generate(g, u, a, q, v)
          \/ Prove(g) \/ InsertProof(g) \/ GenerationFails(g)
    \/ \E v \in Checks :
          \/ \E i \in ProofIds : VerifyProof(v, i)
          \/ RecordFinding(v) \/ CheckFails(v)

ZKSpec == ZKInit /\ [][ZKNext]_zkVars
-----------------------------------------------------------------------------
\* Shapes of the rows and the calls.
ZKTypeOK ==
    /\ DOMAIN row \subseteq ProofIds
    /\ \A i \in DOMAIN row : row[i].verified \in BOOLEAN /\ row[i].asked.pc = "proved"
    /\ \A g \in Proofs : generation[g] = Nil \/
          /\ generation[g].pc \in {"read", "proved", "refused"}
          /\ generation[g].user = HeldBy[generation[g].attestation]
          /\ generation[g].question \in Statements /\ generation[g].value \in PrivateValues
    /\ \A v \in Checks : check[v] = Nil \/ check[v].id \in DOMAIN row

\* What the statement means to its reader: the order of numbers, written as text or not.
AtLeast(a, b) == {a.kind, b.kind} \subseteq Numeric /\ Worth(a) >= Worth(b)

Holds(q, v) ==
    CASE q.circuit = "threshold"      -> AtLeast(v, q.bounds[1])
      [] q.circuit = "range"          -> AtLeast(v, q.bounds[1]) /\ AtLeast(q.bounds[2], v)
      [] q.circuit = "set_membership" -> v \in ToSet(q.members)

\* What the circuits can express.
InReach(q, v) ==
    CASE q.circuit = "threshold"      -> v.text - q.bounds[1].text < 2 ^ Bits
      [] q.circuit = "range"          -> /\ v.text - q.bounds[1].text < 2 ^ Bits
                                         /\ q.bounds[2].text - v.text < 2 ^ Bits
      [] q.circuit = "set_membership" -> Len(q.members) <= SetSize

\* What BigInt reads.
AllReadable(q, v) ==
    CASE q.circuit = "threshold"      -> Readable(v) /\ Readable(q.bounds[1])
      [] q.circuit = "range"          -> Readable(v) /\ Readable(q.bounds[1]) /\ Readable(q.bounds[2])
      [] q.circuit = "set_membership" -> \A m \in ToSet(q.members) : m.kind # "fraction"

\* A value and a bound that are both texts, which compare by their characters.
ByCharacters(q, v) ==
    CASE q.circuit = "threshold"      -> {v.kind, q.bounds[1].kind} \subseteq Texts
      [] q.circuit = "range"          -> v.kind \in Texts /\ {q.bounds[1].kind, q.bounds[2].kind} \cap Texts # {}
      [] q.circuit = "set_membership" -> FALSE

\* A false order that the field turns into a true one.
Wraps(q, v) ==
    CASE q.circuit = "threshold"      -> q.bounds[1].text - v.text > Field - 2 ^ Bits
      [] q.circuit = "range"          -> \/ q.bounds[1].text - v.text > Field - 2 ^ Bits
                                         \/ v.text - q.bounds[2].text > Field - 2 ^ Bits
      [] q.circuit = "set_membership" -> FALSE

\* A proof is stored only of a statement that holds, in spite of the padding of the set, of
\* values that hash alike and of comparisons that wrap around, except of texts of numbers so
\* far apart that nothing but their characters was compared; and a statement that holds is
\* refused only when it is out of reach of the circuit, not of integers, or of texts.
GenerationIsExact ==
    /\ \A i \in DOMAIN row :
          LET q == row[i].asked.question  v == row[i].asked.value
          IN  Holds(q, v) \/ (ByCharacters(q, v) /\ Wraps(q, v))
    /\ \A g \in Proofs : Generating(g, "refused") =>
          LET q == generation[g].question  v == generation[g].value
          IN  ~Holds(q, v) \/ ~InReach(q, v) \/ ~AllReadable(q, v) \/ ByCharacters(q, v)

\* A verification that fails for a passing reason leaves its mark in the row, but not
\* for good: one that succeeds, and that no failed one has overlapped, leaves the row
\* verified, whatever it read at its start and whoever else verifies.
RecoveryIsComplete ==
    [][\A v \in Checks :
          (check[v] # Nil /\ check[v].quiet /\ check[v].found /\ RecordFinding(v))
              => row'[check[v].id].verified]_zkVars

=============================================================================
