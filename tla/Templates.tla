------------------------------ MODULE Templates ------------------------------
(***************************************************************************)
(* Credential templates and batches of packages/templates: the registry    *)
(* that validateClaims reads and createCustomTemplate writes, credentials  *)
(* made from templates, and batches that are validated, then retried.      *)
(* Claims are the set of fields that are present and well formed; a schema *)
(* is the fields it requires and those it knows: zod drops the others.     *)
(***************************************************************************)
EXTENDS Integers, Sequences, FiniteSets

CONSTANTS
    TemplateIds,  \* ids that callers name, "product-passport" among them
    BuiltIn,      \* the registry at the start: a schema for some of the ids
    SupplyChain,  \* ids of the four supply chain templates
    Schemas,      \* schemas of custom templates
    Claims,       \* claims that callers bring
    BatchLength,  \* bound on the inputs of a batch
    MaxDocuments, \* bound on the credentials made
    MaxCustom     \* bound on the calls of createCustomTemplate

ASSUME TemplatesAssumption ==
    /\ BatchLength \in Nat /\ DOMAIN BuiltIn \subseteq TemplateIds
    /\ \A s \in Schemas \cup {BuiltIn[id] : id \in DOMAIN BuiltIn} : s.required \subseteq s.known

VARIABLES
    registry,   \* templates: the schema of each id
    custom,     \* calls of createCustomTemplate
    documents,  \* credentials made, with the schema of their template at the time
    batch       \* the last batch: its kind, its inputs, the last results, the inputs that
                \* these number, the failed results that were retried to get them, and
                \* whether that retry was given the inputs which the failed ones number

templateVars == <<registry, custom, documents, batch>>

NoBatch == [kind |-> "none", inputs |-> <<>>, asked |-> <<>>, results |-> <<>>,
            retried |-> <<>>, numbered |-> TRUE]

TemplateInit ==
    /\ registry = BuiltIn
    /\ custom = 0
    /\ documents = {}
    /\ batch = NoBatch

-----------------------------------------------------------------------------
(* Claims                                                                   *)

HasTemplate(id) == id \in DOMAIN registry

\* schema.parse, and what it returns; an unknown template is an error.
Parses(schema, claims) == schema.required \subseteq claims
Parsed(schema, claims) == claims \cap schema.known

validateClaims(id, claims) == HasTemplate(id) /\ Parses(registry[id], claims)

createCustomTemplate(id, schema) ==
    /\ custom < MaxCustom
    /\ registry' = [i \in DOMAIN registry \cup {id} |-> IF i = id THEN schema ELSE registry[i]]
    /\ custom' = custom + 1
    /\ UNCHANGED <<documents, batch>>

-----------------------------------------------------------------------------
(* Credentials from templates                                               *)

\* Mutant: the claims go into the credential as they came.
DocumentUnparsed(id, claims, subject) ==
    [template |-> id, schema |-> registry[id],
     subject |-> IF subject THEN claims \cup {"id"} ELSE claims \ {"id"}]

\* The subject holds what was parsed, and its id when the options have one.
Document(id, claims, subject) ==
    [template |-> id, schema |-> registry[id],
     subject |-> IF subject THEN Parsed(registry[id], claims) \cup {"id"}
                            ELSE Parsed(registry[id], claims)]

Make(made) ==
    /\ Cardinality(documents \cup made) <= MaxDocuments
    /\ documents' = documents \cup made
    /\ UNCHANGED <<registry, custom, batch>>

\* Mutant: the claims are not validated.
CreateUnvalidated(id, claims, subject) == HasTemplate(id) /\ Make({Document(id, claims, subject)})

createVCFromTemplate(id, claims, subject) ==
    /\ validateClaims(id, claims)
    /\ Make({Document(id, claims, subject)})

createProductPassportVC(claims) ==
    LET enriched == claims \cup {"credentials"}
    IN  /\ validateClaims("product-passport", enriched)
        /\ Make({Document("product-passport", enriched, FALSE)})

\* createMultipleVCs, then the passport over them; one step that fails is an error.
createSupplyChainPackage(info, steps) ==
    LET claims == info \cup {"credentials", "lifecycle"}
    IN  /\ \A k \in DOMAIN steps : validateClaims(steps[k].id, steps[k].claims)
        /\ validateClaims("product-passport", claims)
        /\ Make({Document(steps[k].id, steps[k].claims, FALSE) : k \in DOMAIN steps}
                \cup {Document("product-passport", claims, FALSE)})

\* validateVCAgainstTemplate: the subject without its id, against the template of today.
validateVCAgainstTemplate(d) == validateClaims(d.template, d.subject \ {"id"})

-----------------------------------------------------------------------------
(* Batches                                                                  *)

Inputs == UNION {[1 .. n -> [id : TemplateIds, claims : Claims]] : n \in 1 .. BatchLength}

validateBatch(inputs) ==
    [k \in DOMAIN inputs |->
        [index |-> k, id |-> inputs[k].id, success |-> validateClaims(inputs[k].id, inputs[k].claims)]]

Run(kind, inputs) ==
    /\ batch' = [NoBatch EXCEPT !.kind = kind, !.inputs = inputs, !.asked = inputs,
                                 !.results = validateBatch(inputs)]
    /\ UNCHANGED <<registry, custom, documents>>

createBatchWithSummary(inputs) == Run("summary", inputs)

createSupplyChainBatch(inputs) ==
    /\ \A k \in DOMAIN inputs : inputs[k].id \in SupplyChain
    /\ Run("supplyChain", inputs)

\* An input that fails throws: the results up to it, its own among them, are dropped.
createSequentialBatch(inputs) ==
    IF \A k \in DOMAIN inputs : validateClaims(inputs[k].id, inputs[k].claims)
    THEN Run("sequential", inputs)
    ELSE /\ batch' = [NoBatch EXCEPT !.kind = "thrown", !.inputs = inputs]
         /\ UNCHANGED <<registry, custom, documents>>

\* results.filter((r) => !r.success)
failed(results) ==
    LET upTo[n \in 0 .. Len(results)] ==
            IF n = 0 THEN <<>>
            ELSE IF results[n].success THEN upTo[n - 1]
            ELSE Append(upTo[n - 1], results[n])
    IN  upTo[Len(results)]

\* Mutant: the failed results are counted from the first input.
RetryFirst(given) ==
    LET f     == failed(batch.results)
        again == SubSeq(given, 1, Len(f))
    IN  /\ f # <<>>
        /\ batch' = [batch EXCEPT !.asked = again, !.results = validateBatch(again),
                                  !.retried = f, !.numbered = (given = batch.asked)]
        /\ UNCHANGED <<registry, custom, documents>>

\* The inputs given that the failed results point to; the new results count from the start.
retryFailedCredentials(given) ==
    LET f     == failed(batch.results)
        again == [k \in DOMAIN f |-> given[f[k].index]]
    IN  /\ f # <<>>
        /\ batch' = [batch EXCEPT !.asked = again, !.results = validateBatch(again),
                                  !.retried = f, !.numbered = (given = batch.asked)]
        /\ UNCHANGED <<registry, custom, documents>>

TemplateNext ==
    \/ \E id \in TemplateIds, s \in Schemas : createCustomTemplate(id, s)
    \/ \E id \in TemplateIds, c \in Claims, subject \in BOOLEAN : createVCFromTemplate(id, c, subject)
    \/ \E c \in Claims : createProductPassportVC(c)
    \/ \E inputs \in Inputs :
          \/ createBatchWithSummary(inputs) \/ createSupplyChainBatch(inputs)
          \/ createSequentialBatch(inputs)
          \/ \E c \in Claims : createSupplyChainPackage(c, inputs)
    \/ \E given \in {batch.inputs, batch.asked} : retryFailedCredentials(given)

TemplateSpec == TemplateInit /\ [][TemplateNext]_templateVars
-----------------------------------------------------------------------------
\* Shapes; a credential's subject has the fields its template knew, and its id.
TemplateTypeOK ==
    /\ DOMAIN registry \subseteq TemplateIds
    /\ \A d \in documents : d.template \in TemplateIds /\ d.subject \subseteq d.schema.known \cup {"id"}
    /\ batch.inputs \in Inputs \cup {<<>>} /\ batch.asked \in Inputs \cup {<<>>}

\* A credential that was made from a template passes the validation against it for as
\* long as the template is not replaced, although what is validated is what the schema
\* has already parsed; a schema that requires an "id" of the subject is the exception.
MadeValidates ==
    \A d \in documents :
        HasTemplate(d.template) /\ registry[d.template] = d.schema /\ "id" \notin d.schema.required
            => validateVCAgainstTemplate(d)

\* Each input has a result of its own, also after retries of retries: a retry that is
\* given the inputs which the failed results number answers each of them, in their
\* order, of the same template, and the results of a sequential batch that returns are
\* all good.  What has failed fails again, unless templates were replaced: also by those
\* that were there, which a batch in between has not seen.  (A retry that is given the
\* inputs of the first call with results of a retry answers others: not numbered.)
EachInputHasItsResult ==
    /\ Len(batch.results) = Len(batch.asked)
    /\ batch.kind = "sequential" => failed(batch.results) = <<>>
    /\ batch.retried # <<>> =>
          /\ Len(batch.results) = Len(batch.retried)
          /\ batch.numbered =>
                \A k \in DOMAIN batch.retried :
                    /\ batch.results[k].id = batch.retried[k].id
                    /\ custom = 0 => ~batch.results[k].success

=============================================================================
