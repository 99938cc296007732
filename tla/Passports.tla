------------------------------ MODULE Passports ------------------------------
(***************************************************************************)
(* Product passports (apps/api/src/modules/passports/service.ts) on top of *)
(* the attestation service, whose background anchorings run meanwhile.     *)
(* createProductPassport, addAttestationToPassport and                     *)
(* verifyProductPassport are sequences of single statements without a      *)
(* transaction; one step is one statement.                                 *)
(***************************************************************************)
EXTENDS Attestations, Sequences, SequencesExt, TLC

CONSTANTS
    Passports,     \* passport ids
    Calls,         \* slots for concurrent calls of the passport service
    MaxLinks       \* bound on the length of a request's attestation_ids

\* The body of POST /passports names at least one attestation.
IdLists == UNION {[1 .. n -> Attestations] : n \in 1 .. MaxLinks}

\* A call of each function; next is the id to link next, unread are the links
\* whose queries are not answered, valid is the verdict so far.
Creations ==
    {r \in [op : {"create"}, pc : {"check", "insert", "link", "ok"}, user : Users, ids : IdLists,
            passport : Passports \cup {Absent}, next : 1 .. MaxLinks + 1] :
        r.pc \in {"link", "ok"} => r.passport \in Passports}
Additions     == [op : {"add"}, pc : {"check", "read", "link"}, user : Users,
                  passport : Passports, id : Attestations]
Verifications == [op : {"verify"}, pc : {"check", "read", "verdict", "ok"},
                  passport : Passports, unread : SUBSET Attestations, valid : BOOLEAN]

\* No call yet, or one that has thrown or has nothing more to tell.
NoCall == [op |-> "none", pc |-> "idle"]
Call   == Creations \cup Additions \cup Verifications \cup {NoCall}

ASSUME PassportsAssumption == MaxLinks \in Nat \ {0} /\ Absent \notin Users

VARIABLES
    passports,  \* the table product_passports: the owner of each passport
    links,      \* the table passport_attestations
    call        \* the calls of the passport service

passVars == <<passports, links, call>>
vars     == <<attestations, transactions, ledger, worker, check, restarts,
              passports, links, call>>

LinksOf(p) == {a \in Attestations : <<p, a>> \in links}
Free       == {p \in Passports : passports[p] = Absent}

Init ==
    /\ AttInit
    /\ passports = [p \in Passports |-> Absent]
    /\ links = {}
    /\ call = [c \in Calls |-> NoCall]

Become(c, label) == call' = [call EXCEPT ![c].pc = label]
End(c)           == call' = [call EXCEPT ![c] = NoCall]
At(c, op, label) == call[c].op = op /\ call[c].pc = label
Creating         == {c \in Calls : At(c, "create", "check") \/ At(c, "create", "insert")}

-----------------------------------------------------------------------------
(* The calls.  The routes refuse attestation ids that are no UUIDs.          *)

Start(c, new) ==
    /\ call[c].pc \in {"idle", "ok"}
    /\ call' = [call EXCEPT ![c] = new]
    /\ UNCHANGED <<passports, links, attVars>>

\* Bound: a creation starts only while there are passport ids left for it.
StartCreate(c, u, ids) ==
    /\ IdsAreUuids
    /\ Cardinality(Free) > Cardinality(Creating)
    /\ Start(c, [op |-> "create", pc |-> "check", user |-> u, ids |-> ids,
                 passport |-> Absent, next |-> 1])

StartAdd(c, u, p, a) ==
    /\ IdsAreUuids
    /\ Start(c, [op |-> "add", pc |-> "check", user |-> u, passport |-> p, id |-> a])

StartVerify(c, p) ==
    Start(c, [op |-> "verify", pc |-> "check", passport |-> p, unread |-> {}, valid |-> TRUE])

\* Mutant: the query lacks AND status = 'anchored'.
OwnedOf(u, ids) == {a \in ToSet(ids) : Exists(a) /\ attestations[a].owner = u}

\* The rows WHERE id = ANY(ids) AND user_id = user AND status = 'anchored'
AnchoredOf(u, ids) == {a \in ToSet(ids) : Anchored(a) /\ attestations[a].owner = u}

-----------------------------------------------------------------------------
(* createProductPassport                                                    *)

\* As many rows as ids: an id given twice is refused, too.
CheckAttestations(c) ==
    /\ At(c, "create", "check")
    /\ IF Cardinality(AnchoredOf(call[c].user, call[c].ids)) = Len(call[c].ids)
       THEN Become(c, "insert") ELSE End(c)
    /\ UNCHANGED <<passports, links, attVars>>

\* The database gives the new row its id.  Of this INSERT and the others the
\* answer may be lost.
InsertPassport(c) ==
    /\ At(c, "create", "insert")
    /\ \/ \E p \in Free :
             /\ passports' = [passports EXCEPT ![p] = call[c].user]
             /\ \/ call' = [call EXCEPT ![c].pc = "link", ![c].passport = p]
                \/ DbMayFail /\ End(c)
       \/ DbMayFail /\ End(c) /\ UNCHANGED passports
    /\ UNCHANGED <<links, attVars>>

\* Mutant: the loop over attestation_ids stops one short.
LastReached(c) == call[c].next >= Len(call[c].ids)
AllLinked(c)   == call[c].next > Len(call[c].ids)

\* One INSERT per attestation; a failed one leaves the passport and the links
\* made so far.
InsertLink(c) ==
    /\ At(c, "create", "link")
    /\ \/ AllLinked(c) /\ Become(c, "ok") /\ UNCHANGED links
       \/ /\ ~AllLinked(c)
          /\ links' = links \cup {<<call[c].passport, call[c].ids[call[c].next]>>}
          /\ call' = [call EXCEPT ![c].next = @ + 1] \/ (DbMayFail /\ End(c))
       \/ DbMayFail /\ ~AllLinked(c) /\ End(c) /\ UNCHANGED links
    /\ UNCHANGED <<passports, attVars>>

-----------------------------------------------------------------------------
(* addAttestationToPassport                                                 *)

\* The passport's owner is checked first, the attestation by another query.
CheckPassportOwner(c) ==
    /\ At(c, "add", "check")
    /\ IF passports[call[c].passport] = call[c].user THEN Become(c, "read") ELSE End(c)
    /\ UNCHANGED <<passports, links, attVars>>

CheckAddedAttestation(c) ==
    /\ At(c, "add", "read")
    /\ IF call[c].id \in AnchoredOf(call[c].user, <<call[c].id>>)
       THEN Become(c, "link") ELSE End(c)
    /\ UNCHANGED <<passports, links, attVars>>

\* INSERT ... ON CONFLICT DO NOTHING
AddLink(c) ==
    /\ At(c, "add", "link")
    /\ End(c)
    /\ \/ links' = links \cup {<<call[c].passport, call[c].id>>}
       \/ DbMayFail /\ UNCHANGED links
    /\ UNCHANGED <<passports, attVars>>

-----------------------------------------------------------------------------
(* verifyProductPassport                                                    *)

ReadPassport(c) ==
    /\ At(c, "verify", "check")
    /\ IF passports[call[c].passport] # Absent THEN Become(c, "read") ELSE End(c)
    /\ UNCHANGED <<passports, links, attVars>>

ReadLinks(c) ==
    /\ At(c, "verify", "read")
    /\ call' = [call EXCEPT ![c].pc = "verdict", ![c].unread = LinksOf(call[c].passport)]
    /\ UNCHANGED <<passports, links, attVars>>

\* attestation.credential.proof: a JWT string, signed or not, has no such member.
SignatureVerified(a) == attestations[a].credential \notin Tokens
LinkValid(a)         == Exists(a) /\ HasTx(a) /\ SignatureVerified(a)

\* The queries of Promise.all are answered in any order; one that fails makes
\* its attestation invalid, not the call.  No attestation at all is valid.
VerifyLink(c) ==
    /\ At(c, "verify", "verdict")
    /\ \/ call[c].unread = {} /\ Become(c, "ok")
       \/ \E a \in call[c].unread, failed \in {FALSE, DbMayFail} :
             call' = [call EXCEPT ![c].unread = @ \ {a},
                                  ![c].valid = @ /\ LinkValid(a) /\ ~failed]
    /\ UNCHANGED <<passports, links, attVars>>

-----------------------------------------------------------------------------
\* A failed SELECT ends its call, those of VerifyLink excepted.
SelectFails(c) ==
    /\ DbMayFail
    /\ call[c].pc \in {"check", "read"}
    /\ End(c)
    /\ UNCHANGED <<passports, links, attVars>>

Restart ==
    /\ AttRestart
    /\ call' = [c \in Calls |-> IF call[c].pc = "ok" THEN call[c] ELSE NoCall]
    /\ UNCHANGED <<passports, links>>

Serve(c) ==
    \/ CheckAttestations(c) \/ InsertPassport(c) \/ InsertLink(c)
    \/ CheckPassportOwner(c) \/ CheckAddedAttestation(c) \/ AddLink(c)
    \/ ReadPassport(c) \/ ReadLinks(c) \/ VerifyLink(c) \/ SelectFails(c)

AttestationStep ==
    \E a \in Attestations : Anchoring(a) \/ \E u \in Users : CreateAttestation(u, a)

Next ==
    \/ \E c \in Calls :
          \/ \E u \in Users, ids \in IdLists : StartCreate(c, u, ids)
          \/ \E u \in Users, p \in Passports, a \in Attestations : StartAdd(c, u, p, a)
          \/ \E p \in Passports : StartVerify(c, p)
          \/ Serve(c)
    \/ AttestationStep /\ UNCHANGED passVars
    \/ Restart

Spec == Init /\ [][Next]_vars

\* No step tells users, attestations, passports or calls apart by more than their state.
Symmetry == Permutations(Users) \cup Permutations(Attestations)
            \cup Permutations(Passports) \cup Permutations(Calls)

-----------------------------------------------------------------------------
\* Shapes of the two tables and of the calls.
TypeOK ==
    /\ passports \in [Passports -> Users \cup {Absent}]
    /\ links \subseteq Passports \X Attestations
    /\ call \in [Calls -> Call]

\* Every attestation a passport aggregates has its transaction on the ledger and
\* belongs to the passport's owner, although the link is written statements after
\* the checks and the anchoring may have reverted the status in between.
LinkedIsOnLedger ==
    \A l \in links : /\ HasTx(l[2]) /\ l[2] \in ledger
                     /\ attestations[l[2]].owner = passports[l[1]]

\* A creation that reported success has linked every attestation it was given,
\* each given once.
CreatedIsComplete ==
    \A c \in Calls : At(c, "create", "ok")
        => /\ ToSet(call[c].ids) \subseteq LinksOf(call[c].passport)
           /\ IsInjective(call[c].ids)

\* A passport whose attestations are all anchored verifies.
AnchoredPassportVerifies ==
    \A c \in Calls :
        /\ At(c, "verify", "ok")
        /\ LinksOf(call[c].passport) # {}
        /\ \A a \in LinksOf(call[c].passport) : Anchored(a)
        => call[c].valid

=============================================================================
