---------------------------- MODULE Attestations ----------------------------
(***************************************************************************)
(* The attestation service (apps/api/src/modules/attestations/service.ts): *)
(* createAttestation inserts a pending row and answers, anchorToBlockchain *)
(* goes on in the background, and verifyAttestation may run at any time.   *)
(*                                                                         *)
(* One step is one SQL statement or one call of the ledger.  The anchoring *)
(* transaction of an attestation carries the hash of its credential, so    *)
(* the ledger is the set of attestations it has a transaction for, and     *)
(* blockchain_tx_hash is whether the row names that transaction.           *)
(***************************************************************************)
EXTENDS Naturals, FiniteSets

CONSTANTS
    Users,
    Attestations,   \* attestation ids
    Absent,         \* no row
    Verifiers,      \* slots for concurrent calls of verifyAttestation
    DbMayFail,      \* whether a statement of anchorToBlockchain may fail
    LedgerMayFail,  \* whether the ledger may refuse, time out or be unreachable
    SigningMayFail, \* whether did-jwt-vc or the curves cannot be loaded, or signing throws
    IdsAreUuids,    \* whether ids have the form that the routes demand of a parameter;
                    \* those of createAttestation, urn:uuid:<time>-<random>, do not
    MaxRestarts     \* bound on the restarts of the API process

\* createAttestation stores what issueVC returns, a string either way: a JWT, or
\* the one of createFallbackVC, with a placeholder for its signature.
Tokens == {"jwt", "unsigned"}

Rows == [owner : Users, status : {"pending", "anchored"}, hasTx : BOOLEAN,
         credential : Tokens]

Ongoing      == {"submit", "update", "record", "revert"}
WorkerStates == {"none", "done", "stopped"} \cup Ongoing   \* stopped half-way

Checks == [pc : {"idle", "ledger", "done"}, att : Attestations, hasTx : BOOLEAN,
           credential : Tokens,      \* as read with the row
           valid : BOOLEAN,
           ledgerFailed : BOOLEAN]   \* whether provider.verifyAnchor has thrown

ASSUME AttestationsAssumption ==
    /\ Absent \notin Rows
    /\ DbMayFail \in BOOLEAN
    /\ LedgerMayFail \in BOOLEAN
    /\ SigningMayFail \in BOOLEAN
    /\ IdsAreUuids \in BOOLEAN
    /\ MaxRestarts \in Nat

VARIABLES
    attestations,   \* the table attestations
    transactions,   \* the table blockchain_transactions: attestations recorded
    ledger,         \* attestations whose transaction the blockchain has
    worker,         \* the statement at which anchorToBlockchain is, per attestation
    check,          \* the calls of verifyAttestation
    restarts

attVars == <<attestations, transactions, ledger, worker, check, restarts>>

Exists(a)   == attestations[a] # Absent
Anchored(a) == Exists(a) /\ attestations[a].status = "anchored"
HasTx(a)    == Exists(a) /\ attestations[a].hasTx

\* A verification of a, at pc, of a row that names a transaction or does not.
Asking(pc, a, hasTx, credential) ==
    [pc |-> pc, att |-> a, hasTx |-> hasTx, credential |-> credential,
     valid |-> FALSE, ledgerFailed |-> FALSE]

AttInit ==
    /\ attestations = [a \in Attestations |-> Absent]
    /\ transactions = {}
    /\ ledger = {}
    /\ worker = [a \in Attestations |-> "none"]
    /\ \E a \in Attestations : check = [v \in Verifiers |-> Asking("idle", a, FALSE, "jwt")]
    /\ restarts = 0

\* issueVC: whatever is thrown while it imports the libraries or signs, it returns
\* the fallback's unsigned token.
IssuedTokens == IF SigningMayFail THEN Tokens ELSE {"jwt"}

\* createAttestation: the row goes in as pending and the background anchoring
\* starts, unless the answer of the INSERT is lost.  A signing key that cannot be
\* had, or an INSERT that is refused, changes nothing.
CreateAttestation(u, a) ==
    /\ ~Exists(a)
    /\ \E token \in IssuedTokens :
          attestations' = [attestations EXCEPT ![a] =
              [owner |-> u, status |-> "pending", hasTx |-> FALSE, credential |-> token]]
    /\ \/ worker' = [worker EXCEPT ![a] = "submit"]
       \/ DbMayFail /\ worker' = [worker EXCEPT ![a] = "stopped"]
    /\ UNCHANGED <<transactions, ledger, check, restarts>>

-----------------------------------------------------------------------------
(* anchorToBlockchain                                                       *)

Advance(a, from, to) == worker[a] = from /\ worker' = [worker EXCEPT ![a] = to]

\* Mutant: anchorData is called without await, so its refusal is not noticed.
SubmitUnawaited(a) ==
    /\ Advance(a, "submit", "update")
    /\ ledger' \in {ledger, ledger \cup {a}}
    /\ UNCHANGED <<attestations, transactions, check, restarts>>

\* provider.anchorData: accepted; or refused (getProvider may throw, too); or
\* accepted although the answer is lost, which the caller sees as an error.
Submit(a) ==
    /\ \/ Advance(a, "submit", "update") /\ ledger' = ledger \cup {a}
       \/ LedgerMayFail /\ Advance(a, "submit", "revert") /\ ledger' \in {ledger, ledger \cup {a}}
    /\ UNCHANGED <<attestations, transactions, check, restarts>>

\* UPDATE attestations SET blockchain_tx_hash, status = 'anchored'.  Of this
\* statement and the next, too, the answer may be lost.
RecordAnchor(a) ==
    /\ \/ /\ Advance(a, "update", "record") \/ (DbMayFail /\ Advance(a, "update", "revert"))
          /\ attestations' = [attestations EXCEPT ![a].status = "anchored", ![a].hasTx = TRUE]
       \/ DbMayFail /\ Advance(a, "update", "revert") /\ UNCHANGED attestations
    /\ UNCHANGED <<transactions, ledger, check, restarts>>

\* INSERT INTO blockchain_transactions
RecordTransaction(a) ==
    /\ \/ Advance(a, "record", "done") /\ transactions' = transactions \cup {a}
       \/ /\ DbMayFail /\ Advance(a, "record", "revert")
          /\ transactions' \in {transactions, transactions \cup {a}}
    /\ UNCHANGED <<attestations, ledger, check, restarts>>

\* Mutant: the catch block takes the transaction back, too.
RevertAll(a) ==
    /\ Advance(a, "revert", "stopped")
    /\ attestations' = [attestations EXCEPT ![a].status = "pending", ![a].hasTx = FALSE]
    /\ UNCHANGED <<transactions, ledger, check, restarts>>

\* Mutant: the catch block anchors once more instead of giving up.
RevertAndResubmit(a) ==
    /\ Advance(a, "revert", "submit")
    /\ attestations' = [attestations EXCEPT ![a].status = "pending"]
    /\ UNCHANGED <<transactions, ledger, check, restarts>>

\* The catch block: status = 'pending' again, blockchain_tx_hash as it is.  When
\* this statement fails too, the caller's .catch only logs it.
RevertStatus(a) ==
    /\ Advance(a, "revert", "stopped")
    /\ \/ attestations' = [attestations EXCEPT ![a].status = "pending"]
       \/ DbMayFail /\ UNCHANGED attestations
    /\ UNCHANGED <<transactions, ledger, check, restarts>>

-----------------------------------------------------------------------------
(* verifyAttestation: the row is read first, the ledger is asked after.     *)

\* An id that is no UUID does not get past the route's schema.
ReadForVerification(v, a) ==
    /\ check[v].pc # "ledger"
    /\ Exists(a)
    /\ check' = [check EXCEPT ![v] =
            LET row == attestations[a]
            IN  IF IdsAreUuids THEN Asking("ledger", a, row.hasTx, row.credential)
                               ELSE Asking("done", a, FALSE, row.credential)]
    /\ UNCHANGED <<attestations, transactions, ledger, worker, restarts>>

\* Mutant: an attestation without a transaction is rejected as unverified.
AskLedgerAlways(v) ==
    LET c == check[v]
    IN  /\ c.pc = "ledger"
        /\ check' = [check EXCEPT ![v].pc = "done",
                        ![v].valid = c.credential = "jwt" /\ c.hasTx /\ c.att \in ledger]
        /\ UNCHANGED <<attestations, transactions, ledger, worker, restarts>>

\* verifyVC verifies what the service signed, and never the fallback's token.  An
\* error of provider.verifyAnchor counts as not verified.
AskLedger(v) ==
    LET a == check[v].att
        verified == check[v].credential = "jwt"
        blockchainVerified == check[v].hasTx /\ a \in ledger
    IN  /\ check[v].pc = "ledger"
        /\ \/ check' = [check EXCEPT ![v].pc = "done",
                            ![v].valid = verified /\ (blockchainVerified \/ ~check[v].hasTx)]
           \/ LedgerMayFail /\ check[v].hasTx
              /\ check' = [check EXCEPT ![v].pc = "done", ![v].ledgerFailed = TRUE]
        /\ UNCHANGED <<attestations, transactions, ledger, worker, restarts>>

-----------------------------------------------------------------------------
\* The process dies: nothing resumes an anchoring that was under way.
CutOff(w) == [a \in Attestations |-> IF w[a] \in Ongoing THEN "stopped" ELSE w[a]]

AttRestart ==
    /\ restarts < MaxRestarts
    /\ restarts' = restarts + 1
    /\ worker' = CutOff(worker)
    /\ check' = [v \in Verifiers |-> Asking("idle", check[v].att, FALSE, "jwt")]
    /\ UNCHANGED <<attestations, transactions, ledger>>

\* The statements of a background anchoring, once the ledger has answered.
Settling(a)  == RecordAnchor(a) \/ RecordTransaction(a) \/ RevertStatus(a)
Anchoring(a) == Submit(a) \/ Settling(a)

AttNext ==
    \/ \E a \in Attestations :
          \/ \E u \in Users : CreateAttestation(u, a)
          \/ Anchoring(a)
          \/ \E v \in Verifiers : ReadForVerification(v, a)
    \/ \E v \in Verifiers : AskLedger(v)
    \/ AttRestart

AttSpec == AttInit /\ [][AttNext]_attVars

\* The database answers a statement as long as the process lives.  Nothing of the
\* kind holds of the ledger: provider.anchorData may wait for a transaction for ever.
AttFairSpec == AttSpec /\ \A a \in Attestations : WF_attVars(Settling(a))

-----------------------------------------------------------------------------
\* Shapes of the tables, of the anchorings and of the verifications.
AttTypeOK ==
    /\ attestations \in [Attestations -> Rows \cup {Absent}]
    /\ transactions \subseteq Attestations
    /\ ledger \subseteq Attestations
    /\ worker \in [Attestations -> WorkerStates]
    /\ check \in [Verifiers -> Checks]
    /\ restarts \in 0 .. MaxRestarts

\* Whatever fails in between, and whenever the process dies, a row that is
\* anchored or names a transaction has one on the ledger.
TxIsOnLedger ==
    \A a \in Attestations : Anchored(a) \/ HasTx(a) => HasTx(a) /\ a \in ledger

\* A transaction recorded as confirmed is that of an attestation that names it, and
\* that is anchored unless its anchoring stopped half-way: the answer of the record
\* may have been lost and the status reverted.
RecordedIsAnchored ==
    \A a \in transactions : HasTx(a) /\ (Anchored(a) \/ worker[a] = "stopped")

\* Ledger, attestations and blockchain_transactions agree, whatever fails in between.
RecordsMatchLedger == TxIsOnLedger /\ RecordedIsAnchored

\* A verification never accepts what was stored without a signature, and rejects no
\* other attestation unless the ledger fails to answer it, also when it overlaps the
\* anchoring of that attestation, a failure in it or a restart.
VerificationAccepts ==
    \A v \in Verifiers : check[v].pc = "done" =>
        LET signed == attestations[check[v].att].credential = "jwt"
        IN  /\ check[v].valid => signed
            /\ signed => check[v].valid \/ check[v].ledgerFailed

\* An attestation that the ledger has answered about, with a transaction or an error,
\* is anchored and its transaction recorded in the end, unless a failure makes the
\* anchoring give up or a restart cuts it off.
AnchoringEnds ==
    \A a \in Attestations :
        worker[a] \in Ongoing \ {"submit"} ~>
            (Anchored(a) /\ a \in transactions) \/ worker[a] = "stopped"

=============================================================================
