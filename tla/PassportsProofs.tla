-------------------------- MODULE PassportsProofs ---------------------------
(***************************************************************************)
(* Theorems about Attestations and about Passports, which composes it, for *)
(* every set of users, attestations, passports and concurrent calls.       *)
(*                                                                         *)
(* AnchorOrder says what the code has already done at each statement of    *)
(* anchorToBlockchain, which is why a failure or a restart at any of them  *)
(* leaves the tables consistent with the ledger. CallsChecked carries what *)
(* a call has checked to the statements it issues later; it survives the   *)
(* anchorings that run meanwhile because no step of them clears            *)
(* blockchain_tx_hash.                                                     *)
(***************************************************************************)
EXTENDS Passports, FiniteSetTheorems, TLAPS

-----------------------------------------------------------------------------
(* Attestations                                                             *)

AnchorOrder ==
    \A a \in Attestations :
        /\ worker[a] \in Ongoing => Exists(a)
        /\ worker[a] = "update" => a \in ledger
        /\ worker[a] = "record" => Anchored(a)
        /\ worker[a] \in {"submit", "update", "record"} => a \notin transactions
        /\ ~Exists(a) => worker[a] = "none"

ReadWasTrue ==
    \A v \in Verifiers : check[v].pc = "ledger" /\ check[v].hasTx => check[v].att \in ledger

IInv == AttTypeOK /\ TxIsOnLedger /\ RecordedIsAnchored /\ AnchorOrder /\ ReadWasTrue

\* A row that exists is a record of the table.
LEMMA RowType ==
  ASSUME AttTypeOK, NEW a \in Attestations, Exists(a)
  PROVE  attestations[a] \in Rows
  BY DEF AttTypeOK, Exists

\* The empty tables satisfy the invariant.
LEMMA InitInv == AttInit => IInv
<1> SUFFICES ASSUME AttInit PROVE IInv
  OBVIOUS
<1> USE AttestationsAssumption DEF AttInit, Ongoing, Asking, Tokens
<1>1. AttTypeOK
  BY DEF AttTypeOK, WorkerStates, Checks
<1>2. TxIsOnLedger /\ RecordedIsAnchored
  BY DEF TxIsOnLedger, RecordedIsAnchored, Anchored, HasTx, Exists
<1>3. AnchorOrder /\ ReadWasTrue
  BY DEF AnchorOrder, ReadWasTrue, Exists
<1> QED
  BY <1>1, <1>2, <1>3 DEF IInv

\* Steps that leave the rows alone and let the ledger only grow.
LEMMA RowsKept ==
  ASSUME IInv, UNCHANGED <<attestations, transactions>>, ledger \subseteq ledger',
         AttTypeOK',
         \A a \in Attestations :
            worker'[a] # worker[a]
            => /\ worker[a] \in Ongoing
               /\ worker'[a] \in {"update", "revert", "stopped"}
               /\ worker'[a] = "update" => worker[a] = "submit" /\ a \in ledger'
  PROVE  TxIsOnLedger' /\ RecordedIsAnchored' /\ AnchorOrder'
<1> USE DEF IInv, Ongoing
<1>1. \A a \in Attestations : (Anchored(a)' <=> Anchored(a)) /\ (HasTx(a)' <=> HasTx(a))
                              /\ (Exists(a)' <=> Exists(a))
  BY DEF Anchored, HasTx, Exists
<1>2. TxIsOnLedger'
  BY <1>1 DEF TxIsOnLedger
<1>3. RecordedIsAnchored'
  BY <1>1 DEF RecordedIsAnchored, AttTypeOK
<1>4. AnchorOrder'
  BY <1>1 DEF AnchorOrder
<1> QED
  BY <1>2, <1>3, <1>4

\* IInv is inductive.
LEMMA Inductive == IInv /\ [AttNext]_attVars => IInv'
<1> SUFFICES ASSUME IInv, [AttNext]_attVars PROVE IInv'
  OBVIOUS
<1> USE AttestationsAssumption DEF Ongoing, Asking, Tokens
<1>1. ASSUME NEW a \in Attestations, NEW u \in Users, CreateAttestation(u, a) PROVE IInv'
  <2>0. PICK token \in IssuedTokens : attestations' = [attestations EXCEPT ![a] =
            [owner |-> u, status |-> "pending", hasTx |-> FALSE, credential |-> token]]
    BY <1>1 DEF CreateAttestation
  <2>0a. token \in Tokens
    BY DEF IssuedTokens
  <2> DEFINE new == [owner |-> u, status |-> "pending", hasTx |-> FALSE, credential |-> token]
  <2>1. new \in Rows
    BY <2>0a DEF Rows
  <2>1a. new # Absent
    BY <2>1
  <2>2. attestations'[a] = new /\ ~Exists(a) /\ worker[a] = "none" /\ a \notin transactions
    BY <1>1, <2>0 DEF CreateAttestation, IInv, AttTypeOK, AnchorOrder, RecordedIsAnchored, HasTx
  <2>3. \A b \in Attestations \ {a} : attestations'[b] = attestations[b] /\ worker'[b] = worker[b]
    BY <1>1, <2>0 DEF CreateAttestation, IInv, AttTypeOK
  <2>4. worker'[a] \in {"submit", "stopped"} /\ UNCHANGED <<transactions, ledger, check, restarts>>
    BY <1>1 DEF CreateAttestation, IInv, AttTypeOK
  <2>5. AttTypeOK'
    BY <1>1, <2>0, <2>1 DEF CreateAttestation, IInv, AttTypeOK, WorkerStates
  <2>6. TxIsOnLedger'
    BY <2>2, <2>3, <2>4 DEF IInv, TxIsOnLedger, Anchored, HasTx, Exists
  <2>7. RecordedIsAnchored'
    BY <2>2, <2>3, <2>4 DEF IInv, AttTypeOK, RecordedIsAnchored, Anchored, HasTx, Exists
  <2>8. AnchorOrder'
    BY <2>1a, <2>2, <2>3, <2>4 DEF IInv, AnchorOrder, Anchored, Exists
  <2>9. ReadWasTrue'
    BY <2>4 DEF IInv, ReadWasTrue
  <2> QED
    BY <2>5, <2>6, <2>7, <2>8, <2>9 DEF IInv
<1>2. ASSUME NEW a \in Attestations, Submit(a) PROVE IInv'
  <2>1. AttTypeOK' /\ ledger \subseteq ledger'
    BY <1>2 DEF Submit, Advance, IInv, AttTypeOK, WorkerStates
  <2>2. TxIsOnLedger' /\ RecordedIsAnchored' /\ AnchorOrder'
    BY <1>2, <2>1, RowsKept DEF Submit, Advance, IInv, AttTypeOK
  <2>3. ReadWasTrue'
    BY <1>2, <2>1 DEF Submit, IInv, ReadWasTrue
  <2> QED
    BY <2>1, <2>2, <2>3 DEF IInv
<1>3. ASSUME NEW a \in Attestations, RecordAnchor(a) PROVE IInv'
  <2>1. CASE Advance(a, "update", "revert") /\ UNCHANGED attestations
    <3>1. AttTypeOK' /\ UNCHANGED <<transactions, ledger, check, restarts>>
      BY <1>3, <2>1 DEF RecordAnchor, Advance, IInv, AttTypeOK, WorkerStates
    <3>2. TxIsOnLedger' /\ RecordedIsAnchored' /\ AnchorOrder'
      BY <2>1, <3>1, RowsKept DEF Advance, IInv, AttTypeOK
    <3>3. ReadWasTrue'
      BY <3>1 DEF IInv, ReadWasTrue
    <3> QED
      BY <3>1, <3>2, <3>3 DEF IInv
  <2>2. CASE /\ Advance(a, "update", "record") \/ Advance(a, "update", "revert")
             /\ attestations' = [attestations EXCEPT ![a].status = "anchored", ![a].hasTx = TRUE]
    <3>0. /\ worker[a] = "update"
          /\ \E next \in {"record", "revert"} : worker' = [worker EXCEPT ![a] = next]
      BY <2>2 DEF Advance
    <3>1. /\ Exists(a) /\ a \in ledger /\ attestations[a] \in Rows
          /\ a \notin transactions
      BY <3>0, RowType DEF IInv, AnchorOrder
    <3>2. attestations'[a] = [attestations[a] EXCEPT !.status = "anchored", !.hasTx = TRUE]
      BY <2>2 DEF IInv, AttTypeOK
    <3>3. /\ attestations'[a] \in Rows /\ attestations'[a].status = "anchored"
          /\ attestations'[a].hasTx
      BY <3>1, <3>2 DEF Rows
    <3>4. \A b \in Attestations \ {a} : attestations'[b] = attestations[b] /\ worker'[b] = worker[b]
      BY <2>2, <3>0 DEF IInv, AttTypeOK
    <3>5. /\ worker'[a] \in {"record", "revert"} /\ worker[a] = "update"
          /\ UNCHANGED <<transactions, ledger, check, restarts>>
      BY <1>3, <3>0 DEF RecordAnchor, IInv, AttTypeOK
    <3>6. AttTypeOK'
      BY <2>2, <3>0, <3>3, <3>5 DEF IInv, AttTypeOK, WorkerStates
    <3>7. Anchored(a)' /\ HasTx(a)' /\ Exists(a)' /\ a \in ledger'
      BY <3>1, <3>3, <3>5 DEF Anchored, HasTx, Exists
    <3>8. \A b \in Attestations \ {a} : /\ Anchored(b)' <=> Anchored(b)
                                        /\ HasTx(b)' <=> HasTx(b)
                                        /\ Exists(b)' <=> Exists(b)
      BY <3>4 DEF Anchored, HasTx, Exists
    <3>9. TxIsOnLedger' /\ RecordedIsAnchored'
      BY <3>4, <3>5, <3>7, <3>8 DEF IInv, AttTypeOK, TxIsOnLedger, RecordedIsAnchored
    <3>10. AnchorOrder' /\ ReadWasTrue'
      BY <3>4, <3>5, <3>7, <3>8 DEF IInv, AnchorOrder, ReadWasTrue
    <3> QED
      BY <3>6, <3>9, <3>10 DEF IInv
  <2> QED
    BY <1>3, <2>1, <2>2 DEF RecordAnchor
<1>4. ASSUME NEW a \in Attestations, RecordTransaction(a) PROVE IInv'
  <2>1. worker[a] = "record" /\ Anchored(a) /\ UNCHANGED <<attestations, ledger, check, restarts>>
    BY <1>4 DEF RecordTransaction, Advance, IInv, AnchorOrder
  <2>2. AttTypeOK'
    BY <1>4 DEF RecordTransaction, Advance, IInv, AttTypeOK, WorkerStates
  <2>3. \A b \in Attestations : b \in transactions'
          => b \in transactions \/ b = a
    BY <1>4 DEF RecordTransaction, Advance, IInv, AttTypeOK
  <2>4. /\ worker'[a] \in {"done", "revert"}
        /\ \A b \in Attestations : b # a => worker'[b] = worker[b]
    BY <1>4 DEF RecordTransaction, Advance, IInv, AttTypeOK
  <2>5. \A b \in Attestations : /\ Anchored(b)' <=> Anchored(b)
                                /\ HasTx(b)' <=> HasTx(b)
                                /\ Exists(b)' <=> Exists(b)
    BY <2>1 DEF Anchored, HasTx, Exists
  <2>6. TxIsOnLedger' /\ RecordedIsAnchored' /\ ReadWasTrue'
    BY <2>1, <2>2, <2>3, <2>4, <2>5
       DEF IInv, AttTypeOK, TxIsOnLedger, RecordedIsAnchored, ReadWasTrue
  <2>7. AnchorOrder'
    BY <2>1, <2>3, <2>4, <2>5 DEF IInv, AnchorOrder
  <2> QED
    BY <2>2, <2>6, <2>7 DEF IInv
<1>5. ASSUME NEW a \in Attestations, RevertStatus(a) PROVE IInv'
  <2>1. /\ worker[a] = "revert" /\ worker' = [worker EXCEPT ![a] = "stopped"]
        /\ UNCHANGED <<transactions, ledger, check, restarts>>
        /\ Exists(a) /\ attestations[a] \in Rows /\ worker'[a] = "stopped"
    BY <1>5, RowType DEF RevertStatus, Advance, IInv, AttTypeOK, AnchorOrder
  <2>2. CASE UNCHANGED attestations
    <3>1. AttTypeOK' /\ ReadWasTrue'
      BY <2>1, <2>2 DEF IInv, AttTypeOK, WorkerStates, ReadWasTrue
    <3>2. TxIsOnLedger' /\ RecordedIsAnchored' /\ AnchorOrder'
      BY <2>1, <2>2, <3>1, RowsKept DEF IInv, AttTypeOK
    <3> QED
      BY <3>1, <3>2 DEF IInv
  <2>3. CASE attestations' = [attestations EXCEPT ![a].status = "pending"]
    <3>1. attestations'[a] = [attestations[a] EXCEPT !.status = "pending"]
      BY <2>3 DEF IInv, AttTypeOK
    <3>2. /\ attestations'[a] \in Rows /\ attestations'[a].status = "pending"
          /\ attestations'[a].hasTx = attestations[a].hasTx
      BY <2>1, <3>1 DEF Rows
    <3>3. \A b \in Attestations \ {a} : attestations'[b] = attestations[b] /\ worker'[b] = worker[b]
      BY <2>1, <2>3 DEF IInv, AttTypeOK
    <3>4. AttTypeOK'
      BY <2>1, <2>3, <3>2, <3>3 DEF IInv, AttTypeOK, WorkerStates
    <3>5. ~Anchored(a)' /\ (HasTx(a)' <=> HasTx(a)) /\ Exists(a)'
      BY <2>1, <3>2 DEF Anchored, HasTx, Exists
    <3>6. \A b \in Attestations \ {a} : /\ Anchored(b)' <=> Anchored(b)
                                        /\ HasTx(b)' <=> HasTx(b)
                                        /\ Exists(b)' <=> Exists(b)
      BY <3>3 DEF Anchored, HasTx, Exists
    <3>7. TxIsOnLedger' /\ RecordedIsAnchored' /\ ReadWasTrue'
      BY <2>1, <3>3, <3>5, <3>6
         DEF IInv, AttTypeOK, TxIsOnLedger, RecordedIsAnchored, ReadWasTrue
    <3>8. AnchorOrder'
      BY <2>1, <3>3, <3>5, <3>6 DEF IInv, AnchorOrder
    <3> QED
      BY <3>4, <3>7, <3>8 DEF IInv
  <2> QED
    BY <1>5, <2>2, <2>3 DEF RevertStatus
<1>6. ASSUME NEW v \in Verifiers, NEW a \in Attestations, ReadForVerification(v, a) PROVE IInv'
  <2>1. UNCHANGED <<attestations, transactions, ledger, worker, restarts>>
    BY <1>6 DEF ReadForVerification
  <2>2. /\ attestations[a].hasTx \in BOOLEAN /\ IdsAreUuids \in BOOLEAN
        /\ attestations[a].hasTx => a \in ledger
        /\ attestations[a].credential \in Tokens
    BY <1>6, RowType DEF ReadForVerification, IInv, Rows, TxIsOnLedger, HasTx
  <2>3. AttTypeOK'
    <3>1. \E c \in Checks : check' = [check EXCEPT ![v] = c]
      <4>1. CASE IdsAreUuids
        BY <1>6, <2>2, <4>1 DEF ReadForVerification, Checks
      <4>2. CASE ~IdsAreUuids
        BY <1>6, <2>2, <4>2 DEF ReadForVerification, Checks
      <4> QED
        BY <4>1, <4>2
    <3> QED
      BY <2>1, <3>1 DEF IInv, AttTypeOK
  <2>4. TxIsOnLedger' /\ RecordedIsAnchored' /\ AnchorOrder'
    BY <2>1, <2>3, RowsKept
  <2>5. ReadWasTrue'
    BY <1>6, <2>2 DEF ReadForVerification, IInv, AttTypeOK, ReadWasTrue
  <2> QED
    BY <2>3, <2>4, <2>5 DEF IInv
<1>7. ASSUME NEW v \in Verifiers, AskLedger(v) PROVE IInv'
  <2>1. UNCHANGED <<attestations, transactions, ledger, worker, restarts>>
    BY <1>7 DEF AskLedger
  <2>2. \E b, f \in BOOLEAN :
          check' = [check EXCEPT ![v] = [@ EXCEPT !.pc = "done", !.valid = b, !.ledgerFailed = f]]
    <3>1. check[v] \in Checks
      BY DEF IInv, AttTypeOK
    <3> DEFINE valid == /\ check[v].credential = "jwt"
                        /\ (check[v].hasTx /\ check[v].att \in ledger) \/ ~check[v].hasTx
    <3>2. CASE check' = [check EXCEPT ![v].pc = "done", ![v].valid = valid]
      <4>1. check' = [check EXCEPT ![v] =
                [@ EXCEPT !.pc = "done", !.valid = valid, !.ledgerFailed = check[v].ledgerFailed]]
        BY <3>1, <3>2 DEF IInv, AttTypeOK, Checks
      <4>2. valid \in BOOLEAN /\ check[v].ledgerFailed \in BOOLEAN
        BY <3>1 DEF Checks
      <4> QED
        BY <4>1, <4>2
    <3>3. CASE check' = [check EXCEPT ![v].pc = "done", ![v].ledgerFailed = TRUE]
      <4>1. check' = [check EXCEPT ![v] =
                [@ EXCEPT !.pc = "done", !.valid = check[v].valid, !.ledgerFailed = TRUE]]
        BY <3>1, <3>3 DEF IInv, AttTypeOK, Checks
      <4>2. check[v].valid \in BOOLEAN
        BY <3>1 DEF Checks
      <4> QED
        BY <4>1, <4>2
    <3> QED
      BY <1>7, <3>2, <3>3 DEF AskLedger
  <2>3. AttTypeOK'
    <3>1. PICK b, f \in BOOLEAN :
            check' = [check EXCEPT ![v] = [@ EXCEPT !.pc = "done", !.valid = b, !.ledgerFailed = f]]
      BY <2>2
    <3>2. [check[v] EXCEPT !.pc = "done", !.valid = b, !.ledgerFailed = f] \in Checks
      <4>1. check[v] \in Checks
        BY DEF IInv, AttTypeOK
      <4> QED
        BY <4>1 DEF Checks
    <3> QED
      BY <2>1, <3>1, <3>2 DEF IInv, AttTypeOK
  <2>4. TxIsOnLedger' /\ RecordedIsAnchored' /\ AnchorOrder'
    BY <2>1, <2>3, RowsKept
  <2>5. ReadWasTrue'
    BY <2>1, <2>2 DEF IInv, AttTypeOK, ReadWasTrue, Checks
  <2> QED
    BY <2>3, <2>4, <2>5 DEF IInv
<1>8. CASE AttRestart
  <2>1. UNCHANGED <<attestations, transactions, ledger>>
    BY <1>8 DEF AttRestart
  <2>2. \A a \in Attestations :
          worker'[a] # worker[a] => worker[a] \in Ongoing /\ worker'[a] = "stopped"
    BY <1>8 DEF AttRestart, CutOff
  <2>3. AttTypeOK'
    <3>1. worker' \in [Attestations -> WorkerStates]
      BY <1>8 DEF AttRestart, CutOff, IInv, AttTypeOK, WorkerStates
    <3>2. ASSUME NEW v \in Verifiers PROVE Asking("idle", check[v].att, FALSE, "jwt") \in Checks
      <4>1. check[v] \in Checks
        BY DEF IInv, AttTypeOK
      <4> QED
        BY <4>1 DEF Checks
    <3>3. check' \in [Verifiers -> Checks]
      BY <1>8, <3>2 DEF AttRestart
    <3>4. restarts' \in 0 .. MaxRestarts
      <4>1. restarts \in 0 .. MaxRestarts /\ MaxRestarts \in Nat
        BY DEF IInv, AttTypeOK
      <4>2. restarts < MaxRestarts /\ restarts' = restarts + 1
        BY <1>8 DEF AttRestart
      <4> QED
        BY <4>1, <4>2
    <3> QED
      BY <2>1, <3>1, <3>3, <3>4 DEF IInv, AttTypeOK
  <2>4. TxIsOnLedger' /\ RecordedIsAnchored' /\ AnchorOrder'
    BY <2>1, <2>2, <2>3, RowsKept
  <2>5. ReadWasTrue'
    BY <1>8 DEF AttRestart, IInv, AttTypeOK, Checks, ReadWasTrue
  <2> QED
    BY <2>3, <2>4, <2>5 DEF IInv
<1>9. CASE UNCHANGED attVars
  BY <1>9 DEF attVars, IInv, AttTypeOK, TxIsOnLedger, RecordedIsAnchored, AnchorOrder, ReadWasTrue,
     Anchored, HasTx, Exists
<1> QED
  BY <1>1, <1>2, <1>3, <1>4, <1>5, <1>6, <1>7, <1>8, <1>9 DEF AttNext, Anchoring, Settling

\* IInv holds in every reachable state.
THEOREM AttInvariance == AttSpec => []IInv
  BY InitInv, Inductive, PTL DEF AttSpec

\* Type correctness: rows, ledger, tasks and verifications keep their shapes.
THEOREM AttTypeCorrect == AttSpec => []AttTypeOK
<1>1. IInv => AttTypeOK
  BY DEF IInv
<1> QED
  BY <1>1, AttInvariance, PTL

-----------------------------------------------------------------------------
\* Rows that are anchored or name a transaction have one on the ledger.
THEOREM TxOnLedger == AttSpec => []TxIsOnLedger
<1>1. IInv => TxIsOnLedger
  BY DEF IInv
<1> QED
  BY <1>1, AttInvariance, PTL

\* Recorded transactions belong to anchored attestations.
THEOREM RecordedAnchored == AttSpec => []RecordedIsAnchored
<1>1. IInv => RecordedIsAnchored
  BY DEF IInv
<1> QED
  BY <1>1, AttInvariance, PTL

\* Ledger, attestations and blockchain_transactions agree, whatever fails in between.
THEOREM RecordsMatch == AttSpec => []RecordsMatchLedger
<1>1. TxIsOnLedger /\ RecordedIsAnchored => RecordsMatchLedger
  BY DEF RecordsMatchLedger
<1> QED
  BY <1>1, TxOnLedger, RecordedAnchored, PTL

\* A verification that has read its row holds the credential that the row has for good.
ReadRow ==
    \A v \in Verifiers : check[v].pc # "idle" =>
        /\ Exists(check[v].att)
        /\ check[v].credential = attestations[check[v].att].credential
        /\ check[v].pc = "ledger" => ~check[v].valid

\* No step deletes a row or replaces its credential.
LEMMA CredentialsKept ==
  ASSUME IInv, [AttNext]_attVars
  PROVE  \A a \in Attestations : Exists(a) =>
            Exists(a)' /\ attestations'[a].credential = attestations[a].credential
<1>1. CASE UNCHANGED attestations
  BY <1>1 DEF Exists
<1>2. ASSUME NEW a \in Attestations, NEW u \in Users, CreateAttestation(u, a)
      PROVE  \A b \in Attestations : Exists(b) => b # a /\ attestations'[b] = attestations[b]
  BY <1>2 DEF CreateAttestation, IInv, AttTypeOK
<1>3. ASSUME NEW a \in Attestations, RecordAnchor(a) \/ RevertStatus(a), ~UNCHANGED attestations
      PROVE  /\ \A b \in Attestations \ {a} : attestations'[b] = attestations[b]
             /\ attestations'[a] \in Rows
             /\ attestations'[a].credential = attestations[a].credential
  <2>1. attestations[a] \in Rows
    BY <1>3, RowType DEF RecordAnchor, RevertStatus, Advance, IInv, AnchorOrder, Ongoing
  <2>2. CASE attestations' = [attestations EXCEPT ![a].status = "anchored", ![a].hasTx = TRUE]
    <3>1. attestations'[a] = [attestations[a] EXCEPT !.status = "anchored", !.hasTx = TRUE]
      BY <2>2 DEF IInv, AttTypeOK
    <3> QED
      BY <2>1, <2>2, <3>1 DEF IInv, AttTypeOK, Rows
  <2>3. CASE attestations' = [attestations EXCEPT ![a].status = "pending"]
    <3>1. attestations'[a] = [attestations[a] EXCEPT !.status = "pending"]
      BY <2>3 DEF IInv, AttTypeOK
    <3> QED
      BY <2>1, <2>3, <3>1 DEF IInv, AttTypeOK, Rows
  <2> QED
    BY <1>3, <2>2, <2>3 DEF RecordAnchor, RevertStatus
<1>4. CASE \E a \in Attestations, u \in Users : CreateAttestation(u, a)
  BY <1>2, <1>4 DEF Exists
<1>5. CASE \E a \in Attestations : RecordAnchor(a) \/ RevertStatus(a)
  BY <1>1, <1>3, <1>5, AttestationsAssumption DEF Exists
<1> QED
  BY <1>1, <1>4, <1>5 DEF AttNext, attVars, Anchoring, Settling, Submit, RecordTransaction,
     ReadForVerification, AskLedger, AttRestart

\* What a verification read stays true.
LEMMA ReadsStay == IInv /\ ReadRow /\ [AttNext]_attVars => ReadRow'
<1> SUFFICES ASSUME IInv, ReadRow, [AttNext]_attVars PROVE ReadRow'
  OBVIOUS
<1>0. \A v \in Verifiers : check[v] \in Checks
  BY DEF IInv, AttTypeOK
<1>1. CASE UNCHANGED check
  BY <1>0, <1>1, CredentialsKept DEF ReadRow, Checks
<1>2. ASSUME NEW v \in Verifiers, NEW a \in Attestations, ReadForVerification(v, a)
      PROVE  ReadRow'
  <2>1. /\ check'[v].att = a /\ check'[v].credential = attestations[a].credential
        /\ ~check'[v].valid /\ Exists(a) /\ UNCHANGED attestations
    BY <1>2 DEF ReadForVerification, Asking, IInv, AttTypeOK
  <2>2. \A w \in Verifiers \ {v} : check'[w] = check[w]
    BY <1>2 DEF ReadForVerification, IInv, AttTypeOK
  <2> QED
    BY <2>1, <2>2 DEF ReadRow, Exists
<1>3. ASSUME NEW v \in Verifiers, AskLedger(v) PROVE ReadRow'
  <2>1. /\ check'[v].att = check[v].att /\ check'[v].credential = check[v].credential
        /\ check[v].pc = "ledger" /\ check'[v].pc = "done" /\ UNCHANGED attestations
    BY <1>0, <1>3 DEF AskLedger, IInv, AttTypeOK, Checks
  <2>2. \A w \in Verifiers \ {v} : check'[w] = check[w]
    BY <1>3 DEF AskLedger, IInv, AttTypeOK
  <2> QED
    BY <2>1, <2>2 DEF ReadRow, Exists
<1>4. CASE AttRestart
  BY <1>4 DEF AttRestart, Asking, ReadRow
<1> QED
  BY <1>1, <1>2, <1>3, <1>4 DEF AttNext, attVars, Anchoring, Settling, CreateAttestation, Submit,
     RecordAnchor, RecordTransaction, RevertStatus

\* A verification that gets past the route accepts nothing without a signature, and
\* rejects nothing else that the ledger answers for.
THEOREM VerificationsAccept ==
  ASSUME IdsAreUuids = TRUE
  PROVE  AttSpec => []VerificationAccepts
<1> USE DEF Asking
<1>1. AttInit => VerificationAccepts /\ ReadRow
  BY DEF AttInit, VerificationAccepts, ReadRow, Checks
<1>2. IInv /\ ReadRow /\ VerificationAccepts /\ [AttNext]_attVars => VerificationAccepts'
  <2> SUFFICES ASSUME IInv, ReadRow, VerificationAccepts, [AttNext]_attVars
               PROVE  VerificationAccepts'
    OBVIOUS
  <2>0. \A v \in Verifiers : check[v] \in Checks
    BY DEF IInv, AttTypeOK
  <2>1. CASE UNCHANGED check
    BY <2>0, <2>1, CredentialsKept DEF VerificationAccepts, ReadRow, Checks
  <2>2. ASSUME NEW v \in Verifiers, NEW a \in Attestations, ReadForVerification(v, a)
        PROVE  VerificationAccepts'
    BY <2>2 DEF ReadForVerification, VerificationAccepts, IInv, AttTypeOK
  <2>3. ASSUME NEW v \in Verifiers, AskLedger(v) PROVE VerificationAccepts'
    <3>0. /\ check[v].pc = "ledger" /\ UNCHANGED attestations
          /\ check[v].credential = attestations[check[v].att].credential
      BY <2>3 DEF AskLedger, ReadRow
    <3>1. /\ check'[v].att = check[v].att
          /\ check'[v].valid \/ check'[v].ledgerFailed \/ check[v].credential # "jwt"
          /\ check'[v].valid => check[v].credential = "jwt"
      BY <2>0, <2>3 DEF AskLedger, IInv, AttTypeOK, Checks, ReadWasTrue, ReadRow
    <3>2. \A w \in Verifiers \ {v} : check'[w] = check[w]
      BY <2>3 DEF AskLedger, IInv, AttTypeOK
    <3> QED
      BY <3>0, <3>1, <3>2 DEF VerificationAccepts
  <2>4. CASE AttRestart
    BY <2>4 DEF AttRestart, VerificationAccepts, IInv, AttTypeOK, Checks
  <2> QED
    BY <2>1, <2>2, <2>3, <2>4 DEF AttNext, attVars, Anchoring, Settling, CreateAttestation,
       Submit, RecordAnchor, RecordTransaction, RevertStatus
<1> QED
  BY <1>1, <1>2, ReadsStay, AttInvariance, PTL DEF AttSpec

-----------------------------------------------------------------------------
(* Passports                                                                *)

\* The list c was called with: every id owned by the caller, with a transaction.
Backed(a, u) == HasTx(a) /\ attestations[a].owner = u

CreateChecked(c) ==
    /\ call[c].pc \in {"check", "insert"} => call[c].next = 1
    /\ call[c].pc \in {"insert", "link", "ok"}
       => /\ \A i \in DOMAIN call[c].ids : Backed(call[c].ids[i], call[c].user)
          /\ IsInjective(call[c].ids)
    /\ call[c].pc = "link"
       => /\ passports[call[c].passport] = call[c].user
          /\ \A i \in DOMAIN call[c].ids :
                i < call[c].next => <<call[c].passport, call[c].ids[i]>> \in links
    /\ call[c].pc = "ok"
       => \A i \in DOMAIN call[c].ids : <<call[c].passport, call[c].ids[i]>> \in links

AddChecked(c) ==
    /\ call[c].pc \in {"read", "link"} => passports[call[c].passport] = call[c].user
    /\ call[c].pc = "link" => Backed(call[c].id, call[c].user)

CallsChecked ==
    \A c \in Calls : /\ call[c].op = "create" => CreateChecked(c)
                     /\ call[c].op = "add" => AddChecked(c)

PInv == IInv /\ TypeOK /\ LinkedIsOnLedger /\ CallsChecked

-----------------------------------------------------------------------------
\* A call has the fields of its operation, and one that links a passport.
LEMMA CallKinds ==
  ASSUME TypeOK, NEW c \in Calls
  PROVE  /\ call[c].op = "create" => call[c] \in Creations
         /\ call[c].op = "add" => call[c] \in Additions
         /\ call[c].op = "verify" => call[c] \in Verifications
  BY DEF TypeOK, Call, Creations, Additions, Verifications, NoCall

\* A transaction hash is never cleared and a row never changes its owner.
LEMMA RowsEndure ==
  ASSUME IInv, [AttNext]_attVars, NEW a \in Attestations, HasTx(a)
  PROVE  HasTx(a)' /\ attestations'[a].owner = attestations[a].owner
<1>1. attestations[a] \in Rows /\ Exists(a)
  BY RowType DEF IInv, HasTx
<1>2. CASE UNCHANGED attestations
  BY <1>2 DEF HasTx, Exists
<1>3. ASSUME NEW b \in Attestations, NEW u \in Users, CreateAttestation(u, b)
      PROVE  HasTx(a)' /\ attestations'[a].owner = attestations[a].owner
  BY <1>1, <1>3 DEF CreateAttestation, IInv, AttTypeOK, HasTx, Exists
<1>4. ASSUME NEW b \in Attestations,
             \/ attestations' = [attestations EXCEPT ![b].status = "anchored", ![b].hasTx = TRUE]
             \/ attestations' = [attestations EXCEPT ![b].status = "pending"]
      PROVE  HasTx(a)' /\ attestations'[a].owner = attestations[a].owner
  <2>1. \/ attestations'[a] = attestations[a]
        \/ attestations'[a] = [attestations[a] EXCEPT !.status = "anchored", !.hasTx = TRUE]
        \/ attestations'[a] = [attestations[a] EXCEPT !.status = "pending"]
    BY <1>4 DEF IInv, AttTypeOK
  <2>2. /\ attestations'[a] \in Rows /\ attestations'[a].hasTx
        /\ attestations'[a].owner = attestations[a].owner
    BY <1>1, <2>1 DEF Rows, HasTx
  <2> QED
    BY <2>2, AttestationsAssumption DEF HasTx, Exists
<1> QED
  BY <1>2, <1>3, <1>4 DEF AttNext, attVars, Anchoring, Settling, Submit, RecordAnchor,
     RecordTransaction, RevertStatus, ReadForVerification, AskLedger, AttRestart

\* Every step of the passport service is a step of the attestation service or
\* leaves it alone.
LEMMA AttStep == [Next]_vars => [AttNext]_attVars
  BY DEF Next, vars, attVars, Start, StartCreate, StartAdd, StartVerify, Serve,
     CheckAttestations, InsertPassport, InsertLink,
     CheckPassportOwner, CheckAddedAttestation, AddLink, ReadPassport, ReadLinks, VerifyLink,
     SelectFails, AttestationStep, Restart, AttNext

\* A list of ids whose rows number as many as the list is long has no id twice
\* and every id among the rows.
LEMMA AsManyRowsAsIds ==
  ASSUME NEW ids \in IdLists, NEW S \in SUBSET ToSet(ids), Cardinality(S) = Len(ids)
  PROVE  S = ToSet(ids) /\ IsInjective(ids)
<1>1. PICK n \in 1 .. MaxLinks : ids \in [1 .. n -> Attestations]
  BY DEF IdLists
<1>2. n \in Nat /\ DOMAIN ids = 1 .. n /\ Len(ids) = n
  BY <1>1, PassportsAssumption
<1>3. IsFiniteSet(1 .. n) /\ Cardinality(1 .. n) = n
  BY <1>2, FS_Interval
<1>4. ids \in Surjection(1 .. n, ToSet(ids))
  BY <1>1 DEF Surjection, ToSet
<1>5. /\ IsFiniteSet(ToSet(ids)) /\ Cardinality(ToSet(ids)) <= n
      /\ Cardinality(ToSet(ids)) = n <=> ids \in Injection(1 .. n, ToSet(ids))
  BY <1>3, <1>4, FS_Surjection
<1>6. /\ IsFiniteSet(S) /\ Cardinality(S) <= Cardinality(ToSet(ids))
      /\ Cardinality(ToSet(ids)) = Cardinality(S) => ToSet(ids) = S
  BY <1>5, FS_Subset
<1>7. Cardinality(ToSet(ids)) = n
  BY <1>2, <1>5, <1>6, FS_CardinalityType
<1> QED
  BY <1>2, <1>5, <1>6, <1>7 DEF Injection, IsInjective

\* What a call has checked stays true while rows endure and tables grow.
LEMMA ChecksEndure ==
  ASSUME PInv, IInv', [AttNext]_attVars, NEW c \in Calls,
         call'[c] = call[c],
         \A p \in Passports : passports[p] \in Users => passports'[p] = passports[p],
         links \subseteq links'
  PROVE  /\ call'[c].op = "create" => CreateChecked(c)'
         /\ call'[c].op = "add" => AddChecked(c)'
<1> USE DEF PInv
<1>1. \A a \in Attestations, u \in Users : Backed(a, u) => Backed(a, u)'
  BY RowsEndure DEF Backed
<1>5. CASE call[c].op = "create"
  <2>1. CreateChecked(c)
    BY <1>5 DEF CallsChecked
  <2>2. /\ call[c].user \in Users
        /\ call[c].pc \in {"link", "ok"} => call[c].passport \in Passports
        /\ \A i \in DOMAIN call[c].ids : call[c].ids[i] \in Attestations
    BY <1>5, CallKinds DEF Creations, IdLists
  <2> QED
    BY <1>1, <1>5, <2>1, <2>2 DEF CreateChecked
<1>6. CASE call[c].op = "add"
  <2>1. AddChecked(c)
    BY <1>6 DEF CallsChecked
  <2>2. /\ call[c].user \in Users /\ call[c].passport \in Passports
        /\ call[c].id \in Attestations
    BY <1>6, CallKinds DEF Additions
  <2> QED
    BY <1>1, <1>6, <2>1, <2>2 DEF AddChecked
<1> QED
  BY <1>5, <1>6

\* The links that exist stay backed.
LEMMA LinksEndure ==
  ASSUME PInv, [AttNext]_attVars,
         \A p \in Passports : passports[p] \in Users => passports'[p] = passports[p]
  PROVE  \A l \in links : /\ HasTx(l[2])' /\ l[2] \in ledger'
                          /\ attestations'[l[2]].owner = passports'[l[1]]
<1> SUFFICES ASSUME NEW l \in links
             PROVE  /\ HasTx(l[2])' /\ l[2] \in ledger'
                    /\ attestations'[l[2]].owner = passports'[l[1]]
  OBVIOUS
<1>1. /\ l[1] \in Passports /\ l[2] \in Attestations
      /\ HasTx(l[2]) /\ attestations[l[2]].owner = passports[l[1]]
  BY DEF PInv, TypeOK, LinkedIsOnLedger
<1>2. attestations[l[2]] \in Rows
  BY <1>1, RowType DEF PInv, IInv, HasTx
<1>3. passports[l[1]] \in Users
  BY <1>1, <1>2 DEF Rows
<1>4. IInv'
  BY Inductive DEF PInv
<1>5. HasTx(l[2])' /\ attestations'[l[2]].owner = attestations[l[2]].owner
  BY <1>1, RowsEndure DEF PInv
<1> QED
  BY <1>1, <1>3, <1>4, <1>5 DEF IInv, TxIsOnLedger

\* The tables and the calls keep their shapes.
LEMMA PassportTypes ==
  ASSUME TypeOK, [Next]_vars
  PROVE  TypeOK'
<1> USE PassportsAssumption DEF TypeOK
<1>1. ASSUME NEW c \in Calls, NEW r \in Call, call' = [call EXCEPT ![c] = r]
      PROVE  call' \in [Calls -> Call]
  BY <1>1
<1>2. ASSUME NEW c \in Calls, End(c) PROVE call' \in [Calls -> Call]
  BY <1>2 DEF End, Call
<1>3. ASSUME NEW c \in Calls, NEW op, NEW from, NEW to, At(c, op, from), Become(c, to),
             \/ op = "create" /\ from = "check" /\ to = "insert"
             \/ op = "create" /\ from = "link" /\ to = "ok"
             \/ op = "add" /\ from = "check" /\ to = "read"
             \/ op = "add" /\ from = "read" /\ to = "link"
             \/ op = "verify" /\ to \in {"read", "ok"}
      PROVE  call' \in [Calls -> Call]
  <2> DEFINE r == [call[c] EXCEPT !.pc = to]
  <2>1. CASE op = "create"
    <3>1. call[c] \in Creations /\ call[c].pc = from
      BY <1>3, <2>1, CallKinds DEF At
    <3>2. r \in Creations
      BY <1>3, <2>1, <3>1 DEF Creations
    <3> QED
      BY <1>1, <1>3, <3>2 DEF Become, Call
  <2>2. CASE op = "add"
    <3>1. call[c] \in Additions
      BY <1>3, <2>2, CallKinds DEF At
    <3>2. r \in Additions
      BY <1>3, <2>2, <3>1 DEF Additions
    <3> QED
      BY <1>1, <1>3, <3>2 DEF Become, Call
  <2>3. CASE op = "verify"
    <3>1. call[c] \in Verifications
      BY <1>3, <2>3, CallKinds DEF At
    <3>2. r \in Verifications
      BY <1>3, <2>3, <3>1 DEF Verifications
    <3> QED
      BY <1>1, <1>3, <3>2 DEF Become, Call
  <2> QED
    BY <1>3, <2>1, <2>2, <2>3
<1>4. ASSUME NEW c \in Calls, NEW u \in Users, NEW ids \in IdLists, StartCreate(c, u, ids)
      PROVE  TypeOK'
  <2> DEFINE r == [op |-> "create", pc |-> "check", user |-> u, ids |-> ids,
                   passport |-> Absent, next |-> 1]
  <2>1. r \in Call
    BY DEF Call, Creations
  <2> QED
    BY <1>1, <1>4, <2>1 DEF StartCreate, Start
<1>5. ASSUME NEW c \in Calls, NEW u \in Users, NEW p \in Passports, NEW a \in Attestations,
             StartAdd(c, u, p, a)
      PROVE  TypeOK'
  <2> DEFINE r == [op |-> "add", pc |-> "check", user |-> u, passport |-> p, id |-> a]
  <2>1. r \in Call
    BY DEF Call, Additions
  <2> QED
    BY <1>1, <1>5, <2>1 DEF StartAdd, Start
<1>6. ASSUME NEW c \in Calls, NEW p \in Passports, StartVerify(c, p)
      PROVE  TypeOK'
  <2> DEFINE r == [op |-> "verify", pc |-> "check", passport |-> p, unread |-> {}, valid |-> TRUE]
  <2>1. r \in Call
    BY DEF Call, Verifications
  <2> QED
    BY <1>1, <1>6, <2>1 DEF StartVerify, Start
<1>7. ASSUME NEW c \in Calls, CheckAttestations(c) PROVE TypeOK'
  BY <1>2, <1>3, <1>7 DEF CheckAttestations
<1>8. ASSUME NEW c \in Calls, InsertPassport(c) PROVE TypeOK'
  <2>0. call[c] \in Creations
    BY <1>8, CallKinds DEF InsertPassport, At
  <2>1. CASE End(c)
    BY <1>2, <1>8, <2>0, <2>1 DEF InsertPassport, Free, Creations
  <2>2. ASSUME NEW p \in Free, passports' = [passports EXCEPT ![p] = call[c].user],
               call' = [call EXCEPT ![c].pc = "link", ![c].passport = p]
        PROVE  TypeOK'
    <3>1. [call[c] EXCEPT !.pc = "link", !.passport = p] \in Creations
      BY <2>0 DEF Free, Creations
    <3>2. call' = [call EXCEPT ![c] = [call[c] EXCEPT !.pc = "link", !.passport = p]]
      BY <2>2
    <3>3. call' \in [Calls -> Call]
      BY <1>1, <3>1, <3>2 DEF Call
    <3>4. passports' \in [Passports -> Users \cup {Absent}]
      BY <2>0, <2>2 DEF Creations
    <3> QED
      BY <1>8, <3>3, <3>4 DEF InsertPassport
  <2> QED
    BY <1>8, <2>1, <2>2 DEF InsertPassport
<1>9. ASSUME NEW c \in Calls, InsertLink(c) PROVE TypeOK'
  <2>0. call[c] \in Creations /\ call[c].pc = "link" /\ call[c].passport \in Passports
    BY <1>9, CallKinds DEF InsertLink, At, Creations
  <2>1. CASE UNCHANGED links /\ (Become(c, "ok") \/ End(c))
    BY <1>2, <1>3, <1>9, <2>1 DEF InsertLink
  <2>2. CASE /\ ~AllLinked(c)
             /\ links' = links \cup {<<call[c].passport, call[c].ids[call[c].next]>>}
             /\ call' = [call EXCEPT ![c].next = call[c].next + 1] \/ End(c)
    <3>1. PICK n \in 1 .. MaxLinks : call[c].ids \in [1 .. n -> Attestations]
      BY <2>0 DEF Creations, IdLists
    <3>2. Len(call[c].ids) = n /\ call[c].next \in 1 .. MaxLinks + 1
      BY <2>0, <3>1 DEF Creations
    <3>3. call[c].next \in 1 .. n /\ call[c].next + 1 \in 1 .. MaxLinks + 1
      BY <2>2, <3>2 DEF AllLinked
    <3>4. call[c].ids[call[c].next] \in Attestations
      BY <3>1, <3>3
    <3>5. [call[c] EXCEPT !.next = call[c].next + 1] \in Creations
      BY <2>0, <3>3 DEF Creations
    <3>6. call' \in [Calls -> Call]
      BY <1>2, <2>2, <3>5 DEF Call
    <3> QED
      BY <1>9, <2>0, <2>2, <3>4, <3>6 DEF InsertLink
  <2> QED
    BY <1>9, <2>1, <2>2 DEF InsertLink
<1>10. ASSUME NEW c \in Calls, CheckPassportOwner(c) \/ CheckAddedAttestation(c)
       PROVE  TypeOK'
  BY <1>2, <1>3, <1>10 DEF CheckPassportOwner, CheckAddedAttestation
<1>11. ASSUME NEW c \in Calls, AddLink(c) PROVE TypeOK'
  <2>1. <<call[c].passport, call[c].id>> \in Passports \X Attestations
    BY <1>11, CallKinds DEF AddLink, At, Additions
  <2> QED
    BY <1>2, <1>11, <2>1 DEF AddLink
<1>12. ASSUME NEW c \in Calls, ReadPassport(c) PROVE TypeOK'
  BY <1>2, <1>3, <1>12 DEF ReadPassport
<1>13. ASSUME NEW c \in Calls, ReadLinks(c) PROVE TypeOK'
  <2> DEFINE r == [call[c] EXCEPT !.pc = "verdict", !.unread = LinksOf(call[c].passport)]
  <2>1. call[c] \in Verifications
    BY <1>13, CallKinds DEF ReadLinks, At
  <2>2. r \in Call
    BY <2>1 DEF LinksOf, Call, Verifications
  <2>3. call' = [call EXCEPT ![c] = r]
    BY <1>13 DEF ReadLinks
  <2> QED
    BY <1>1, <1>13, <2>2, <2>3 DEF ReadLinks
<1>14. ASSUME NEW c \in Calls, VerifyLink(c) PROVE TypeOK'
  <2>0. call[c] \in Verifications
    BY <1>14, CallKinds DEF VerifyLink, At
  <2>1. CASE Become(c, "ok")
    BY <1>3, <1>14, <2>1 DEF VerifyLink
  <2>2. ASSUME NEW a \in call[c].unread, NEW b \in BOOLEAN,
               call' = [call EXCEPT ![c].unread = @ \ {a}, ![c].valid = b]
        PROVE  TypeOK'
    <3> DEFINE r == [call[c] EXCEPT !.unread = call[c].unread \ {a}, !.valid = b]
    <3>1. r \in Call
      BY <2>0 DEF Call, Verifications
    <3>2. call' = [call EXCEPT ![c] = r]
      BY <2>2
    <3> QED
      BY <1>1, <1>14, <3>1, <3>2 DEF VerifyLink
  <2> QED
    BY <1>14, <2>1, <2>2 DEF VerifyLink
<1>15. CASE Restart
  BY <1>15 DEF Restart, Call
<1>16. ASSUME NEW c \in Calls, SelectFails(c) PROVE TypeOK'
  BY <1>2, <1>16 DEF SelectFails
<1> QED
  BY <1>4, <1>5, <1>6, <1>7, <1>8, <1>9, <1>10, <1>11, <1>12, <1>13, <1>14, <1>15, <1>16
     DEF Next, Serve, vars, passVars

\* A step of one call keeps the invariant when its new links are backed by the
\* passport's owner and the call itself stays checked.
LEMMA OneCallStep ==
  ASSUME PInv, [Next]_vars, NEW c \in Calls,
         \A d \in Calls \ {c} : call'[d] = call[d],
         \A p \in Passports : passports[p] \in Users => passports'[p] = passports[p],
         links \subseteq links',
         \A l \in links' \ links : /\ l[1] \in Passports /\ l[2] \in Attestations
                                   /\ passports[l[1]] \in Users
                                   /\ Backed(l[2], passports[l[1]]),
         call'[c].op = "create" => CreateChecked(c)',
         call'[c].op = "add" => AddChecked(c)'
  PROVE  PInv'
<1>1. [AttNext]_attVars /\ IInv'
  BY AttStep, Inductive DEF PInv
<1>2. TypeOK'
  BY PassportTypes DEF PInv
<1>3. CallsChecked'
  BY <1>1, ChecksEndure DEF CallsChecked
<1>4. ASSUME NEW l \in links'
      PROVE  /\ HasTx(l[2])' /\ l[2] \in ledger'
             /\ attestations'[l[2]].owner = passports'[l[1]]
  <2>1. CASE l \in links
    BY <1>1, <2>1, LinksEndure
  <2>2. CASE l \notin links
    <3>1. HasTx(l[2])' /\ attestations'[l[2]].owner = passports[l[1]] /\ l[2] \in Attestations
      BY <1>1, <2>2, RowsEndure DEF Backed, PInv
    <3>2. passports'[l[1]] = passports[l[1]]
      BY <2>2
    <3> QED
      BY <1>1, <3>1, <3>2 DEF IInv, TxIsOnLedger
  <2> QED
    BY <2>1, <2>2
<1>5. LinkedIsOnLedger'
  BY <1>4 DEF LinkedIsOnLedger
<1> QED
  BY <1>1, <1>2, <1>3, <1>5 DEF PInv

\* The attestation a creation links next is one it has checked.
LEMMA NextLinkBacked ==
  ASSUME PInv, NEW c \in Calls, At(c, "create", "link"), ~AllLinked(c)
  PROVE  /\ call[c].next \in DOMAIN call[c].ids
         /\ call[c].ids[call[c].next] \in Attestations
         /\ call[c].passport \in Passports
         /\ passports[call[c].passport] = call[c].user /\ call[c].user \in Users
         /\ Backed(call[c].ids[call[c].next], call[c].user)
<1>1. /\ call[c].passport \in Passports /\ call[c].user \in Users
      /\ call[c].ids \in IdLists /\ call[c].next \in 1 .. MaxLinks + 1
  BY CallKinds DEF PInv, Creations, At
<1>2. PICK n \in 1 .. MaxLinks : call[c].ids \in [1 .. n -> Attestations]
  BY <1>1 DEF IdLists
<1>3. Len(call[c].ids) = n /\ DOMAIN call[c].ids = 1 .. n
  BY <1>2, PassportsAssumption
<1>4. call[c].next \in 1 .. n
  BY <1>1, <1>3, PassportsAssumption DEF AllLinked
<1>5. CreateChecked(c) /\ call[c].pc = "link"
  BY DEF PInv, CallsChecked, At
<1> QED
  BY <1>1, <1>2, <1>3, <1>4, <1>5 DEF CreateChecked

\* createProductPassport's check and its INSERT statements.
LEMMA CreateSteps ==
  ASSUME PInv, NEW c \in Calls, CheckAttestations(c) \/ InsertPassport(c) \/ InsertLink(c)
  PROVE  PInv'
<1> DEFINE ids == call[c].ids
           u   == call[c].user
           p   == call[c].passport
<1>1. [Next]_vars
  BY DEF Next, Serve
<1>2. /\ call[c] \in Creations /\ call[c].op = "create" /\ ids \in IdLists /\ u \in Users
      /\ call[c].pc = "link" => p \in Passports
      /\ call[c].next \in 1 .. MaxLinks + 1
  BY CallKinds DEF PInv, Creations, CheckAttestations, InsertPassport, InsertLink, At
<1>3. CreateChecked(c) /\ UNCHANGED attVars
  BY <1>2 DEF PInv, CallsChecked, CheckAttestations, InsertPassport, InsertLink
<1>4. \A a, v : Backed(a, v)' <=> Backed(a, v)
  BY <1>3 DEF Backed, HasTx, Exists, attVars
<1>5. \A d \in Calls \ {c} : call'[d] = call[d]
  BY DEF CheckAttestations, InsertPassport, InsertLink, Become, End, PInv, TypeOK
<1>6. ASSUME End(c), \A q \in Passports : passports[q] \in Users => passports'[q] = passports[q],
             \/ UNCHANGED links
             \/ /\ call[c].pc = "link" /\ ~AllLinked(c)
                /\ links' = links \cup {<<p, ids[call[c].next]>>}
      PROVE  PInv'
  <2>1. call'[c].op = "none"
    BY <1>6 DEF End, NoCall, PInv, TypeOK
  <2>2. CASE UNCHANGED links
    BY <1>1, <1>5, <1>6, <2>1, <2>2, OneCallStep
  <2>3. CASE /\ call[c].pc = "link" /\ ~AllLinked(c)
             /\ links' = links \cup {<<p, ids[call[c].next]>>}
    <3>1. /\ p \in Passports /\ ids[call[c].next] \in Attestations
          /\ passports[p] \in Users /\ Backed(ids[call[c].next], passports[p])
      BY <1>2, <2>3, NextLinkBacked DEF At
    <3>2. \A l \in links' \ links : l = <<p, ids[call[c].next]>>
      BY <2>3
    <3> QED
      BY <1>1, <1>5, <1>6, <2>1, <2>3, <3>1, <3>2, OneCallStep
  <2> QED
    BY <1>6, <2>2, <2>3
<1>7. CASE /\ call[c].pc = "check" /\ Become(c, "insert") /\ UNCHANGED <<passports, links>>
           /\ Cardinality(AnchoredOf(u, ids)) = Len(ids)
  <2>1. call'[c] = [call[c] EXCEPT !.pc = "insert"]
    BY <1>7 DEF Become, PInv, TypeOK
  <2>2. /\ call'[c].pc = "insert" /\ call'[c].op = "create" /\ call'[c].ids = ids
        /\ call'[c].user = u /\ call'[c].next = call[c].next
    BY <1>2, <2>1 DEF Creations
  <2>3. AnchoredOf(u, ids) \in SUBSET ToSet(ids)
    BY DEF AnchoredOf
  <2>4. AnchoredOf(u, ids) = ToSet(ids) /\ IsInjective(ids)
    BY <1>2, <1>7, <2>3, AsManyRowsAsIds
  <2>5. \A i \in DOMAIN ids : ids[i] \in Attestations
    BY <1>2 DEF IdLists
  <2>6. \A i \in DOMAIN ids : Anchored(ids[i]) /\ attestations[ids[i]].owner = u
    BY <2>4 DEF AnchoredOf, ToSet
  <2>7. \A i \in DOMAIN ids : Backed(ids[i], u)
    BY <2>5, <2>6 DEF Backed, PInv, IInv, TxIsOnLedger
  <2>8. CreateChecked(c)'
    BY <1>3, <1>4, <1>7, <2>2, <2>4, <2>7 DEF CreateChecked
  <2> QED
    BY <1>1, <1>5, <1>7, <2>2, <2>8, OneCallStep
<1>8. ASSUME NEW q \in Free, call[c].pc = "insert",
             passports' = [passports EXCEPT ![q] = u], UNCHANGED links,
             \/ call' = [call EXCEPT ![c].pc = "link", ![c].passport = q]
             \/ End(c)
      PROVE  PInv'
  <2>1. passports[q] = Absent /\ passports'[q] = u
    BY <1>8 DEF Free, PInv, TypeOK
  <2>2. \A o \in Passports : passports[o] \in Users => passports'[o] = passports[o]
    BY <1>8, <2>1, PassportsAssumption DEF PInv, TypeOK
  <2>3. CASE End(c)
    BY <1>6, <1>8, <2>2, <2>3
  <2>4. CASE call' = [call EXCEPT ![c].pc = "link", ![c].passport = q]
    <3>1. call'[c] = [call[c] EXCEPT !.pc = "link", !.passport = q]
      BY <2>4 DEF PInv, TypeOK
    <3>2. /\ call'[c].pc = "link" /\ call'[c].op = "create" /\ call'[c].ids = ids
          /\ call'[c].user = u /\ call'[c].passport = q /\ call'[c].next = call[c].next
      BY <1>2, <3>1 DEF Creations
    <3>3. call[c].next = 1 /\ \A i \in DOMAIN ids : i \in Nat /\ ~(i < 1)
      BY <1>2, <1>3, <1>8 DEF CreateChecked, IdLists
    <3>4. \A i \in DOMAIN ids : Backed(ids[i], u)'
      BY <1>3, <1>4, <1>8, <3>2 DEF CreateChecked
    <3>5. IsInjective(ids)
      BY <1>3, <1>8 DEF CreateChecked
    <3>6. CreateChecked(c)'
      BY <2>1, <3>2, <3>3, <3>4, <3>5 DEF CreateChecked
    <3> QED
      BY <1>1, <1>5, <1>8, <2>2, <3>2, <3>6, OneCallStep
  <2> QED
    BY <1>8, <2>3, <2>4
<1>9. CASE /\ call[c].pc = "link" /\ AllLinked(c)
           /\ Become(c, "ok") /\ UNCHANGED <<passports, links>>
  <2>1. call'[c] = [call[c] EXCEPT !.pc = "ok"]
    BY <1>9 DEF Become, PInv, TypeOK
  <2>2. /\ call'[c].pc = "ok" /\ call'[c].op = "create" /\ call'[c].ids = ids
        /\ call'[c].user = u /\ call'[c].passport = p
    BY <1>2, <2>1 DEF Creations
  <2>3. \A i \in DOMAIN ids : i < call[c].next
    <3>1. PICK n \in 1 .. MaxLinks : ids \in [1 .. n -> Attestations]
      BY <1>2 DEF IdLists
    <3>2. Len(ids) = n /\ DOMAIN ids = 1 .. n
      BY <3>1, PassportsAssumption
    <3> QED
      BY <1>2, <1>9, <3>2, PassportsAssumption DEF AllLinked
  <2>4. CreateChecked(c)'
    BY <1>3, <1>4, <1>9, <2>2, <2>3 DEF CreateChecked
  <2> QED
    BY <1>1, <1>5, <1>9, <2>2, <2>4, OneCallStep
<1>10. CASE /\ call[c].pc = "link" /\ ~AllLinked(c)
            /\ links' = links \cup {<<p, ids[call[c].next]>>}
            /\ call' = [call EXCEPT ![c].next = call[c].next + 1]
            /\ UNCHANGED passports
  <2>1. call'[c] = [call[c] EXCEPT !.next = call[c].next + 1]
    BY <1>10 DEF PInv, TypeOK
  <2>2. /\ call'[c].pc = "link" /\ call'[c].op = "create" /\ call'[c].ids = ids
        /\ call'[c].user = u /\ call'[c].passport = p /\ call'[c].next = call[c].next + 1
    BY <1>2, <1>10, <2>1 DEF Creations
  <2>3. /\ call[c].next \in DOMAIN ids /\ ids[call[c].next] \in Attestations
        /\ p \in Passports /\ passports[p] = u /\ Backed(ids[call[c].next], u)
    BY <1>2, <1>10, NextLinkBacked DEF At
  <2>4. \A i \in DOMAIN ids : i \in Nat
    BY <1>2 DEF IdLists
  <2>5. \A i \in DOMAIN ids : i < call[c].next + 1 => <<p, ids[i]>> \in links'
    <3>1. \A i \in DOMAIN ids : i < call[c].next => <<p, ids[i]>> \in links
      BY <1>3, <1>10 DEF CreateChecked
    <3>2. \A i \in DOMAIN ids : i < call[c].next + 1 => i < call[c].next \/ i = call[c].next
      BY <2>3, <2>4
    <3> QED
      BY <1>10, <3>1, <3>2
  <2>6. CreateChecked(c)'
    <3>1. \A i \in DOMAIN ids : Backed(ids[i], u)'
      BY <1>3, <1>4, <1>10 DEF CreateChecked
    <3>2. IsInjective(ids)
      BY <1>3, <1>10 DEF CreateChecked
    <3> QED
      BY <1>10, <2>2, <2>3, <2>5, <3>1, <3>2 DEF CreateChecked
  <2>7. \A l \in links' \ links : l = <<p, ids[call[c].next]>>
    BY <1>10
  <2> QED
    BY <1>1, <1>2, <1>5, <1>10, <2>2, <2>3, <2>6, <2>7, OneCallStep
<1>11. CASE CheckAttestations(c)
  BY <1>6, <1>7, <1>11 DEF CheckAttestations, At
<1>12. CASE InsertPassport(c)
  BY <1>6, <1>8, <1>12 DEF InsertPassport, At
<1>13. CASE InsertLink(c)
  BY <1>6, <1>9, <1>10, <1>13 DEF InsertLink, At
<1> QED
  BY <1>11, <1>12, <1>13

\* addAttestationToPassport: the two checks and the INSERT.
LEMMA AddSteps ==
  ASSUME PInv, NEW c \in Calls, CheckPassportOwner(c) \/ CheckAddedAttestation(c) \/ AddLink(c)
  PROVE  PInv'
<1> DEFINE a == call[c].id
           u == call[c].user
           p == call[c].passport
<1>1. [Next]_vars
  BY DEF Next, Serve
<1>2. /\ call[c] \in Additions /\ call[c].op = "add" /\ a \in Attestations /\ u \in Users
      /\ p \in Passports /\ UNCHANGED attVars /\ UNCHANGED passports
  BY CallKinds DEF PInv, Additions, CheckPassportOwner, CheckAddedAttestation, AddLink, At
<1>3. AddChecked(c)
  BY <1>2 DEF PInv, CallsChecked
<1>4. \A b, v : Backed(b, v)' <=> Backed(b, v)
  BY <1>2 DEF Backed, HasTx, Exists, attVars
<1>5. \A d \in Calls \ {c} : call'[d] = call[d]
  BY DEF CheckPassportOwner, CheckAddedAttestation, AddLink, Become, End, PInv, TypeOK
<1>6. End(c) => call'[c].op = "none"
  BY DEF End, NoCall, PInv, TypeOK
<1>7. ASSUME NEW pc, Become(c, pc)
      PROVE  /\ call'[c].pc = pc /\ call'[c].op = "add" /\ call'[c].id = a
             /\ call'[c].user = u /\ call'[c].passport = p
  BY <1>2, <1>7 DEF Become, PInv, TypeOK, Additions
<1>8. CASE UNCHANGED links /\ End(c)
  BY <1>1, <1>2, <1>5, <1>6, <1>8, OneCallStep
<1>9. ASSUME UNCHANGED links, NEW pc \in {"read", "link"}, Become(c, pc),
             passports[p] = u, pc = "link" => Backed(a, u)
      PROVE  PInv'
  <2>1. AddChecked(c)'
    BY <1>2, <1>4, <1>7, <1>9 DEF AddChecked
  <2> QED
    BY <1>1, <1>2, <1>5, <1>7, <1>9, <2>1, OneCallStep
<1>10. CASE CheckPassportOwner(c)
  BY <1>8, <1>9, <1>10 DEF CheckPassportOwner
<1>11. CASE CheckAddedAttestation(c)
  <2>1. passports[p] = u
    BY <1>3, <1>11 DEF AddChecked, CheckAddedAttestation, At
  <2>2. a \in AnchoredOf(u, <<a>>) => Backed(a, u)
    BY <1>2 DEF AnchoredOf, Backed, PInv, IInv, TxIsOnLedger
  <2> QED
    BY <1>8, <1>9, <1>11, <2>1, <2>2 DEF CheckAddedAttestation
<1>12. CASE AddLink(c)
  <2>1. CASE UNCHANGED links
    BY <1>8, <1>12, <2>1 DEF AddLink
  <2>2. CASE links' = links \cup {<<p, a>>}
    <3>1. passports[p] = u /\ Backed(a, u) /\ End(c)
      BY <1>3, <1>12 DEF AddChecked, AddLink, At
    <3>2. \A l \in links' \ links : l = <<p, a>>
      BY <2>2
    <3> QED
      BY <1>1, <1>2, <1>5, <1>6, <2>2, <3>1, <3>2, OneCallStep
  <2> QED
    BY <1>12, <2>1, <2>2 DEF AddLink
<1> QED
  BY <1>10, <1>11, <1>12

\* Steps that write neither table: the start of a call, its reads, a restart of
\* the process, and the steps of the attestation service.
LEMMA QuietSteps ==
  ASSUME PInv, [Next]_vars, UNCHANGED <<passports, links>>,
         \A c \in Calls : \/ call'[c] = call[c]
                          \/ call'[c].op \in {"none", "verify"}
                          \/ call'[c].op = "create" /\ call'[c].pc = "check" /\ call'[c].next = 1
                          \/ call'[c].op = "add" /\ call'[c].pc = "check"
  PROVE  PInv'
<1>1. [AttNext]_attVars /\ IInv'
  BY AttStep, Inductive DEF PInv
<1>2. TypeOK'
  BY PassportTypes DEF PInv
<1>3. LinkedIsOnLedger'
  BY <1>1, LinksEndure DEF LinkedIsOnLedger
<1>4. ASSUME NEW c \in Calls
      PROVE  /\ call'[c].op = "create" => CreateChecked(c)'
             /\ call'[c].op = "add" => AddChecked(c)'
  <2>1. CASE call'[c] = call[c]
    BY <1>1, <2>1, ChecksEndure
  <2>2. CASE call'[c].op = "create" /\ call'[c].pc = "check" /\ call'[c].next = 1
    BY <2>2 DEF CreateChecked
  <2>3. CASE call'[c].op = "add" /\ call'[c].pc = "check"
    BY <2>3 DEF AddChecked
  <2>4. CASE call'[c].op \in {"none", "verify"}
    BY <2>4
  <2> QED
    BY <2>1, <2>2, <2>3, <2>4
<1> QED
  BY <1>1, <1>2, <1>3, <1>4 DEF PInv, CallsChecked

\* PInv is inductive.
LEMMA PInductive == PInv /\ [Next]_vars => PInv'
<1> SUFFICES ASSUME PInv, [Next]_vars PROVE PInv'
  OBVIOUS
<1>1. ASSUME NEW c \in Calls, NEW r, Start(c, r),
             \/ r.op = "verify"
             \/ r.op = "create" /\ r.pc = "check" /\ r.next = 1
             \/ r.op = "add" /\ r.pc = "check"
      PROVE  PInv'
  <2>1. call'[c] = r /\ \A d \in Calls \ {c} : call'[d] = call[d]
    BY <1>1 DEF Start, PInv, TypeOK
  <2>2. UNCHANGED <<passports, links>>
    BY <1>1 DEF Start
  <2> QED
    BY <1>1, <2>1, <2>2, QuietSteps
<1>2. ASSUME NEW c \in Calls, ReadPassport(c) \/ ReadLinks(c) \/ VerifyLink(c)
      PROVE  PInv'
  <2>1. call[c] \in Verifications /\ call[c].op = "verify" /\ UNCHANGED <<passports, links>>
    BY <1>2, CallKinds DEF ReadPassport, ReadLinks, VerifyLink, At, PInv
  <2>2. call'[c].op \in {"none", "verify"}
    <3>1. ASSUME NEW pc, Become(c, pc) PROVE call'[c].op = "verify"
      BY <2>1, <3>1 DEF Become, PInv, TypeOK, Verifications
    <3>2. CASE ReadLinks(c)
      BY <2>1, <3>2 DEF ReadLinks, PInv, TypeOK, Verifications
    <3>3. ASSUME NEW S, NEW b, call' = [call EXCEPT ![c].unread = S, ![c].valid = b]
          PROVE  call'[c].op = "verify"
      BY <2>1, <3>3 DEF PInv, TypeOK, Verifications
    <3>4. CASE End(c)
      BY <3>4 DEF End, NoCall, PInv, TypeOK
    <3> QED
      BY <1>2, <3>1, <3>2, <3>3, <3>4 DEF ReadPassport, VerifyLink
  <2>3. \A d \in Calls \ {c} : call'[d] = call[d]
    BY <1>2 DEF ReadPassport, ReadLinks, VerifyLink, Become, End, PInv, TypeOK
  <2> QED
    BY <2>1, <2>2, <2>3, QuietSteps
<1>3. CASE Restart
  <2>1. \A c \in Calls : call'[c] = call[c] \/ call'[c].op = "none"
    BY <1>3 DEF Restart, NoCall
  <2> QED
    BY <1>3, <2>1, QuietSteps DEF Restart
<1>4. CASE UNCHANGED passVars
  BY <1>4, QuietSteps DEF passVars
<1>5. ASSUME NEW c \in Calls, NEW u \in Users, NEW ids \in IdLists, StartCreate(c, u, ids)
      PROVE  PInv'
  BY <1>1, <1>5 DEF StartCreate
<1>6. ASSUME NEW c \in Calls, NEW u \in Users, NEW p \in Passports, NEW a \in Attestations,
             StartAdd(c, u, p, a)
      PROVE  PInv'
  BY <1>1, <1>6 DEF StartAdd
<1>7. ASSUME NEW c \in Calls, NEW p \in Passports, StartVerify(c, p)
      PROVE  PInv'
  BY <1>1, <1>7 DEF StartVerify
<1>8. ASSUME NEW c \in Calls, SelectFails(c)
      PROVE  PInv'
  <2>1. call'[c].op = "none" /\ \A d \in Calls \ {c} : call'[d] = call[d]
    BY <1>8 DEF SelectFails, End, NoCall, PInv, TypeOK
  <2> QED
    BY <1>8, <2>1, QuietSteps DEF SelectFails
<1> QED
  BY <1>2, <1>3, <1>4, <1>5, <1>6, <1>7, <1>8, CreateSteps, AddSteps
     DEF Next, Serve, vars, passVars

\* The empty tables satisfy the invariant.
LEMMA PInit == Init => PInv
<1> SUFFICES ASSUME Init PROVE PInv
  OBVIOUS
<1>1. IInv
  BY InitInv DEF Init
<1>2. TypeOK
  BY DEF Init, TypeOK, Call
<1>3. LinkedIsOnLedger
  BY DEF Init, LinkedIsOnLedger
<1>4. CallsChecked
  BY DEF Init, CallsChecked, NoCall
<1> QED
  BY <1>1, <1>2, <1>3, <1>4 DEF PInv

\* PInv holds in every reachable state.
THEOREM PassportInvariance == Spec => []PInv
  BY PInit, PInductive, PTL DEF Spec

-----------------------------------------------------------------------------
\* The passport tables and calls keep their shapes.
THEOREM PassportTypeCorrect == Spec => []TypeOK
<1>1. PInv => TypeOK
  BY DEF PInv
<1> QED
  BY <1>1, PassportInvariance, PTL

\* Every aggregated attestation has its transaction on the ledger and belongs to
\* the passport's owner.
THEOREM LinkedOnLedger == Spec => []LinkedIsOnLedger
<1>1. PInv => LinkedIsOnLedger
  BY DEF PInv
<1> QED
  BY <1>1, PassportInvariance, PTL

\* A creation that reported success has linked all it was given.
THEOREM CreatedComplete == Spec => []CreatedIsComplete
<1>1. PInv => CreatedIsComplete
  <2> SUFFICES ASSUME PInv, NEW c \in Calls, At(c, "create", "ok")
               PROVE  /\ ToSet(call[c].ids) \subseteq LinksOf(call[c].passport)
                      /\ IsInjective(call[c].ids)
    BY DEF CreatedIsComplete
  <2>1. CreateChecked(c) /\ call[c].pc = "ok"
    BY DEF PInv, CallsChecked, At
  <2>2. /\ IsInjective(call[c].ids)
        /\ \A i \in DOMAIN call[c].ids : <<call[c].passport, call[c].ids[i]>> \in links
    BY <2>1 DEF CreateChecked
  <2>3. \A i \in DOMAIN call[c].ids : call[c].ids[i] \in Attestations
    BY CallKinds DEF PInv, At, Creations, IdLists
  <2> QED
    BY <2>2, <2>3 DEF ToSet, LinksOf
<1> QED
  BY <1>1, PassportInvariance, PTL

=============================================================================
