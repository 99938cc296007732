------------------------------ MODULE Anchoring ------------------------------
(***************************************************************************)
(* The blockchain routes and what is behind them (modules/blockchain of    *)
(* apps/api/src, packages/blockchain, and StellarClient of                 *)
(* packages/stellar-sdk, which does what StellarProvider does): the        *)
(* manager, made at the first call from the configuration, the providers,  *)
(* and the ledgers they talk to, which are external.                       *)
(*                                                                         *)
(* One step is one round trip to a ledger.  An anchoring reads the         *)
(* account's sequence number, then submits a transaction with the next     *)
(* one, then waits; all the anchorings of a network use one account.       *)
(* OptimismProvider and ArbitrumProvider are the same code.                *)
(***************************************************************************)
EXTENDS Naturals, Sequences, FiniteSets, SequencesExt

CONSTANTS
    Stellar, Evm,     \* networks of either kind
    Configurations,   \* networks with a key, in the order getBlockchainManager adds them
    DefaultNetwork,   \* config.blockchain.defaultNetwork
    Hashes,           \* data hashes
    Anchorers,        \* calls of the two anchoring routes
    Askers,           \* calls of the routes that read
    MaxOps,           \* hashes that fit one Stellar transaction: 100
    HashMemoTaken,    \* whether Memo.hash takes the 16 bytes that anchorData passes
    LedgersMayFail,
    MaxSequence,      \* bound on the transactions of an account
    Unset

Networks == Stellar \cup Evm

ASSUME AnchoringAssumption ==
    /\ Stellar \cap Evm = {}
    /\ Configurations \subseteq Seq(Networks)
    /\ HashMemoTaken \in BOOLEAN /\ LedgersMayFail \in BOOLEAN
    /\ MaxOps \in Nat \ {0} /\ MaxSequence \in Nat
    /\ Unset \notin Networks \cup Hashes

\* The bodies that the two anchoring routes accept.
Batches == UNION {[1 .. n -> Hashes] : n \in 1 .. MaxOps + 1}
Singles == {s \in Batches : Len(s) = 1}

Tx == [seq : Nat, data : SUBSET Hashes, memo : Hashes \cup {Unset}]

VARIABLES
    configured,  \* the configuration of this process
    manager,     \* BlockchainManager: its networks in order and the default one
    account,     \* sequence number of the account, by network
    pool,        \* transactions submitted and neither applied nor dropped
    chain,       \* transactions applied, with their success
    anchoring,   \* the calls that anchor
    answered,    \* what successful answers claim: network, transaction, hash, batch
    inquiry      \* the calls that read

anchorVars == <<configured, manager, account, pool, chain, anchoring, answered, inquiry>>

AnchorInit ==
    /\ configured \in Configurations
    /\ manager = Unset
    /\ account = [n \in Networks |-> 0]
    /\ pool = [n \in Networks |-> {}]
    /\ chain = [n \in Networks |-> {}]
    /\ anchoring = [c \in Anchorers |-> Unset]
    /\ answered = {}
    /\ inquiry = [v \in Askers |-> Unset]

-----------------------------------------------------------------------------
(* The manager                                                              *)

addProvider(m, n) ==
    [networks |-> Append(m.networks, n), default |-> IF m.default = Unset THEN n ELSE m.default]

\* Mutant: the default is taken without a look at the networks.
setDefaultUnchecked(m, n) == [m EXCEPT !.default = n]

\* A default that is not among the networks is an error that is only logged.
setDefaultNetwork(m, n) == IF Contains(m.networks, n) THEN [m EXCEPT !.default = n] ELSE m

getBlockchainManager ==
    IF manager # Unset THEN manager
    ELSE setDefaultNetwork(
            FoldLeft(addProvider, [networks |-> <<>>, default |-> Unset], configured),
            DefaultNetwork)

\* The network of the provider, or Unset where getProvider throws.
getProvider(n) ==
    LET m      == getBlockchainManager
        target == IF n = Unset THEN m.default ELSE n
    IN  IF Contains(m.networks, target) THEN target ELSE Unset

UseManager == manager' = getBlockchainManager

-----------------------------------------------------------------------------
(* Anchoring                                                                *)

At(c, pc) == anchoring[c] # Unset /\ anchoring[c].pc = pc

\* The hashes that go into the transaction: a Stellar batch is cut.
Included(n, hashes) ==
    IF n \in Stellar THEN [i \in DOMAIN hashes \cap 1 .. MaxOps |-> hashes[i]] ELSE hashes

\* Mutant: the memo is added to the transaction of a batch.
MemoOfBatch(n, hashes, batch) == IF n \in Stellar /\ batch THEN hashes[1] ELSE Unset

\* A single anchoring on Stellar names its hash in the memo, a batch has none.
MemoOf(n, hashes, batch) == IF n \in Stellar /\ ~batch THEN hashes[1] ELSE Unset

\* anchorData, batchAnchorData: loadAccount, or the nonce that sendTransaction asks for.
\* Without a provider, or when the ledger does not answer, nothing has happened.
LoadAccount(c, n, hashes, batch) ==
    /\ anchoring[c] = Unset
    /\ UseManager
    /\ getProvider(n) \in Networks
    /\ account[getProvider(n)] < MaxSequence
    /\ LET p == getProvider(n)
       IN  anchoring' = [anchoring EXCEPT ![c] =
              [pc |-> "loaded", network |-> p, hashes |-> hashes, batch |-> batch,
               tx |-> [seq |-> account[p] + 1, data |-> ToSet(Included(p, hashes)),
                       memo |-> MemoOf(p, hashes, batch)]]]
    /\ UNCHANGED <<configured, account, pool, chain, answered, inquiry>>

End(c) == anchoring' = [anchoring EXCEPT ![c] = Unset]

Buildable(c) == anchoring[c].tx.memo = Unset \/ HashMemoTaken

\* submitTransaction, or the broadcast: a sequence number that is gone is refused; a
\* transaction that is there already, byte for byte, is the same transaction.
SubmitTransaction(c) ==
    LET a == anchoring[c]
    IN  /\ At(c, "loaded")
        /\ IF Buildable(c) /\ a.tx.seq > account[a.network]
           THEN /\ pool' = [pool EXCEPT ![a.network] = @ \cup {a.tx}]
                /\ anchoring' = [anchoring EXCEPT ![c].pc = "submitted"]
           ELSE End(c) /\ UNCHANGED pool
        /\ UNCHANGED <<configured, manager, account, chain, answered, inquiry>>

\* The ledger applies the transaction that is next; on Stellar it may fail and still
\* use its number, while a self-transaction of Ethereum has no code that could fail.
Apply(n) ==
    \E tx \in pool[n] : \E ok \in IF n \in Stellar /\ LedgersMayFail THEN BOOLEAN ELSE {TRUE} :
        /\ tx.seq = account[n] + 1
        /\ account' = [account EXCEPT ![n] = tx.seq]
        /\ chain' = [chain EXCEPT ![n] = @ \cup {[tx |-> tx, ok |-> ok]}]
        /\ pool' = [pool EXCEPT ![n] = @ \ {tx}]
        /\ UNCHANGED <<configured, manager, anchoring, answered, inquiry>>

\* One that another with its number has overtaken, or that is never taken up: Stellar
\* drops it after the 30 seconds of setTimeout.
Drop(n) ==
    /\ \E tx \in pool[n] : /\ LedgersMayFail \/ tx.seq <= account[n]
                           /\ pool' = [pool EXCEPT ![n] = @ \ {tx}]
    /\ UNCHANGED <<configured, manager, account, chain, anchoring, answered, inquiry>>

Applied(n, tx, ok) == [tx |-> tx, ok |-> ok] \in chain[n]

\* Mutant: a batch reports every hash that it was given.
ReportedAll(c) == ToSet(anchoring[c].hashes)

\* The hashes that the answer calls anchored: results[i].success.
Reported(c) == ToSet(Included(anchoring[c].network, anchoring[c].hashes))

\* The answer of a transaction that was applied.
Confirm(c) ==
    LET a == anchoring[c]
    IN  /\ At(c, "submitted") /\ Applied(a.network, a.tx, TRUE)
        /\ answered' = answered \cup
              {[network |-> a.network, tx |-> a.tx, hash |-> h, batch |-> a.batch] : h \in Reported(c)}
        /\ End(c)
        /\ UNCHANGED <<configured, manager, account, pool, chain, inquiry>>

\* An error: the transaction failed, was dropped or replaced; or the ledger is not heard
\* of in time, and the transaction may be or come to be on it all the same.
AnchoringFails(c) ==
    LET a == anchoring[c]
    IN  /\ \/ At(c, "loaded") /\ LedgersMayFail
           \/ /\ At(c, "submitted")
              /\ LedgersMayFail \/ (a.tx \notin pool[a.network] /\ ~Applied(a.network, a.tx, TRUE))
        /\ End(c)
        /\ UNCHANGED <<configured, manager, account, pool, chain, answered, inquiry>>

-----------------------------------------------------------------------------
(* Reading                                                                  *)

Asked(v) == inquiry[v] # Unset

OnChain(n, tx)    == \E ok \in BOOLEAN : Applied(n, tx, ok)
Successful(n, tx) == Applied(n, tx, TRUE)

\* getTransaction knows a transaction of Ethereum before it is mined.
Known(n, tx) == OnChain(n, tx) \/ (n \in Evm /\ tx \in pool[n])

\* GET /blockchain/transactions/:txHash and POST /blockchain/verify: the first read,
\* of a transaction that somebody has submitted.
Inquire(v, kind, n, tx, h) ==
    LET p == getProvider(n)
    IN  /\ ~Asked(v)
        /\ UseManager
        /\ p \in Networks
        /\ inquiry' = [inquiry EXCEPT ![v] =
              [kind |-> kind, network |-> p, tx |-> tx, hash |-> h, known |-> Known(p, tx)]]
        /\ UNCHANGED <<configured, account, pool, chain, anchoring, answered>>

\* getTransactionStatus: successful on Stellar, mined on Ethereum.
StellarStatus(q) == q.known /\ Successful(q.network, q.tx)
EvmStatus(q)     == q.known /\ OnChain(q.network, q.tx)

\* verifyAnchor: the memo on Stellar, the data on Ethereum.
StellarVerify(q) == q.known /\ Successful(q.network, q.tx) /\ q.tx.memo = q.hash

\* Mutant: the receipt is not asked for.
VerifyUnmined(q) == q.known /\ q.hash \in q.tx.data

EvmVerify(q) == q.known /\ OnChain(q.network, q.tx) /\ q.hash \in q.tx.data

Finding(q) ==
    IF q.kind = "status"
    THEN IF q.network \in Stellar THEN StellarStatus(q) ELSE EvmStatus(q)
    ELSE IF q.network \in Stellar THEN StellarVerify(q) ELSE EvmVerify(q)

\* The receipt is read and Finding is answered; or else an error of the ledger, which
\* reads as "not confirmed" and "not valid", or as an error in StellarProvider's status.
Answer(v) ==
    /\ Asked(v)
    /\ inquiry' = [inquiry EXCEPT ![v] = Unset]
    /\ UNCHANGED <<configured, manager, account, pool, chain, anchoring, answered>>

\* GET /blockchain/info, /networks, /balance and /estimate-fee only make the manager.
ReadInfo == UseManager /\ UNCHANGED <<configured, account, pool, chain, anchoring, answered, inquiry>>

-----------------------------------------------------------------------------
Submitted(n) == pool[n] \cup {b.tx : b \in chain[n]}

AnchorStep(c) ==
    \/ \E n \in Networks \cup {Unset}, s \in Singles : LoadAccount(c, n, s, FALSE)
    \/ \E n \in Networks \cup {Unset}, s \in Batches : LoadAccount(c, n, s, TRUE)
    \/ SubmitTransaction(c) \/ Confirm(c) \/ AnchoringFails(c)

AskStep(v) ==
    \/ \E n \in Networks \cup {Unset}, h \in Hashes, kind \in {"status", "verify"} :
          \E tx \in UNION {Submitted(m) : m \in Networks} : Inquire(v, kind, n, tx, h)
    \/ Answer(v)

AnchorNext ==
    \/ \E c \in Anchorers : AnchorStep(c)
    \/ \E v \in Askers : AskStep(v)
    \/ \E n \in Networks : Apply(n) \/ Drop(n)
    \/ ReadInfo

AnchorSpec == AnchorInit /\ [][AnchorNext]_anchorVars
-----------------------------------------------------------------------------
\* Shapes of the manager, the ledgers and the calls.
AnchorTypeOK ==
    /\ configured \in Configurations
    /\ manager = Unset \/ /\ ToSet(manager.networks) \subseteq Networks
                          /\ manager.default \in ToSet(manager.networks) \cup {Unset}
    /\ account \in [Networks -> 0 .. MaxSequence]
    /\ \A n \in Networks :
          /\ pool[n] \subseteq Tx /\ chain[n] \subseteq [tx : Tx, ok : BOOLEAN]
    /\ \A c \in Anchorers : anchoring[c] = Unset \/
          /\ anchoring[c].pc \in {"loaded", "submitted"}
          /\ anchoring[c].network \in Networks /\ anchoring[c].tx \in Tx
    /\ answered \subseteq [network : Networks, tx : Tx, hash : Hashes, batch : BOOLEAN]

\* Whatever overlapped, failed or was refused: each hash that an answer calls anchored is
\* in a successful transaction of that network, the hashes of a cut batch included.
AnsweredIsOnLedger ==
    \A a \in answered : Successful(a.network, a.tx) /\ a.hash \in a.tx.data

\* A "confirmed" or a "valid" is true, although the transaction and its receipt are read
\* one after the other: the transaction is on the ledger, succeeded and has the hash.
AnswersAreTrue ==
    \A v \in Askers : Asked(v) /\ Finding(inquiry[v]) =>
        /\ Successful(inquiry[v].network, inquiry[v].tx)
        /\ inquiry[v].kind = "verify" => inquiry[v].hash \in inquiry[v].tx.data

\* What was anchored verifies: a verification that has found the transaction of a
\* successful answer on its network will call each hash of that answer valid, however
\* long ago it was and whatever was anchored since.  Batches of Stellar are left out:
\* they have no memo to compare, and never verify.
AnsweredVerifies ==
    \A a \in answered, v \in Askers :
        /\ Asked(v) /\ inquiry[v].kind = "verify" /\ inquiry[v].known
        /\ inquiry[v].network = a.network /\ inquiry[v].tx = a.tx /\ inquiry[v].hash = a.hash
        /\ a.batch => a.network \in Evm
        => Finding(inquiry[v])

\* Everything the service says of an anchoring is true of the ledger, and stays so.
AnswersHold == AnsweredIsOnLedger /\ AnswersAreTrue /\ AnsweredVerifies

=============================================================================
