----------------------------- MODULE DIDManager -----------------------------
(***************************************************************************)
(* The DID manager of the API (apps/api/src/services/did-manager.ts) over  *)
(* the table user_dids of migration 004.  Several requests run its         *)
(* operations at once.  One step is one SQL statement: the Node process    *)
(* interleaves requests at every await, and the pool gives every statement *)
(* its own auto-commit transaction, except in setPrimaryDID, which keeps   *)
(* one connection and one READ COMMITTED transaction.                      *)
(*                                                                         *)
(* A row is identified by its DID.  A row that an open transaction has     *)
(* updated is locked: readers see its committed version, and writers wait. *)
(* The key material is abstracted to the process lifetime whose            *)
(* ENCRYPTION_KEY encrypted it.                                            *)
(***************************************************************************)
EXTENDS Naturals, FiniteSets

CONSTANTS
    Owners,         \* owners of DIDs
    DIDs,           \* the DIDs that key generation can produce
    Requests,       \* slots for concurrent calls of the exported functions
    NoRequest,      \* the holder of an unlocked row
    NoRow,          \* the content of user_dids for a DID with no row
    Ops,            \* the operations the callers use
    KeyConfigured,  \* whether DID_ENCRYPTION_KEY is set
    QueriesMayFail, \* whether a statement may fail (connection lost, timeout)
    MaxDIDRestarts  \* bound on the restarts of the API process

AllOps == {"create", "createPrimary", "sign", "signWith", "setPrimary", "delete"}
Keys   == 0 .. MaxDIDRestarts
Row    == [user : Owners, isPrimary : BOOLEAN, key : Keys]

Active == {"unset", "insert", "readPrimary", "readById", "readKey", "usage",
           "txnCheck", "txnUnset", "txnSet", "txnCommit", "delete"}
Ended  == {"idle", "ok", "error"}

ASSUME DIDManagerAssumption ==
    /\ NoRequest \notin Requests
    /\ NoRow \notin Row
    /\ Ops \subseteq AllOps
    /\ KeyConfigured \in BOOLEAN
    /\ QueriesMayFail \in BOOLEAN
    /\ MaxDIDRestarts \in Nat

VARIABLES
    userDids,    \* the table user_dids as committed
    rowLock,     \* for each row, the transaction that has updated it
    req,         \* for each request: its operation, arguments and next statement
    didRestarts    \* how often the API process has been restarted

didVars == <<userDids, rowLock, req, didRestarts>>

DIDRequest == [op : AllOps, pc : Active \cup Ended, user : Owners, did : DIDs]

-----------------------------------------------------------------------------
(* Queries over the committed table, and what may wait for a lock.          *)

RowsOf(u)    == {d \in DIDs : userDids[d] # NoRow /\ userDids[d].user = u}
PrimaryOf(u) == {d \in RowsOf(u) : userDids[d].isPrimary}
InFlight     == {r \in Requests : req[r].pc \in Active}

FreeFor(r, S) == \A d \in S : rowLock[d] \in {NoRequest, r}
EncryptionKey == IF KeyConfigured THEN 0 ELSE didRestarts

\* A key pair nobody has: no row holds it and no call in flight mentions it.
Fresh == {d \in DIDs : userDids[d] = NoRow /\ \A r \in InFlight : req[r].did # d}

\* The unique index idx_user_dids_one_primary makes an INSERT of a primary row
\* wait for a transaction that is removing or adding the user's index entry.
IndexEntryInDoubt(u) ==
    \E d \in RowsOf(u) :
        /\ rowLock[d] # NoRequest
        /\ \/ userDids[d].isPrimary
           \/ req[rowLock[d]].pc = "txnCommit" /\ req[rowLock[d]].did = d

Goto(r, label) == req' = [req EXCEPT ![r].pc = label]
RequestAt(r, label)   == req[r].pc = label

\* The statement is done; its answer may be lost, which ends the call with an error.
Answered(r, label) == Goto(r, label) \/ (QueriesMayFail /\ Goto(r, "error"))

\* Mutant: the client goes back to the pool with its transaction open.
KeepLocks(r)   == UNCHANGED rowLock
Release(r)     == rowLock' = [d \in DIDs |-> IF rowLock[d] = r THEN NoRequest ELSE rowLock[d]]

-----------------------------------------------------------------------------
DIDInit ==
    /\ userDids = [d \in DIDs |-> NoRow]
    /\ rowLock = [d \in DIDs |-> NoRequest]
    /\ \E u \in Owners, d \in DIDs :
          req = [r \in Requests |-> [op |-> "create", pc |-> "idle", user |-> u, did |-> d]]
    /\ didRestarts = 0

FirstStep(op) ==
    CASE op = "create"        -> "insert"
      [] op = "createPrimary" -> "unset"
      [] op = "sign"          -> "readPrimary"
      [] op = "signWith"      -> "readById"
      [] op = "setPrimary"    -> "txnCheck"
      [] op = "delete"        -> "delete"

\* A call arrives.  The operations that may create a DID draw a new key pair;
\* the others name any DID, their own, another user's or one that has no row.
StartRequest(r, op, u, d) ==
    /\ req[r].pc \in Ended
    /\ op \in Ops
    /\ op \in {"create", "createPrimary", "sign"} => d \in Fresh
    /\ req' = [req EXCEPT ![r] = [op |-> op, pc |-> FirstStep(op), user |-> u, did |-> d]]
    /\ UNCHANGED <<userDids, rowLock, didRestarts>>

-----------------------------------------------------------------------------
(* createUserDID                                                            *)

\* Mutant: getOrCreatePrimaryDID forgets setPrimary.
MakesPrimaryOnRequest(r) == req[r].op = "createPrimary"
MakesPrimary(r)          == req[r].op \in {"createPrimary", "sign"}

\* Mutant: without the unique index only the DID itself has to be new.
TakenDID(r)  == userDids[req[r].did] # NoRow
Duplicate(r) == userDids[req[r].did] # NoRow \/ (MakesPrimary(r) /\ PrimaryOf(req[r].user) # {})

\* UPDATE user_dids SET is_primary = false WHERE user_id = $1
UnsetPrimaries(r) ==
    /\ RequestAt(r, "unset")
    /\ FreeFor(r, RowsOf(req[r].user))
    /\ userDids' = [d \in DIDs |-> IF d \in RowsOf(req[r].user)
                                   THEN [userDids[d] EXCEPT !.isPrimary = FALSE]
                                   ELSE userDids[d]]
    /\ Answered(r, "insert")
    /\ UNCHANGED <<rowLock, didRestarts>>

\* INSERT INTO user_dids ... RETURNING *, refused by UNIQUE (did) or by the
\* index when the user has a primary row.  getDIDForSigning goes on with the
\* new row.
InsertDID(r) ==
    /\ RequestAt(r, "insert")
    /\ MakesPrimary(r) => ~IndexEntryInDoubt(req[r].user)
    /\ \/ /\ ~Duplicate(r)
          /\ userDids' = [userDids EXCEPT ![req[r].did] =
                [user |-> req[r].user, isPrimary |-> MakesPrimary(r), key |-> EncryptionKey]]
          /\ Answered(r, IF req[r].op = "sign" THEN "readKey" ELSE "ok")
       \/ /\ Duplicate(r)
          /\ Goto(r, "error")
          /\ UNCHANGED userDids
    /\ UNCHANGED <<rowLock, didRestarts>>

-----------------------------------------------------------------------------
(* getDIDForSigning and getOrCreatePrimaryDID                               *)

ReadPrimary(r) ==
    /\ RequestAt(r, "readPrimary")
    /\ \/ \E d \in PrimaryOf(req[r].user) :
              req' = [req EXCEPT ![r].pc = "readKey", ![r].did = d]
       \/ PrimaryOf(req[r].user) = {} /\ Goto(r, "unset")
    /\ UNCHANGED <<userDids, rowLock, didRestarts>>

ReadById(r) ==
    /\ RequestAt(r, "readById")
    /\ Goto(r, IF req[r].did \in RowsOf(req[r].user) THEN "readKey" ELSE "error")
    /\ UNCHANGED <<userDids, rowLock, didRestarts>>

\* getDIDPrivateKey reads the row again: it may be gone, and decipher.final
\* throws on a key that another process lifetime encrypted.
ReadPrivateKey(r) ==
    LET d == req[r].did
    IN  /\ RequestAt(r, "readKey")
        /\ Goto(r, IF userDids[d] # NoRow /\ userDids[d].key = EncryptionKey
                   THEN "usage" ELSE "error")
        /\ UNCHANGED <<userDids, rowLock, didRestarts>>

\* updateDIDUsage; the counters are not kept, only the wait for the row.
UpdateUsage(r) ==
    /\ RequestAt(r, "usage")
    /\ FreeFor(r, {req[r].did})
    /\ Goto(r, "ok")
    /\ UNCHANGED <<userDids, rowLock, didRestarts>>

-----------------------------------------------------------------------------
(* setPrimaryDID: BEGIN, three statements, COMMIT or ROLLBACK               *)

\* Mutant: the row is not looked up before the updates.
TxnCheckNothing(r) ==
    /\ RequestAt(r, "txnCheck")
    /\ Goto(r, "txnUnset")
    /\ UNCHANGED <<userDids, rowLock, didRestarts>>

TxnCheck(r) ==
    /\ RequestAt(r, "txnCheck")
    /\ Goto(r, IF req[r].did \in RowsOf(req[r].user) THEN "txnUnset" ELSE "error")
    /\ UNCHANGED <<userDids, rowLock, didRestarts>>

TxnUnset(r) ==
    /\ RequestAt(r, "txnUnset")
    /\ FreeFor(r, RowsOf(req[r].user))
    /\ rowLock' = [d \in DIDs |-> IF d \in RowsOf(req[r].user) THEN r ELSE rowLock[d]]
    /\ Goto(r, "txnSet")
    /\ UNCHANGED <<userDids, didRestarts>>

\* UPDATE ... SET is_primary = true WHERE id = $1.  The row was locked by the
\* statement before, unless it was deleted before that: then no row matches
\* and nothing is reported.  A primary row inserted meanwhile violates the
\* index, and the transaction is rolled back.
TxnSet(r) ==
    LET rival == \E p \in PrimaryOf(req[r].user) : rowLock[p] # r
    IN  /\ RequestAt(r, "txnSet")
        /\ \/ /\ rowLock[req[r].did] = r /\ rival
              /\ Goto(r, "error")
              /\ Release(r)
           \/ /\ ~(rowLock[req[r].did] = r /\ rival)
              /\ Goto(r, "txnCommit")
              /\ UNCHANGED rowLock
        /\ UNCHANGED <<userDids, didRestarts>>

TxnCommit(r) ==
    /\ RequestAt(r, "txnCommit")
    /\ userDids' = [d \in DIDs |-> IF rowLock[d] = r
                                   THEN [userDids[d] EXCEPT !.isPrimary = (d = req[r].did)]
                                   ELSE userDids[d]]
    /\ Release(r)
    /\ Answered(r, "ok")
    /\ UNCHANGED didRestarts

-----------------------------------------------------------------------------
Deletable(r) == req[r].did \in RowsOf(req[r].user) /\ ~userDids[req[r].did].isPrimary

\* DELETE ... WHERE id = $1 AND user_id = $2 AND is_primary = false.  A row
\* that is not primary but locked is waited for and looked at again.
DeleteDID(r) ==
    /\ RequestAt(r, "delete")
    /\ \/ /\ Deletable(r)
          /\ FreeFor(r, {req[r].did})
          /\ userDids' = [userDids EXCEPT ![req[r].did] = NoRow]
          /\ Answered(r, "ok")
       \/ /\ ~Deletable(r)
          /\ Goto(r, "error")
          /\ UNCHANGED userDids
    /\ UNCHANGED <<rowLock, didRestarts>>

-----------------------------------------------------------------------------
\* A statement fails without effect: the error reaches the caller and an open
\* transaction is rolled back.
QueryFails(r) ==
    /\ QueriesMayFail
    /\ req[r].pc \in Active
    /\ Goto(r, "error")
    /\ Release(r)
    /\ UNCHANGED <<userDids, didRestarts>>

\* The process dies and starts again: the calls in flight are cut off, the
\* database rolls back their transactions, and without DID_ENCRYPTION_KEY the
\* new process draws another key.
DIDRestart ==
    /\ didRestarts < MaxDIDRestarts
    /\ didRestarts' = didRestarts + 1
    /\ req' = [r \in Requests |-> IF r \in InFlight
                                  THEN [req[r] EXCEPT !.pc = "error"] ELSE req[r]]
    /\ rowLock' = [d \in DIDs |-> NoRequest]
    /\ UNCHANGED userDids

Step(r) ==
    \/ UnsetPrimaries(r) \/ InsertDID(r)
    \/ ReadPrimary(r) \/ ReadById(r) \/ ReadPrivateKey(r) \/ UpdateUsage(r)
    \/ TxnCheck(r) \/ TxnUnset(r) \/ TxnSet(r) \/ TxnCommit(r)
    \/ DeleteDID(r)

DIDNext ==
    \/ \E r \in Requests :
          \/ \E op \in Ops, u \in Owners, d \in DIDs : StartRequest(r, op, u, d)
          \/ Step(r)
          \/ QueryFails(r)
    \/ DIDRestart

DIDSpec == DIDInit /\ [][DIDNext]_didVars

\* The event loop and the database go on with every call they have accepted.
\* Fairness is strong because PostgreSQL queues the waiters of a lock: a call
\* that waits is served although other transactions keep taking the row.
DIDFairSpec == DIDSpec /\ \A r \in Requests : SF_didVars(Step(r))

-----------------------------------------------------------------------------
(* Properties                                                               *)

\* Every variable keeps the shape the code and the table give it.
DIDTypeOK ==
    /\ userDids \in [DIDs -> Row \cup {NoRow}]
    /\ rowLock \in [DIDs -> Requests \cup {NoRequest}]
    /\ req \in [Requests -> DIDRequest]
    /\ didRestarts \in Keys

\* A user never has two primary DIDs, whatever createUserDID, the transaction
\* of setPrimaryDID and first signings do at the same time.
OnePrimary ==
    \A d1, d2 \in DIDs :
        /\ userDids[d1] # NoRow /\ userDids[d2] # NoRow
        /\ userDids[d1].user = userDids[d2].user
        /\ userDids[d1].isPrimary /\ userDids[d2].isPrimary
        => d1 = d2

\* Row locks, which keep OnePrimary true although setPrimaryDID spreads its
\* change over three statements: a locked row exists and belongs to the user of
\* an open transaction that has updated it, one transaction at a time has rows
\* of a user, and a transaction that is about to commit its target as primary
\* holds every row of the user that is primary now.
TxnDiscipline ==
    /\ \A d \in DIDs :
          rowLock[d] # NoRequest
          => /\ req[rowLock[d]].pc \in {"txnSet", "txnCommit"}
             /\ userDids[d] # NoRow
             /\ userDids[d].user = req[rowLock[d]].user
    /\ \A d, e \in DIDs :
          /\ rowLock[d] # NoRequest /\ rowLock[e] # NoRequest
          /\ userDids[d].user = userDids[e].user
          => rowLock[d] = rowLock[e]
    /\ \A d, e \in DIDs :
          /\ rowLock[d] # NoRequest
          /\ req[rowLock[d]].pc = "txnCommit" /\ req[rowLock[d]].did = d
          /\ userDids[e] # NoRow /\ userDids[e].user = userDids[d].user
          /\ userDids[e].isPrimary
          => rowLock[e] = rowLock[d]

\* Once the calls of a user have ended without a failed statement, a user with
\* DIDs has a primary one: the window that createUserDID opens between its
\* UPDATE and its INSERT has closed, even when the INSERT was refused.
PrimaryKept ==
    \A u \in Owners :
        RowsOf(u) # {} /\ (\A r \in InFlight : req[r].user # u) => PrimaryOf(u) # {}

\* When setPrimaryDID commits and returns, the DID it was given is the primary.
SetPrimaryTakesEffect ==
    [][\A r \in Requests :
          RequestAt(r, "txnCommit") /\ req'[r].pc = "ok"
          => userDids'[req[r].did] # NoRow /\ userDids'[req[r].did].isPrimary]_didVars

\* Every call ends: no transaction keeps another call waiting for ever.
CallsEnd == \A r \in Requests : req[r].pc \in Active ~> req[r].pc \in Ended

=============================================================================
