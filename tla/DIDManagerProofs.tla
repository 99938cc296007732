-------------------------- MODULE DIDManagerProofs --------------------------
(***************************************************************************)
(* Theorems about DIDManager for every set of users, DIDs and concurrent   *)
(* calls.  IInv is the inductive invariant: OnePrimary alone is not        *)
(* inductive, because TxnCommit makes a row primary that TxnSet has only   *)
(* checked, and the conjuncts of TxnDiscipline are what the row locks of   *)
(* PostgreSQL guarantee in between.                                        *)
(***************************************************************************)
EXTENDS DIDManager, TLAPS

IInv == DIDTypeOK /\ OnePrimary /\ TxnDiscipline

\* The initial states have the types of DIDTypeOK.
LEMMA InitType == DIDInit => DIDTypeOK
<1> SUFFICES ASSUME DIDInit PROVE DIDTypeOK
  OBVIOUS
<1>1. PICK u \in Owners, d \in DIDs :
        req = [r \in Requests |-> [op |-> "create", pc |-> "idle", user |-> u, did |-> d]]
  BY DEF DIDInit
<1>2. req \in [Requests -> DIDRequest]
  BY <1>1 DEF DIDRequest, AllOps, Active, Ended
<1>3. userDids \in [DIDs -> Row \cup {NoRow}] /\ rowLock \in [DIDs -> Requests \cup {NoRequest}]
  BY DEF DIDInit
<1>4. didRestarts \in Keys
  BY DIDManagerAssumption DEF DIDInit, Keys
<1> QED
  BY <1>2, <1>3, <1>4 DEF DIDTypeOK

\* Every step keeps the types.
LEMMA NextType == DIDTypeOK /\ TxnDiscipline /\ [DIDNext]_didVars => DIDTypeOK'
<1> SUFFICES ASSUME DIDTypeOK, TxnDiscipline, [DIDNext]_didVars PROVE DIDTypeOK'
  OBVIOUS
<1> USE DIDManagerAssumption DEF DIDTypeOK, DIDRequest, Row, Keys, Active, Ended, AllOps
<1>1. ASSUME NEW r \in Requests, NEW op \in Ops, NEW u \in Owners, NEW d \in DIDs, StartRequest(r, op, u, d)
      PROVE  DIDTypeOK'
  BY <1>1 DEF StartRequest, FirstStep
<1>2. ASSUME NEW r \in Requests, UnsetPrimaries(r) PROVE DIDTypeOK'
  <2>1. ASSUME NEW d \in RowsOf(req[r].user)
        PROVE  [userDids[d] EXCEPT !.isPrimary = FALSE] \in Row
    <3>1. userDids[d] \in Row
      BY DEF RowsOf
    <3> QED
      BY <3>1
  <2>2. userDids' \in [DIDs -> Row \cup {NoRow}]
    BY <1>2, <2>1 DEF UnsetPrimaries
  <2>3. \E pc \in {"insert", "error"} : req' = [req EXCEPT ![r].pc = pc]
    BY <1>2 DEF UnsetPrimaries, Answered, Goto
  <2>4. req' \in [Requests -> DIDRequest]
    <3>1. PICK pc \in {"insert", "error"} : req' = [req EXCEPT ![r].pc = pc]
      BY <2>3
    <3>2. [req[r] EXCEPT !.pc = pc] \in DIDRequest
      OBVIOUS
    <3> QED
      BY <3>1, <3>2
  <2> QED
    BY <1>2, <2>2, <2>4 DEF UnsetPrimaries
<1>3. ASSUME NEW r \in Requests, InsertDID(r) PROVE DIDTypeOK'
  <2> DEFINE new == [user      |-> req[r].user,
                     isPrimary |-> req[r].op \in {"createPrimary", "sign"},
                     key       |-> EncryptionKey]
  <2>1. new \in Row
    BY DEF EncryptionKey
  <2>2. userDids' = [userDids EXCEPT ![req[r].did] = new] \/ UNCHANGED userDids
    BY <1>3 DEF InsertDID, Duplicate, MakesPrimary
  <2>3. userDids' \in [DIDs -> Row \cup {NoRow}]
    BY <2>1, <2>2
  <2>4. req' = [req EXCEPT ![r].pc = IF req[r].op = "sign" THEN "readKey" ELSE "ok"]
        \/ req' = [req EXCEPT ![r].pc = "error"]
    BY <1>3 DEF InsertDID, Duplicate, MakesPrimary, Answered, Goto
  <2> QED
    BY <1>3, <2>3, <2>4 DEF InsertDID, Duplicate, MakesPrimary
<1>4. ASSUME NEW r \in Requests, ReadPrimary(r) PROVE DIDTypeOK'
  BY <1>4 DEF ReadPrimary, Goto, RequestAt, PrimaryOf, RowsOf
<1>5. ASSUME NEW r \in Requests, ReadById(r) PROVE DIDTypeOK'
  BY <1>5 DEF ReadById, Goto, RequestAt
<1>6. ASSUME NEW r \in Requests, ReadPrivateKey(r) PROVE DIDTypeOK'
  BY <1>6 DEF ReadPrivateKey, Goto, RequestAt
<1>7. ASSUME NEW r \in Requests, UpdateUsage(r) PROVE DIDTypeOK'
  BY <1>7 DEF UpdateUsage, Goto, RequestAt
<1>8. ASSUME NEW r \in Requests, TxnCheck(r) PROVE DIDTypeOK'
  BY <1>8 DEF TxnCheck, Goto, RequestAt
<1>9. ASSUME NEW r \in Requests, TxnUnset(r) PROVE DIDTypeOK'
  BY <1>9 DEF TxnUnset, Goto, RequestAt
<1>10. ASSUME NEW r \in Requests, TxnSet(r) PROVE DIDTypeOK'
  BY <1>10 DEF TxnSet, Goto, RequestAt, Release
<1>11. ASSUME NEW r \in Requests, TxnCommit(r) PROVE DIDTypeOK'
  <2>1. \A d \in DIDs : rowLock[d] = r => userDids[d] # NoRow
    BY DEF TxnDiscipline
  <2>2. userDids' \in [DIDs -> Row \cup {NoRow}]
    BY <1>11, <2>1 DEF TxnCommit
  <2>3. /\ \E pc \in {"ok", "error"} : req' = [req EXCEPT ![r].pc = pc]
        /\ didRestarts' = didRestarts
    BY <1>11 DEF TxnCommit, Answered, Goto
  <2>4. req' \in [Requests -> DIDRequest]
    BY <2>3
  <2>5. rowLock' \in [DIDs -> Requests \cup {NoRequest}]
    BY <1>11 DEF TxnCommit, Release
  <2> QED
    BY <2>2, <2>3, <2>4, <2>5
<1>12. ASSUME NEW r \in Requests, DeleteDID(r) PROVE DIDTypeOK'
  BY <1>12 DEF DeleteDID, Deletable, Answered, Goto, RequestAt
<1>13. ASSUME NEW r \in Requests, QueryFails(r) PROVE DIDTypeOK'
  BY <1>13 DEF QueryFails, Goto, Release
<1>14. CASE DIDRestart
  BY <1>14 DEF DIDRestart, InFlight
<1>15. CASE UNCHANGED didVars
  BY <1>15 DEF didVars
<1> QED
  BY <1>1, <1>2, <1>3, <1>4, <1>5, <1>6, <1>7, <1>8, <1>9, <1>10, <1>11, <1>12, <1>13, <1>14, <1>15
     DEF DIDNext, Step

-----------------------------------------------------------------------------
(* Every step keeps TxnDiscipline and OnePrimary.  The steps that leave     *)
(* user_dids and the row locks alone only need to keep the open             *)
(* transactions open.                                                       *)

\* A step that changes neither a row nor a lock, and moves no call that holds
\* a lock, keeps the invariant.
LEMMA QuietStep ==
  ASSUME DIDTypeOK, OnePrimary, TxnDiscipline,
         UNCHANGED <<userDids, rowLock>>,
         \A d \in DIDs : rowLock[d] # NoRequest => req'[rowLock[d]] = req[rowLock[d]]
  PROVE  OnePrimary' /\ TxnDiscipline'
  BY DEF OnePrimary, TxnDiscipline

\* The holder of a lock is a request in its transaction.
LEMMA Holder ==
  ASSUME DIDTypeOK, TxnDiscipline, NEW d \in DIDs, rowLock[d] # NoRequest
  PROVE  /\ rowLock[d] \in Requests
         /\ req[rowLock[d]].pc \in {"txnSet", "txnCommit"}
         /\ userDids[d] # NoRow
         /\ userDids[d].user = req[rowLock[d]].user
  BY DEF DIDTypeOK, TxnDiscipline

\* A step of one request outside a transaction that changes no row.
LEMMA OtherStep ==
  ASSUME DIDTypeOK, OnePrimary, TxnDiscipline, NEW r \in Requests,
         req[r].pc \notin {"txnSet", "txnCommit"},
         UNCHANGED <<userDids, rowLock>>,
         \A q \in Requests \ {r} : req'[q] = req[q]
  PROVE  OnePrimary' /\ TxnDiscipline'
<1>1. \A d \in DIDs : rowLock[d] # NoRequest => req'[rowLock[d]] = req[rowLock[d]]
  BY Holder
<1> QED
  BY <1>1, QuietStep

\* Releasing the locks of one request keeps the invariant, wherever that
\* request goes.
LEMMA ReleaseStep ==
  ASSUME DIDTypeOK, OnePrimary, TxnDiscipline, NEW r \in Requests,
         UNCHANGED userDids, Release(r),
         \A q \in Requests \ {r} : req'[q] = req[q]
  PROVE  OnePrimary' /\ TxnDiscipline'
<1>1. OnePrimary'
  BY DEF OnePrimary
<1>2. \A d \in DIDs : rowLock'[d] # NoRequest
        => rowLock'[d] = rowLock[d] /\ rowLock[d] # r /\ req'[rowLock[d]] = req[rowLock[d]]
  BY DIDManagerAssumption, Holder DEF Release
<1>3. ASSUME NEW d \in DIDs, NEW e \in DIDs, rowLock'[d] # NoRequest,
             rowLock[e] = rowLock[d]
      PROVE  rowLock'[e] = rowLock'[d]
  BY <1>2, <1>3 DEF Release
<1> QED
  BY <1>1, <1>2, <1>3 DEF TxnDiscipline

\* createUserDID's UPDATE only takes rows out of the set of primary rows.
LEMMA UnsetStep ==
  ASSUME DIDTypeOK, OnePrimary, TxnDiscipline, NEW r \in Requests, UnsetPrimaries(r)
  PROVE  OnePrimary' /\ TxnDiscipline'
<1>1. \A d \in DIDs : /\ userDids'[d] = NoRow <=> userDids[d] = NoRow
                      /\ userDids[d] # NoRow
                         => /\ userDids'[d].user = userDids[d].user
                            /\ userDids'[d].isPrimary => userDids[d].isPrimary
  <2> SUFFICES ASSUME NEW d \in DIDs
               PROVE  /\ userDids'[d] = NoRow <=> userDids[d] = NoRow
                      /\ userDids[d] # NoRow
                         => /\ userDids'[d].user = userDids[d].user
                            /\ userDids'[d].isPrimary => userDids[d].isPrimary
    OBVIOUS
  <2>1. CASE d \in RowsOf(req[r].user)
    <3>1. userDids[d] \in Row
      BY <2>1 DEF DIDTypeOK, RowsOf
    <3>2. userDids'[d] = [userDids[d] EXCEPT !.isPrimary = FALSE]
      BY <2>1 DEF UnsetPrimaries
    <3>3. userDids'[d] \in Row /\ userDids'[d].isPrimary = FALSE
          /\ userDids'[d].user = userDids[d].user
      BY <3>1, <3>2 DEF Row
    <3> QED
      BY <2>1, <3>3, DIDManagerAssumption DEF RowsOf
  <2>2. CASE d \notin RowsOf(req[r].user)
    BY <2>2 DEF UnsetPrimaries
  <2> QED
    BY <2>1, <2>2
<1>2. OnePrimary'
  BY <1>1 DEF OnePrimary
<1>3. \A d \in DIDs : rowLock[d] # NoRequest
        => rowLock[d] # r /\ req'[rowLock[d]] = req[rowLock[d]]
  BY Holder DEF UnsetPrimaries, RequestAt, Answered, Goto, DIDTypeOK
<1>4. rowLock' = rowLock
  BY DEF UnsetPrimaries
<1> QED
  BY <1>1, <1>2, <1>3, <1>4 DEF TxnDiscipline

\* createUserDID's INSERT: a primary row enters only when the user has none and
\* no open transaction is about to give him one.
LEMMA InsertStep ==
  ASSUME DIDTypeOK, OnePrimary, TxnDiscipline, NEW r \in Requests, InsertDID(r)
  PROVE  OnePrimary' /\ TxnDiscipline'
<1> DEFINE t == req[r].did
           u == req[r].user
           primary == req[r].op \in {"createPrimary", "sign"}
<1>1. t \in DIDs /\ u \in Owners /\ RequestAt(r, "insert") /\ rowLock' = rowLock
  BY DEF DIDTypeOK, DIDRequest, InsertDID
<1>2. \A q \in Requests \ {r} : req'[q] = req[q]
  BY DEF InsertDID, Duplicate, MakesPrimary, Answered, Goto, DIDTypeOK
<1>3. CASE UNCHANGED userDids
  BY <1>1, <1>2, <1>3, OtherStep DEF RequestAt
<1>4. CASE /\ userDids[t] = NoRow
           /\ primary => PrimaryOf(u) = {} /\ ~IndexEntryInDoubt(u)
           /\ userDids' = [userDids EXCEPT ![t] =
                              [user |-> u, isPrimary |-> primary, key |-> EncryptionKey]]
  <2>1. userDids'[t] # NoRow /\ userDids'[t].user = u /\ userDids'[t].isPrimary = primary
    <3>1. [user |-> u, isPrimary |-> primary, key |-> EncryptionKey] \in Row
      BY <1>1, DIDManagerAssumption DEF Row, EncryptionKey, Keys, DIDTypeOK
    <3> QED
      BY <1>1, <1>4, <3>1, DIDManagerAssumption DEF DIDTypeOK
  <2>2. \A d \in DIDs \ {t} : userDids'[d] = userDids[d]
    BY <1>4 DEF DIDTypeOK
  <2>3. \A d \in DIDs : rowLock[d] # NoRequest
          => /\ d # t
             /\ rowLock[d] # r
             /\ req'[rowLock[d]] = req[rowLock[d]]
    BY <1>1, <1>2, <1>4, Holder DEF RequestAt
  <2>4. primary => \A d \in DIDs : userDids[d] # NoRow /\ userDids[d].user = u
                                  => ~userDids[d].isPrimary
    BY <1>4 DEF PrimaryOf, RowsOf
  <2>5. OnePrimary'
    BY <2>1, <2>2, <2>4, <1>1 DEF OnePrimary
  <2>6. ASSUME NEW d \in DIDs, rowLock[d] # NoRequest,
               req[rowLock[d]].pc = "txnCommit", req[rowLock[d]].did = d,
               userDids[d].user = u, primary
        PROVE  FALSE
    <3>1. userDids[d] # NoRow
      BY <2>6, Holder
    <3> QED
      BY <1>4, <2>6, <3>1 DEF IndexEntryInDoubt, RowsOf
  <2>7. \A d \in DIDs :
          rowLock'[d] # NoRequest
          => /\ req'[rowLock'[d]].pc \in {"txnSet", "txnCommit"}
             /\ userDids'[d] # NoRow
             /\ userDids'[d].user = req'[rowLock'[d]].user
    BY <1>1, <2>2, <2>3, Holder
  <2>8. \A d, e \in DIDs :
          /\ rowLock'[d] # NoRequest /\ rowLock'[e] # NoRequest
          /\ userDids'[d].user = userDids'[e].user
          => rowLock'[d] = rowLock'[e]
    BY <1>1, <2>2, <2>3 DEF TxnDiscipline
  <2>9. ASSUME NEW d \in DIDs, NEW e \in DIDs,
               rowLock'[d] # NoRequest,
               req'[rowLock'[d]].pc = "txnCommit", req'[rowLock'[d]].did = d,
               userDids'[e] # NoRow, userDids'[e].user = userDids'[d].user,
               userDids'[e].isPrimary
        PROVE  rowLock'[e] = rowLock'[d]
    <3>1. /\ rowLock[d] # NoRequest /\ req[rowLock[d]].pc = "txnCommit"
          /\ req[rowLock[d]].did = d /\ userDids'[d].user = userDids[d].user
      BY <1>1, <2>2, <2>3, <2>9
    <3>2. CASE e = t
      BY <2>1, <2>6, <2>9, <3>1, <3>2
    <3>3. CASE e # t
      BY <1>1, <2>2, <2>9, <3>1, <3>3 DEF TxnDiscipline
    <3> QED
      BY <3>2, <3>3
  <2> QED
    BY <2>5, <2>7, <2>8, <2>9 DEF TxnDiscipline
<1> QED
  BY <1>3, <1>4 DEF InsertDID, Duplicate, MakesPrimary

\* setPrimaryDID's first UPDATE takes every row of the user at once, so no
\* other transaction holds one.
LEMMA TxnUnsetStep ==
  ASSUME DIDTypeOK, OnePrimary, TxnDiscipline, NEW r \in Requests, TxnUnset(r)
  PROVE  OnePrimary' /\ TxnDiscipline'
<1> DEFINE u == req[r].user
<1>1. /\ userDids' = userDids
      /\ rowLock' = [d \in DIDs |-> IF d \in RowsOf(u) THEN r ELSE rowLock[d]]
      /\ req' = [req EXCEPT ![r].pc = "txnSet"]
      /\ req[r].pc = "txnUnset"
  BY DEF TxnUnset, Goto, RequestAt
<1>2. \A d \in DIDs : rowLock[d] # r /\ (d \in RowsOf(u) => rowLock[d] = NoRequest)
  BY <1>1, Holder, DIDManagerAssumption DEF TxnUnset, FreeFor
<1>3. req'[r].pc = "txnSet" /\ req'[r].user = u
  BY <1>1 DEF DIDTypeOK, DIDRequest
<1>4. \A d \in DIDs : rowLock'[d] # NoRequest
        => \/ d \in RowsOf(u) /\ rowLock'[d] = r
           \/ /\ d \notin RowsOf(u) /\ rowLock'[d] = rowLock[d]
              /\ rowLock[d] \in Requests \ {r} /\ req'[rowLock[d]] = req[rowLock[d]]
  BY <1>1, <1>2, Holder DEF DIDTypeOK
<1>5. OnePrimary'
  BY <1>1 DEF OnePrimary
<1>6. \A d \in DIDs : rowLock[d] # NoRequest => userDids[d] # NoRow
  BY Holder
<1>7. \A d \in DIDs :
        rowLock'[d] # NoRequest
        => /\ req'[rowLock'[d]].pc \in {"txnSet", "txnCommit"}
           /\ userDids'[d] # NoRow
           /\ userDids'[d].user = req'[rowLock'[d]].user
  BY <1>1, <1>3, <1>4, Holder DEF RowsOf
<1>8. \A d, e \in DIDs :
        /\ rowLock'[d] # NoRequest /\ rowLock'[e] # NoRequest
        /\ userDids'[d].user = userDids'[e].user
        => rowLock'[d] = rowLock'[e]
  BY <1>1, <1>4, <1>6 DEF TxnDiscipline, RowsOf
<1>9. \A d, e \in DIDs :
        /\ rowLock'[d] # NoRequest
        /\ req'[rowLock'[d]].pc = "txnCommit" /\ req'[rowLock'[d]].did = d
        /\ userDids'[e] # NoRow /\ userDids'[e].user = userDids'[d].user
        /\ userDids'[e].isPrimary
        => rowLock'[e] = rowLock'[d]
  BY <1>1, <1>3, <1>4, <1>6 DEF TxnDiscipline, RowsOf
<1> QED
  BY <1>5, <1>7, <1>8, <1>9 DEF TxnDiscipline

\* setPrimaryDID's second UPDATE: the transaction goes on to its COMMIT holding
\* every primary row of the user, or is rolled back.
LEMMA TxnSetStep ==
  ASSUME DIDTypeOK, OnePrimary, TxnDiscipline, NEW r \in Requests, TxnSet(r)
  PROVE  OnePrimary' /\ TxnDiscipline'
<1> DEFINE t == req[r].did
           u == req[r].user
<1>1. t \in DIDs /\ userDids' = userDids /\ req[r].pc = "txnSet"
  BY DEF DIDTypeOK, DIDRequest, TxnSet, RequestAt
<1>2. \A q \in Requests \ {r} : req'[q] = req[q]
  BY DEF TxnSet, Goto, DIDTypeOK
<1>3. CASE Release(r)
  BY <1>1, <1>2, <1>3, ReleaseStep
<1>4. CASE /\ rowLock[t] = r => \A p \in PrimaryOf(u) : rowLock[p] = r
           /\ req' = [req EXCEPT ![r].pc = "txnCommit"]
           /\ UNCHANGED rowLock
  <2>1. req'[r].pc = "txnCommit" /\ req'[r].did = t /\ req'[r].user = u
    BY <1>4 DEF DIDTypeOK, DIDRequest
  <2>2. OnePrimary'
    BY <1>1 DEF OnePrimary
  <2>3. \A d \in DIDs :
          rowLock'[d] # NoRequest
          => /\ req'[rowLock'[d]].pc \in {"txnSet", "txnCommit"}
             /\ userDids'[d] # NoRow
             /\ userDids'[d].user = req'[rowLock'[d]].user
    BY <1>1, <1>2, <1>4, <2>1, Holder
  <2>4. ASSUME NEW d \in DIDs, NEW e \in DIDs,
               rowLock'[d] # NoRequest,
               req'[rowLock'[d]].pc = "txnCommit", req'[rowLock'[d]].did = d,
               userDids'[e] # NoRow, userDids'[e].user = userDids'[d].user,
               userDids'[e].isPrimary
        PROVE  rowLock'[e] = rowLock'[d]
    <3>1. CASE rowLock[d] = r
      <4>1. d = t /\ userDids[d].user = u
        BY <1>1, <1>4, <2>1, <2>4, <3>1, Holder, DIDManagerAssumption
      <4>2. e \in PrimaryOf(u)
        BY <1>1, <2>4, <4>1 DEF PrimaryOf, RowsOf
      <4> QED
        BY <1>4, <3>1, <4>1, <4>2
    <3>2. CASE rowLock[d] # r
      <4>1. req'[rowLock[d]] = req[rowLock[d]] /\ rowLock[d] # NoRequest
        BY <1>2, <1>4, <2>4, <3>2, Holder
      <4>2. req[rowLock[d]].pc = "txnCommit" /\ req[rowLock[d]].did = d
        BY <1>4, <2>4, <4>1
      <4>3. userDids[e] # NoRow /\ userDids[e].user = userDids[d].user /\ userDids[e].isPrimary
        BY <1>1, <2>4
      <4>4. rowLock[e] = rowLock[d]
        BY <4>1, <4>2, <4>3 DEF TxnDiscipline
      <4> QED
        BY <1>4, <4>4
    <3> QED
      BY <3>1, <3>2
  <2> QED
    BY <1>1, <1>4, <2>2, <2>3, <2>4 DEF TxnDiscipline
<1> QED
  BY <1>3, <1>4 DEF TxnSet, Goto

\* setPrimaryDID's COMMIT publishes the new primary row and unsets the others
\* that the transaction has locked, which are all that were primary.
LEMMA TxnCommitStep ==
  ASSUME DIDTypeOK, OnePrimary, TxnDiscipline, NEW r \in Requests, TxnCommit(r)
  PROVE  OnePrimary' /\ TxnDiscipline'
<1> DEFINE t == req[r].did
<1>1. req[r].pc = "txnCommit" /\ t \in DIDs
  BY DEF TxnCommit, RequestAt, DIDTypeOK, DIDRequest
<1>2. \A d \in DIDs : rowLock[d] # r => userDids'[d] = userDids[d]
  BY DEF TxnCommit
<1>3. ASSUME NEW d \in DIDs, rowLock[d] = r
      PROVE  /\ userDids[d] # NoRow /\ userDids'[d] # NoRow
             /\ userDids'[d].user = userDids[d].user
             /\ userDids'[d].isPrimary = (d = t)
  <2>1. userDids[d] # NoRow /\ userDids[d] \in Row
    BY <1>3, Holder, DIDManagerAssumption DEF DIDTypeOK
  <2>2. userDids'[d] = [userDids[d] EXCEPT !.isPrimary = (d = t)]
    BY <1>3 DEF TxnCommit
  <2>3. userDids'[d] \in Row
    BY <2>1, <2>2 DEF Row
  <2> QED
    BY <2>1, <2>2, <2>3, DIDManagerAssumption DEF Row
<1>4. \A d \in DIDs : rowLock'[d] = IF rowLock[d] = r THEN NoRequest ELSE rowLock[d]
  BY DEF TxnCommit, Release
<1>5. \A d \in DIDs : rowLock'[d] # NoRequest
        => /\ rowLock[d] # r /\ rowLock[d] # NoRequest /\ rowLock'[d] = rowLock[d]
           /\ req'[rowLock[d]] = req[rowLock[d]]
  BY <1>4, Holder DEF TxnCommit, Answered, Goto, DIDTypeOK
<1>6. OnePrimary'
  <2> SUFFICES ASSUME NEW d \in DIDs, NEW e \in DIDs,
                      userDids'[d] # NoRow, userDids'[e] # NoRow,
                      userDids'[d].user = userDids'[e].user,
                      userDids'[d].isPrimary, userDids'[e].isPrimary,
                      rowLock[d] # r \/ rowLock[e] = r
               PROVE  d = e
    BY DEF OnePrimary
  <2>1. CASE rowLock[d] # r /\ rowLock[e] # r
    BY <1>2, <2>1 DEF OnePrimary
  <2>2. CASE rowLock[d] = r /\ rowLock[e] = r
    BY <1>3, <2>2
  <2>3. CASE rowLock[d] # r /\ rowLock[e] = r
    <3>1. e = t /\ userDids[d] # NoRow /\ userDids[d].isPrimary
          /\ userDids[d].user = userDids[e].user
      BY <1>2, <1>3, <2>3
    <3> QED
      BY <1>1, <2>3, <3>1, DIDManagerAssumption DEF TxnDiscipline
  <2> QED
    BY <2>1, <2>2, <2>3
<1>7. \A d \in DIDs :
        rowLock'[d] # NoRequest
        => /\ req'[rowLock'[d]].pc \in {"txnSet", "txnCommit"}
           /\ userDids'[d] # NoRow
           /\ userDids'[d].user = req'[rowLock'[d]].user
  BY <1>2, <1>5, Holder
<1>8. \A d, e \in DIDs :
        /\ rowLock'[d] # NoRequest /\ rowLock'[e] # NoRequest
        /\ userDids'[d].user = userDids'[e].user
        => rowLock'[d] = rowLock'[e]
  BY <1>2, <1>5 DEF TxnDiscipline
<1>9. ASSUME NEW d \in DIDs, NEW e \in DIDs,
             rowLock'[d] # NoRequest,
             req'[rowLock'[d]].pc = "txnCommit", req'[rowLock'[d]].did = d,
             userDids'[e] # NoRow, userDids'[e].user = userDids'[d].user,
             userDids'[e].isPrimary
      PROVE  rowLock'[e] = rowLock'[d]
  <2>1. /\ rowLock[d] # r /\ rowLock[d] # NoRequest /\ userDids'[d] = userDids[d]
        /\ req[rowLock[d]].pc = "txnCommit" /\ req[rowLock[d]].did = d
    BY <1>2, <1>5, <1>9
  <2>2. CASE rowLock[e] = r
    BY <1>3, <1>9, <2>1, <2>2, DIDManagerAssumption DEF TxnDiscipline
  <2>3. CASE rowLock[e] # r
    BY <1>2, <1>4, <1>5, <1>9, <2>1, <2>3 DEF TxnDiscipline
  <2> QED
    BY <2>2, <2>3
<1> QED
  BY <1>6, <1>7, <1>8, <1>9 DEF TxnDiscipline

\* deleteDID removes a row that no transaction holds.
LEMMA DeleteStep ==
  ASSUME DIDTypeOK, OnePrimary, TxnDiscipline, NEW r \in Requests, DeleteDID(r)
  PROVE  OnePrimary' /\ TxnDiscipline'
<1> DEFINE t == req[r].did
<1>1. req[r].pc = "delete" /\ rowLock' = rowLock /\ t \in DIDs
  BY DEF DeleteDID, Deletable, RequestAt, DIDTypeOK, DIDRequest
<1>2. \A q \in Requests \ {r} : req'[q] = req[q]
  BY DEF DeleteDID, Deletable, Answered, Goto, DIDTypeOK
<1>3. CASE UNCHANGED userDids
  BY <1>1, <1>2, <1>3, OtherStep
<1>4. CASE FreeFor(r, {t}) /\ userDids' = [userDids EXCEPT ![t] = NoRow]
  <2>1. \A d \in DIDs : userDids'[d] # NoRow => d # t /\ userDids'[d] = userDids[d]
    BY <1>1, <1>4 DEF DIDTypeOK
  <2>2. \A d \in DIDs : rowLock[d] # NoRequest
          => d # t /\ userDids'[d] = userDids[d] /\ req'[rowLock[d]] = req[rowLock[d]]
    BY <1>1, <1>2, <1>4, Holder DEF FreeFor, DIDTypeOK
  <2>3. OnePrimary'
    BY <2>1 DEF OnePrimary
  <2> QED
    BY <1>1, <2>1, <2>2, <2>3 DEF TxnDiscipline
<1> QED
  BY <1>3, <1>4 DEF DeleteDID, Deletable

\* A restart drops every lock and no row.
LEMMA RestartStep ==
  ASSUME DIDTypeOK, OnePrimary, TxnDiscipline, DIDRestart
  PROVE  OnePrimary' /\ TxnDiscipline'
<1>1. OnePrimary'
  BY DEF DIDRestart, OnePrimary
<1>2. \A d \in DIDs : rowLock'[d] = NoRequest
  BY DEF DIDRestart
<1> QED
  BY <1>1, <1>2 DEF TxnDiscipline

\* IInv is inductive.
LEMMA Inductive == IInv /\ [DIDNext]_didVars => IInv'
<1> SUFFICES ASSUME DIDTypeOK, OnePrimary, TxnDiscipline, [DIDNext]_didVars
             PROVE  OnePrimary' /\ TxnDiscipline'
  BY NextType DEF IInv
<1>1. ASSUME NEW r \in Requests, NEW op \in Ops, NEW u \in Owners, NEW d \in DIDs, StartRequest(r, op, u, d)
      PROVE  OnePrimary' /\ TxnDiscipline'
  BY <1>1, OtherStep DEF StartRequest, Ended, DIDTypeOK
<1>2. ASSUME NEW r \in Requests, ReadPrimary(r) PROVE OnePrimary' /\ TxnDiscipline'
  BY <1>2, OtherStep DEF ReadPrimary, Goto, RequestAt, DIDTypeOK
<1>3. ASSUME NEW r \in Requests, ReadById(r) PROVE OnePrimary' /\ TxnDiscipline'
  BY <1>3, OtherStep DEF ReadById, Goto, RequestAt, DIDTypeOK
<1>4. ASSUME NEW r \in Requests, ReadPrivateKey(r) PROVE OnePrimary' /\ TxnDiscipline'
  BY <1>4, OtherStep DEF ReadPrivateKey, Goto, RequestAt, DIDTypeOK
<1>5. ASSUME NEW r \in Requests, UpdateUsage(r) PROVE OnePrimary' /\ TxnDiscipline'
  BY <1>5, OtherStep DEF UpdateUsage, Goto, RequestAt, DIDTypeOK
<1>6. ASSUME NEW r \in Requests, TxnCheck(r) PROVE OnePrimary' /\ TxnDiscipline'
  BY <1>6, OtherStep DEF TxnCheck, Goto, RequestAt, DIDTypeOK
<1>7. ASSUME NEW r \in Requests, QueryFails(r) PROVE OnePrimary' /\ TxnDiscipline'
  BY <1>7, ReleaseStep DEF QueryFails, Goto, DIDTypeOK
<1>8. CASE UNCHANGED didVars
  BY <1>8, QuietStep DEF didVars
<1> QED
  BY <1>1, <1>2, <1>3, <1>4, <1>5, <1>6, <1>7, <1>8, UnsetStep, InsertStep, TxnUnsetStep,
     TxnSetStep, TxnCommitStep, DeleteStep, RestartStep
     DEF DIDNext, Step

\* Before any call there is no row and no lock.
LEMMA InitInv == DIDInit => IInv
<1> SUFFICES ASSUME DIDInit PROVE IInv
  OBVIOUS
<1>1. \A d \in DIDs : userDids[d] = NoRow /\ rowLock[d] = NoRequest
  BY DEF DIDInit
<1> QED
  BY <1>1, InitType DEF IInv, OnePrimary, TxnDiscipline

\* IInv holds in every reachable state.
THEOREM Invariance == DIDSpec => []IInv
<1>1. DIDInit => IInv
  BY InitInv
<1>2. IInv /\ [DIDNext]_didVars => IInv'
  BY Inductive
<1> QED
  BY <1>1, <1>2, PTL DEF DIDSpec

-----------------------------------------------------------------------------
\* The table, the locks and the calls keep their types.
THEOREM TypeCorrect == DIDSpec => []DIDTypeOK
<1>1. IInv => DIDTypeOK
  BY DEF IInv
<1> QED
  BY <1>1, Invariance, PTL

\* No user has two primary DIDs, for any number of users, DIDs and calls.
THEOREM AtMostOnePrimary == DIDSpec => []OnePrimary
<1>1. IInv => OnePrimary
  BY DEF IInv
<1> QED
  BY <1>1, Invariance, PTL

\* The row locks are held by the open transactions of the rows' users.
THEOREM LocksDisciplined == DIDSpec => []TxnDiscipline
<1>1. IInv => TxnDiscipline
  BY DEF IInv
<1> QED
  BY <1>1, Invariance, PTL

-----------------------------------------------------------------------------
(* What holds where no caller deletes DIDs, and what holds where besides no *)
(* statement fails, the process is not restarted and every new DID asks to  *)
(* be the primary one.  Each of the four is needed, and TLC finds what goes *)
(* wrong without it: a DID that is deleted in the middle of setPrimaryDID   *)
(* is made primary in vain, an INSERT that a failure or a restart cuts off  *)
(* from its UPDATE leaves a user without a primary, and so does a first DID *)
(* that does not ask to be primary.                                         *)

\* Rows endure, and stay their users'.
RowsEndure ==
    \A d \in DIDs : userDids[d] # NoRow => userDids'[d] # NoRow /\ userDids'[d].user = userDids[d].user

\* The transaction of setPrimaryDID holds its target from its first UPDATE on.
TargetsLocked ==
    \A r \in Requests :
        /\ req[r].pc # "delete"
        /\ req[r].pc = "txnUnset" => req[r].did \in RowsOf(req[r].user)
        /\ req[r].pc \in {"txnSet", "txnCommit"} => rowLock[req[r].did] = r

LEMMA UnsetRows ==
  ASSUME DIDTypeOK, NEW r \in Requests, UnsetPrimaries(r)
  PROVE  /\ RowsEndure
         /\ \A d \in DIDs : userDids[d] = NoRow => userDids'[d] = NoRow
         /\ \A d \in DIDs : d \notin RowsOf(req[r].user) => userDids'[d] = userDids[d]
<1>1. ASSUME NEW d \in RowsOf(req[r].user)
      PROVE  userDids'[d] # NoRow /\ userDids'[d].user = userDids[d].user
  <2>1. userDids[d] \in Row /\ userDids'[d] = [userDids[d] EXCEPT !.isPrimary = FALSE]
    BY DEF RowsOf, DIDTypeOK, UnsetPrimaries
  <2>2. userDids'[d] \in Row /\ userDids'[d].user = userDids[d].user
    BY <2>1 DEF Row
  <2> QED
    BY <2>2, DIDManagerAssumption
<1>2. \A d \in DIDs : d \notin RowsOf(req[r].user) => userDids'[d] = userDids[d]
  BY DEF UnsetPrimaries
<1> QED
  BY <1>1, <1>2 DEF RowsEndure, RowsOf

LEMMA InsertRows ==
  ASSUME DIDTypeOK, NEW r \in Requests, InsertDID(r)
  PROVE  /\ RowsEndure
         /\ \A d \in DIDs : d # req[r].did => userDids'[d] = userDids[d]
         /\ ~Duplicate(r) => /\ userDids'[req[r].did] # NoRow
                             /\ userDids'[req[r].did].user = req[r].user
                             /\ userDids'[req[r].did].isPrimary = MakesPrimary(r)
<1> DEFINE new == [user |-> req[r].user, isPrimary |-> MakesPrimary(r), key |-> EncryptionKey]
<1>1. new \in Row /\ req[r].did \in DIDs
  BY DIDManagerAssumption DEF DIDTypeOK, DIDRequest, Row, Keys, EncryptionKey, MakesPrimary
<1>2. new # NoRow /\ new.user = req[r].user /\ new.isPrimary = MakesPrimary(r)
  BY <1>1, DIDManagerAssumption
<1>3. \/ ~Duplicate(r) /\ userDids' = [userDids EXCEPT ![req[r].did] = new]
      \/ Duplicate(r) /\ userDids' = userDids
  BY DEF InsertDID
<1>4. ~Duplicate(r) => userDids[req[r].did] = NoRow
  BY DEF Duplicate
<1> HIDE DEF new
<1> QED
  BY <1>1, <1>2, <1>3, <1>4 DEF RowsEndure, DIDTypeOK

LEMMA CommitRows ==
  ASSUME DIDTypeOK, TxnDiscipline, NEW r \in Requests, TxnCommit(r)
  PROVE  /\ RowsEndure
         /\ \A d \in DIDs : userDids[d] = NoRow => userDids'[d] = NoRow
         /\ \A d \in DIDs : rowLock[d] = r => userDids'[d].isPrimary = (d = req[r].did)
         /\ \A d \in DIDs : rowLock[d] # r => userDids'[d] = userDids[d]
<1>1. ASSUME NEW d \in DIDs, rowLock[d] = r
      PROVE  /\ userDids[d] # NoRow /\ userDids'[d] # NoRow
             /\ userDids'[d].user = userDids[d].user
             /\ userDids'[d].isPrimary = (d = req[r].did)
  <2>1. userDids[d] # NoRow /\ userDids[d] \in Row
    BY <1>1, Holder, DIDManagerAssumption DEF DIDTypeOK
  <2>2. userDids'[d] = [userDids[d] EXCEPT !.isPrimary = (d = req[r].did)]
    BY <1>1 DEF TxnCommit
  <2>3. userDids'[d] \in Row
    BY <2>1, <2>2 DEF Row
  <2> QED
    BY <2>1, <2>2, <2>3, DIDManagerAssumption DEF Row
<1>2. \A d \in DIDs : rowLock[d] # r => userDids'[d] = userDids[d]
  BY DEF TxnCommit
<1> QED
  BY <1>1, <1>2 DEF RowsEndure

\* Nobody but deleteDID takes a row away.
LEMMA RowsStay ==
  ASSUME DIDTypeOK, TxnDiscipline, TargetsLocked, [DIDNext]_didVars
  PROVE  RowsEndure
<1>1. ASSUME NEW r \in Requests, DeleteDID(r) PROVE FALSE
  BY <1>1 DEF TargetsLocked, DeleteDID, RequestAt
<1>2. CASE UNCHANGED userDids
  BY <1>2 DEF RowsEndure
<1>3. ASSUME NEW r \in Requests, Step(r), userDids' # userDids PROVE RowsEndure
  BY <1>1, <1>3, UnsetRows, InsertRows, CommitRows
     DEF Step, ReadPrimary, ReadById, ReadPrivateKey, UpdateUsage, TxnCheck, TxnUnset, TxnSet
<1> QED
  BY <1>2, <1>3 DEF DIDNext, StartRequest, QueryFails, DIDRestart, didVars

\* A call that is not the one that steps keeps what TargetsLocked says of it.
LEMMA OthersTargets ==
  ASSUME DIDTypeOK, TxnDiscipline, TargetsLocked, RowsEndure, NEW r \in Requests,
         req'[r] = req[r],
         rowLock[req[r].did] = r => rowLock'[req[r].did] = r
  PROVE  /\ req'[r].pc # "delete"
         /\ req'[r].pc = "txnUnset" => (req[r].did \in RowsOf(req[r].user))'
         /\ req'[r].pc \in {"txnSet", "txnCommit"} => rowLock'[req'[r].did] = r
<1>1. ASSUME req[r].pc = "txnUnset" PROVE (req[r].did \in RowsOf(req[r].user))'
  <2>1. req[r].did \in DIDs /\ userDids[req[r].did] # NoRow /\ userDids[req[r].did].user = req[r].user
    BY <1>1 DEF TargetsLocked, RowsOf
  <2> QED
    BY <2>1 DEF RowsEndure, RowsOf
<1> QED
  BY <1>1 DEF TargetsLocked, RowsOf

LEMMA TargetsStep ==
  ASSUME "delete" \notin Ops, IInv, TargetsLocked, [DIDNext]_didVars
  PROVE  TargetsLocked'
<1>0. DIDTypeOK /\ TxnDiscipline /\ RowsEndure
  BY RowsStay DEF IInv
<1> DEFINE Held(q) == /\ req'[q].pc # "delete"
                      /\ req'[q].pc = "txnUnset" => (req[q].did \in RowsOf(req[q].user))'
                      /\ req'[q].pc \in {"txnSet", "txnCommit"} => rowLock'[req'[q].did] = q
<1>1. SUFFICES ASSUME NEW q \in Requests PROVE Held(q)
  BY DEF TargetsLocked
<1>2. CASE req'[q] = req[q] /\ (rowLock[req[q].did] = q => rowLock'[req[q].did] = q)
  BY <1>0, <1>2, OthersTargets
<1>3. CASE DIDRestart
  BY <1>0, <1>3 DEF DIDRestart, DIDTypeOK, DIDRequest, InFlight, Active, TargetsLocked, Ended
<1>4. CASE UNCHANGED didVars
  BY <1>2, <1>4 DEF didVars
<1>5. ASSUME NEW r \in Requests, NEW op \in Ops, NEW u \in Owners, NEW d \in DIDs, StartRequest(r, op, u, d)
      PROVE  Held(q)
  <2>1. CASE r = q
    <3>1. req'[q] = [op |-> op, pc |-> FirstStep(op), user |-> u, did |-> d]
      BY <1>0, <1>5, <2>1 DEF StartRequest, DIDTypeOK
    <3>2. FirstStep(op) \notin {"delete", "txnUnset", "txnSet", "txnCommit"}
      BY DIDManagerAssumption DEF FirstStep, AllOps
    <3> QED
      BY <3>1, <3>2
  <2>2. CASE r # q
    BY <1>0, <1>2, <1>5, <2>2 DEF StartRequest, DIDTypeOK
  <2> QED
    BY <2>1, <2>2
<1>6. ASSUME NEW r \in Requests, QueryFails(r) PROVE Held(q)
  <2>1. CASE r = q
    BY <1>0, <1>6, <2>1 DEF QueryFails, Goto, DIDTypeOK, DIDRequest
  <2>2. CASE r # q
    BY <1>0, <1>2, <1>6, <2>2 DEF QueryFails, Goto, Release, DIDTypeOK, DIDRequest
  <2> QED
    BY <2>1, <2>2
<1>7. ASSUME NEW r \in Requests, Step(r), r # q PROVE Held(q)
  <2>1. req'[q] = req[q]
    BY <1>0, <1>7 DEF Step, UnsetPrimaries, InsertDID, ReadPrimary, ReadById, ReadPrivateKey, UpdateUsage,
       TxnCheck, TxnUnset, TxnSet, TxnCommit, DeleteDID, Answered, Goto, DIDTypeOK
  <2>2. ASSUME rowLock[req[q].did] = q PROVE rowLock'[req[q].did] = q
    <3>1. req[q].did \in DIDs
      BY <1>0 DEF DIDTypeOK, DIDRequest
    <3>2. CASE TxnUnset(r)
      BY <1>7, <2>2, <3>1, <3>2, DIDManagerAssumption DEF TxnUnset, FreeFor
    <3>3. CASE Release(r)
      BY <1>7, <2>2, <3>1, <3>3 DEF Release
    <3>4. CASE UNCHANGED rowLock
      BY <2>2, <3>4
    <3> QED
      BY <1>7, <3>2, <3>3, <3>4 DEF Step, UnsetPrimaries, InsertDID, ReadPrimary, ReadById, ReadPrivateKey,
         UpdateUsage, TxnCheck, TxnSet, TxnCommit, DeleteDID
  <2> QED
    BY <1>2, <2>1, <2>2
<1>8. ASSUME Step(q) PROVE Held(q)
  <2>1. req[q].did \in DIDs /\ req[q] \in DIDRequest
    BY <1>0 DEF DIDTypeOK, DIDRequest
  <2>2. CASE UnsetPrimaries(q) \/ InsertDID(q) \/ ReadPrimary(q) \/ ReadById(q) \/ ReadPrivateKey(q)
             \/ UpdateUsage(q) \/ DeleteDID(q) \/ TxnCommit(q)
    <3>1. req'[q].pc \notin {"delete", "txnUnset", "txnSet", "txnCommit"}
      BY <1>0, <2>1, <2>2 DEF UnsetPrimaries, InsertDID, ReadPrimary, ReadById, ReadPrivateKey, UpdateUsage,
         DeleteDID, TxnCommit, Answered, Goto, DIDTypeOK, DIDRequest
    <3> QED
      BY <3>1
  <2>3. CASE TxnCheck(q)
    <3>1. req'[q].did = req[q].did /\ req'[q].user = req[q].user /\ userDids' = userDids
      BY <1>0, <2>1, <2>3 DEF TxnCheck, Goto, DIDTypeOK, DIDRequest
    <3>2. (req'[q].pc = "txnUnset" /\ req[q].did \in RowsOf(req[q].user)) \/ req'[q].pc = "error"
      BY <1>0, <2>1, <2>3 DEF TxnCheck, Goto, DIDTypeOK, DIDRequest
    <3> QED
      BY <3>1, <3>2 DEF RowsOf
  <2>4. CASE TxnUnset(q)
    BY <1>0, <2>1, <2>4 DEF TxnUnset, Goto, RequestAt, DIDTypeOK, DIDRequest, TargetsLocked
  <2>5. CASE TxnSet(q)
    BY <1>0, <2>1, <2>5 DEF TxnSet, Goto, RequestAt, DIDTypeOK, DIDRequest, TargetsLocked
  <2> QED
    BY <1>8, <2>2, <2>3, <2>4, <2>5 DEF Step
<1> QED
  BY <1>3, <1>4, <1>5, <1>6, <1>7, <1>8 DEF DIDNext

\* When no caller deletes DIDs, setPrimaryDID that returns has made its DID the primary
\* one, whatever else runs, fails or restarts meanwhile.
THEOREM SetPrimaryIsEffective ==
  ASSUME "delete" \notin Ops
  PROVE  DIDSpec => SetPrimaryTakesEffect
<1>1. DIDInit => TargetsLocked
  BY DEF DIDInit, TargetsLocked
<1>2. IInv /\ TargetsLocked /\ [DIDNext]_didVars => TargetsLocked'
  BY TargetsStep
<1> DEFINE Effective(r) == RequestAt(r, "txnCommit") /\ req'[r].pc = "ok"
                           => userDids'[req[r].did] # NoRow /\ userDids'[req[r].did].isPrimary
<1>3. ASSUME IInv, TargetsLocked, [DIDNext]_didVars PROVE \A r \in Requests : Effective(r)
  <2> SUFFICES ASSUME NEW r \in Requests, RequestAt(r, "txnCommit"), req'[r].pc = "ok" PROVE
                 userDids'[req[r].did] # NoRow /\ userDids'[req[r].did].isPrimary
    OBVIOUS
  <2>0. DIDTypeOK /\ TxnDiscipline
    BY <1>3 DEF IInv
  <2>1. req'[r] # req[r]
    BY DEF RequestAt
  <2>2. TxnCommit(r)
    <3>1. ~ UNCHANGED didVars /\ ~DIDRestart
      BY <2>0, <2>1 DEF didVars, DIDRestart, DIDTypeOK, DIDRequest, InFlight, RequestAt, Active
    <3>2. PICK q \in Requests : \/ \E op \in Ops, u \in Owners, d \in DIDs : StartRequest(q, op, u, d)
                                \/ Step(q) \/ QueryFails(q)
      BY <1>3, <3>1 DEF DIDNext
    <3>3. q = r
      BY <2>0, <2>1, <3>2 DEF StartRequest, QueryFails, Step, UnsetPrimaries, InsertDID, ReadPrimary, ReadById,
         ReadPrivateKey, UpdateUsage, TxnCheck, TxnUnset, TxnSet, TxnCommit, DeleteDID, Answered, Goto, DIDTypeOK
    <3>4. ~QueryFails(r) /\ \A op \in Ops, u \in Owners, d \in DIDs : ~StartRequest(r, op, u, d)
      BY <2>0 DEF QueryFails, Goto, StartRequest, RequestAt, Ended, DIDTypeOK, DIDRequest
    <3> QED
      BY <3>2, <3>3, <3>4 DEF Step, UnsetPrimaries, InsertDID, ReadPrimary, ReadById, ReadPrivateKey,
         UpdateUsage, TxnCheck, TxnUnset, TxnSet, DeleteDID, RequestAt
  <2>3. rowLock[req[r].did] = r /\ req[r].did \in DIDs
    BY <1>3, <2>0 DEF TargetsLocked, RequestAt, DIDTypeOK, DIDRequest
  <2> QED
    <3>1. userDids[req[r].did] # NoRow
      BY <2>0, <2>3, Holder, DIDManagerAssumption
    <3>2. RowsEndure /\ userDids'[req[r].did].isPrimary = TRUE
      BY <2>0, <2>2, <2>3, CommitRows
    <3> QED
      BY <2>3, <3>1, <3>2 DEF RowsEndure
<1>4. IInv /\ TargetsLocked /\ [DIDNext]_didVars => [\A r \in Requests : Effective(r)]_didVars
  BY <1>3
<1> QED
  BY <1>1, <1>2, <1>4, Invariance, PTL DEF DIDSpec, SetPrimaryTakesEffect

\* How the callers of the run about primary DIDs use the manager, and how it runs.
NoneLeftBehind ==
    /\ Ops \subseteq {"createPrimary", "sign", "signWith", "setPrimary"}
    /\ ~QueriesMayFail /\ MaxDIDRestarts = 0

\* A call that has drawn a key pair, and has not inserted its row.
Draws(r) == req[r].pc \in {"unset", "insert", "readPrimary"}

\* A key pair is drawn by one call, for a row that will be primary.
DrawsAreNew ==
    /\ \A r \in Requests : Draws(r) => /\ req[r].op \in {"createPrimary", "sign"}
                                       /\ userDids[req[r].did] = NoRow
    /\ \A r, q \in Requests : Draws(r) /\ Draws(q) /\ req[r].did = req[q].did => r = q

\* A user with rows and no primary one has a call that is about to insert it.
PrimaryToCome ==
    \A u \in Owners :
        RowsOf(u) # {} => \/ PrimaryOf(u) # {}
                          \/ \E r \in Requests : req[r].pc = "insert" /\ req[r].user = u

PKInv == IInv /\ TargetsLocked /\ DrawsAreNew /\ PrimaryToCome

\* What one call does to the others' draws and to the table.
LEMMA OneSteps ==
  ASSUME NoneLeftBehind, DIDTypeOK, [DIDNext]_didVars
  PROVE  \/ UNCHANGED didVars
         \/ \E r \in Requests :
               /\ \A q \in Requests \ {r} : req'[q] = req[q]
               /\ \/ \E op \in Ops, u \in Owners, d \in DIDs : StartRequest(r, op, u, d)
                  \/ Step(r)
<1>1. ~DIDRestart /\ \A r \in Requests : ~QueryFails(r)
  BY DEF NoneLeftBehind, DIDRestart, DIDTypeOK, Keys, QueryFails
<1>2. \A r \in Requests : Step(r) \/ (\E op \in Ops, u \in Owners, d \in DIDs : StartRequest(r, op, u, d))
         => \A q \in Requests \ {r} : req'[q] = req[q]
  BY DEF StartRequest, Step, UnsetPrimaries, InsertDID, ReadPrimary, ReadById,
     ReadPrivateKey, UpdateUsage, TxnCheck, TxnUnset, TxnSet, TxnCommit, DeleteDID, Answered, Goto, DIDTypeOK
<1> QED
  BY <1>1, <1>2 DEF DIDNext

\* Where the statements go that a call may take next.
LEMMA NextStatement ==
  ASSUME NoneLeftBehind, DIDTypeOK, NEW r \in Requests, Step(r)
  PROVE  /\ req'[r].user = req[r].user /\ req'[r].op = req[r].op
         /\ req[r].pc # "readPrimary" => req'[r].did = req[r].did
         /\ UnsetPrimaries(r) => req[r].pc = "unset" /\ req'[r].pc = "insert"
         /\ ~UnsetPrimaries(r) => req'[r].pc # "insert"
         /\ req'[r].pc = "unset" => req[r].pc = "readPrimary" /\ req'[r].did = req[r].did
         /\ req'[r].pc # "readPrimary"
<1> USE DEF NoneLeftBehind, DIDTypeOK, DIDRequest
<1>1. CASE ReadPrimary(r)
  <2>1. req'[r].pc # "insert" /\ req'[r].user = req[r].user /\ req'[r].op = req[r].op
        /\ (req'[r].pc = "unset" => req'[r].did = req[r].did) /\ req'[r].pc # "readPrimary"
    <3>1. CASE Goto(r, "unset")
      BY <3>1 DEF Goto
    <3>2. CASE \E d \in PrimaryOf(req[r].user) : req' = [req EXCEPT ![r].pc = "readKey", ![r].did = d]
      <4>1. PICK d : req' = [req EXCEPT ![r].pc = "readKey", ![r].did = d]
        BY <3>2
      <4>2. req'[r] = [[req[r] EXCEPT !.pc = "readKey"] EXCEPT !.did = d]
        BY <4>1
      <4> QED
        BY <4>2
    <3> QED
      BY <1>1, <3>1, <3>2 DEF ReadPrimary
  <2>2. req[r].pc = "readPrimary"
    BY <1>1 DEF ReadPrimary, RequestAt
  <2> QED
    BY <2>1, <2>2 DEF UnsetPrimaries, RequestAt
<1>2. CASE UnsetPrimaries(r)
  BY <1>2 DEF UnsetPrimaries, RequestAt, Answered, Goto
<1>3. CASE ~ReadPrimary(r) /\ ~UnsetPrimaries(r)
  BY <1>3 DEF Step, InsertDID, ReadById, ReadPrivateKey, UpdateUsage, TxnCheck, TxnUnset, TxnSet, TxnCommit,
     DeleteDID, Answered, Goto, RequestAt
<1> QED
  BY <1>1, <1>2, <1>3

LEMMA DrawsStep ==
  ASSUME NoneLeftBehind, PKInv, [DIDNext]_didVars
  PROVE  DrawsAreNew'
<1>0. DIDTypeOK /\ TxnDiscipline /\ DrawsAreNew /\ TargetsLocked
  BY DEF PKInv, IInv
<1>1. CASE UNCHANGED didVars
  BY <1>0, <1>1 DEF didVars, DrawsAreNew, Draws
<1>2. ASSUME NEW r \in Requests, \A q \in Requests \ {r} : req'[q] = req[q],
             NEW op \in Ops, NEW u \in Owners, NEW d \in DIDs, StartRequest(r, op, u, d)
      PROVE  DrawsAreNew'
  <2>1. req'[r] = [op |-> op, pc |-> FirstStep(op), user |-> u, did |-> d] /\ userDids' = userDids
    BY <1>0, <1>2 DEF StartRequest, DIDTypeOK
  <2>2. Draws(r)' => op \in {"createPrimary", "sign"} /\ d \in Fresh
    BY <1>2, <2>1 DEF Draws, FirstStep, StartRequest, NoneLeftBehind
  <2>3. \A q \in Requests \ {r} : Draws(q)' => Draws(q) /\ q \in InFlight
    BY <1>2 DEF Draws, InFlight, Active
  <2> QED
    BY <1>0, <1>2, <2>1, <2>2, <2>3 DEF DrawsAreNew, Fresh
<1>3. ASSUME NEW r \in Requests, \A q \in Requests \ {r} : req'[q] = req[q], Step(r)
      PROVE  DrawsAreNew'
  <2>1. Draws(r)' => Draws(r) /\ req'[r].did = req[r].did /\ req'[r].op = req[r].op
    BY <1>0, <1>3, NextStatement DEF Draws
  <2>2. \A q \in Requests : Draws(q)' => Draws(q) /\ req'[q].did = req[q].did /\ req'[q].op = req[q].op
    BY <1>3, <2>1 DEF Draws
  <2>3. ASSUME NEW q \in Requests, Draws(q)' PROVE userDids'[req[q].did] = NoRow
    <3>1. userDids[req[q].did] = NoRow /\ req[q].did \in DIDs
      BY <1>0, <2>2, <2>3 DEF DrawsAreNew, DIDTypeOK, DIDRequest
    <3>2. CASE InsertDID(r)
      <4>1. Draws(r) /\ ~Draws(r)'
        BY <1>0, <3>2, NextStatement, <1>3 DEF InsertDID, RequestAt, Draws, UnsetPrimaries
      <4>2. req[q].did # req[r].did
        BY <1>0, <2>2, <2>3, <4>1 DEF DrawsAreNew
      <4> QED
        BY <1>0, <3>1, <3>2, <4>2, InsertRows
    <3>3. CASE UnsetPrimaries(r) \/ TxnCommit(r)
      BY <1>0, <3>1, <3>3, UnsetRows, CommitRows
    <3>4. CASE DeleteDID(r)
      BY <1>0, <3>4 DEF TargetsLocked, DeleteDID, RequestAt
    <3>5. CASE UNCHANGED userDids
      BY <3>1, <3>5
    <3> QED
      BY <1>3, <3>2, <3>3, <3>4, <3>5
         DEF Step, ReadPrimary, ReadById, ReadPrivateKey, UpdateUsage, TxnCheck, TxnUnset, TxnSet
  <2> QED
    BY <1>0, <2>2, <2>3 DEF DrawsAreNew
<1> QED
  BY <1>0, <1>1, <1>2, <1>3, OneSteps

LEMMA PrimaryStep ==
  ASSUME NoneLeftBehind, PKInv, [DIDNext]_didVars
  PROVE  PrimaryToCome'
<1>0. DIDTypeOK /\ TxnDiscipline /\ DrawsAreNew /\ TargetsLocked /\ PrimaryToCome /\ RowsEndure
  BY RowsStay DEF PKInv, IInv
<1> SUFFICES ASSUME NEW u \in Owners, RowsOf(u)' # {}
             PROVE  PrimaryOf(u)' # {} \/ \E r \in Requests : req'[r].pc = "insert" /\ req'[r].user = u
  BY DEF PrimaryToCome
<1>1. CASE UNCHANGED didVars
  BY <1>0, <1>1 DEF didVars, PrimaryToCome, RowsOf, PrimaryOf
<1>2. ASSUME NEW r \in Requests, \A q \in Requests \ {r} : req'[q] = req[q],
             NEW op \in Ops, NEW v \in Owners, NEW d \in DIDs, StartRequest(r, op, v, d)
      PROVE  PrimaryOf(u)' # {} \/ \E q \in Requests : req'[q].pc = "insert" /\ req'[q].user = u
  <2>1. req[r].pc # "insert" /\ userDids' = userDids
    BY <1>2 DEF StartRequest, Ended
  <2> QED
    BY <1>0, <1>2, <2>1 DEF PrimaryToCome, RowsOf, PrimaryOf
<1>3. ASSUME NEW r \in Requests, \A q \in Requests \ {r} : req'[q] = req[q], Step(r)
      PROVE  PrimaryOf(u)' # {} \/ \E q \in Requests : req'[q].pc = "insert" /\ req'[q].user = u
  <2>1. CASE UnsetPrimaries(r) /\ req[r].user = u
    BY <1>0, <1>3, <2>1, NextStatement
  <2>2. CASE UnsetPrimaries(r) /\ req[r].user # u
    <3>1. \A d \in DIDs : d \in RowsOf(u) \/ d \in RowsOf(u)' => userDids'[d] = userDids[d]
      BY <1>0, <2>2, UnsetRows DEF RowsOf, RowsEndure
    <3>2. RowsOf(u) # {} /\ (PrimaryOf(u) # {} => PrimaryOf(u)' # {})
      BY <3>1 DEF RowsOf, PrimaryOf
    <3>3. \A q \in Requests : req[q].pc = "insert" /\ req[q].user = u => req'[q] = req[q]
      BY <1>3, <2>2
    <3> QED
      BY <1>0, <3>2, <3>3 DEF PrimaryToCome
  <2>3. CASE InsertDID(r)
    <3>1. req[r].pc = "insert" /\ req[r].did \in DIDs /\ MakesPrimary(r) /\ userDids[req[r].did] = NoRow
      BY <1>0, <2>3 DEF InsertDID, RequestAt, DrawsAreNew, Draws, MakesPrimary, DIDTypeOK, DIDRequest
    <3>2. CASE req[r].user = u
      <4>1. CASE Duplicate(r)
        <5>1. PrimaryOf(u) # {} /\ userDids' = userDids
          BY <2>3, <3>1, <3>2, <4>1 DEF Duplicate, InsertDID
        <5> QED
          BY <5>1 DEF PrimaryOf, RowsOf
      <4>2. CASE ~Duplicate(r)
        <5>1. req[r].did \in PrimaryOf(u)'
          BY <1>0, <2>3, <3>1, <3>2, <4>2, InsertRows DEF PrimaryOf, RowsOf
        <5> QED
          BY <5>1
      <4> QED
        BY <4>1, <4>2
    <3>3. CASE req[r].user # u
      <4>1. \A d \in DIDs : d \in RowsOf(u) \/ d \in RowsOf(u)' => userDids'[d] = userDids[d]
        BY <1>0, <2>3, <3>1, <3>3, InsertRows DEF RowsOf, InsertDID
      <4>2. RowsOf(u) # {} /\ (PrimaryOf(u) # {} => PrimaryOf(u)' # {})
        BY <4>1 DEF RowsOf, PrimaryOf
      <4>3. \A q \in Requests : req[q].pc = "insert" /\ req[q].user = u => req'[q] = req[q]
        BY <1>3, <3>3
      <4> QED
        BY <1>0, <4>2, <4>3 DEF PrimaryToCome
    <3> QED
      BY <3>2, <3>3
  <2>4. CASE TxnCommit(r)
    <3>1. req[r].pc = "txnCommit" /\ req[r].did \in DIDs /\ rowLock[req[r].did] = r
      BY <1>0, <2>4 DEF TxnCommit, RequestAt, TargetsLocked, DIDTypeOK, DIDRequest
    <3>2. userDids[req[r].did] # NoRow /\ userDids[req[r].did].user = req[r].user
      BY <1>0, <3>1, Holder, DIDManagerAssumption
    <3>3. CASE req[r].user = u
      <4>1. req[r].did \in PrimaryOf(u)'
        <5>1. userDids'[req[r].did].isPrimary = TRUE
          BY <1>0, <2>4, <3>1, CommitRows
        <5> QED
          BY <1>0, <3>1, <3>2, <3>3, <5>1 DEF RowsEndure, PrimaryOf, RowsOf
      <4> QED
        BY <4>1
    <3>4. CASE req[r].user # u
      <4>1. \A d \in DIDs : d \in RowsOf(u) \/ d \in RowsOf(u)' => userDids'[d] = userDids[d]
        <5>1. \A d \in DIDs : rowLock[d] = r => d \notin RowsOf(u) /\ d \notin RowsOf(u)'
          BY <1>0, <3>4, Holder, DIDManagerAssumption DEF RowsOf, RowsEndure
        <5> QED
          BY <1>0, <2>4, <5>1, CommitRows
      <4>2. RowsOf(u) # {} /\ (PrimaryOf(u) # {} => PrimaryOf(u)' # {})
        BY <4>1 DEF RowsOf, PrimaryOf
      <4>3. \A q \in Requests : req[q].pc = "insert" /\ req[q].user = u => req'[q] = req[q]
        BY <1>3, <3>1
      <4> QED
        BY <1>0, <4>2, <4>3 DEF PrimaryToCome
    <3> QED
      BY <3>3, <3>4
  <2>5. CASE UNCHANGED userDids /\ ~InsertDID(r)
    <3>1. req[r].pc # "insert"
      BY <1>3, <2>5 DEF Step, UnsetPrimaries, ReadPrimary, ReadById, ReadPrivateKey, UpdateUsage, TxnCheck,
         TxnUnset, TxnSet, TxnCommit, DeleteDID, RequestAt
    <3> QED
      BY <1>0, <1>3, <2>5, <3>1 DEF PrimaryToCome, RowsOf, PrimaryOf
  <2>6. CASE DeleteDID(r)
    BY <1>0, <2>6 DEF TargetsLocked, DeleteDID, RequestAt
  <2> QED
    BY <1>3, <2>1, <2>2, <2>3, <2>4, <2>5, <2>6
       DEF Step, ReadPrimary, ReadById, ReadPrivateKey, UpdateUsage, TxnCheck, TxnUnset, TxnSet
<1> QED
  BY <1>0, <1>1, <1>2, <1>3, OneSteps

\* When every new DID asks to be the primary one, none is deleted, no statement fails and
\* the process is not restarted, a user with DIDs has a primary one whenever his calls
\* have ended: the INSERT that createUserDID's UPDATE is followed by is never refused
\* unless somebody else has given the user a primary DID meanwhile.
THEOREM PrimaryIsKept ==
  ASSUME NoneLeftBehind
  PROVE  DIDSpec => []PrimaryKept
<1>1. DIDInit => PKInv
  <2> SUFFICES ASSUME DIDInit PROVE TargetsLocked /\ DrawsAreNew /\ PrimaryToCome
    BY InitInv DEF PKInv
  <2>1. \A r \in Requests : req[r].pc = "idle"
    BY DEF DIDInit
  <2>2. \A d \in DIDs : userDids[d] = NoRow
    BY DEF DIDInit
  <2> QED
    BY <2>1, <2>2 DEF TargetsLocked, DrawsAreNew, Draws, PrimaryToCome, RowsOf
<1>2. PKInv /\ [DIDNext]_didVars => PKInv'
  <2> SUFFICES ASSUME PKInv, [DIDNext]_didVars PROVE PKInv'
    OBVIOUS
  <2>1. "delete" \notin Ops
    BY DEF NoneLeftBehind
  <2> QED
    BY <2>1, Inductive, TargetsStep, DrawsStep, PrimaryStep DEF PKInv
<1>3. PKInv => PrimaryKept
  BY DEF PKInv, PrimaryToCome, PrimaryKept, InFlight, Active
<1> QED
  BY <1>1, <1>2, <1>3, PTL DEF DIDSpec

=============================================================================
