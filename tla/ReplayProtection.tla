-------------------------- MODULE ReplayProtection --------------------------
(***************************************************************************)
(* Replay protection of the ZK toolkit (zk-toolkit/src/replay-protection): *)
(* a proof's nullifier, or the hash of a transaction, is looked up and, if *)
(* it is not there, recorded.  The two are separated by an await, so that  *)
(* concurrent calls with one token all find it absent; the recording tests *)
(* again, in one turn of the event loop or by the primary key.             *)
(*                                                                         *)
(* Two stores: the Map of the process behind the exported functions, and   *)
(* the PostgreSQL class meant to replace it.  The two Maps, or tables, are *)
(* used in the same way and are modelled as one.                           *)
(***************************************************************************)
EXTENDS Naturals

CONSTANTS
    Tokens,      \* nullifiers and transaction hashes
    Calls,       \* calls of the verifyAndRecord functions
    Durable,     \* the tokens kept by PostgreSQLReplayProtectionStore, not by the Map
    MaxRestarts  \* bound on the restarts of the process

ASSUME ReplayAssumption ==
    /\ "none" \notin Tokens
    /\ Durable \subseteq Tokens
    /\ MaxRestarts \in Nat

VARIABLES
    record,   \* per token: whether it is recorded, and older than the retention
    call,     \* the calls
    restarts

vars == <<record, call, restarts>>

Ages     == {"absent", "fresh", "old"}
Answers  == {"accepted", "refused", "failed", "lost"}
NotMade  == [token |-> "none", pc |-> "none"]
CallMade == [token : Tokens, pc : {"check", "record"} \cup Answers]

Init ==
    /\ record = [t \in Tokens |-> "absent"]
    /\ call = [c \in Calls |-> NotMade]
    /\ restarts = 0

-----------------------------------------------------------------------------
Has(t)     == record[t] # "absent"
Goto(c, l) == call' = [call EXCEPT ![c].pc = l]

Verify(c, t) ==
    /\ call[c] = NotMade
    /\ call' = [call EXCEPT ![c] = [token |-> t, pc |-> "check"]]
    /\ UNCHANGED <<record, restarts>>

\* hasNullifier or hasTransaction; the record that is then read only words the
\* error.
Check(c) ==
    /\ call[c].pc = "check"
    /\ Goto(c, IF Has(call[c].token) THEN "refused" ELSE "record")
    /\ UNCHANGED <<record, restarts>>

\* Mutant: the record is written without a second test.
RecordUntested(c) ==
    /\ call[c].pc = "record"
    /\ Goto(c, "accepted")
    /\ record' = [record EXCEPT ![call[c].token] = "fresh"]
    /\ UNCHANGED restarts

\* recordNullifier or recordTransaction.
Record(c) ==
    /\ call[c].pc = "record"
    /\ \/ /\ Has(call[c].token)
          /\ Goto(c, "refused")
          /\ UNCHANGED record
       \/ /\ ~Has(call[c].token)
          /\ Goto(c, "accepted")
          /\ record' = [record EXCEPT ![call[c].token] = "fresh"]
    /\ UNCHANGED restarts

\* Mutant: a call that fails takes the record of its token back.
QueryFailsUndone(c) ==
    /\ call[c].pc \in {"check", "record"} /\ call[c].token \in Durable
    /\ Goto(c, "failed")
    /\ record' = [record EXCEPT ![call[c].token] = "absent"]
    /\ UNCHANGED restarts

\* A statement fails, or its INSERT is done and the answer lost.
QueryFails(c) ==
    /\ call[c].pc \in {"check", "record"} /\ call[c].token \in Durable
    /\ Goto(c, "failed")
    /\ \/ UNCHANGED record
       \/ /\ call[c].pc = "record" /\ ~Has(call[c].token)
          /\ record' = [record EXCEPT ![call[c].token] = "fresh"]
    /\ UNCHANGED restarts

-----------------------------------------------------------------------------
\* The retention period of a record ends.
Age(t) ==
    /\ record[t] = "fresh"
    /\ record' = [record EXCEPT ![t] = "old"]
    /\ UNCHANGED <<call, restarts>>

\* cleanup of the Maps.  That of the PostgreSQL class names its parameter inside
\* a string literal, so that the statement is refused and nothing is deleted.
Cleanup ==
    /\ record' = [t \in Tokens |-> IF record[t] = "old" /\ t \notin Durable
                                   THEN "absent" ELSE record[t]]
    /\ UNCHANGED <<call, restarts>>

Ongoing(c) == call[c].pc \in {"check", "record"}

Restart ==
    /\ restarts < MaxRestarts
    /\ restarts' = restarts + 1
    /\ record' = [t \in Tokens |-> IF t \in Durable THEN record[t] ELSE "absent"]
    /\ call' = [c \in Calls |-> IF Ongoing(c) THEN [call[c] EXCEPT !.pc = "lost"] ELSE call[c]]

Next ==
    \/ \E c \in Calls :
          \/ \E t \in Tokens : Verify(c, t)
          \/ Check(c) \/ Record(c) \/ QueryFails(c)
    \/ \E t \in Tokens : Age(t)
    \/ Cleanup
    \/ Restart

Spec == Init /\ [][Next]_vars

-----------------------------------------------------------------------------
\* Shapes of the store and of the calls.
TypeOK ==
    /\ record \in [Tokens -> Ages]
    /\ call \in [Calls -> CallMade \cup {NotMade}]
    /\ restarts \in 0 .. MaxRestarts

\* What a caller sees: the tokens in the store, and the answers.
Used == {t \in Tokens : Has(t)}
Seen == [c \in Calls |-> [token  |-> call[c].token,
                          answer |-> IF Ongoing(c) THEN "pending" ELSE call[c].pc]]

\* Checking and recording, an await apart, are one use of a token: every answer
\* is one an atomic test-and-record could have given.
Promise == INSTANCE OneUse WITH used <- Used, call <- Seen
Refines == Promise!Spec

\* Of all the calls that present a token to the PostgreSQL store, one is accepted,
\* whatever fails and however often the process restarts.
AcceptedOnce ==
    \A c, d \in Calls :
        /\ call[c].pc = "accepted" /\ call[d].pc = "accepted"
        /\ call[c].token = call[d].token /\ call[c].token \in Durable
        => c = d

=============================================================================
