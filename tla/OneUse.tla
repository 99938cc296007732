------------------------------- MODULE OneUse -------------------------------
(***************************************************************************)
(* What replay protection promises its callers: a call that presents a     *)
(* token is accepted, and the token is then used, or it is refused because *)
(* the token is used, all in one step.  A used token may be forgotten.     *)
(***************************************************************************)
CONSTANTS
    Tokens,  \* nullifiers and transaction hashes
    Calls    \* calls of verifyAndRecordNullifier and verifyAndRecordTransaction

VARIABLES
    used,    \* the tokens that may not be used again
    call     \* the calls made, their tokens and their answers

\* A call that has not been made.
None == [token |-> "none", answer |-> "none"]

Init ==
    /\ used = {}
    /\ call = [c \in Calls |-> None]

Present(c, t) ==
    /\ call[c] = None
    /\ call' = [call EXCEPT ![c] = [token |-> t, answer |-> "pending"]]
    /\ UNCHANGED used

Pending(c)            == call[c].answer = "pending"
AnswerWith(c, answer) == call' = [call EXCEPT ![c].answer = answer]

Accept(c) ==
    /\ Pending(c) /\ call[c].token \notin used
    /\ AnswerWith(c, "accepted")
    /\ used' = used \cup {call[c].token}

Refuse(c) ==
    /\ Pending(c) /\ call[c].token \in used
    /\ AnswerWith(c, "refused")
    /\ UNCHANGED used

\* A call that fails is not accepted; its token may be used all the same.
Fail(c) ==
    /\ Pending(c)
    /\ AnswerWith(c, "failed")
    /\ used' \in {used, used \cup {call[c].token}}

\* The calls in ended never get an answer; the tokens in forgotten are free again.
Forget(forgotten, ended) ==
    /\ used' = used \ forgotten
    /\ call' = [c \in Calls |-> IF c \in ended /\ Pending(c)
                                THEN [call[c] EXCEPT !.answer = "lost"] ELSE call[c]]

Next ==
    \/ \E c \in Calls :
          \/ \E t \in Tokens : Present(c, t)
          \/ Accept(c) \/ Refuse(c) \/ Fail(c)
    \/ \E forgotten \in SUBSET Tokens, ended \in SUBSET Calls : Forget(forgotten, ended)

Spec == Init /\ [][Next]_<<used, call>>
=============================================================================
