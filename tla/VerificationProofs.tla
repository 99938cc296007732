------------------------- MODULE VerificationProofs -------------------------
(***************************************************************************)
(* Theorems about ReplayProtection, Accounts, ZKProofs, Anchoring and      *)
(* Templates: what they answer to those who ask and who check, for all     *)
(* their constants.                                                        *)
(*                                                                         *)
(* ReplayProtection implements OneUse: the lookup changes nothing that     *)
(* OneUse sees unless it refuses, and the recording accepts exactly when   *)
(* its token is absent. Over PostgreSQL nothing is ever forgotten          *)
(* (AcceptedStays), and a token is accepted once.                          *)
(***************************************************************************)
EXTENDS ReplayProtection, ZKProofs, Anchoring, Accounts, Templates, Foundations

-----------------------------------------------------------------------------
(* Tokens that are used once                                                *)

AcceptedStays ==
    \A c \in Calls :
        call[c].pc = "accepted" /\ call[c].token \in Durable => Has(call[c].token)

Inv == TypeOK /\ AcceptedStays /\ AcceptedOnce

LEMMA InitHolds == Init => Inv
    BY ReplayAssumption DEF Init, Inv, TypeOK, AcceptedStays, AcceptedOnce, Ages,
       NotMade, ReplayAssumption

\* A call that has been made keeps its record through a change of pc.
LEMMA GotoKeepsType ==
    ASSUME TypeOK, NEW c \in Calls, call[c] # NotMade,
           NEW l \in {"check", "record"} \cup Answers, Goto(c, l)
    PROVE  /\ call' \in [Calls -> CallMade \cup {NotMade}]
           /\ call'[c].pc = l /\ call'[c].token = call[c].token
           /\ \A d \in Calls \ {c} : call'[d] = call[d]
<1>1. call[c] \in CallMade
    BY DEF TypeOK
<1>2. [call[c] EXCEPT !.pc = l] \in CallMade
    BY <1>1 DEF CallMade
<1>3. call' = [call EXCEPT ![c] = [call[c] EXCEPT !.pc = l]]
    BY DEF Goto, TypeOK
<1>. QED
    BY <1>1, <1>2, <1>3 DEF TypeOK, CallMade

\* The ongoing calls of a process that restarts have no answer.
LEMMA RestartEffect ==
    ASSUME TypeOK, Restart
    PROVE  /\ call' \in [Calls -> CallMade \cup {NotMade}]
           /\ \A c \in Calls : \/ call'[c] = call[c] /\ ~Ongoing(c)
                               \/ /\ Ongoing(c) /\ call'[c].pc = "lost"
                                  /\ call'[c].token = call[c].token
<1>1. \A c \in Calls : Ongoing(c) => call[c] \in CallMade
    BY DEF TypeOK, Ongoing, NotMade
<1>2. \A q \in CallMade : /\ [q EXCEPT !.pc = "lost"] \in CallMade
                          /\ [q EXCEPT !.pc = "lost"].pc = "lost"
                          /\ [q EXCEPT !.pc = "lost"].token = q.token
    BY DEF CallMade, Answers
<1>3. call' = [c \in Calls |-> IF Ongoing(c) THEN [call[c] EXCEPT !.pc = "lost"] ELSE call[c]]
    BY DEF Restart
<1>. QED
    BY <1>1, <1>2, <1>3 DEF TypeOK

LEMMA TypeStep == TypeOK /\ [Next]_vars => TypeOK'
<1>. SUFFICES ASSUME TypeOK, [Next]_vars PROVE TypeOK'
    OBVIOUS
<1>1. ASSUME NEW c \in Calls, NEW t \in Tokens, Verify(c, t) PROVE TypeOK'
  <2>1. [token |-> t, pc |-> "check"] \in CallMade
      BY DEF CallMade
  <2>. QED
      BY <1>1, <2>1 DEF Verify, TypeOK
<1>2. ASSUME NEW c \in Calls, Check(c) \/ Record(c) \/ QueryFails(c) PROVE TypeOK'
  <2>1. call[c] # NotMade
      BY <1>2 DEF Check, Record, QueryFails, NotMade
  <2>2. \E l \in {"check", "record"} \cup Answers : Goto(c, l)
      BY <1>2 DEF Check, Record, QueryFails, Answers
  <2>3. call' \in [Calls -> CallMade \cup {NotMade}]
      BY <2>1, <2>2, GotoKeepsType
  <2>4. record' \in [Tokens -> Ages] /\ restarts' = restarts
      BY <1>2 DEF Check, Record, QueryFails, TypeOK, Ages
  <2>. QED
      BY <2>3, <2>4 DEF TypeOK
<1>3. ASSUME NEW t \in Tokens, Age(t) PROVE TypeOK'
    BY <1>3 DEF Age, TypeOK, Ages
<1>4. CASE Cleanup
    BY <1>4 DEF Cleanup, TypeOK, Ages
<1>5. CASE Restart
  <2>1. record' \in [Tokens -> Ages]
      BY <1>5 DEF Restart, TypeOK, Ages
  <2>2. restarts' \in 0 .. MaxRestarts
    <3>1. restarts < MaxRestarts /\ restarts' = restarts + 1
        BY <1>5, Zenon DEF Restart
    <3>. QED
        BY <3>1, ReplayAssumption DEF TypeOK, ReplayAssumption
  <2>. QED
      BY <1>5, <2>1, <2>2, RestartEffect DEF TypeOK
<1>6. CASE UNCHANGED vars
    BY <1>6 DEF vars, TypeOK
<1>. QED
    BY <1>1, <1>2, <1>3, <1>4, <1>5, <1>6 DEF Next

-----------------------------------------------------------------------------
(* One use over PostgreSQL                                                  *)

\* A call is accepted only by the step that records its absent token.
LEMMA NewlyAccepted ==
    ASSUME TypeOK, [Next]_vars, NEW c \in Calls,
           call'[c].pc = "accepted", call'[c] # call[c]
    PROVE  /\ ~Has(call[c].token) /\ Has(call[c].token)' /\ call'[c].token = call[c].token
           /\ \A d \in Calls \ {c} : call'[d] = call[d]
<1>1. ASSUME NEW d \in Calls, Record(d)
      PROVE  /\ ~Has(call[c].token) /\ Has(call[c].token)' /\ call'[c].token = call[c].token
             /\ \A e \in Calls \ {c} : call'[e] = call[e]
  <2>1. call[d] # NotMade /\ call[d].token \in Tokens
      BY <1>1 DEF Record, NotMade, TypeOK, CallMade
  <2>2. CASE Has(call[d].token) /\ Goto(d, "refused")
      BY <2>1, <2>2, GotoKeepsType DEF Answers
  <2>3. CASE /\ ~Has(call[d].token) /\ Goto(d, "accepted")
             /\ record' = [record EXCEPT ![call[d].token] = "fresh"]
    <3>1. /\ call'[d].token = call[d].token
          /\ \A e \in Calls \ {d} : call'[e] = call[e]
        BY <2>1, <2>3, GotoKeepsType DEF Answers
    <3>2. c = d
        BY <3>1
    <3>. QED
        BY <2>1, <2>3, <3>1, <3>2 DEF Has, TypeOK
  <2>. QED
      BY <1>1, <2>2, <2>3 DEF Record
<1>2. ASSUME NEW d \in Calls, NEW t \in Tokens, Verify(d, t) PROVE FALSE
    BY <1>2 DEF Verify, TypeOK
<1>3. ASSUME NEW d \in Calls, Check(d) \/ QueryFails(d) PROVE FALSE
  <2>1. call[d] # NotMade
      BY <1>3 DEF Check, QueryFails, NotMade
  <2>2. Goto(d, "refused") \/ Goto(d, "record") \/ Goto(d, "failed")
      BY <1>3 DEF Check, QueryFails
  <2>. QED
      BY <2>1, <2>2, GotoKeepsType DEF Answers
<1>4. CASE Restart
    BY <1>4, RestartEffect
<1>5. CASE (\E t \in Tokens : Age(t)) \/ Cleanup \/ UNCHANGED vars
    BY <1>5 DEF Age, Cleanup, vars
<1>. QED
    BY <1>1, <1>2, <1>3, <1>4, <1>5 DEF Next

LEMMA RecordsStay ==
    ASSUME TypeOK, [Next]_vars, NEW t \in Durable, Has(t)
    PROVE  Has(t)'
<1>0. t \in Tokens
    BY ReplayAssumption
<1> USE <1>0
<1>1. ASSUME NEW c \in Calls, Record(c) \/ QueryFails(c) PROVE Has(t)'
    BY <1>1 DEF Record, QueryFails, Has, TypeOK
<1>2. ASSUME NEW u \in Tokens, Age(u) PROVE Has(t)'
    BY <1>2 DEF Age, Has, TypeOK
<1>3. CASE Cleanup \/ Restart
    BY <1>3 DEF Cleanup, Restart, Has
<1>4. CASE UNCHANGED record
    BY <1>4 DEF Has
<1>. QED
    BY <1>1, <1>2, <1>3, <1>4 DEF Next, Verify, Check, vars

THEOREM Invariance == Spec => []Inv
<1>1. Inv /\ [Next]_vars => Inv'
  <2>. SUFFICES ASSUME Inv, [Next]_vars PROVE Inv'
      OBVIOUS
  <2>1. TypeOK /\ TypeOK'
      BY TypeStep DEF Inv
  <2>2. \A c \in Calls : call[c].pc = "accepted" => call[c].token \in Tokens
      BY <2>1 DEF TypeOK, CallMade, NotMade
  <2>3. AcceptedStays'
    <3>. SUFFICES ASSUME NEW c \in Calls, call'[c].pc = "accepted", call'[c].token \in Durable
                  PROVE  Has(call[c].token)'
        BY DEF AcceptedStays
    <3>1. CASE call'[c] = call[c]
        BY <2>1, <2>2, <3>1, RecordsStay DEF Inv, AcceptedStays
    <3>2. CASE call'[c] # call[c]
        BY <2>1, <3>2, NewlyAccepted DEF Has
    <3>. QED
        BY <3>1, <3>2
  <2>4. AcceptedOnce'
    <3>. SUFFICES ASSUME NEW c \in Calls, NEW d \in Calls, c # d,
                         call'[c].pc = "accepted", call'[d].pc = "accepted",
                         call'[c].token = call'[d].token, call'[c].token \in Durable
                  PROVE  FALSE
        BY DEF AcceptedOnce
    <3>1. CASE call'[c] = call[c] /\ call'[d] = call[d]
        BY <3>1 DEF Inv, AcceptedOnce
    <3>2. CASE call'[c] # call[c]
        BY <2>1, <3>2, NewlyAccepted DEF Inv, AcceptedStays
    <3>3. CASE call'[d] # call[d]
        BY <2>1, <3>3, NewlyAccepted DEF Inv, AcceptedStays
    <3>. QED
        BY <3>1, <3>2, <3>3
  <2>. QED
      BY <2>1, <2>3, <2>4 DEF Inv
<1>. QED
    BY <1>1, InitHolds, PTL DEF Spec

\* The store and the calls keep their types.
THEOREM ReplayTypeCorrect == Spec => []TypeOK
    BY Invariance, PTL DEF Inv

\* Over PostgreSQL a nullifier or transaction hash is accepted once, however its
\* calls interleave, fail and are cut off by restarts.
THEOREM AcceptedOnceByPostgres == Spec => []AcceptedOnce
    BY Invariance, PTL DEF Inv

-----------------------------------------------------------------------------
(* ReplayProtection implements OneUse                                       *)

LEMMA SeenInit == Init => Promise!Init
    BY DEF Init, Promise!Init, Promise!None, Used, Seen, Has, Ongoing, NotMade

\* A change of one call's pc is, to OneUse, the same change of its answer.
LEMMA SeenGoto ==
    ASSUME TypeOK, NEW c \in Calls, Ongoing(c),
           NEW l \in {"record"} \cup Answers, Goto(c, l)
    PROVE  /\ Seen[c].answer = "pending" /\ Seen[c].token = call[c].token
           /\ Seen' = [Seen EXCEPT ![c].answer = IF l = "record" THEN "pending" ELSE l]
<1>1. call[c] # NotMade
    BY DEF Ongoing, NotMade
<1>2. call'[c].pc = l /\ call'[c].token = call[c].token /\ \A d \in Calls \ {c} : call'[d] = call[d]
    BY <1>1, GotoKeepsType
<1>3. Ongoing(c)' <=> l = "record"
    BY <1>2 DEF Ongoing, Answers
<1>4. \A d \in Calls \ {c} : Ongoing(d)' <=> Ongoing(d)
    BY <1>2 DEF Ongoing
<1>. DEFINE a == IF l = "record" THEN "pending" ELSE l
<1>5. Seen'[c] = [token |-> call[c].token, answer |-> a]
    BY <1>2, <1>3 DEF Seen
<1>6. Seen[c] = [token |-> call[c].token, answer |-> "pending"]
    BY DEF Seen
<1>7. \A d \in Calls \ {c} : Seen'[d] = Seen[d]
    BY <1>2, <1>4 DEF Seen
<1>. HIDE DEF a
<1>8. [Seen[c] EXCEPT !.answer = a] = [token |-> call[c].token, answer |-> a]
    BY <1>6
<1>9. Seen = [d \in Calls |-> Seen[d]] /\ Seen' = [d \in Calls |-> Seen'[d]]
    BY DEF Seen
<1>10. Seen' = [Seen EXCEPT ![c].answer = a]
    BY <1>5, <1>7, <1>8, <1>9
<1>. QED
    BY <1>6, <1>10 DEF a

\* The step of a call is a step of OneUse, or changes nothing OneUse sees.
LEMMA CallStep ==
    ASSUME TypeOK, NEW c \in Calls, Check(c) \/ Record(c) \/ QueryFails(c)
    PROVE  Promise!Accept(c) \/ Promise!Refuse(c) \/ Promise!Fail(c) \/ UNCHANGED <<Used, Seen>>
<1>. USE DEF Promise!Accept, Promise!Refuse, Promise!Fail, Promise!Pending, Promise!AnswerWith
<1>1. Ongoing(c) /\ call[c].token \in Tokens
    BY DEF Check, Record, QueryFails, Ongoing, TypeOK, CallMade, NotMade
<1>2. Has(call[c].token) <=> call[c].token \in Used
    BY <1>1 DEF Used
<1>3. CASE Goto(c, "refused") /\ UNCHANGED record /\ Has(call[c].token)
  <2>1. Used' = Used
      BY <1>3 DEF Used, Has
  <2>. QED
      BY <1>1, <1>2, <1>3, <2>1, SeenGoto DEF Answers
<1>4. CASE Goto(c, "record") /\ UNCHANGED record
  <2>1. Used' = Used
      BY <1>4 DEF Used, Has
  <2>2. Seen' = [Seen EXCEPT ![c].answer = "pending"] /\ Seen[c].answer = "pending"
      BY <1>1, <1>4, SeenGoto
  <2>3. Seen' = Seen
      BY <2>2 DEF Seen
  <2>. QED
      BY <2>1, <2>3
<1>5. ASSUME ~Has(call[c].token), record' = [record EXCEPT ![call[c].token] = "fresh"]
      PROVE  Used' = Used \cup {call[c].token}
    BY <1>1, <1>5 DEF Used, Has, TypeOK
<1>6. CASE Goto(c, "accepted") /\ ~Has(call[c].token)
           /\ record' = [record EXCEPT ![call[c].token] = "fresh"]
    BY <1>1, <1>2, <1>5, <1>6, SeenGoto DEF Answers
<1>7. CASE Goto(c, "failed") /\ UNCHANGED record
  <2>1. Used' = Used
      BY <1>7 DEF Used, Has
  <2>. QED
      BY <1>1, <1>7, <2>1, SeenGoto DEF Answers
<1>8. CASE Goto(c, "failed") /\ ~Has(call[c].token)
           /\ record' = [record EXCEPT ![call[c].token] = "fresh"]
    BY <1>1, <1>5, <1>8, SeenGoto DEF Answers
<1>. QED
    BY <1>3, <1>4, <1>6, <1>7, <1>8 DEF Check, Record, QueryFails

\* Every answer of the functions is one that an atomic test-and-record could
\* have given, whatever is interleaved between check and record, forgotten by
\* cleanup, or cut off by a restart.
THEOREM Refinement == Spec => Refines
<1>1. TypeOK /\ [Next]_vars => [Promise!Next]_<<Used, Seen>>
  <2>. SUFFICES ASSUME TypeOK, [Next]_vars PROVE [Promise!Next]_<<Used, Seen>>
      OBVIOUS
  <2>1. ASSUME NEW c \in Calls, NEW t \in Tokens, Verify(c, t)
        PROVE  Promise!Present(c, t)
    <3>1. Used' = Used
        BY <2>1 DEF Verify, Used, Has
    <3>2. Seen[c] = Promise!None
        BY <2>1 DEF Verify, Seen, Ongoing, NotMade, Promise!None
    <3>3. call' = [call EXCEPT ![c] = [token |-> t, pc |-> "check"]]
        BY <2>1 DEF Verify
    <3>4. Seen' = [Seen EXCEPT ![c] = [token |-> t, answer |-> "pending"]]
        BY <3>3 DEF Seen, Ongoing, TypeOK
    <3>. QED
        BY <3>1, <3>2, <3>4 DEF Promise!Present
  <2>2. ASSUME NEW t \in Tokens, Age(t) PROVE UNCHANGED <<Used, Seen>>
      BY <2>2 DEF Age, Used, Seen, Has, Ongoing, TypeOK
  <2>3. CASE Cleanup
    <3>1. Seen' = Seen
        BY <2>3 DEF Cleanup, Seen, Ongoing
    <3>. DEFINE gone == {t \in Tokens : record[t] = "old" /\ t \notin Durable}
    <3>2. Used' = Used \ gone
        BY <2>3 DEF Cleanup, Used, Has, TypeOK
    <3>3. Promise!Forget(gone, {})
        BY <3>1, <3>2 DEF Promise!Forget, Seen
    <3>. QED
        BY <3>3 DEF Promise!Next
  <2>4. CASE Restart
    <3>. DEFINE lost == {t \in Tokens : t \notin Durable}
    <3>1. Used' = Used \ lost
        BY <2>4 DEF Restart, Used, Has
    <3>2. \A c \in Calls :
             Seen'[c] = IF Promise!Pending(c) THEN [Seen[c] EXCEPT !.answer = "lost"] ELSE Seen[c]
      <4>. SUFFICES ASSUME NEW c \in Calls
                    PROVE  Seen'[c] = IF Promise!Pending(c)
                                      THEN [Seen[c] EXCEPT !.answer = "lost"] ELSE Seen[c]
          OBVIOUS
      <4>1. CASE Ongoing(c)
        <5>1. call'[c].pc = "lost" /\ call'[c].token = call[c].token
            BY <2>4, <4>1, RestartEffect
        <5>2. Seen'[c] = [token |-> call[c].token, answer |-> "lost"]
            BY <5>1 DEF Seen, Ongoing
        <5>3. Seen[c] = [token |-> call[c].token, answer |-> "pending"]
            BY <4>1 DEF Seen
        <5>. QED
            BY <5>2, <5>3 DEF Promise!Pending
      <4>2. CASE ~Ongoing(c)
        <5>1. call'[c] = call[c] /\ ~Ongoing(c)'
            BY <2>4, <4>2, RestartEffect DEF Ongoing
        <5>2. Seen'[c] = Seen[c] /\ Seen[c].answer = call[c].pc
            BY <4>2, <5>1 DEF Seen
        <5>3. call[c].pc # "pending"
            BY DEF TypeOK, CallMade, NotMade, Answers
        <5>. QED
            BY <5>2, <5>3 DEF Promise!Pending
      <4>. QED
          BY <4>1, <4>2
    <3>3. Seen' = [c \in Calls |-> IF c \in Calls /\ Promise!Pending(c)
                                   THEN [Seen[c] EXCEPT !.answer = "lost"] ELSE Seen[c]]
      <4>1. Seen' = [c \in Calls |-> Seen'[c]]
          BY DEF Seen
      <4>. QED
          BY <3>2, <4>1, Zenon
    <3>4. Promise!Forget(lost, Calls)
        BY <3>1, <3>3 DEF Promise!Forget
    <3>. QED
        BY <3>4 DEF Promise!Next
  <2>5. CASE UNCHANGED vars
      BY <2>5 DEF vars, Used, Seen, Has, Ongoing
  <2>. QED
      BY <2>1, <2>2, <2>3, <2>4, <2>5, CallStep DEF Next, Promise!Next
<1>2. Refines <=> Promise!Init /\ [][Promise!Next]_<<Used, Seen>>
    BY DEF Refines, Promise!Spec
<1>. QED
    BY <1>1, <1>2, SeenInit, ReplayTypeCorrect, PTL DEF Spec

-----------------------------------------------------------------------------
(* Accounts                                                                 *)

Session == [pc : {"hashing", "comparing", "noting"}, email : Emails, password : Passwords,
            user : UserIds \cup {Nobody}]
UserRow == [email : Emails, password : Passwords]

\* No two rows have one email, and a login has found the row of its email.
RowsSound ==
    /\ \A i, j \in DOMAIN users : users[i].email = users[j].email => i = j
    /\ \A s \in Sessions : session[s] # Nobody /\ session[s].pc # "hashing" =>
          /\ session[s].user \in DOMAIN users
          /\ users[session[s].user].email = session[s].email

AccountInv ==
    /\ AccountTypeOK
    /\ session \in [Sessions -> Session \cup {Nobody}]
    /\ welcomed \subseteq UserRow
    /\ RowsSound /\ WelcomedCanLogin

LEMMA AccountInit0 == AccountInit => AccountInv
<1> SUFFICES ASSUME AccountInit PROVE AccountInv
  OBVIOUS
<1>1. DOMAIN users = {} /\ users = [i \in {} |-> i]
  BY DEF AccountInit
<1>2. users \in [DOMAIN users -> UserRow]
  BY <1>1
<1>3. session \in [Sessions -> Session \cup {Nobody}] /\ \A s \in Sessions : session[s] = Nobody
  BY DEF AccountInit
<1> QED
  BY <1>1, <1>2, <1>3 DEF AccountInit, AccountInv, AccountTypeOK, RowsSound, WelcomedCanLogin, UserRow

\* Steps that only move a session on.
LEMMA SessionMoves ==
  ASSUME AccountInv, NEW s \in Sessions, NEW g \in Session \cup {Nobody},
         session' = [session EXCEPT ![s] = g], UNCHANGED <<users, welcomed, tokens>>,
         g # Nobody /\ g.pc # "hashing" =>
            g.user \in DOMAIN users /\ users[g.user].email = g.email,
         g # Nobody /\ g.pc = "noting" => users[g.user].password = g.password
  PROVE  AccountInv'
<1>1. /\ session \in [Sessions -> Session \cup {Nobody}] /\ AccountTypeOK /\ RowsSound
      /\ WelcomedCanLogin /\ welcomed \subseteq UserRow
  BY DEF AccountInv
<1>2. session'[s] = g /\ (\A x \in Sessions : x # s => session'[x] = session[x])
      /\ session' \in [Sessions -> Session \cup {Nobody}]
  BY <1>1
<1>3. g # Nobody /\ g.pc = "noting" => users[g.user] = [email |-> g.email, password |-> g.password]
  <2> SUFFICES ASSUME g # Nobody, g.pc = "noting"
               PROVE  users[g.user] = [email |-> g.email, password |-> g.password]
    OBVIOUS
  <2>1. users[g.user] \in [email : Emails, password : Passwords]
    BY <1>1 DEF AccountTypeOK
  <2> QED
    BY <2>1
<1>4. AccountTypeOK'
  <2>1. \A x \in Sessions : session'[x] # Nobody =>
          /\ session'[x].pc \in {"hashing", "comparing", "noting"}
          /\ session'[x].pc = "noting" =>
                users[session'[x].user] = [email |-> session'[x].email, password |-> session'[x].password]
    BY <1>1, <1>2, <1>3 DEF AccountTypeOK, Session
  <2> QED
    BY <1>1, <2>1 DEF AccountTypeOK
<1>5. RowsSound'
  BY <1>1, <1>2 DEF RowsSound
<1>6. WelcomedCanLogin'
  BY <1>1 DEF WelcomedCanLogin, RowsWith
<1> QED
  BY <1>1, <1>2, <1>4, <1>5, <1>6 DEF AccountInv

\* The row that a registration adds, whose email no other row has.
LEMMA InsertKeeps ==
  ASSUME AccountInv, NEW s \in Sessions, During(s, "hashing"),
         RowsWith(session[s].email) = {}, NEW i \in UserIds \ DOMAIN users, Insert(s, i)
  PROVE  AccountInv'
<1>1. /\ session \in [Sessions -> Session \cup {Nobody}] /\ AccountTypeOK /\ RowsSound
      /\ WelcomedCanLogin /\ welcomed \subseteq UserRow
  BY DEF AccountInv
<1>2. PICK e \in Emails, p \in Passwords : session[s].email = e /\ session[s].password = p
  BY <1>1 DEF During, Session
<1>3. /\ users' = [j \in DOMAIN users \cup {i} |->
                      IF j = i THEN [email |-> e, password |-> p] ELSE users[j]]
      /\ welcomed' = welcomed \cup {[email |-> e, password |-> p]}
      /\ tokens' = tokens \cup {[id |-> i, email |-> e]}
      /\ session' = [session EXCEPT ![s] = Nobody]
  BY <1>2 DEF Insert, Sign, Finish
<1>4. /\ DOMAIN users' = DOMAIN users \cup {i}
      /\ users'[i].email = e /\ users'[i].password = p /\ users'[i] \in UserRow
      /\ \A j \in DOMAIN users : users'[j] = users[j] /\ j # i
  BY <1>3 DEF UserRow
<1>5. \A j \in DOMAIN users : users[j].email # e
  BY <1>2 DEF RowsWith
<1>6. /\ session' \in [Sessions -> Session \cup {Nobody}] /\ session'[s] = Nobody
      /\ \A x \in Sessions : x # s => session'[x] = session[x]
  BY <1>1, <1>3
<1>7. RowsSound'
  BY <1>1, <1>4, <1>5, <1>6 DEF RowsSound
<1>8. AccountTypeOK'
  <2>1. users' \in [DOMAIN users' -> UserRow] /\ DOMAIN users' \subseteq UserIds
    BY <1>1, <1>3, <1>4 DEF AccountTypeOK, UserRow
  <2>2. tokens' \subseteq [id : UserIds, email : Emails]
    BY <1>1, <1>3 DEF AccountTypeOK
  <2>3. ASSUME NEW x \in Sessions, session'[x] # Nobody
        PROVE  /\ session'[x].pc \in {"hashing", "comparing", "noting"}
               /\ session'[x].pc = "noting" =>
                     users'[session'[x].user] =
                        [email |-> session'[x].email, password |-> session'[x].password]
    <3>1. x # s /\ session'[x] = session[x]
      BY <1>6, <2>3
    <3> QED
      BY <1>1, <1>4, <2>3, <3>1 DEF AccountTypeOK, RowsSound
  <2> QED
    BY <2>1, <2>2, <2>3 DEF AccountTypeOK, UserRow
<1>9. WelcomedCanLogin'
  <2>1. RowsWith(e)' = {i}
    BY <1>4, <1>5 DEF RowsWith
  <2>2. ASSUME NEW x, x # e PROVE RowsWith(x)' = RowsWith(x)
    BY <1>4, <2>2 DEF RowsWith
  <2>3. ASSUME NEW w \in welcomed'
        PROVE  /\ RowsWith(w.email)' # {}
               /\ \A j \in RowsWith(w.email)' : users'[j].password = w.password
    <3>1. CASE w = [email |-> e, password |-> p]
      BY <1>4, <2>1, <3>1
    <3>2. CASE w \in welcomed
      <4>1. RowsWith(w.email) # {} /\ \A j \in RowsWith(w.email) : users[j].password = w.password
        BY <1>1, <3>2 DEF WelcomedCanLogin
      <4>2. w.email # e
        BY <1>2, <4>1
      <4>3. RowsWith(w.email)' = RowsWith(w.email) /\ RowsWith(w.email) \subseteq DOMAIN users
        BY <2>2, <4>2 DEF RowsWith
      <4> QED
        BY <1>4, <4>1, <4>3
    <3> QED
      BY <1>3, <2>3, <3>1, <3>2
  <2>4. ASSUME NEW t \in tokens' PROVE RowsWith(t.email)' = {t.id}
    <3>1. CASE t = [id |-> i, email |-> e]
      BY <2>1, <3>1
    <3>2. CASE t \in tokens
      <4>1. RowsWith(t.email) = {t.id}
        BY <1>1, <3>2 DEF WelcomedCanLogin
      <4>2. t.email # e
        BY <1>2, <4>1
      <4> QED
        BY <2>2, <4>1, <4>2
    <3> QED
      BY <1>3, <2>4, <3>1, <3>2
  <2> QED
    BY <2>3, <2>4 DEF WelcomedCanLogin
<1>10. welcomed' \subseteq UserRow
  BY <1>1, <1>3 DEF UserRow
<1> QED
  BY <1>6, <1>7, <1>8, <1>9, <1>10 DEF AccountInv

LEMMA AccountStep ==
  ASSUME EmailIsUnique, AccountInv, [AccountNext]_accountVars
  PROVE  AccountInv'
<1>0. /\ session \in [Sessions -> Session \cup {Nobody}] /\ AccountTypeOK /\ RowsSound
      /\ WelcomedCanLogin /\ welcomed \subseteq UserRow
  BY DEF AccountInv
<1>1. ASSUME NEW s \in Sessions, NEW e \in Emails, NEW p \in Passwords, LookUp(s, e, p)
      PROVE  AccountInv'
  <2> DEFINE g == [pc |-> "hashing", email |-> e, password |-> p, user |-> Nobody]
  <2>1. g \in Session /\ g.pc = "hashing"
    BY DEF Session
  <2>2. session' = [session EXCEPT ![s] = g] /\ UNCHANGED <<users, welcomed, tokens>>
    BY <1>1 DEF LookUp, Begin
  <2> HIDE DEF g
  <2> QED
    BY <2>1, <2>2, SessionMoves
<1>2. ASSUME NEW s \in Sessions, NEW e \in Emails, NEW p \in Passwords, FindUser(s, e, p)
      PROVE  AccountInv'
  <2>1. PICK i \in RowsWith(e) :
           session' = [session EXCEPT ![s] =
                          [pc |-> "comparing", email |-> e, password |-> p, user |-> i]]
    BY <1>2 DEF FindUser
  <2> DEFINE g == [pc |-> "comparing", email |-> e, password |-> p, user |-> i]
  <2>2. i \in DOMAIN users /\ users[i].email = e /\ i \in UserIds
    BY <1>0 DEF RowsWith, AccountTypeOK
  <2>3. g \in Session /\ g.pc = "comparing" /\ g.user = i /\ g.email = e
    BY <2>2 DEF Session
  <2>4. session' = [session EXCEPT ![s] = g] /\ UNCHANGED <<users, welcomed, tokens>>
    BY <1>2, <2>1 DEF FindUser
  <2> HIDE DEF g
  <2> QED
    BY <2>2, <2>3, <2>4, SessionMoves
<1>3. ASSUME NEW s \in Sessions, InsertUser(s) PROVE AccountInv'
  <2>1. During(s, "hashing")
    BY <1>3 DEF InsertUser
  <2>2. CASE RowsWith(session[s].email) # {}
    BY <1>3, <2>2, SessionMoves DEF InsertUser, Finish
  <2>3. CASE RowsWith(session[s].email) = {}
    <3>1. PICK i \in UserIds \ DOMAIN users : Insert(s, i)
      BY <1>3, <2>3 DEF InsertUser
    <3> QED
      BY <2>1, <2>3, <3>1, InsertKeeps
  <2> QED
    BY <2>2, <2>3
<1>4. ASSUME NEW s \in Sessions, ComparePassword(s) PROVE AccountInv'
  <2>1. session[s] # Nobody /\ session[s] \in Session /\ session[s].pc = "comparing"
        /\ UNCHANGED <<users, welcomed, tokens>>
    BY <1>0, <1>4 DEF ComparePassword, During
  <2>2. CASE users[session[s].user].password = session[s].password
    <3> DEFINE g == [session[s] EXCEPT !.pc = "noting"]
    <3>1. g \in Session /\ g.user = session[s].user /\ g.email = session[s].email
          /\ g.password = session[s].password
      BY <2>1 DEF Session
    <3>2. session' = [session EXCEPT ![s] = g]
      BY <1>4, <2>2 DEF ComparePassword
    <3>3. g.user \in DOMAIN users /\ users[g.user].email = g.email
      BY <1>0, <2>1, <3>1 DEF RowsSound
    <3> HIDE DEF g
    <3> QED
      BY <2>1, <2>2, <3>1, <3>2, <3>3, SessionMoves
  <2>3. CASE users[session[s].user].password # session[s].password
    BY <1>4, <2>1, <2>3, SessionMoves DEF ComparePassword, Finish
  <2> QED
    BY <2>2, <2>3
<1>5. ASSUME NEW s \in Sessions, NoteLogin(s) PROVE AccountInv'
  <2>1. /\ session[s] # Nobody /\ session[s] \in Session /\ session[s].pc = "noting"
        /\ session' = [session EXCEPT ![s] = Nobody]
        /\ tokens' = tokens \cup {[id |-> session[s].user, email |-> session[s].email]}
        /\ UNCHANGED <<users, welcomed>>
    BY <1>0, <1>5 DEF NoteLogin, During, Finish, Sign
  <2>2. session[s].user \in DOMAIN users /\ users[session[s].user].email = session[s].email
    BY <1>0, <2>1 DEF RowsSound
  <2>3. RowsWith(session[s].email) = {session[s].user}
    BY <1>0, <2>2 DEF RowsWith, RowsSound
  <2>4. session' \in [Sessions -> Session \cup {Nobody}] /\ session'[s] = Nobody
        /\ \A x \in Sessions : x # s => session'[x] = session[x]
    BY <1>0, <2>1
  <2>5. tokens' \subseteq [id : UserIds, email : Emails]
    BY <1>0, <2>1, <2>2 DEF AccountTypeOK, Session
  <2>6. AccountTypeOK'
    BY <1>0, <2>1, <2>4, <2>5 DEF AccountTypeOK
  <2>7. RowsSound'
    BY <1>0, <2>1, <2>4 DEF RowsSound
  <2>8. WelcomedCanLogin'
    BY <1>0, <2>1, <2>3 DEF WelcomedCanLogin, RowsWith
  <2> QED
    BY <1>0, <2>1, <2>4, <2>6, <2>7, <2>8 DEF AccountInv
<1>6. ASSUME NEW s \in Sessions, SessionFails(s) PROVE AccountInv'
  BY <1>6, SessionMoves DEF SessionFails, Finish
<1>7. CASE UNCHANGED accountVars
  BY <1>7 DEF accountVars, AccountInv, AccountTypeOK, RowsSound, WelcomedCanLogin, RowsWith
<1> QED
  BY <1>1, <1>2, <1>3, <1>4, <1>5, <1>6, <1>7 DEF AccountNext

\* Rows, sessions and tokens keep their shapes, and a login is noted only of a user
\* whose password was given.
THEOREM AccountTypeCorrect ==
  ASSUME EmailIsUnique PROVE AccountSpec => []AccountTypeOK
<1>1. AccountInv /\ [AccountNext]_accountVars => AccountInv'
  BY AccountStep
<1>2. AccountInv => AccountTypeOK
  BY DEF AccountInv
<1> QED
  BY <1>1, <1>2, AccountInit0, PTL DEF AccountSpec

\* As long as the database keeps emails unique, whoever was answered that the account
\* exists can log in to it, however registrations and logins overlap or fail.
THEOREM WelcomedLogIn ==
  ASSUME EmailIsUnique PROVE AccountSpec => []WelcomedCanLogin
<1>1. AccountInv /\ [AccountNext]_accountVars => AccountInv'
  BY AccountStep
<1>2. AccountInv => WelcomedCanLogin
  BY DEF AccountInv
<1> QED
  BY <1>1, <1>2, AccountInit0, PTL DEF AccountSpec

-----------------------------------------------------------------------------
(* Stored proofs                                                            *)

Generation == [pc : {"read", "proved", "refused"}, user : Holders, attestation : DOMAIN HeldBy,
               question : Statements, value : PrivateValues]
ProofRow   == [asked : Generation, verified : BOOLEAN]
Checking   == [id : ProofIds, read : BOOLEAN, found : BOOLEAN, quiet : BOOLEAN]

\* A verification that no failed one has overlapped finds the row as it read it, or better.
QuietReads ==
    \A v \in Checks : check[v] # Nil /\ check[v].quiet =>
        /\ check[v].read => row[check[v].id].verified
        /\ \A w \in Checks : w # v /\ check[w] # Nil /\ ~check[w].found => check[w].id # check[v].id

ZKInv ==
    /\ ZKTypeOK
    /\ row \in [DOMAIN row -> ProofRow]
    /\ generation \in [Proofs -> Generation \cup {Nil}]
    /\ check \in [Checks -> Checking \cup {Nil}]
    /\ QuietReads

LEMMA ZKInit0 == ZKInit => ZKInv
<1> SUFFICES ASSUME ZKInit PROVE ZKInv
  OBVIOUS
<1>1. DOMAIN row = {} /\ row = [i \in {} |-> i]
  BY DEF ZKInit
<1>2. row \in [DOMAIN row -> ProofRow]
  BY <1>1
<1> QED
  BY <1>1, <1>2 DEF ZKInit, ZKInv, ZKTypeOK, QuietReads

\* Steps of a call that generates and stores nothing.
LEMMA GenerationMoves ==
  ASSUME ZKInv, NEW g \in Proofs, NEW c \in Generation \cup {Nil},
         generation' = [generation EXCEPT ![g] = c], UNCHANGED <<row, check>>,
         c # Nil => c.user = HeldBy[c.attestation]
  PROVE  ZKInv'
<1>1. /\ generation' \in [Proofs -> Generation \cup {Nil}] /\ generation'[g] = c
      /\ \A h \in Proofs : h # g => generation'[h] = generation[h]
  BY DEF ZKInv
<1>2. ZKTypeOK'
  BY <1>1 DEF ZKInv, ZKTypeOK, Generation
<1> QED
  BY <1>1, <1>2 DEF ZKInv, QuietReads

LEMMA GenerateSteps ==
  ASSUME ZKInv, NEW g \in Proofs,
         \/ \E u \in Holders, a \in DOMAIN HeldBy, q \in Statements, x \in PrivateValues :
               Generate(g, u, a, q, x)
         \/ Prove(g) \/ GenerationFails(g)
  PROVE  ZKInv'
<1>1. ASSUME NEW u \in Holders, NEW a \in DOMAIN HeldBy, NEW q \in Statements,
             NEW x \in PrivateValues, Generate(g, u, a, q, x)
      PROVE  ZKInv'
  <2> DEFINE c == [pc |-> "read", user |-> u, attestation |-> a, question |-> q, value |-> x]
  <2>1. c \in Generation /\ c.user = HeldBy[c.attestation]
    BY <1>1 DEF Generation, Generate
  <2>2. generation' = [generation EXCEPT ![g] = c] /\ UNCHANGED <<row, check>>
    BY <1>1 DEF Generate
  <2> HIDE DEF c
  <2> QED
    BY <2>1, <2>2, GenerationMoves
<1>2. CASE Prove(g)
  <2>1. PICK pc \in {"proved", "refused"} : generation' = [generation EXCEPT ![g].pc = pc]
    BY <1>2 DEF Prove
  <2> DEFINE c == [generation[g] EXCEPT !.pc = pc]
  <2>2. generation[g] \in Generation /\ generation[g].user = HeldBy[generation[g].attestation]
    BY <1>2 DEF Prove, Generating, ZKInv, ZKTypeOK
  <2>3. c \in Generation /\ c.user = HeldBy[c.attestation]
    BY <2>2 DEF Generation
  <2>4. generation' = [generation EXCEPT ![g] = c] /\ UNCHANGED <<row, check>>
    BY <1>2, <2>1 DEF Prove
  <2> HIDE DEF c
  <2> QED
    BY <2>3, <2>4, GenerationMoves
<1>3. CASE GenerationFails(g)
  BY <1>3, GenerationMoves DEF GenerationFails
<1> QED
  BY <1>1, <1>2, <1>3

LEMMA InsertProofStep ==
  ASSUME ZKInv, NEW g \in Proofs, InsertProof(g)
  PROVE  ZKInv'
<1>1. PICK i \in ProofIds \ DOMAIN row :
         row' = [j \in DOMAIN row \cup {i} |->
                    IF j = i THEN [asked |-> generation[g], verified |-> TRUE] ELSE row[j]]
  BY DEF InsertProof
<1>2. generation[g] \in Generation /\ generation[g].pc = "proved"
  BY DEF InsertProof, Generating, ZKInv
<1>3. /\ DOMAIN row' = DOMAIN row \cup {i}
      /\ row'[i] \in ProofRow /\ row'[i].asked.pc = "proved"
      /\ \A j \in DOMAIN row : row'[j] = row[j]
  BY <1>1, <1>2 DEF ProofRow
<1>4. row' \in [DOMAIN row' -> ProofRow]
  BY <1>1, <1>3 DEF ZKInv
<1>5. /\ generation' = [generation EXCEPT ![g] = Nil] /\ check' = check
      /\ generation' \in [Proofs -> Generation \cup {Nil}]
      /\ \A h \in Proofs : generation'[h] = Nil \/ generation'[h] = generation[h]
  BY DEF InsertProof, ZKInv
<1>6. ZKTypeOK'
  BY <1>3, <1>5 DEF ZKInv, ZKTypeOK, ProofRow
<1>7. QuietReads'
  BY <1>3, <1>5 DEF ZKInv, ZKTypeOK, QuietReads
<1> QED
  BY <1>4, <1>5, <1>6, <1>7 DEF ZKInv

LEMMA VerifyProofStep ==
  ASSUME ZKInv, NEW v \in Checks, NEW i \in ProofIds, VerifyProof(v, i)
  PROVE  ZKInv'
<1>1. PICK found \in BOOLEAN :
          check' = [w \in Checks |->
              IF w = v THEN [id |-> i, read |-> row[i].verified, found |-> found,
                             quiet |-> \A x \in Failing : check[x].id # i]
              ELSE IF check[w] # Nil /\ check[w].id = i /\ ~found
                   THEN [check[w] EXCEPT !.quiet = FALSE]
                   ELSE check[w]]
  BY DEF VerifyProof
<1>2. i \in DOMAIN row /\ UNCHANGED <<row, generation>> /\ row[i].verified \in BOOLEAN
  BY DEF VerifyProof, ZKInv, ZKTypeOK
<1>3. PICK quiet \in BOOLEAN : quiet = (\A x \in Failing : check[x].id # i)
  OBVIOUS
<1>4. /\ check'[v] = [id |-> i, read |-> row[i].verified, found |-> found, quiet |-> quiet]
      /\ \A w \in Checks : w # v => check'[w] =
            IF check[w] # Nil /\ check[w].id = i /\ ~found
            THEN [check[w] EXCEPT !.quiet = FALSE] ELSE check[w]
  BY <1>1, <1>3
<1>5. /\ check'[v] \in Checking /\ check'[v].id = i /\ check'[v].read = row[i].verified
      /\ check'[v].found = found /\ check'[v].quiet = quiet
  BY <1>2, <1>4 DEF Checking
<1>6. ASSUME NEW w \in Checks, w # v, check[w] # Nil
      PROVE  /\ check'[w] \in Checking
             /\ check'[w].id = check[w].id /\ check'[w].read = check[w].read
             /\ check'[w].found = check[w].found
             /\ check'[w].quiet => check[w].quiet /\ (check[w].id = i => found)
  <2>1. check[w] \in Checking
    BY <1>6 DEF ZKInv
  <2>2. CASE check[w].id = i /\ ~found
    <3>1. check'[w] = [check[w] EXCEPT !.quiet = FALSE]
      BY <1>4, <1>6, <2>2
    <3> QED
      BY <2>1, <3>1 DEF Checking
  <2>3. CASE ~(check[w].id = i /\ ~found)
    <3>1. check'[w] = check[w]
      BY <1>4, <1>6, <2>3
    <3> QED
      BY <2>1, <2>3, <3>1 DEF Checking
  <2> QED
    BY <2>2, <2>3
<1>7. \A w \in Checks : w # v /\ check[w] = Nil => check'[w] = Nil
  BY <1>4
<1>8. check' \in [Checks -> Checking \cup {Nil}]
  BY <1>1, <1>5, <1>6, <1>7
<1>9. ZKTypeOK'
  BY <1>2, <1>5, <1>6, <1>7 DEF ZKInv, ZKTypeOK
<1>10. ASSUME NEW x \in Checks, check'[x] # Nil, check'[x].quiet
       PROVE  /\ check'[x].read => row'[check'[x].id].verified
              /\ \A w \in Checks : w # x /\ check'[w] # Nil /\ ~check'[w].found
                                      => check'[w].id # check'[x].id
  <2>1. CASE x = v
    <3>1. \A w \in Checks : check[w] # Nil /\ check[w].found = FALSE => check[w].id # i
      BY <1>3, <1>5, <1>10, <2>1 DEF Failing
    <3>2. \A w \in Checks : check[w] # Nil => check[w].found \in BOOLEAN
      BY DEF ZKInv, Checking
    <3> QED
      BY <1>2, <1>5, <1>6, <1>7, <2>1, <3>1, <3>2
  <2>2. CASE x # v
    <3>1. check[x] # Nil /\ check[x].quiet /\ check'[x].id = check[x].id
          /\ check'[x].read = check[x].read /\ (check[x].id = i => found)
      BY <1>6, <1>7, <1>10, <2>2
    <3>2. check[x].read => row[check[x].id].verified
      BY <3>1 DEF ZKInv, QuietReads
    <3>3. ASSUME NEW w \in Checks, w # x, check'[w] # Nil, ~check'[w].found
          PROVE  check'[w].id # check'[x].id
      <4>1. CASE w = v
        BY <1>5, <3>1, <3>3, <4>1
      <4>2. CASE w # v
        BY <1>6, <1>7, <3>1, <3>3, <4>2 DEF ZKInv, QuietReads
      <4> QED
        BY <4>1, <4>2
    <3> QED
      BY <1>2, <3>1, <3>2, <3>3
  <2> QED
    BY <2>1, <2>2
<1>11. QuietReads'
  BY <1>10 DEF QuietReads
<1> QED
  BY <1>2, <1>8, <1>9, <1>11 DEF ZKInv

\* What a finding writes.
LEMMA FindingWritten ==
  ASSUME ZKInv, NEW v \in Checks, RecordFinding(v)
  PROVE  /\ check[v] # Nil /\ check[v] \in Checking /\ check[v].id \in DOMAIN row
         /\ DOMAIN row' = DOMAIN row /\ row' \in [DOMAIN row -> ProofRow]
         /\ \A j \in DOMAIN row : row'[j].asked = row[j].asked
         /\ \A j \in DOMAIN row : j # check[v].id => row'[j] = row[j]
         /\ row'[check[v].id].verified =
               IF check[v].found # check[v].read THEN check[v].found ELSE row[check[v].id].verified
         /\ check' = [check EXCEPT ![v] = Nil] /\ generation' = generation
<1>1. /\ check[v] # Nil /\ check[v] \in Checking /\ check[v].id \in DOMAIN row
      /\ check' = [check EXCEPT ![v] = Nil] /\ generation' = generation
      /\ row' = IF check[v].found # check[v].read
                THEN [row EXCEPT ![check[v].id].verified = check[v].found] ELSE row
  BY DEF RecordFinding, ZKInv, ZKTypeOK
<1>2. row \in [DOMAIN row -> ProofRow] /\ check[v].found \in BOOLEAN
  BY <1>1 DEF ZKInv, Checking
<1>3. CASE check[v].found # check[v].read
  <2> DEFINE r == [row[check[v].id] EXCEPT !.verified = check[v].found]
  <2>1. r \in ProofRow /\ r.asked = row[check[v].id].asked /\ r.verified = check[v].found
    BY <1>1, <1>2 DEF ProofRow
  <2>2. row' = [row EXCEPT ![check[v].id] = r]
    BY <1>1, <1>3
  <2> HIDE DEF r
  <2> QED
    BY <1>1, <1>2, <1>3, <2>1, <2>2
<1>4. CASE check[v].found = check[v].read
  BY <1>1, <1>2, <1>4
<1> QED
  BY <1>3, <1>4

\* A call that ends leaves the promises of the others as they are.
LEMMA FewerChecks ==
  ASSUME ZKInv, NEW v \in Checks, check' = [check EXCEPT ![v] = Nil]
  PROVE  /\ check' \in [Checks -> Checking \cup {Nil}] /\ check'[v] = Nil
         /\ \A w \in Checks : w # v => check'[w] = check[w]
  BY DEF ZKInv

LEMMA RecordFindingStep ==
  ASSUME ZKInv, NEW v \in Checks, RecordFinding(v)
  PROVE  ZKInv'
<1>1. /\ check[v] # Nil /\ check[v] \in Checking /\ check[v].id \in DOMAIN row
      /\ DOMAIN row' = DOMAIN row /\ row' \in [DOMAIN row -> ProofRow]
      /\ \A j \in DOMAIN row : row'[j].asked = row[j].asked
      /\ \A j \in DOMAIN row : j # check[v].id => row'[j] = row[j]
      /\ row'[check[v].id].verified =
            IF check[v].found # check[v].read THEN check[v].found ELSE row[check[v].id].verified
      /\ check' = [check EXCEPT ![v] = Nil] /\ generation' = generation
  BY FindingWritten
<1>2. /\ check' \in [Checks -> Checking \cup {Nil}] /\ check'[v] = Nil
      /\ \A w \in Checks : w # v => check'[w] = check[w]
  BY <1>1, FewerChecks
<1>3. ZKTypeOK'
  <2>1. \A j \in DOMAIN row : row'[j].verified \in BOOLEAN
    BY <1>1 DEF ProofRow
  <2> QED
    BY <1>1, <1>2, <2>1 DEF ZKInv, ZKTypeOK
<1>4. ASSUME NEW x \in Checks, check'[x] # Nil, check'[x].quiet
      PROVE  /\ check'[x].read => row'[check'[x].id].verified
             /\ \A w \in Checks : w # x /\ check'[w] # Nil /\ ~check'[w].found
                                     => check'[w].id # check'[x].id
  <2>1. x # v /\ check'[x] = check[x]
    BY <1>2, <1>4
  <2>2. /\ check[x].read => row[check[x].id].verified
        /\ \A w \in Checks : w # x /\ check[w] # Nil /\ ~check[w].found => check[w].id # check[x].id
    BY <1>4, <2>1 DEF ZKInv, QuietReads
  <2>3. check[x].read => row'[check[x].id].verified
    <3>1. CASE check[x].id = check[v].id
      <4>1. check[v].found
        BY <1>1, <2>1, <2>2, <3>1
      <4> QED
        BY <1>1, <2>2, <3>1, <4>1
    <3>2. CASE check[x].id # check[v].id
      <4>1. check[x].id \in DOMAIN row
        BY <1>4, <2>1 DEF ZKInv, ZKTypeOK
      <4> QED
        BY <1>1, <2>2, <3>2, <4>1
    <3> QED
      BY <3>1, <3>2
  <2> QED
    BY <1>2, <2>1, <2>2, <2>3
<1>5. QuietReads'
  BY <1>4 DEF QuietReads
<1> QED
  BY <1>1, <1>2, <1>3, <1>5 DEF ZKInv

LEMMA CheckFailsStep ==
  ASSUME ZKInv, NEW v \in Checks, CheckFails(v)
  PROVE  ZKInv'
<1>1. check' = [check EXCEPT ![v] = Nil] /\ UNCHANGED <<row, generation>>
  BY DEF CheckFails
<1>2. /\ check' \in [Checks -> Checking \cup {Nil}] /\ check'[v] = Nil
      /\ \A w \in Checks : w # v => check'[w] = check[w]
  BY <1>1, FewerChecks
<1> QED
  BY <1>1, <1>2 DEF ZKInv, ZKTypeOK, QuietReads

LEMMA ZKStep == ZKInv /\ [ZKNext]_zkVars => ZKInv'
<1> SUFFICES ASSUME ZKInv, [ZKNext]_zkVars PROVE ZKInv'
  OBVIOUS
<1>1. CASE UNCHANGED zkVars
  BY <1>1 DEF zkVars, ZKInv, ZKTypeOK, QuietReads
<1>2. CASE ZKNext
  BY <1>2, GenerateSteps, InsertProofStep, VerifyProofStep, RecordFindingStep, CheckFailsStep
     DEF ZKNext
<1> QED
  BY <1>1, <1>2

\* Rows and calls keep their shapes: a proof is only ever generated of an attestation of
\* the one who asks, and a verification finds its row.
THEOREM ZKTypeCorrect == ZKSpec => []ZKTypeOK
<1>1. ZKInv => ZKTypeOK
  BY DEF ZKInv
<1> QED
  BY <1>1, ZKInit0, ZKStep, PTL DEF ZKSpec

\* A verification that succeeds, and that no failed one has overlapped, leaves the row
\* verified, however many others read and write it at the same time.
THEOREM RecoveryCompletes == ZKSpec => RecoveryIsComplete
<1> DEFINE Recovers == \A v \in Checks :
              (check[v] # Nil /\ check[v].quiet /\ check[v].found /\ RecordFinding(v))
                 => row'[check[v].id].verified
<1>1. ZKInv => Recovers
  <2> SUFFICES ASSUME ZKInv, NEW v \in Checks, check[v] # Nil, check[v].quiet, check[v].found,
                      RecordFinding(v)
               PROVE  row'[check[v].id].verified
    OBVIOUS
  <2>1. check[v].read => row[check[v].id].verified
    BY DEF ZKInv, QuietReads
  <2>2. check[v] \in Checking
        /\ row'[check[v].id].verified =
              IF check[v].found # check[v].read THEN check[v].found ELSE row[check[v].id].verified
    BY FindingWritten
  <2> QED
    BY <2>1, <2>2 DEF Checking
<1>2. RecoveryIsComplete <=> [][Recovers]_zkVars
  BY DEF RecoveryIsComplete
<1> HIDE DEF Recovers
<1> QED
  BY <1>1, <1>2, ZKInit0, ZKStep, PTL DEF ZKSpec

-----------------------------------------------------------------------------
(* What is proved, and what is refused                                      *)

LEMMA PowerIsANumber == 2 ^ Bits \in Int
BY ZKAssumption

\* The power counts the subsets of an interval.
LEMMA PowerIsNatural == 2 ^ Bits \in Nat
<1> DEFINE S == 1 .. Bits
<1>1. IsFiniteSet(S) /\ Cardinality(S) = Bits
  BY ZKAssumption, FS_Interval
<1>2. IsFiniteSet(SUBSET S) /\ Cardinality(SUBSET S) = 2 ^ Cardinality(S)
  BY <1>1, FS_SUBSET
<1>3. Cardinality(SUBSET S) \in Nat
  BY <1>2, FS_CardinalityType
<1> QED
  BY <1>1, <1>2, <1>3

LEMMA Distributes ==
  ASSUME NEW L \in Int, NEW a \in Int, NEW b \in Int, NEW c \in Int
  PROVE  L * (a + b - c) = L * a + L * b - L * c
  BY SMT

\* Rests are the same of numbers that differ by a multiple.
LEMMA SameRest ==
  ASSUME NEW L \in Nat \ {0}, NEW q \in Int, NEW x \in Int
  PROVE  (x + L * q) % L = x % L
<1>1. PICK y \in Int : y = x + L * q
  OBVIOUS
<1>2. PICK p, r, s, t : p = x \div L /\ r = x % L /\ s = y \div L /\ t = y % L
  OBVIOUS
<1>3. p \in Int /\ r \in 0 .. L - 1 /\ x = L * p + r
  BY <1>2, Quotient
<1>4. s \in Int /\ t \in 0 .. L - 1 /\ y = L * s + t
  BY <1>1, <1>2, Quotient
<1>5. L * (p + q - s) = L * p + L * q - L * s
  BY <1>3, <1>4, Distributes
<1>6. PICK d \in Int : d = p + q - s
  BY <1>3, <1>4
<1>7. L * p \in Int /\ L * q \in Int /\ L * s \in Int
  BY <1>3, <1>4
<1>8. L * d = t - r /\ t - r < L /\ t - r > 0 - L
  BY <1>1, <1>3, <1>4, <1>5, <1>6, <1>7
<1>9. d = 0
  <2>1. ASSUME d >= 1 PROVE FALSE
    <3>1. L * d >= L
      BY <2>1, SMT
    <3> QED
      BY <1>3, <1>4, <1>8, <3>1
  <2>2. ASSUME d <= 0 - 1 PROVE FALSE
    <3>1. L * d <= 0 - L
      BY <2>2, SMT
    <3> QED
      BY <1>3, <1>4, <1>8, <3>1
  <2> QED
    BY <2>1, <2>2
<1>10. t = r
  BY <1>3, <1>4, <1>8, <1>9
<1> QED
  BY <1>1, <1>2, <1>10

\* Nonnegative numbers are no less than their rest.
LEMMA RestIsNoMore ==
  ASSUME NEW L \in Nat \ {0}, NEW x \in Nat
  PROVE  x % L \in Int /\ x % L <= x
<1>1. PICK p, r : p = x \div L /\ r = x % L
  OBVIOUS
<1>2. p \in Nat /\ r \in 0 .. L - 1 /\ x = L * p + r
  <2>1. p \in Nat
    BY <1>1, QuotientIsNat
  <2>2. x \in Int
    OBVIOUS
  <2>3. r \in 0 .. L - 1 /\ x = L * p + r
    BY <1>1, <2>2, Quotient
  <2> QED
    BY <2>1, <2>3
<1>3. L * p \in Nat
  BY <1>2, SMT
<1> QED
  BY <1>1, <1>2, <1>3

\* A number that is smaller is its own rest.
LEMMA SmallRest ==
  ASSUME NEW L \in Nat \ {0}, NEW x \in Nat, x < L
  PROVE  x % L = x
<1>1. PICK p, r : p = x \div L /\ r = x % L
  OBVIOUS
<1>2. p \in Nat /\ r \in 0 .. L - 1 /\ x = L * p + r
  <2>1. p \in Nat
    BY <1>1, QuotientIsNat
  <2>2. x \in Int
    OBVIOUS
  <2>3. r \in 0 .. L - 1 /\ x = L * p + r
    BY <1>1, <2>2, Quotient
  <2> QED
    BY <2>1, <2>3
<1>3. p = 0
  <2>1. ASSUME p >= 1 PROVE FALSE
    <3>1. L * p >= L
      BY <1>2, <2>1, SMT
    <3> QED
      BY <1>2, <3>1
  <2> QED
    BY <1>2, <2>1
<1> QED
  BY <1>1, <1>2, <1>3

\* The comparator sees the order of two integers that are not too far apart, although it sees their rests.
LEMMA ComparatorIsExact ==
  ASSUME NEW x \in Int, NEW y \in Int, y <= x, x - y < 2 ^ Bits
  PROVE  LessThan(y % Field, (x % Field) + 1)
<1>1. PICK B \in Int : B = 2 ^ Bits
  BY PowerIsANumber
<1>2. Field \in Nat \ {0}
  BY ZKAssumption
<1>3. PICK p, r, q, s : p = x \div Field /\ r = x % Field /\ q = y \div Field /\ s = y % Field
  OBVIOUS
<1>4. p \in Int /\ r \in Int /\ x = Field * p + r /\ q \in Int /\ s \in Int /\ y = Field * q + s
  BY <1>2, <1>3, Quotient
<1>5. PICK z \in Nat : z = y + B - (x + 1) /\ z < B
  BY <1>1
<1>6. PICK d \in Int : d = p + 0 - q
  BY <1>4
<1>7. (s + B - (r + 1)) % Field = z % Field
  <2>1. Field * d = Field * p + Field * 0 - Field * q
    BY <1>2, <1>4, <1>6, Distributes
  <2>2. Field * p \in Int /\ Field * q \in Int /\ Field * 0 = 0
    BY <1>2, <1>4
  <2>3. s + B - (r + 1) = z + Field * d
    BY <1>1, <1>4, <1>5, <2>1, <2>2
  <2>4. (z + Field * d) % Field = z % Field
    <3>1. PICK F : F = Field
      OBVIOUS
    <3>2. F \in Nat \ {0} /\ z \in Int /\ d \in Int
      BY <1>2, <1>5, <1>6, <3>1
    <3>3. (z + F * d) % F = z % F
      BY <3>2, SameRest
    <3> QED
      BY <3>1, <3>3
  <2> QED
    BY <2>3, <2>4
<1>8. z % Field \in Int /\ z % Field <= z
  BY <1>2, <1>5, RestIsNoMore
<1>9. (s + B - (r + 1)) % Field < B
  BY <1>5, <1>7, <1>8
<1> QED
  BY <1>1, <1>3, <1>4, <1>9 DEF LessThan

\* An order that is false the comparator sees as such, unless the integers are so far apart that it wraps around.
LEMMA ComparatorIsSound ==
  ASSUME NEW x \in Int, NEW y \in Int, x < y, y - x <= Field - 2 ^ Bits
  PROVE  ~LessThan(y % Field, (x % Field) + 1)
<1>1. PICK B \in Int : B = 2 ^ Bits
  BY PowerIsANumber
<1>2. Field \in Nat \ {0}
  BY ZKAssumption
<1>3. PICK p, r, q, s : p = x \div Field /\ r = x % Field /\ q = y \div Field /\ s = y % Field
  OBVIOUS
<1>4. p \in Int /\ r \in Int /\ x = Field * p + r /\ q \in Int /\ s \in Int /\ y = Field * q + s
  <2>1. p \in Int /\ r \in Int /\ x = Field * p + r
    BY ONLY x \in Int, <1>2, <1>3, Quotient
  <2>2. q \in Int /\ s \in Int /\ y = Field * q + s
    BY ONLY y \in Int, <1>2, <1>3, Quotient
  <2> QED
    BY <2>1, <2>2
<1>5. PICK z \in Int : z = y + B - (x + 1) /\ z >= B /\ z < Field
  BY <1>1, <1>2
<1>6. PICK d \in Int : d = p + 0 - q
  BY <1>4
<1>7. (s + B - (r + 1)) % Field = z
  <2>1. Field * d = Field * p + Field * 0 - Field * q
    BY <1>2, <1>4, <1>6, Distributes
  <2>2. Field * p \in Int /\ Field * q \in Int /\ Field * 0 = 0
    BY <1>2, <1>4
  <2>3. s + B - (r + 1) = z + Field * d
    BY <1>1, <1>4, <1>5, <2>1, <2>2
  <2>4. z \in Nat
    BY <1>1, <1>5, PowerIsNatural
  <2>5. (z + Field * d) % Field = z
    <3>1. PICK F : F = Field
      OBVIOUS
    <3>2. F \in Nat \ {0} /\ z \in Nat /\ z < F /\ d \in Int
      BY <1>2, <1>5, <1>6, <2>4, <3>1
    <3>3. (z + F * d) % F = z % F /\ z % F = z
      BY <3>2, SameRest, SmallRest
    <3> QED
      BY <3>1, <3>3
  <2> QED
    BY <2>3, <2>5
<1> QED
  BY <1>1, <1>3, <1>5, <1>7 DEF LessThan

LEMMA LongerOfTwo ==
  ASSUME NEW m \in Nat, NEW n \in Nat, m <= n
  PROVE  (IF m < n THEN n ELSE m) = n
  BY SMT

\* A set that is not too long is padded to the length of the circuit, its members where they were.
LEMMA PaddingKeeps ==
  ASSUME NEW members, Len(members) \in Nat, DOMAIN members = 1 .. Len(members), Len(members) <= SetSize
  PROVE  /\ Len(PaddedSet(members)) = SetSize
         /\ \A v \in ToSet(members) : valueToFieldElement(v) \in ToSet(PaddedSet(members))
<1>1. SetSize \in Nat
  BY ZKAssumption
<1>2. PICK n \in Nat : n = SetSize
  BY <1>1
<1> DEFINE Member(i) == IF i <= Len(members) THEN valueToFieldElement(members[i]) ELSE 0
<1>3. PaddedSet(members) = [i \in 1 .. n |-> Member(i)]
  <2>1. (IF Len(members) < SetSize THEN SetSize ELSE Len(members)) = n
    <3>1. PICK m \in Nat : m = Len(members) /\ m <= n
      BY <1>2
    <3>2. (IF m < n THEN n ELSE m) = n
      BY <3>1, LongerOfTwo
    <3> QED
      BY <1>2, <3>1, <3>2
  <2> QED
    BY <2>1 DEF PaddedSet
<1>4. Len(PaddedSet(members)) = n /\ DOMAIN PaddedSet(members) = 1 .. n
  <2> HIDE DEF Member
  <2> QED
    BY <1>3
<1>5. ASSUME NEW v \in ToSet(members)
      PROVE  valueToFieldElement(v) \in ToSet(PaddedSet(members))
  <2>1. PICK k \in 1 .. Len(members) : v = members[k]
    BY DEF ToSet
  <2>2. k \in 1 .. n /\ k <= Len(members)
    BY <1>2
  <2>3. PaddedSet(members)[k] = valueToFieldElement(v)
    BY <1>3, <2>1, <2>2
  <2> QED
    BY <1>4, <2>2, <2>3 DEF ToSet
<1> QED
  BY <1>2, <1>4, <1>5

Askable(q, v) == q \in Statements /\ v \in PrivateValues

\* Unless both are texts, JavaScript compares what the two are worth.
LEMMA LessIsWorth ==
  ASSUME NEW a, NEW b, Json(a), Json(b), ~({a.kind, b.kind} \subseteq Texts), {a.kind, b.kind} \subseteq Numeric
  PROVE  ~Less(a, b) <=> AtLeast(a, b)
BY DEF Less, AtLeast, Worth, Json

\* What of a comparison in JavaScript and one in the circuit together is known: the order, unless both are texts.
LEMMA Compared ==
  ASSUME NEW a, NEW b, Json(a), Json(b), Readable(a), Readable(b)
  PROVE  /\ ~Less(a, b) /\ LessThan(b.text % Field, (a.text % Field) + 1) =>
                AtLeast(a, b) \/ ({a.kind, b.kind} \subseteq Texts /\ b.text - a.text > Field - 2 ^ Bits)
         /\ AtLeast(a, b) /\ ~({a.kind, b.kind} \subseteq Texts) => ~Less(a, b)
         /\ AtLeast(a, b) /\ a.text - b.text < 2 ^ Bits => LessThan(b.text % Field, (a.text % Field) + 1)
<1>1. /\ a.text \in Int /\ b.text \in Int /\ {a.kind, b.kind} \subseteq Numeric
      /\ a.kind # "fraction" /\ b.kind # "fraction"
  BY DEF Json, Readable, Numeric
<1>2. AtLeast(a, b) <=> b.text <= a.text
  BY <1>1 DEF AtLeast, Worth
<1>3. ~({a.kind, b.kind} \subseteq Texts) => (~Less(a, b) <=> AtLeast(a, b))
  BY <1>1, LessIsWorth
<1>4. 2 ^ Bits \in Int /\ Field \in Int
  BY PowerIsANumber, ZKAssumption
<1>5. ASSUME LessThan(b.text % Field, (a.text % Field) + 1), ~(b.text <= a.text)
      PROVE  b.text - a.text > Field - 2 ^ Bits
  <2>1. a.text < b.text
    BY <1>1, <1>5
  <2>2. ~(b.text - a.text <= Field - 2 ^ Bits)
    BY <1>1, <1>5, <2>1, ComparatorIsSound
  <2> QED
    BY <1>1, <1>4, <2>2
<1>6. b.text <= a.text /\ a.text - b.text < 2 ^ Bits => LessThan(b.text % Field, (a.text % Field) + 1)
  BY <1>1, ComparatorIsExact
<1> QED
  BY <1>2, <1>3, <1>5, <1>6

\* What is proved holds, and what holds, is read and is within the reach of the circuit is proved.
LEMMA ProvableIsExact ==
  ASSUME NEW q, NEW v, Askable(q, v)
  PROVE  /\ Provable(q, v) => Holds(q, v) \/ (ByCharacters(q, v) /\ Wraps(q, v))
         /\ Holds(q, v) /\ InReach(q, v) /\ AllReadable(q, v) /\ ~ByCharacters(q, v) => Provable(q, v)
<1>0. Json(v)
  BY StatementsAssumption DEF Askable
<1>1. CASE q.circuit = "threshold"
  <2> DEFINE t == q.bounds[1]
  <2>1. Json(t)
    BY <1>1, StatementsAssumption DEF Askable
  <2>2. Provable(q, v) <=> /\ ~Less(v, t) /\ Readable(v) /\ Readable(t)
                           /\ LessThan(t.text % Field, (v.text % Field) + 1)
    BY <1>1 DEF Provable, generateThresholdProof, ThresholdCircuit, GreaterEqThan
  <2>3. /\ Holds(q, v) <=> AtLeast(v, t)
        /\ InReach(q, v) <=> v.text - t.text < 2 ^ Bits
        /\ AllReadable(q, v) <=> Readable(v) /\ Readable(t)
        /\ ByCharacters(q, v) <=> {v.kind, t.kind} \subseteq Texts
        /\ Wraps(q, v) <=> t.text - v.text > Field - 2 ^ Bits
    BY <1>1 DEF Holds, InReach, AllReadable, ByCharacters, Wraps
  <2> HIDE DEF t
  <2> QED
    BY <1>0, <2>1, <2>2, <2>3, Compared
<1>2. CASE q.circuit = "range"
  <2> DEFINE low == q.bounds[1]  high == q.bounds[2]
  <2>1. Json(low) /\ Json(high)
    BY <1>2, StatementsAssumption DEF Askable
  <2>2. Provable(q, v) <=> /\ ~Less(v, low) /\ ~Less(high, v)
                           /\ Readable(v) /\ Readable(low) /\ Readable(high)
                           /\ LessThan(low.text % Field, (v.text % Field) + 1)
                           /\ LessThan(v.text % Field, (high.text % Field) + 1)
    BY <1>2 DEF Provable, generateRangeProof, Between, RangeCircuit, GreaterEqThan, LessEqThan
  <2>3. /\ Holds(q, v) <=> AtLeast(v, low) /\ AtLeast(high, v)
        /\ InReach(q, v) <=> v.text - low.text < 2 ^ Bits /\ high.text - v.text < 2 ^ Bits
        /\ AllReadable(q, v) <=> Readable(v) /\ Readable(low) /\ Readable(high)
        /\ ByCharacters(q, v) <=> v.kind \in Texts /\ {low.kind, high.kind} \cap Texts # {}
        /\ Wraps(q, v) <=> low.text - v.text > Field - 2 ^ Bits \/ v.text - high.text > Field - 2 ^ Bits
    BY <1>2 DEF Holds, InReach, AllReadable, ByCharacters, Wraps
  <2>4. ByCharacters(q, v) <=> {v.kind, low.kind} \subseteq Texts \/ {high.kind, v.kind} \subseteq Texts
    BY <2>3
  <2> HIDE DEF low, high
  <2> QED
    BY <1>0, <2>1, <2>2, <2>3, <2>4, Compared
<1>3. CASE q.circuit = "set_membership"
  <2>1. Len(q.members) \in Nat /\ DOMAIN q.members = 1 .. Len(q.members)
    BY <1>3, StatementsAssumption DEF Askable
  <2>2. Provable(q, v) <=> generateSetMembershipProof(q, v)
    BY <1>3 DEF Provable
  <2>3. /\ Holds(q, v) <=> v \in ToSet(q.members)
        /\ InReach(q, v) <=> Len(q.members) <= SetSize
        /\ AllReadable(q, v) <=> \A m \in ToSet(q.members) : m.kind # "fraction"
    BY <1>3 DEF Holds, InReach, AllReadable
  <2>4. Holds(q, v) /\ InReach(q, v) => SetMembershipCircuit(valueToFieldElement(v), PaddedSet(q.members))
    BY <2>1, <2>3, PaddingKeeps DEF SetMembershipCircuit
  <2> QED
    BY <2>2, <2>3, <2>4 DEF generateSetMembershipProof
<1> QED
  BY <1>1, <1>2, <1>3, StatementsAssumption DEF Askable

\* The step of a call that proves says whether its statement can be proved, and only the proved is stored.
ZKExact ==
    /\ \A g \in Proofs : generation[g] # Nil =>
          /\ Askable(generation[g].question, generation[g].value)
          /\ generation[g].pc = "proved" => Provable(generation[g].question, generation[g].value)
          /\ generation[g].pc = "refused" => ~Provable(generation[g].question, generation[g].value)
    /\ \A i \in DOMAIN row :
          /\ Askable(row[i].asked.question, row[i].asked.value)
          /\ Provable(row[i].asked.question, row[i].asked.value)

LEMMA ZKExactStep == ZKInv /\ ZKExact /\ [ZKNext]_zkVars => ZKExact'
<1> SUFFICES ASSUME ZKInv, ZKExact, [ZKNext]_zkVars PROVE ZKExact'
  OBVIOUS
<1>1. ASSUME NEW g \in Proofs, NEW u \in Holders, NEW a \in DOMAIN HeldBy, NEW q \in Statements,
             NEW v \in PrivateValues, Generate(g, u, a, q, v)
      PROVE  ZKExact'
  <2>1. /\ generation'[g].question = q /\ generation'[g].value = v /\ generation'[g].pc = "read"
        /\ \A h \in Proofs : h # g => generation'[h] = generation[h]
        /\ row' = row
    BY <1>1 DEF Generate, ZKInv
  <2>2. Askable(q, v)
    BY <1>1 DEF Askable
  <2> QED
    BY <2>1, <2>2 DEF ZKExact
<1>2. ASSUME NEW g \in Proofs, Prove(g) PROVE ZKExact'
  <2>1. generation[g] \in Generation /\ generation[g] # Nil
    BY <1>2 DEF Prove, Generating, ZKInv
  <2>2. PICK pc : /\ pc = IF Provable(generation[g].question, generation[g].value) THEN "proved" ELSE "refused"
                  /\ generation' = [generation EXCEPT ![g].pc = pc]
    BY <1>2 DEF Prove
  <2>3. /\ generation'[g].question = generation[g].question /\ generation'[g].value = generation[g].value
        /\ generation'[g].pc = pc
        /\ \A h \in Proofs : h # g => generation'[h] = generation[h]
        /\ row' = row
    BY <1>2, <2>1, <2>2 DEF Prove, ZKInv, Generation
  <2> QED
    BY <2>1, <2>2, <2>3 DEF ZKExact
<1>3. ASSUME NEW g \in Proofs, InsertProof(g) PROVE ZKExact'
  <2>1. PICK i \in ProofIds \ DOMAIN row :
         row' = [j \in DOMAIN row \cup {i} |->
                    IF j = i THEN [asked |-> generation[g], verified |-> TRUE] ELSE row[j]]
    BY <1>3 DEF InsertProof
  <2>2. DOMAIN row' = DOMAIN row \cup {i} /\ row'[i].asked = generation[g]
        /\ \A j \in DOMAIN row : row'[j] = row[j]
    BY <2>1
  <2>3. generation[g] # Nil /\ generation[g].pc = "proved"
    BY <1>3 DEF InsertProof, Generating
  <2>4. generation'[g] = Nil /\ \A h \in Proofs : h # g => generation'[h] = generation[h]
    BY <1>3 DEF InsertProof, ZKInv
  <2> QED
    BY <2>2, <2>3, <2>4 DEF ZKExact
<1>4. ASSUME NEW g \in Proofs, GenerationFails(g) PROVE ZKExact'
  <2>1. generation'[g] = Nil /\ row' = row /\ \A h \in Proofs : h # g => generation'[h] = generation[h]
    BY <1>4 DEF GenerationFails, ZKInv
  <2> QED
    BY <2>1 DEF ZKExact
<1>5. ASSUME NEW v \in Checks, NEW i \in ProofIds, VerifyProof(v, i) PROVE ZKExact'
  BY <1>5 DEF VerifyProof, ZKExact
<1>6. ASSUME NEW v \in Checks, RecordFinding(v) PROVE ZKExact'
  <2>1. DOMAIN row' = DOMAIN row /\ generation' = generation
        /\ \A j \in DOMAIN row : row'[j].asked = row[j].asked
    <3>1. PICK i, found : row' = row \/ row' = [row EXCEPT ![i].verified = found]
      BY <1>6 DEF RecordFinding
    <3>2. \A j \in DOMAIN row : row[j] \in ProofRow
      BY DEF ZKInv
    <3> QED
      BY <1>6, <3>1, <3>2 DEF RecordFinding, ProofRow
  <2> QED
    BY <2>1 DEF ZKExact
<1>7. ASSUME NEW v \in Checks, CheckFails(v) PROVE ZKExact'
  BY <1>7 DEF CheckFails, ZKExact
<1>8. CASE UNCHANGED zkVars
  BY <1>8 DEF zkVars, ZKExact
<1> QED
  BY <1>1, <1>2, <1>3, <1>4, <1>5, <1>6, <1>7, <1>8 DEF ZKNext

\* For every field, every width of the comparators, every length of the set, every hash and every order
\* of texts: a proof is stored only of a statement that holds, or of texts of numbers whose distance wraps
\* around in the field, and a statement that holds is refused only when it is out of reach of the circuit,
\* says something other than integers, or compares texts.
THEOREM GenerationExact == ZKSpec => []GenerationIsExact
<1>1. ZKInit => ZKExact
  <2> SUFFICES ASSUME ZKInit PROVE ZKExact
    OBVIOUS
  <2>1. DOMAIN row = {} /\ \A g \in Proofs : generation[g] = Nil
    BY DEF ZKInit
  <2> QED
    BY <2>1 DEF ZKExact
<1>2. ZKInv /\ ZKExact => GenerationIsExact
  BY ProvableIsExact DEF ZKExact, GenerationIsExact, Generating
<1> QED
  BY <1>1, <1>2, ZKInit0, ZKStep, ZKExactStep, PTL DEF ZKSpec

-----------------------------------------------------------------------------
(* Anchorings                                                               *)

\* The hashes of a body that go into the transaction, and the first among them.
LEMMA IncludedHashes ==
  ASSUME NEW n \in Networks, NEW s \in Batches
  PROVE  /\ ToSet(Included(n, s)) \subseteq Hashes
         /\ s[1] \in ToSet(Included(n, s)) /\ s[1] \in Hashes
         /\ s \in Singles => ToSet(Included(n, s)) = {s[1]}
<1>1. PICK m \in 1 .. MaxOps + 1 : s \in [1 .. m -> Hashes]
  BY DEF Batches
<1>2. m \in Nat \ {0} /\ MaxOps \in Nat \ {0} /\ s \in Seq(Hashes) /\ Len(s) = m
  BY <1>1, AnchoringAssumption
<1>3. s[1] \in Hashes /\ (s \in Singles => m = 1)
  BY <1>1, <1>2 DEF Singles
<1>4. PICK D \in SUBSET (1 .. m) : 1 \in D /\ D = DOMAIN Included(n, s)
                                /\ \A i \in D : Included(n, s)[i] = s[i]
  <2>1. CASE n \in Stellar
    <3> DEFINE D == DOMAIN s \cap 1 .. MaxOps
    <3>1. D \in SUBSET (1 .. m) /\ 1 \in D
      BY <1>1, <1>2
    <3> QED
      BY <2>1, <3>1 DEF Included
  <2>2. CASE n \notin Stellar
    BY <1>1, <1>2, <2>2 DEF Included
  <2> QED
    BY <2>1, <2>2
<1> QED
  BY <1>1, <1>2, <1>3, <1>4 DEF ToSet

\* A transaction that names a hash has it.
NamesItsHash(tx) == tx.memo # Unset => tx.memo \in tx.data

\* A call that has built its transaction built it of its hashes.
Anchored == [pc : {"loaded", "submitted"}, network : Networks, hashes : Batches, batch : BOOLEAN,
             tx : Tx]

BuiltOf(a) ==
    /\ a.tx.data = ToSet(Included(a.network, a.hashes))
    /\ a.tx.memo = MemoOf(a.network, a.hashes, a.batch)
    /\ ~a.batch => a.hashes \in Singles

CallsBuilt == \A c \in Anchorers : anchoring[c] # Unset => BuiltOf(anchoring[c])

\* Every transaction that is submitted or applied names a hash that it has, and the
\* transactions of Ethereum that are applied have succeeded.
LedgersSound ==
    /\ account \in [Networks -> Nat]
    /\ pool \in [Networks -> SUBSET Tx]
    /\ chain \in [Networks -> SUBSET [tx : Tx, ok : BOOLEAN]]
    /\ \A n \in Networks : /\ \A tx \in pool[n] : NamesItsHash(tx)
                           /\ \A b \in chain[n] : NamesItsHash(b.tx) /\ (n \in Evm => b.ok)

Claim == [network : Networks, tx : Tx, hash : Hashes, batch : BOOLEAN]

\* A single anchoring on Stellar was answered for the hash of the memo.
ClaimsSound ==
    /\ answered \subseteq Claim
    /\ AnsweredIsOnLedger
    /\ \A a \in answered : a.network \in Stellar /\ ~a.batch => a.tx.memo = a.hash

Inquired == [kind : {"status", "verify"}, network : Networks, tx : Tx, hash : Hashes, known : BOOLEAN]

AnchorInv ==
    /\ anchoring \in [Anchorers -> Anchored \cup {Unset}] /\ CallsBuilt
    /\ LedgersSound
    /\ ClaimsSound
    /\ inquiry \in [Askers -> Inquired \cup {Unset}]

LEMMA AnchorInit0 == AnchorInit => AnchorInv
  BY DEF AnchorInit, AnchorInv, CallsBuilt, LedgersSound, ClaimsSound, AnsweredIsOnLedger

\* Ledgers only grow, so that what was answered stays on them.
LEMMA ClaimsStay ==
  ASSUME ClaimsSound, LedgersSound, answered' = answered,
         \A n \in Networks : chain[n] \subseteq chain'[n]
  PROVE  ClaimsSound'
<1>1. ASSUME NEW a \in answered PROVE Successful(a.network, a.tx)' /\ a.hash \in a.tx.data
  <2>1. a.network \in Networks /\ Successful(a.network, a.tx) /\ a.hash \in a.tx.data
    BY DEF ClaimsSound, Claim, AnsweredIsOnLedger
  <2>2. chain[a.network] \subseteq chain'[a.network]
    BY <2>1
  <2> QED
    BY <2>1, <2>2 DEF Successful, Applied
<1> QED
  BY <1>1 DEF ClaimsSound, AnsweredIsOnLedger

\* Steps of a call that leave the ledgers and the answers alone.
LEMMA AnchoringMoves ==
  ASSUME AnchorInv, NEW c \in Anchorers, NEW a \in Anchored \cup {Unset},
         anchoring' = [anchoring EXCEPT ![c] = a], a # Unset => BuiltOf(a),
         UNCHANGED <<account, pool, chain, answered, inquiry>>
  PROVE  AnchorInv'
<1>1. /\ anchoring' \in [Anchorers -> Anchored \cup {Unset}] /\ anchoring'[c] = a
      /\ \A x \in Anchorers : x # c => anchoring'[x] = anchoring[x]
  BY DEF AnchorInv
<1>2. CallsBuilt'
  BY <1>1 DEF AnchorInv, CallsBuilt
<1>3. LedgersSound' /\ ClaimsSound'
  BY DEF AnchorInv, LedgersSound, ClaimsSound, AnsweredIsOnLedger, Successful, Applied
<1> QED
  BY <1>1, <1>2, <1>3 DEF AnchorInv

LEMMA LoadAccountStep ==
  ASSUME AnchorInv, NEW c \in Anchorers, NEW n \in Networks \cup {Unset}, NEW s \in Batches,
         NEW many \in BOOLEAN, ~many => s \in Singles, LoadAccount(c, n, s, many)
  PROVE  AnchorInv'
<1>1. PICK p \in Networks :
         /\ p = getProvider(n)
         /\ anchoring' = [anchoring EXCEPT ![c] =
              [pc |-> "loaded", network |-> p, hashes |-> s, batch |-> many,
               tx |-> [seq |-> account[p] + 1, data |-> ToSet(Included(p, s)),
                       memo |-> MemoOf(p, s, many)]]]
         /\ UNCHANGED <<account, pool, chain, answered, inquiry>>
  BY DEF LoadAccount
<1> DEFINE tx == [seq |-> account[p] + 1, data |-> ToSet(Included(p, s)), memo |-> MemoOf(p, s, many)]
           a == [pc |-> "loaded", network |-> p, hashes |-> s, batch |-> many, tx |-> tx]
<1>2. tx \in Tx
  <2>1. account[p] + 1 \in Nat
    BY DEF AnchorInv, LedgersSound
  <2>2. ToSet(Included(p, s)) \subseteq Hashes /\ MemoOf(p, s, many) \in Hashes \cup {Unset}
    BY IncludedHashes DEF MemoOf
  <2> QED
    BY <2>1, <2>2 DEF Tx
<1>3. /\ tx.data = ToSet(Included(p, s)) /\ tx.memo = MemoOf(p, s, many)
  OBVIOUS
<1> HIDE DEF tx
<1>4. a \in Anchored
  BY <1>2 DEF Anchored
<1>5. a.network = p /\ a.hashes = s /\ a.batch = many /\ a.tx = tx
  OBVIOUS
<1>6. anchoring' = [anchoring EXCEPT ![c] = a]
  BY <1>1 DEF tx
<1> HIDE DEF a
<1>7. BuiltOf(a)
  BY <1>3, <1>5 DEF BuiltOf
<1> QED
  BY <1>1, <1>4, <1>6, <1>7, AnchoringMoves

\* A transaction that a call has built names a hash that it has.
LEMMA BuiltNames ==
  ASSUME NEW a \in Anchored, BuiltOf(a)
  PROVE  /\ NamesItsHash(a.tx) /\ a.tx \in Tx /\ a.network \in Networks
         /\ a.network \in Stellar /\ ~a.batch => a.tx.data = {a.tx.memo}
<1>1. a.network \in Networks /\ a.hashes \in Batches /\ a.batch \in BOOLEAN /\ a.tx \in Tx
  BY DEF Anchored
<1>2. /\ a.hashes[1] \in ToSet(Included(a.network, a.hashes))
      /\ a.hashes \in Singles => ToSet(Included(a.network, a.hashes)) = {a.hashes[1]}
  BY <1>1, IncludedHashes
<1> QED
  BY <1>1, <1>2 DEF BuiltOf, NamesItsHash, MemoOf

LEMMA SubmitStep ==
  ASSUME AnchorInv, NEW c \in Anchorers, SubmitTransaction(c)
  PROVE  AnchorInv'
<1>1. PICK a \in Anchored : a = anchoring[c] /\ BuiltOf(a)
  BY DEF SubmitTransaction, At, AnchorInv, CallsBuilt
<1>2. UNCHANGED <<account, chain, answered, inquiry>>
  BY DEF SubmitTransaction
<1>3. CASE Buildable(c) /\ a.tx.seq > account[a.network]
  <2>1. /\ pool' = [pool EXCEPT ![a.network] = @ \cup {a.tx}]
        /\ anchoring' = [anchoring EXCEPT ![c].pc = "submitted"]
    BY <1>1, <1>3 DEF SubmitTransaction
  <2> DEFINE b == [a EXCEPT !.pc = "submitted"]
  <2>2. b \in Anchored /\ b.network = a.network /\ b.hashes = a.hashes /\ b.batch = a.batch
        /\ b.tx = a.tx
    BY DEF Anchored
  <2>3. anchoring' = [anchoring EXCEPT ![c] = b]
    BY <1>1, <2>1
  <2> HIDE DEF b
  <2>4. BuiltOf(b)
    BY <1>1, <2>2 DEF BuiltOf
  <2>5. CallsBuilt' /\ anchoring' \in [Anchorers -> Anchored \cup {Unset}]
    BY <2>2, <2>3, <2>4 DEF AnchorInv, CallsBuilt
  <2>6. LedgersSound'
    <3>1. NamesItsHash(a.tx) /\ a.tx \in Tx /\ a.network \in Networks
      BY <1>1, BuiltNames
    <3> QED
      BY <1>2, <2>1, <3>1 DEF AnchorInv, LedgersSound
  <2>7. ClaimsSound'
    BY <1>2, ClaimsStay DEF AnchorInv
  <2> QED
    BY <1>2, <2>5, <2>6, <2>7 DEF AnchorInv
<1>4. CASE ~(Buildable(c) /\ a.tx.seq > account[a.network])
  <2>1. anchoring' = [anchoring EXCEPT ![c] = Unset] /\ UNCHANGED pool
    BY <1>1, <1>4 DEF SubmitTransaction, End
  <2> QED
    BY <1>2, <2>1, AnchoringMoves
<1> QED
  BY <1>3, <1>4

\* Steps of the ledgers.
LEMMA LedgerStep ==
  ASSUME AnchorInv, NEW n \in Networks, Apply(n) \/ Drop(n)
  PROVE  AnchorInv'
<1>1. UNCHANGED <<anchoring, answered, inquiry>>
  BY DEF Apply, Drop
<1>2. LedgersSound
  BY DEF AnchorInv
<1>3. LedgersSound' /\ \A m \in Networks : chain[m] \subseteq chain'[m]
  <2>1. CASE Drop(n)
    BY <1>2, <2>1 DEF Drop, LedgersSound
  <2>2. CASE Apply(n)
    <3>1. PICK tx \in pool[n] : \E ok \in IF n \in Stellar /\ LedgersMayFail THEN BOOLEAN ELSE {TRUE} :
             /\ account' = [account EXCEPT ![n] = tx.seq]
             /\ chain' = [chain EXCEPT ![n] = @ \cup {[tx |-> tx, ok |-> ok]}]
             /\ pool' = [pool EXCEPT ![n] = @ \ {tx}]
      BY <2>2 DEF Apply
    <3>2. PICK ok \in BOOLEAN :
             /\ n \notin Stellar => ok
             /\ account' = [account EXCEPT ![n] = tx.seq]
             /\ chain' = [chain EXCEPT ![n] = @ \cup {[tx |-> tx, ok |-> ok]}]
             /\ pool' = [pool EXCEPT ![n] = @ \ {tx}]
      BY <3>1
    <3>3. tx \in Tx /\ tx.seq \in Nat /\ NamesItsHash(tx)
      BY <1>2 DEF LedgersSound, Tx
    <3>4. n \in Evm => ok
      BY <3>2, AnchoringAssumption
    <3>5. account' \in [Networks -> Nat] /\ pool' \in [Networks -> SUBSET Tx]
      BY <1>2, <3>2, <3>3 DEF LedgersSound
    <3>6. chain' \in [Networks -> SUBSET [tx : Tx, ok : BOOLEAN]]
          /\ \A m \in Networks : chain[m] \subseteq chain'[m]
      BY <1>2, <3>2, <3>3 DEF LedgersSound
    <3>7. ASSUME NEW m \in Networks
          PROVE  /\ \A x \in pool'[m] : NamesItsHash(x)
                 /\ \A b \in chain'[m] : NamesItsHash(b.tx) /\ (m \in Evm => b.ok)
      <4>1. pool'[m] \subseteq pool[m]
        BY <1>2, <3>2 DEF LedgersSound
      <4>2. \A b \in chain'[m] : b \in chain[m] \/ (m = n /\ b = [tx |-> tx, ok |-> ok])
        BY <1>2, <3>2 DEF LedgersSound
      <4>3. ASSUME NEW b \in chain'[m] PROVE NamesItsHash(b.tx) /\ (m \in Evm => b.ok)
        <5>1. CASE b \in chain[m]
          BY <1>2, <5>1 DEF LedgersSound
        <5>2. CASE m = n /\ b = [tx |-> tx, ok |-> ok]
          <6>1. b.tx = tx /\ b.ok = ok
            BY <5>2
          <6> QED
            BY <3>3, <3>4, <5>2, <6>1
        <5> QED
          BY <4>2, <5>1, <5>2
      <4> QED
        BY <1>2, <4>1, <4>3 DEF LedgersSound
    <3> QED
      BY <3>5, <3>6, <3>7 DEF LedgersSound
  <2> QED
    BY <2>1, <2>2
<1> QED
  BY <1>1, <1>3, ClaimsStay DEF AnchorInv, CallsBuilt

LEMMA ConfirmStep ==
  ASSUME AnchorInv, NEW c \in Anchorers, Confirm(c)
  PROVE  AnchorInv'
<1>1. PICK a \in Anchored : a = anchoring[c] /\ BuiltOf(a)
  BY DEF Confirm, At, AnchorInv, CallsBuilt
<1>2. /\ Applied(a.network, a.tx, TRUE)
      /\ answered' = answered \cup
           {[network |-> a.network, tx |-> a.tx, hash |-> h, batch |-> a.batch] : h \in a.tx.data}
      /\ anchoring' = [anchoring EXCEPT ![c] = Unset]
      /\ UNCHANGED <<account, pool, chain, inquiry>>
  BY <1>1 DEF Confirm, Reported, BuiltOf, End
<1>3. /\ a.network \in Networks /\ a.tx \in Tx /\ a.batch \in BOOLEAN /\ a.tx.data \subseteq Hashes
      /\ a.network \in Stellar /\ ~a.batch => a.tx.data = {a.tx.memo}
  BY <1>1, BuiltNames DEF Anchored, Tx
<1>4. ASSUME NEW x \in answered'
      PROVE  /\ x \in Claim /\ Successful(x.network, x.tx) /\ x.hash \in x.tx.data
             /\ x.network \in Stellar /\ ~x.batch => x.tx.memo = x.hash
  <2>1. CASE x \in answered
    BY <2>1 DEF AnchorInv, ClaimsSound, AnsweredIsOnLedger
  <2>2. CASE x \notin answered
    <3>1. PICK h \in a.tx.data :
             x = [network |-> a.network, tx |-> a.tx, hash |-> h, batch |-> a.batch]
      BY <1>2, <2>2
    <3>2. x.network = a.network /\ x.tx = a.tx /\ x.hash = h /\ x.batch = a.batch
      BY <3>1
    <3>3. x \in Claim
      BY <1>3, <3>1 DEF Claim
    <3> QED
      BY <1>2, <1>3, <3>2, <3>3 DEF Successful
  <2> QED
    BY <2>1, <2>2
<1>5. ClaimsSound'
  BY <1>2, <1>4 DEF ClaimsSound, AnsweredIsOnLedger, Successful, Applied
<1>6. LedgersSound'
  BY <1>2 DEF AnchorInv, LedgersSound
<1>7. CallsBuilt' /\ anchoring' \in [Anchorers -> Anchored \cup {Unset}]
  BY <1>2 DEF AnchorInv, CallsBuilt
<1> QED
  BY <1>2, <1>5, <1>6, <1>7 DEF AnchorInv

\* Steps of those who read, and of the manager.
LEMMA InquiryMoves ==
  ASSUME AnchorInv, UNCHANGED <<account, pool, chain, anchoring, answered>>,
         inquiry' \in [Askers -> Inquired \cup {Unset}]
  PROVE  AnchorInv'
  BY ClaimsStay DEF AnchorInv, CallsBuilt, LedgersSound

LEMMA InquireStep ==
  ASSUME AnchorInv, NEW v \in Askers, NEW kind \in {"status", "verify"},
         NEW n \in Networks \cup {Unset}, NEW tx \in UNION {Submitted(m) : m \in Networks},
         NEW h \in Hashes, Inquire(v, kind, n, tx, h)
  PROVE  AnchorInv'
<1>1. tx \in Tx
  <2>1. PICK m \in Networks : tx \in pool[m] \cup {b.tx : b \in chain[m]}
    BY DEF Submitted
  <2>2. pool[m] \subseteq Tx /\ \A b \in chain[m] : b.tx \in Tx
    BY DEF AnchorInv, LedgersSound
  <2> QED
    BY <2>1, <2>2
<1>2. PICK p \in Networks :
         /\ inquiry' = [inquiry EXCEPT ![v] =
               [kind |-> kind, network |-> p, tx |-> tx, hash |-> h, known |-> Known(p, tx)]]
         /\ UNCHANGED <<account, pool, chain, anchoring, answered>>
  BY DEF Inquire
<1>3. Known(p, tx) \in BOOLEAN
  BY DEF Known, OnChain, Applied
<1>4. [kind |-> kind, network |-> p, tx |-> tx, hash |-> h, known |-> Known(p, tx)] \in Inquired
  BY <1>1, <1>3 DEF Inquired
<1>5. inquiry' \in [Askers -> Inquired \cup {Unset}]
  BY <1>2, <1>4 DEF AnchorInv
<1> QED
  BY <1>2, <1>5, InquiryMoves

LEMMA AnchorInvStep == AnchorInv /\ [AnchorNext]_anchorVars => AnchorInv'
<1> SUFFICES ASSUME AnchorInv, [AnchorNext]_anchorVars PROVE AnchorInv'
  OBVIOUS
<1>1. ASSUME NEW c \in Anchorers, AnchorStep(c) PROVE AnchorInv'
  <2>1. ASSUME NEW n \in Networks \cup {Unset}, NEW s \in Singles, LoadAccount(c, n, s, FALSE)
        PROVE  AnchorInv'
    BY <2>1, LoadAccountStep DEF Singles
  <2>2. ASSUME NEW n \in Networks \cup {Unset}, NEW s \in Batches, LoadAccount(c, n, s, TRUE)
        PROVE  AnchorInv'
    BY <2>2, LoadAccountStep
  <2>3. CASE AnchoringFails(c)
    BY <2>3, AnchoringMoves DEF AnchoringFails, End
  <2> QED
    BY <1>1, <2>1, <2>2, <2>3, SubmitStep, ConfirmStep DEF AnchorStep
<1>2. ASSUME NEW v \in Askers, AskStep(v) PROVE AnchorInv'
  <2>1. CASE Answer(v)
    <3>1. inquiry' \in [Askers -> Inquired \cup {Unset}]
      BY <2>1 DEF Answer, AnchorInv
    <3> QED
      BY <2>1, <3>1, InquiryMoves DEF Answer
  <2> QED
    BY <1>2, <2>1, InquireStep DEF AskStep
<1>3. CASE ReadInfo
  BY <1>3, InquiryMoves DEF ReadInfo, AnchorInv
<1>4. CASE UNCHANGED anchorVars
  BY <1>4, InquiryMoves DEF anchorVars, AnchorInv
<1> QED
  BY <1>1, <1>2, <1>3, <1>4, LedgerStep DEF AnchorNext

\* What the answers rest on, at any time.
LEMMA AnswersFollow ==
  ASSUME AnchorInv
  PROVE  AnsweredIsOnLedger /\ AnswersAreTrue /\ AnsweredVerifies
<1>1. AnsweredIsOnLedger
  BY DEF AnchorInv, ClaimsSound
<1>2. ASSUME NEW v \in Askers, Asked(v)
      PROVE  /\ inquiry[v] \in Inquired /\ inquiry[v].network \in Networks
             /\ inquiry[v].hash \in Hashes /\ inquiry[v].hash # Unset
             /\ inquiry[v].kind \in {"status", "verify"}
  BY <1>2, AnchoringAssumption DEF Asked, AnchorInv, Inquired
<1>3. ASSUME NEW n \in Networks, NEW tx, NEW ok, Applied(n, tx, ok)
      PROVE  NamesItsHash(tx) /\ (n \in Evm => ok)
  <2>1. [tx |-> tx, ok |-> ok] \in chain[n]
    BY <1>3 DEF Applied
  <2>2. NamesItsHash([tx |-> tx, ok |-> ok].tx) /\ (n \in Evm => [tx |-> tx, ok |-> ok].ok)
    BY <2>1 DEF AnchorInv, LedgersSound
  <2> QED
    BY <2>2
<1>4. ASSUME NEW n \in Evm, NEW tx, OnChain(n, tx) PROVE Successful(n, tx)
  <2>1. PICK ok \in BOOLEAN : Applied(n, tx, ok)
    BY <1>4 DEF OnChain
  <2>2. ok = TRUE
    BY <1>3, <2>1 DEF Networks
  <2> QED
    BY <2>1, <2>2 DEF Successful
<1>5. AnswersAreTrue
  <2> SUFFICES ASSUME NEW v \in Askers, Asked(v), Finding(inquiry[v])
               PROVE  /\ Successful(inquiry[v].network, inquiry[v].tx)
                      /\ inquiry[v].kind = "verify" => inquiry[v].hash \in inquiry[v].tx.data
    BY DEF AnswersAreTrue
  <2>1. CASE inquiry[v].network \in Stellar
    <3>1. Successful(inquiry[v].network, inquiry[v].tx)
      BY <2>1 DEF Finding, StellarStatus, StellarVerify
    <3>2. NamesItsHash(inquiry[v].tx)
      BY <1>2, <1>3, <3>1 DEF Successful
    <3>3. inquiry[v].kind = "verify" => inquiry[v].tx.memo = inquiry[v].hash
      BY <2>1 DEF Finding, StellarVerify
    <3> QED
      BY <1>2, <3>1, <3>2, <3>3 DEF NamesItsHash
  <2>2. CASE inquiry[v].network \notin Stellar
    <3>1. inquiry[v].network \in Evm
      BY <1>2, <2>2 DEF Networks
    <3> QED
      BY <1>4, <2>2, <3>1 DEF Finding, EvmStatus, EvmVerify
  <2> QED
    BY <2>1, <2>2
<1>6. AnsweredVerifies
  <2> SUFFICES ASSUME NEW a \in answered, NEW v \in Askers,
                      Asked(v), inquiry[v].kind = "verify", inquiry[v].known,
                      inquiry[v].network = a.network, inquiry[v].tx = a.tx,
                      inquiry[v].hash = a.hash, a.batch => a.network \in Evm
               PROVE  Finding(inquiry[v])
    BY DEF AnsweredVerifies
  <2>1. Successful(a.network, a.tx) /\ a.hash \in a.tx.data
    BY <1>1 DEF AnsweredIsOnLedger
  <2>2. CASE a.network \in Stellar
    <3>1. ~a.batch
      BY <2>2, AnchoringAssumption
    <3>2. a.tx.memo = a.hash
      BY <2>2, <3>1 DEF AnchorInv, ClaimsSound
    <3> QED
      BY <2>1, <2>2, <3>2 DEF Finding, StellarVerify
  <2>3. CASE a.network \notin Stellar
    BY <2>1, <2>3 DEF Finding, EvmVerify, OnChain, Successful
  <2> QED
    BY <2>2, <2>3
<1> QED
  BY <1>1, <1>5, <1>6

\* Whatever overlapped, failed or was refused, each hash that was answered as anchored is
\* in a successful transaction, for any networks and any size of a batch.
THEOREM AnsweredOnLedger == AnchorSpec => []AnsweredIsOnLedger
<1>1. AnchorInv => AnsweredIsOnLedger
  BY AnswersFollow
<1> QED
  BY <1>1, AnchorInit0, AnchorInvStep, PTL DEF AnchorSpec

\* Nothing is called confirmed or valid that is not.
THEOREM AnswersTrue == AnchorSpec => []AnswersAreTrue
<1>1. AnchorInv => AnswersAreTrue
  BY AnswersFollow
<1> QED
  BY <1>1, AnchorInit0, AnchorInvStep, PTL DEF AnchorSpec

\* What was anchored verifies at any later time, batches of Stellar left out.
THEOREM AnchoredVerifies == AnchorSpec => []AnsweredVerifies
<1>1. AnchorInv => AnsweredVerifies
  BY AnswersFollow
<1> QED
  BY <1>1, AnchorInit0, AnchorInvStep, PTL DEF AnchorSpec

\* Everything the service says of an anchoring is true of the ledger, on every network.
THEOREM AnswersAlwaysHold == AnchorSpec => []AnswersHold
<1>1. AnsweredIsOnLedger /\ AnswersAreTrue /\ AnsweredVerifies => AnswersHold
  BY DEF AnswersHold
<1> QED
  BY <1>1, AnsweredOnLedger, AnswersTrue, AnchoredVerifies, PTL

-----------------------------------------------------------------------------
(* Templates and batches                                                    *)

\* What is required of a subject is known.
SchemaOK(s) == s.required \subseteq s.known

\* Results of a validation, one for each input.
ResultsOf(results, inputs) ==
    /\ DOMAIN results = DOMAIN inputs
    /\ \A k \in DOMAIN inputs :
        results[k].index = k /\ results[k].id = inputs[k].id /\ results[k].success \in BOOLEAN

\* The results of the batch are those of the inputs they number, of today as long as no template was replaced.
BatchOK ==
    /\ DOMAIN batch = {"kind", "inputs", "asked", "results", "retried", "numbered"}
    /\ batch.inputs \in Seq([id : TemplateIds, claims : Claims])
    /\ batch.asked \in Seq([id : TemplateIds, claims : Claims])
    /\ Len(batch.asked) <= Len(batch.inputs)
    /\ ResultsOf(batch.results, batch.asked)
    /\ batch.results \in Seq([index : Nat, id : TemplateIds, success : BOOLEAN])
    /\ batch.kind = "sequential" => \A k \in DOMAIN batch.results : batch.results[k].success
    /\ custom = 0 =>
        \A k \in DOMAIN batch.asked :
            batch.results[k].success = validateClaims(batch.asked[k].id, batch.asked[k].claims)
    /\ batch.retried # <<>> =>
        /\ DOMAIN batch.retried = DOMAIN batch.results /\ Len(batch.retried) = Len(batch.results)
        /\ batch.numbered => \A k \in DOMAIN batch.retried :
                /\ batch.results[k].id = batch.retried[k].id
                /\ custom = 0 => ~batch.results[k].success

TemplateInv ==
    /\ custom \in Nat
    /\ custom = 0 => registry = BuiltIn
    /\ \A id \in DOMAIN registry : SchemaOK(registry[id])
    /\ \A d \in documents : d.schema.required \subseteq d.subject
    /\ BatchOK

\* What the filter keeps of a sequence of results: results of the sequence that have failed, no more than there are.
LEMMA FailedResults ==
    ASSUME NEW R, NEW results \in Seq(R)
    PROVE  /\ failed(results) \in Seq(R) /\ Len(failed(results)) <= Len(results)
           /\ \A k \in DOMAIN failed(results) :
                \E j \in DOMAIN results : failed(results)[k] = results[j] /\ ~results[j].success
<1> DEFINE n == Len(results)
           Body(i, v) == IF results[i].success THEN v ELSE Append(v, results[i])
           Step == [i \in 1 .. n |-> [v \in Seq(R) |-> Body(i, v)]]
           Filter(f) == [i \in 0 .. Len(results) |->
                            IF i = 0 THEN <<>>
                            ELSE IF results[i].success THEN f[i - 1] ELSE Append(f[i - 1], results[i])]
           upTo == CHOOSE f : f = Filter(f)
<1>1. n \in Nat /\ \A i \in 1 .. n : results[i] \in R
    OBVIOUS
<1>2. \A i \in 1 .. n, v \in Seq(R) : Body(i, v) \in Seq(R)
    BY <1>1
<1>3. <<>> \in Seq(R) /\ Step \in [1 .. n -> [Seq(R) -> Seq(R)]]
    BY <1>2
<1>4. \A i \in 1 .. n, v \in Seq(R) : Step[i][v] = Body(i, v)
    OBVIOUS
<1>5. PICK g \in [0 .. n -> Seq(R)] : g[0] = <<>> /\ \A i \in 1 .. n : g[i] = Step[i][g[i - 1]]
    <2>1. PICK V, base, F : V = Seq(R) /\ base = <<>> /\ F = Step
        OBVIOUS
    <2>2. n \in Nat /\ base \in V /\ F \in [1 .. n -> [V -> V]]
        BY <1>1, <1>3, <2>1
    <2> HIDE DEF n, Step
    <2>3. \E g : Climbs(g, n, V, base, F)
        BY <2>2, Recursion
    <2>4. QED
        BY <2>1, <2>3 DEF Climbs
<1>6. ASSUME NEW i \in 1 .. n PROVE g[i] = Body(i, g[i - 1])
    <2>1. i - 1 \in 0 .. n /\ i \in 1 .. n
        BY <1>1
    <2>2. g[i - 1] \in Seq(R) /\ g[i] = Step[i][g[i - 1]]
        BY <1>5, <2>1
    <2> HIDE DEF Step, Body
    <2>3. QED
        BY <1>4, <2>1, <2>2
<1>7. g = Filter(g)
    <2>1. ASSUME NEW i \in 0 .. n PROVE g[i] = Filter(g)[i]
        <3>1. CASE i = 0
            <4>1. Filter(g)[i] = <<>> /\ g[i] = <<>>
                BY <1>1, <1>5, <3>1
            <4>2. QED
                BY <4>1
        <3>2. CASE i # 0
            <4>1. i \in 1 .. n /\ i \in 0 .. Len(results)
                BY <1>1, <3>2
            <4>2. Filter(g)[i] = Body(i, g[i - 1])
                BY <3>2, <4>1
            <4>3. QED
                BY <1>6, <4>1, <4>2
        <3>3. QED
            BY <3>1, <3>2
    <2>2. DOMAIN g = 0 .. n /\ g = [i \in 0 .. n |-> g[i]]
        BY <1>5
    <2>3. QED
        BY <2>1, <2>2
<1>8. upTo = Filter(upTo)
    BY <1>7
<1>9. failed(results) = upTo[n]
    BY DEF failed
<1> HIDE DEF upTo
<1>10. upTo[0] = <<>> /\ \A i \in 1 .. n : upTo[i] = Body(i, upTo[i - 1])
    <2>1. 0 \in 0 .. Len(results)
        BY <1>1
    <2>2. upTo[0] = Filter(upTo)[0]
        BY <1>8
    <2>3. upTo[0] = <<>>
        BY <2>1, <2>2
    <2>4. ASSUME NEW i \in 1 .. n PROVE upTo[i] = Body(i, upTo[i - 1])
        <3>1. i \in 0 .. Len(results) /\ i # 0
            BY <1>1
        <3>2. upTo[i] = Filter(upTo)[i]
            BY <1>8
        <3>3. QED
            BY <3>1, <3>2
    <2>5. QED
        BY <2>3, <2>4
<1> DEFINE Kept(v) == /\ v \in Seq(R)
                      /\ \A k \in DOMAIN v : \E j \in DOMAIN results : v[k] = results[j] /\ ~results[j].success
           S == {i \in Nat : i <= n => Kept(upTo[i]) /\ Len(upTo[i]) <= i}
<1>11. 0 \in S
    <2>1. Kept(<<>>)
        OBVIOUS
    <2>2. Kept(upTo[0]) /\ Len(upTo[0]) <= 0
        BY <1>10, <2>1
    <2>3. QED
        BY <2>2
<1>12. ASSUME NEW i \in Nat, i \in S PROVE i + 1 \in S
    <2>1. SUFFICES ASSUME i + 1 <= n PROVE Kept(upTo[i + 1]) /\ Len(upTo[i + 1]) <= i + 1
        OBVIOUS
    <2>2. Kept(upTo[i]) /\ Len(upTo[i]) <= i /\ i + 1 \in 1 .. n /\ (i + 1) - 1 = i
        BY <1>1, <1>12, <2>1
    <2>3. upTo[i + 1] = Body(i + 1, upTo[i])
        BY <1>10, <2>2
    <2>4. PICK v : v = upTo[i]
        OBVIOUS
    <2>5. CASE results[i + 1].success
        <3>1. upTo[i + 1] = v /\ Kept(v) /\ Len(v) <= i
            BY <2>2, <2>3, <2>4, <2>5
        <3>2. Len(v) <= i + 1
            <4>1. v \in Seq(R)
                BY <3>1
            <4>2. QED
                BY <3>1, <4>1
        <3>3. QED
            BY <3>1, <3>2
    <2>6. CASE ~results[i + 1].success
        <3>1. upTo[i + 1] = Append(v, results[i + 1]) /\ results[i + 1] \in R
            BY <1>1, <2>2, <2>3, <2>4, <2>6
        <3>2. v \in Seq(R) /\ i + 1 \in DOMAIN results
            BY <2>2, <2>4
        <3>3. Append(v, results[i + 1]) \in Seq(R) /\ Len(Append(v, results[i + 1])) <= i + 1
            BY <2>2, <2>4, <3>1, <3>2
        <3>4. ASSUME NEW k \in DOMAIN Append(v, results[i + 1])
              PROVE  \E j \in DOMAIN results : Append(v, results[i + 1])[k] = results[j] /\ ~results[j].success
            <4>1. CASE k \in DOMAIN v
                <5>1. Append(v, results[i + 1])[k] = v[k]
                    BY <3>1, <3>2, <4>1
                <5>2. QED
                    BY <2>2, <2>4, <4>1, <5>1
            <4>2. CASE k \notin DOMAIN v
                <5>1. Append(v, results[i + 1])[k] = results[i + 1]
                    BY <3>1, <3>2, <3>4, <4>2
                <5>2. QED
                    BY <2>6, <3>2, <5>1
            <4>3. QED
                BY <4>1, <4>2
        <3>5. QED
            BY <3>1, <3>3, <3>4
    <2>7. QED
        BY <2>5, <2>6
<1>13. Nat \subseteq S
    <2> HIDE DEF S
    <2> QED
        BY <1>11, <1>12, NatInd
<1>14. Kept(upTo[n]) /\ Len(upTo[n]) <= n
    BY <1>1, <1>13
<1>15. QED
    BY <1>9, <1>14

\* A validation has one result for each input, in their order.
LEMMA ValidatesEach ==
    ASSUME NEW inputs \in Seq([id : TemplateIds, claims : Claims])
    PROVE  /\ ResultsOf(validateBatch(inputs), inputs)
           /\ validateBatch(inputs) \in Seq([index : Nat, id : TemplateIds, success : BOOLEAN])
           /\ Len(validateBatch(inputs)) = Len(inputs)
           /\ \A k \in DOMAIN inputs :
                validateBatch(inputs)[k].success = validateClaims(inputs[k].id, inputs[k].claims)
<1>1. Len(inputs) \in Nat /\ DOMAIN inputs = 1 .. Len(inputs)
      /\ \A k \in 1 .. Len(inputs) : inputs[k] \in [id : TemplateIds, claims : Claims] /\ k \in Nat
    <2>1. PICK I : I = [id : TemplateIds, claims : Claims]
        OBVIOUS
    <2>2. inputs \in Seq(I)
        BY <2>1
    <2>3. Len(inputs) \in Nat /\ DOMAIN inputs = 1 .. Len(inputs) /\ \A k \in 1 .. Len(inputs) : inputs[k] \in I
        BY <2>2
    <2>4. QED
        BY <2>1, <2>3
<1>2. PICK results : results = validateBatch(inputs)
    OBVIOUS
<1>3. /\ DOMAIN results = 1 .. Len(inputs)
      /\ \A k \in 1 .. Len(inputs) :
            results[k] = [index |-> k, id |-> inputs[k].id, success |-> validateClaims(inputs[k].id, inputs[k].claims)]
    BY <1>1, <1>2 DEF validateBatch
<1>4. \A k \in DOMAIN inputs : validateClaims(inputs[k].id, inputs[k].claims) \in BOOLEAN
    BY DEF validateClaims, HasTemplate, Parses
<1>5. ASSUME NEW k \in 1 .. Len(inputs)
      PROVE  /\ results[k].index = k /\ results[k].id = inputs[k].id
             /\ results[k].success = validateClaims(inputs[k].id, inputs[k].claims)
             /\ results[k] \in [index : Nat, id : TemplateIds, success : BOOLEAN]
    <2>1. PICK b \in BOOLEAN : b = validateClaims(inputs[k].id, inputs[k].claims)
        BY <1>1, <1>4
    <2>2. results[k] = [index |-> k, id |-> inputs[k].id, success |-> b]
        BY <1>3, <2>1
    <2>3. QED
        BY <1>1, <2>1, <2>2
<1>6. results = [k \in 1 .. Len(inputs) |-> results[k]]
    BY <1>2, <1>1 DEF validateBatch
<1>7. results \in Seq([index : Nat, id : TemplateIds, success : BOOLEAN]) /\ Len(results) = Len(inputs)
    BY <1>1, <1>5, <1>6
<1>8. QED
    BY <1>1, <1>2, <1>3, <1>4, <1>5, <1>7 DEF ResultsOf

LEMMA InputsAreSequences == Inputs \subseteq Seq([id : TemplateIds, claims : Claims])
<1>1. PICK I : I = [id : TemplateIds, claims : Claims]
    OBVIOUS
<1>2. \A n \in Nat : [1 .. n -> I] \subseteq Seq(I)
    OBVIOUS
<1>3. \A n \in 1 .. BatchLength : n \in Nat
    BY TemplatesAssumption
<1>4. Inputs = UNION {[1 .. n -> I] : n \in 1 .. BatchLength}
    BY <1>1 DEF Inputs
<1>5. QED
    BY <1>1, <1>2, <1>3, <1>4

LEMMA InputsHaveLengths == \A inputs \in Seq([id : TemplateIds, claims : Claims]) : Len(inputs) \in Nat
<1>1. PICK I : I = [id : TemplateIds, claims : Claims]
    OBVIOUS
<1>2. \A inputs \in Seq(I) : Len(inputs) \in Nat
    OBVIOUS
<1>3. QED
    BY <1>1, <1>2

\* A batch that is run: its results are of today.
LEMMA RunKeeps ==
    ASSUME TemplateInv, NEW kind, NEW inputs \in Inputs, Run(kind, inputs),
           kind = "sequential" => \A k \in DOMAIN inputs : validateClaims(inputs[k].id, inputs[k].claims)
    PROVE  TemplateInv'
<1>1. inputs \in Seq([id : TemplateIds, claims : Claims])
    BY InputsAreSequences
<1>2. PICK results : results = validateBatch(inputs)
    OBVIOUS
<1>3. /\ ResultsOf(results, inputs)
      /\ results \in Seq([index : Nat, id : TemplateIds, success : BOOLEAN])
      /\ \A k \in DOMAIN inputs : results[k].success = validateClaims(inputs[k].id, inputs[k].claims)
    BY <1>1, <1>2, ValidatesEach
<1>4. /\ batch'.kind = kind /\ batch'.inputs = inputs /\ batch'.asked = inputs /\ batch'.results = results
      /\ batch'.retried = <<>>
      /\ registry' = registry /\ custom' = custom /\ documents' = documents
      /\ DOMAIN batch' = {"kind", "inputs", "asked", "results", "retried", "numbered"}
    BY <1>2 DEF Run, NoBatch
<1>5. \A id, claims : validateClaims(id, claims)' = validateClaims(id, claims)
    BY <1>4 DEF validateClaims, HasTemplate
<1>6. Len(inputs) <= Len(inputs)
    BY <1>1, InputsHaveLengths
<1>7. BatchOK'
    BY <1>1, <1>3, <1>4, <1>5, <1>6 DEF BatchOK, ResultsOf
<1>8. QED
    BY <1>4, <1>7 DEF TemplateInv

\* A sequential batch that throws leaves no results.
LEMMA ThrowKeeps ==
    ASSUME TemplateInv, NEW inputs \in Inputs,
           batch' = [NoBatch EXCEPT !.kind = "thrown", !.inputs = inputs],
           UNCHANGED <<registry, custom, documents>>
    PROVE  TemplateInv'
<1>1. inputs \in Seq([id : TemplateIds, claims : Claims]) /\ Len(inputs) \in Nat
    BY InputsAreSequences, InputsHaveLengths
<1>2. /\ batch'.kind = "thrown" /\ batch'.inputs = inputs /\ batch'.asked = <<>> /\ batch'.results = <<>>
      /\ batch'.retried = <<>>
      /\ registry' = registry /\ custom' = custom /\ documents' = documents
      /\ DOMAIN batch' = {"kind", "inputs", "asked", "results", "retried", "numbered"}
    BY DEF NoBatch
<1>3. Len(batch'.asked) <= Len(batch'.inputs)
    BY <1>1, <1>2
<1>4. batch'.asked \in Seq([id : TemplateIds, claims : Claims])
      /\ batch'.results \in Seq([index : Nat, id : TemplateIds, success : BOOLEAN])
    <2>1. \A S : <<>> \in Seq(S)
        OBVIOUS
    <2>2. QED
        BY <1>2, <2>1
<1>5. ResultsOf(batch'.results, batch'.asked) /\ DOMAIN batch'.results = {} /\ DOMAIN batch'.asked = {}
    BY <1>2 DEF ResultsOf
<1>6. BatchOK'
    BY <1>1, <1>2, <1>3, <1>4, <1>5 DEF BatchOK, ResultsOf
<1>7. QED
    BY <1>2, <1>6 DEF TemplateInv

\* A retry runs the inputs that the failed results point to; if these are the ones they number and nothing
\* was replaced they fail again.
LEMMA RetryKeeps ==
    ASSUME TemplateInv, NEW given \in {batch.inputs, batch.asked}, retryFailedCredentials(given)
    PROVE  TemplateInv'
<1> DEFINE R == [index : Nat, id : TemplateIds, success : BOOLEAN]
           I == [id : TemplateIds, claims : Claims]
<1>1. PICK f : f = failed(batch.results)
    OBVIOUS
<1>2. /\ batch.results \in Seq(R) /\ batch.asked \in Seq(I) /\ batch.inputs \in Seq(I) /\ given \in Seq(I)
      /\ ResultsOf(batch.results, batch.asked) /\ Len(batch.asked) <= Len(batch.inputs)
    BY DEF TemplateInv, BatchOK
<1>3. /\ f \in Seq(R) /\ Len(f) <= Len(batch.results) /\ f # <<>>
      /\ \A k \in DOMAIN f : \E j \in DOMAIN batch.results : f[k] = batch.results[j] /\ ~batch.results[j].success
    BY <1>1, <1>2, FailedResults DEF retryFailedCredentials
<1>4. /\ Len(batch.results) = Len(batch.asked) /\ Len(batch.asked) \in Nat /\ Len(batch.inputs) \in Nat
      /\ DOMAIN batch.asked \subseteq DOMAIN given /\ DOMAIN batch.asked = DOMAIN batch.results
    <2>1. PICK T, V, in, asked, results :
            T = R /\ V = I /\ in = batch.inputs /\ asked = batch.asked /\ results = batch.results
        OBVIOUS
    <2>2. /\ in \in Seq(V) /\ asked \in Seq(V) /\ results \in Seq(T) /\ Len(asked) <= Len(in)
          /\ DOMAIN results = DOMAIN asked
        BY <1>2, <2>1 DEF ResultsOf
    <2>3. Len(results) = Len(asked) /\ Len(asked) \in Nat /\ Len(in) \in Nat /\ DOMAIN asked \subseteq DOMAIN in
        BY <2>2
    <2>4. QED
        BY <2>1, <2>2, <2>3
<1>5. PICK again : again = [k \in DOMAIN f |-> given[f[k].index]]
    OBVIOUS
<1>6. ASSUME NEW k \in DOMAIN f
      PROVE  /\ f[k].index \in DOMAIN given
             /\ given = batch.asked =>
                   again[k].id = f[k].id /\ (custom = 0 => ~validateClaims(again[k].id, again[k].claims))
    <2>1. PICK j \in DOMAIN batch.results : f[k] = batch.results[j] /\ ~batch.results[j].success
        BY <1>3
    <2>2. j \in DOMAIN batch.asked /\ f[k].index = j /\ f[k].id = batch.asked[j].id
        BY <1>2, <2>1 DEF ResultsOf
    <2>3. again[k] = given[j]
        BY <1>5, <2>2
    <2>4. custom = 0 => batch.results[j].success = validateClaims(batch.asked[j].id, batch.asked[j].claims)
        BY <2>2 DEF TemplateInv, BatchOK
    <2>5. QED
        BY <1>4, <2>1, <2>2, <2>3, <2>4
<1>7. DOMAIN f = 1 .. Len(f) /\ Len(f) \in Nat
    BY <1>3
<1>8. again \in Seq(I) /\ DOMAIN again = DOMAIN f /\ Len(again) = Len(f)
    <2>1. PICK J, inputs : J = I /\ inputs = given
        OBVIOUS
    <2>2. inputs \in Seq(J)
        BY <1>2, <2>1
    <2>3. \A k \in DOMAIN inputs : inputs[k] \in J
        BY <2>2
    <2>4. \A k \in 1 .. Len(f) : inputs[f[k].index] \in J
        BY <1>6, <1>7, <2>1, <2>3
    <2>5. again = [k \in 1 .. Len(f) |-> inputs[f[k].index]]
        BY <1>5, <1>7, <2>1
    <2>6. again \in Seq(J) /\ Len(again) = Len(f)
        BY <1>7, <2>4, <2>5
    <2>7. QED
        BY <1>5, <2>1, <2>6
<1>9. PICK results : results = validateBatch(again)
    OBVIOUS
<1>10. /\ ResultsOf(results, again) /\ Len(results) = Len(again) /\ results \in Seq(R)
       /\ \A k \in DOMAIN again : results[k].success = validateClaims(again[k].id, again[k].claims)
    BY <1>8, <1>9, ValidatesEach
<1>11. PICK numbered : numbered = (given = batch.asked)
    OBVIOUS
<1>12. /\ batch' = [batch EXCEPT !.asked = again, !.results = results, !.retried = f, !.numbered = numbered]
       /\ registry' = registry /\ custom' = custom /\ documents' = documents
    BY <1>1, <1>5, <1>9, <1>11 DEF retryFailedCredentials
<1>13. /\ batch'.kind = batch.kind /\ batch'.inputs = batch.inputs /\ batch'.asked = again
       /\ batch'.results = results /\ batch'.retried = f /\ (batch'.numbered => given = batch.asked)
       /\ DOMAIN batch' = DOMAIN batch
    BY <1>11, <1>12 DEF TemplateInv, BatchOK
<1>14. \A id, claims : validateClaims(id, claims)' = validateClaims(id, claims)
    BY <1>12 DEF validateClaims, HasTemplate
<1>15. DOMAIN f = DOMAIN results /\ Len(f) = Len(results) /\ Len(again) <= Len(batch.inputs)
    <2>1. Len(f) <= Len(batch.asked)
        BY <1>3, <1>4
    <2>2. Len(f) <= Len(batch.inputs)
        BY <1>2, <1>4, <1>7, <2>1
    <2>3. QED
        BY <1>8, <1>10, <2>2 DEF ResultsOf
<1>16. ASSUME given = batch.asked, NEW k \in DOMAIN f
       PROVE  results[k].id = f[k].id /\ (custom = 0 => ~results[k].success)
    BY <1>6, <1>8, <1>10, <1>16 DEF ResultsOf
<1>17. batch.kind # "sequential"
    <2>1. \A k \in DOMAIN f : batch.kind # "sequential"
        BY <1>3 DEF TemplateInv, BatchOK
    <2>2. DOMAIN f # {}
        BY <1>3, <1>7
    <2>3. QED
        BY <2>1, <2>2
<1>18. /\ batch'.inputs \in Seq(I) /\ batch'.asked \in Seq(I) /\ Len(batch'.asked) <= Len(batch'.inputs)
       /\ ResultsOf(batch'.results, batch'.asked) /\ batch'.results \in Seq(R)
    BY <1>2, <1>8, <1>10, <1>13, <1>15
<1>19. \A k \in DOMAIN batch'.asked :
            batch'.results[k].success = validateClaims(batch'.asked[k].id, batch'.asked[k].claims)
    BY <1>10, <1>13
<1>20. BatchOK'
    BY <1>12, <1>13, <1>14, <1>15, <1>16, <1>17, <1>18, <1>19 DEF TemplateInv, BatchOK, ResultsOf
<1>21. QED
    BY <1>12, <1>20 DEF TemplateInv

\* A credential that is made has what its schema requires of what was brought: it was required, and it is known.
LEMMA DocumentHolds ==
    ASSUME TemplateInv, NEW id, NEW claims, validateClaims(id, claims), NEW subject
    PROVE  /\ Document(id, claims, subject).schema = registry[id]
           /\ registry[id].required \subseteq Document(id, claims, subject).subject
<1>1. registry[id].required \subseteq claims /\ registry[id].required \subseteq registry[id].known
    BY DEF validateClaims, HasTemplate, Parses, TemplateInv, SchemaOK
<1>2. QED
    BY <1>1 DEF Document, Parsed

LEMMA MakeKeeps ==
    ASSUME TemplateInv, NEW made, Make(made), \A d \in made : d.schema.required \subseteq d.subject
    PROVE  TemplateInv'
<1>1. registry' = registry /\ custom' = custom /\ batch' = batch /\ documents' = documents \cup made
    BY DEF Make
<1>2. \A id, claims : validateClaims(id, claims)' = validateClaims(id, claims)
    BY <1>1 DEF validateClaims, HasTemplate
<1>3. BatchOK'
    BY <1>1, <1>2 DEF TemplateInv, BatchOK
<1>4. QED
    BY <1>1, <1>3 DEF TemplateInv

LEMMA CustomKeeps ==
    ASSUME TemplateInv, NEW id \in TemplateIds, NEW schema \in Schemas, createCustomTemplate(id, schema)
    PROVE  TemplateInv'
<1>1. /\ registry' = [i \in DOMAIN registry \cup {id} |-> IF i = id THEN schema ELSE registry[i]]
      /\ custom' = custom + 1 /\ documents' = documents /\ batch' = batch
    BY DEF createCustomTemplate
<1>2. custom' \in Nat /\ custom' # 0
    BY <1>1 DEF TemplateInv
<1>3. \A i \in DOMAIN registry' : SchemaOK(registry'[i])
    BY <1>1, TemplatesAssumption DEF TemplateInv, SchemaOK
<1>4. BatchOK'
    BY <1>1, <1>2 DEF TemplateInv, BatchOK
<1>5. QED
    BY <1>1, <1>2, <1>3, <1>4 DEF TemplateInv

LEMMA TemplateInitInv == TemplateInit => TemplateInv
<1> SUFFICES ASSUME TemplateInit PROVE TemplateInv
    OBVIOUS
<1>1. /\ batch.kind = "none" /\ batch.inputs = <<>> /\ batch.asked = <<>> /\ batch.results = <<>>
      /\ batch.retried = <<>>
      /\ DOMAIN batch = {"kind", "inputs", "asked", "results", "retried", "numbered"}
    BY DEF TemplateInit, NoBatch
<1>2. BatchOK
    BY <1>1 DEF BatchOK, ResultsOf
<1>3. \A id \in DOMAIN registry : SchemaOK(registry[id])
    BY TemplatesAssumption DEF TemplateInit, SchemaOK
<1>4. QED
    BY <1>2, <1>3 DEF TemplateInit, TemplateInv

LEMMA TemplateNextInv == TemplateInv /\ [TemplateNext]_templateVars => TemplateInv'
<1> SUFFICES ASSUME TemplateInv, [TemplateNext]_templateVars PROVE TemplateInv'
    OBVIOUS
<1>1. ASSUME NEW id \in TemplateIds, NEW s \in Schemas, createCustomTemplate(id, s) PROVE TemplateInv'
    BY <1>1, CustomKeeps
<1>2. ASSUME NEW id \in TemplateIds, NEW c \in Claims, NEW subject \in BOOLEAN,
             createVCFromTemplate(id, c, subject)
      PROVE  TemplateInv'
    <2>1. PICK made : made = {Document(id, c, subject)}
        OBVIOUS
    <2>2. Make(made) /\ \A d \in made : d.schema.required \subseteq d.subject
        BY <1>2, <2>1, DocumentHolds DEF createVCFromTemplate
    <2>3. QED
        BY <2>2, MakeKeeps
<1>3. ASSUME NEW c \in Claims, createProductPassportVC(c) PROVE TemplateInv'
    <2>1. PICK id, claims, subject : id = "product-passport" /\ claims = c \cup {"credentials"} /\ subject = FALSE
        OBVIOUS
    <2>2. validateClaims(id, claims) /\ Make({Document(id, claims, subject)})
        BY <1>3, <2>1 DEF createProductPassportVC
    <2>3. PICK made : made = {Document(id, claims, subject)}
        OBVIOUS
    <2>4. Make(made) /\ \A d \in made : d.schema.required \subseteq d.subject
        BY <2>2, <2>3, DocumentHolds
    <2>5. QED
        BY <2>4, MakeKeeps
<1>4. ASSUME NEW c \in Claims, NEW inputs \in Inputs, createSupplyChainPackage(c, inputs) PROVE TemplateInv'
    <2>1. PICK id, claims, subject :
            id = "product-passport" /\ claims = c \cup {"credentials", "lifecycle"} /\ subject = FALSE
        OBVIOUS
    <2>2. PICK made : made = {Document(inputs[k].id, inputs[k].claims, subject) : k \in DOMAIN inputs}
                              \cup {Document(id, claims, subject)}
        OBVIOUS
    <2>3. /\ validateClaims(id, claims) /\ \A k \in DOMAIN inputs : validateClaims(inputs[k].id, inputs[k].claims)
          /\ Make(made)
        BY <1>4, <2>1, <2>2 DEF createSupplyChainPackage
    <2>4. \A d \in made : d.schema.required \subseteq d.subject
        BY <2>2, <2>3, DocumentHolds
    <2>5. QED
        BY <2>3, <2>4, MakeKeeps
<1>5. ASSUME NEW inputs \in Inputs,
             createBatchWithSummary(inputs) \/ createSupplyChainBatch(inputs) \/ createSequentialBatch(inputs)
      PROVE  TemplateInv'
    <2>1. CASE \E kind : /\ Run(kind, inputs)
                         /\ kind = "sequential" => \A k \in DOMAIN inputs : validateClaims(inputs[k].id, inputs[k].claims)
        BY <2>1, RunKeeps
    <2>2. CASE /\ batch' = [NoBatch EXCEPT !.kind = "thrown", !.inputs = inputs]
               /\ UNCHANGED <<registry, custom, documents>>
        BY <2>2, ThrowKeeps
    <2>3. QED
        BY <1>5, <2>1, <2>2 DEF createBatchWithSummary, createSupplyChainBatch, createSequentialBatch
<1>6. ASSUME NEW given \in {batch.inputs, batch.asked}, retryFailedCredentials(given) PROVE TemplateInv'
    BY <1>6, RetryKeeps
<1>7. CASE UNCHANGED templateVars
    <2>1. registry' = registry /\ custom' = custom /\ batch' = batch /\ documents' = documents
        BY <1>7 DEF templateVars
    <2>2. \A id, claims : validateClaims(id, claims)' = validateClaims(id, claims)
        BY <2>1 DEF validateClaims, HasTemplate
    <2>3. BatchOK'
        BY <2>1, <2>2 DEF TemplateInv, BatchOK
    <2>4. QED
        BY <2>1, <2>3 DEF TemplateInv
<1>8. QED
    BY <1>1, <1>2, <1>3, <1>4, <1>5, <1>6, <1>7 DEF TemplateNext

\* Credentials made from a template validate against it for as long as it is not replaced, whatever the
\* schemas, the claims and the ids.
THEOREM WhatIsMadeValidates == TemplateSpec => []MadeValidates
<1>1. TemplateInv => MadeValidates
    BY DEF TemplateInv, MadeValidates, validateVCAgainstTemplate, validateClaims, Parses
<1>2. QED
    BY <1>1, TemplateInitInv, TemplateNextInv, PTL DEF TemplateSpec

\* Each input of a batch has a result of its own, after any number of retries that are given the inputs
\* which the failed results number, whatever the length of the batch and whichever of its inputs have failed.
THEOREM EachInputIsAnswered == TemplateSpec => []EachInputHasItsResult
<1>1. TemplateInv => EachInputHasItsResult
    <2> SUFFICES ASSUME TemplateInv PROVE EachInputHasItsResult
        OBVIOUS
    <2>1. PICK f, R : f = failed(batch.results) /\ R = [index : Nat, id : TemplateIds, success : BOOLEAN]
        OBVIOUS
    <2>2. batch.results \in Seq(R)
        BY <2>1 DEF TemplateInv, BatchOK
    <2>3. f \in Seq(R) /\ \A k \in DOMAIN f : \E j \in DOMAIN batch.results : f[k] = batch.results[j] /\ ~batch.results[j].success
        BY <2>1, <2>2, FailedResults
    <2>4. Len(batch.results) = Len(batch.asked)
        <3>1. PICK I, inputs, results : I = [id : TemplateIds, claims : Claims] /\ inputs = batch.asked /\ results = batch.results
            OBVIOUS
        <3>2. inputs \in Seq(I) /\ results \in Seq(R) /\ DOMAIN results = DOMAIN inputs
            BY <2>2, <3>1 DEF TemplateInv, BatchOK, ResultsOf
        <3>3. Len(results) = Len(inputs)
            BY <3>2
        <3>4. QED
            BY <3>1, <3>3
    <2>5. batch.kind = "sequential" => f = <<>>
        <3> SUFFICES ASSUME batch.kind = "sequential" PROVE f = <<>>
            OBVIOUS
        <3>1. \A k \in DOMAIN f : FALSE
            BY <2>3 DEF TemplateInv, BatchOK
        <3>2. QED
            BY <2>3, <3>1
    <2>6. QED
        BY <2>1, <2>4, <2>5 DEF TemplateInv, BatchOK, EachInputHasItsResult
<1>2. QED
    BY <1>1, TemplateInitInv, TemplateNextInv, PTL DEF TemplateSpec

=============================================================================
