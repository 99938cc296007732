------------------------------ MODULE Accounts ------------------------------
(***************************************************************************)
(* User accounts (modules/auth of apps/api/src): registration reads the    *)
(* table, hashes the password, inserts the row and signs a token; login    *)
(* reads the row, compares the password, notes the time and signs a token. *)
(* One step is one await.  That an email is unique is a constraint of the  *)
(* database, which is external.                                            *)
(***************************************************************************)
EXTENDS Naturals, FiniteSets

CONSTANTS
    Emails, Passwords,
    UserIds,          \* ids that the database gives
    Sessions,         \* calls of POST /register and POST /login
    EmailIsUnique,    \* UNIQUE on users.email
    UsersMayFail,     \* a query may fail, or the process end
    Nobody

ASSUME AccountsAssumption ==
    EmailIsUnique \in BOOLEAN /\ UsersMayFail \in BOOLEAN /\ Nobody \notin UserIds

VARIABLES
    users,       \* the rows, by id
    welcomed,    \* registrations answered 201
    tokens,      \* what signed tokens say
    session      \* the calls

accountVars == <<users, welcomed, tokens, session>>

AccountInit ==
    /\ users = <<>>
    /\ welcomed = {}
    /\ tokens = {}
    /\ session = [s \in Sessions |-> Nobody]

During(s, pc) == session[s] # Nobody /\ session[s].pc = pc

RowsWith(email) == {i \in DOMAIN users : users[i].email = email}

Begin(s, pc, email, password) ==
    session' = [session EXCEPT ![s] =
        [pc |-> pc, email |-> email, password |-> password, user |-> Nobody]]

Finish(s) == session' = [session EXCEPT ![s] = Nobody]

Sign(i, email) == tokens' = tokens \cup {[id |-> i, email |-> email]}

\* register: the email is looked up; hashing the password takes its time.
LookUp(s, email, password) ==
    /\ session[s] = Nobody
    /\ RowsWith(email) = {}
    /\ Begin(s, "hashing", email, password)
    /\ UNCHANGED <<users, welcomed, tokens>>

Insert(s, i) ==
    LET r == session[s]
    IN  /\ users' = [j \in DOMAIN users \cup {i} |->
                        IF j = i THEN [email |-> r.email, password |-> r.password] ELSE users[j]]
        /\ welcomed' = welcomed \cup {[email |-> r.email, password |-> r.password]}
        /\ Sign(i, r.email)
        /\ Finish(s)

\* Mutant: INSERT ... ON CONFLICT (email) DO UPDATE.
UpsertUser(s) ==
    /\ During(s, "hashing")
    /\ IF RowsWith(session[s].email) # {}
       THEN Insert(s, CHOOSE i \in RowsWith(session[s].email) : TRUE)
       ELSE \E i \in UserIds \ DOMAIN users : Insert(s, i)

\* The INSERT, and the token that follows it; a row that has the email by now makes it
\* fail, and the caller is answered 400.
InsertUser(s) ==
    /\ During(s, "hashing")
    /\ IF EmailIsUnique /\ RowsWith(session[s].email) # {}
       THEN Finish(s) /\ UNCHANGED <<users, welcomed, tokens>>
       ELSE \E i \in UserIds \ DOMAIN users : Insert(s, i)

\* login: the row of the email.
FindUser(s, email, password) ==
    /\ session[s] = Nobody
    /\ \E i \in RowsWith(email) :
          session' = [session EXCEPT ![s] =
              [pc |-> "comparing", email |-> email, password |-> password, user |-> i]]
    /\ UNCHANGED <<users, welcomed, tokens>>

ComparePassword(s) ==
    /\ During(s, "comparing")
    /\ IF users[session[s].user].password = session[s].password
       THEN session' = [session EXCEPT ![s].pc = "noting"]
       ELSE Finish(s)
    /\ UNCHANGED <<users, welcomed, tokens>>

\* UPDATE last_login, and the token.
NoteLogin(s) ==
    /\ During(s, "noting")
    /\ Sign(session[s].user, session[s].email)
    /\ Finish(s)
    /\ UNCHANGED <<users, welcomed>>

SessionFails(s) ==
    /\ session[s] # Nobody /\ UsersMayFail
    /\ Finish(s)
    /\ UNCHANGED <<users, welcomed, tokens>>

AccountNext ==
    \E s \in Sessions :
        \/ \E e \in Emails, p \in Passwords : LookUp(s, e, p) \/ FindUser(s, e, p)
        \/ InsertUser(s) \/ ComparePassword(s) \/ NoteLogin(s) \/ SessionFails(s)

AccountSpec == AccountInit /\ [][AccountNext]_accountVars
-----------------------------------------------------------------------------
\* Shapes; a login is noted only of a user whose password was given.
AccountTypeOK ==
    /\ DOMAIN users \subseteq UserIds
    /\ users \in [DOMAIN users -> [email : Emails, password : Passwords]]
    /\ \A s \in Sessions : session[s] # Nobody =>
          /\ session[s].pc \in {"hashing", "comparing", "noting"}
          /\ session[s].pc = "noting" =>
                users[session[s].user] = [email |-> session[s].email, password |-> session[s].password]
    /\ tokens \subseteq [id : UserIds, email : Emails]

\* Whoever was answered that the account exists can log in to it: of two registrations
\* that both found the email free one is answered, and the row has its password; and
\* all the tokens of an email name the user of that row.
WelcomedCanLogin ==
    /\ \A w \in welcomed : /\ RowsWith(w.email) # {}
                           /\ \A i \in RowsWith(w.email) : users[i].password = w.password
    /\ \A t \in tokens : RowsWith(t.email) = {t.id}

=============================================================================
