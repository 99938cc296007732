----------------------------- MODULE Signatures -----------------------------
(***************************************************************************)
(* The three ways in which packages/vc-toolkit signs a JSON credential:    *)
(* vc-signer-ed25519 over a canonical text, vc-signer over a text in which *)
(* JSON.stringify keeps the names of the top level only, vc-generator with *)
(* an HMAC over the text as the object happens to be ordered.  A signed    *)
(* credential travels: a store may give its members another order, a copy  *)
(* may differ in a value, and it may expire before it is verified.  A      *)
(* signature is the key that made it and the text it was made over.        *)
(***************************************************************************)
EXTENDS Integers, Sequences, FiniteSets, SequencesExt, Ordering

CONSTANTS
    Drafts,       \* credentials to sign: sequences of members
    SigningKeys,
    Copies,       \* identities of signed credentials
    EditValue,    \* a value that no draft has
    LastDay       \* bound of the clock

\* A member is [name, value, object]: a value, or the members of an object.  Names are ordered numbers,
\* and so are values.
Leaf == [name : Int, value : Int, object : {<<>>}]

Different(members) == \A i, j \in DOMAIN members : members[i].name = members[j].name => i = j

\* The names of an object are different at each of its levels.
IsObject(members) ==
    /\ members \in Seq([name : Int, value : Int, object : Seq(Leaf)]) /\ Different(members)
    /\ \A i \in DOMAIN members : Different(members[i].object)

ASSUME SignaturesAssumption ==
    /\ LastDay \in Nat /\ SigningKeys \subseteq Int /\ EditValue \in Int
    /\ \A draft \in Drafts : IsObject(draft)

VARIABLES
    day,     \* the date
    copy     \* the signed credentials and what their verification said

signatureVars == <<day, copy>>

Schemes == {"ed25519", "jws", "hmac"}

Names(members) == {members[i].name : i \in DOMAIN members}

Member(members, name) == members[CHOOSE i \in DOMAIN members : members[i].name = name]

Issuer == 1
Expiration == 2

-----------------------------------------------------------------------------
(* Texts                                                                    *)

\* Object.keys(obj).sort()
Sorted(members) ==
    LET names == InOrder(Names(members), {p \in Names(members) \X Names(members) : p[1] < p[2]})
    IN  [i \in DOMAIN names |-> Member(members, names[i])]

\* Mutant: the names of the top level are used at every level.
SortedOnce(members) ==
    LET sorted == Sorted(members)
    IN  [i \in DOMAIN sorted |->
            [sorted[i] EXCEPT !.object = SelectSeq(@, LAMBDA m : m.name \in Names(members))]]

\* canonicalize, at every level.
canonicalize(members) ==
    LET sorted == Sorted(members)
    IN  [i \in DOMAIN sorted |-> [sorted[i] EXCEPT !.object = Sorted(@)]]

\* JSON.stringify with an array of names: their order, and no other name at any level.
ListedNames(members) ==
    LET sorted == Sorted(members)
    IN  [i \in DOMAIN sorted |->
            [sorted[i] EXCEPT !.object = SelectSeq(Sorted(@), LAMBDA m : m.name \in Names(members))]]

TextOf(scheme, members) ==
    CASE scheme = "ed25519" -> canonicalize(members)
      [] scheme = "jws" -> ListedNames(members)
      [] scheme = "hmac" -> members

-----------------------------------------------------------------------------
(* Signing                                                                  *)

\* signCredentialEd25519 writes the DID of the key over the issuer.
Signed(scheme, draft, key) ==
    IF scheme = "ed25519"
    THEN [i \in DOMAIN draft |-> IF draft[i].name = Issuer THEN [draft[i] EXCEPT !.value = key] ELSE draft[i]]
    ELSE draft

NoCopy == [scheme |-> "none", key |-> 0, members |-> <<>>, original |-> <<>>, text |-> <<>>, verdict |-> "none"]

SignatureInit == day = 0 /\ copy = [c \in Copies |-> NoCopy]

signCredential(c, scheme, draft, key) ==
    /\ copy[c].scheme = "none"
    /\ LET members == Signed(scheme, draft, key)
       IN  copy' = [copy EXCEPT ![c] =
               [scheme |-> scheme, key |-> key, members |-> members, original |-> members,
                text |-> TextOf(scheme, members), verdict |-> "none"]]
    /\ UNCHANGED day

\* External: a store such as jsonb keeps the members in an order of its own.
Stored(members) == [i \in DOMAIN members |-> [Reverse(members)[i] EXCEPT !.object = Reverse(@)]]

StoreCopy(c) ==
    /\ copy[c].scheme # "none" /\ copy[c].verdict = "none"
    /\ copy' = [copy EXCEPT ![c].members = Stored(@)]
    /\ UNCHANGED day

\* External: a copy that differs in one value, at the top or inside.
DifferentCopy(c) ==
    /\ copy[c].scheme # "none" /\ copy[c].verdict = "none"
    /\ \E i \in DOMAIN copy[c].members :
        \/ copy' = [copy EXCEPT ![c].members[i].value = EditValue]
        \/ \E j \in DOMAIN copy[c].members[i].object :
               copy' = [copy EXCEPT ![c].members[i].object[j].value = EditValue]
    /\ UNCHANGED day

-----------------------------------------------------------------------------
(* Verification                                                             *)

Decide(c, accepted) ==
    /\ copy[c].verdict = "none"
    /\ copy' = [copy EXCEPT ![c].verdict = IF accepted THEN "accepted" ELSE "refused"]
    /\ UNCHANGED day

SignatureFits(c, key) ==
    copy[c].key = key /\ copy[c].text = TextOf(copy[c].scheme, copy[c].members)

\* verifyCredentialEd25519: with the key that is given, or that of the issuer.
verifyCredentialEd25519(c) ==
    /\ copy[c].scheme = "ed25519"
    /\ \E key \in SigningKeys \union {Member(copy[c].members, Issuer).value} : Decide(c, SignatureFits(c, key))

\* verifyCredentialSignature: with the key that is given.
verifyCredentialSignature(c) ==
    /\ copy[c].scheme = "jws"
    /\ \E key \in SigningKeys : Decide(c, SignatureFits(c, key))

Expired(members) ==
    \E i \in DOMAIN members : members[i].name = Expiration /\ members[i].value < day

\* verifyCredential: the key is a secret; without it only dates and members are looked at.
verifyCredential(c) ==
    /\ copy[c].scheme = "hmac"
    /\ \E key \in SigningKeys :
        Decide(c, ~Expired(copy[c].members) /\ SignatureFits(c, key))

DayPasses ==
    /\ day < LastDay
    /\ day' = day + 1 /\ UNCHANGED copy

SignatureNext ==
    \/ DayPasses
    \/ \E c \in Copies :
        \/ \E scheme \in Schemes, draft \in Drafts, key \in SigningKeys : signCredential(c, scheme, draft, key)
        \/ StoreCopy(c) \/ DifferentCopy(c)
        \/ verifyCredentialEd25519(c) \/ verifyCredentialSignature(c) \/ verifyCredential(c)

SignatureSpec == SignatureInit /\ [][SignatureNext]_signatureVars

-----------------------------------------------------------------------------
\* The content of a credential, whatever its order.
Content(members) ==
    {<<m.name, m.value, {<<n.name, n.value>> : n \in ToSet(m.object)}>> : m \in ToSet(members)}

TopContent(members) == {<<m.name, m.value>> : m \in ToSet(members)}

\* Whether a copy still is what the text of its scheme tells.
FitsItsText(c) ==
    LET now == copy[c].members  then == copy[c].original
    IN  CASE copy[c].scheme = "ed25519" -> Content(now) = Content(then)
          [] copy[c].scheme = "jws" -> TopContent(now) = TopContent(then)
          [] copy[c].scheme = "hmac" -> now = then

(***************************************************************************)
(* What is accepted is what the text of its scheme tells of what was       *)
(* signed, whatever the way between: with the canonical text a credential  *)
(* keeps its whole content but not its order, with the HMAC its order as   *)
(* well, and with the names of the top level, the values of that level     *)
(* only.                                                                   *)
(***************************************************************************)
AcceptedFitsItsText == \A c \in Copies : copy[c].verdict = "accepted" => FitsItsText(c)

\* vc-signer.ts calls its text a canonical representation, and its signature a
\* proper one of the credential: whatever the scheme, an accepted credential has
\* the content that was signed, the claims of its subject included.
AcceptedIsSigned ==
    \A c \in Copies :
        copy[c].verdict = "accepted" => Content(copy[c].members) = Content(copy[c].original)
=============================================================================
