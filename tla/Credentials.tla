----------------------------- MODULE Credentials -----------------------------
(***************************************************************************)
(* Identifiers and credentials of packages/vc-toolkit: did:key and its     *)
(* Base58 text, the JWT credentials that issueVC makes from a key pair     *)
(* (or, when did-jwt-vc does not work, without a signature), and verifyVC, *)
(* which tries the library and then verifies by itself.  Time passes       *)
(* between the two.  A signature is the key that made it and the payload   *)
(* it was made over.                                                       *)
(***************************************************************************)
EXTENDS Integers, Sequences, FiniteSets, SequencesExt

CONSTANTS
    PublicKeys,      \* byte sequences of one length: 32
    MulticodecPrefix,\* the bytes before an Ed25519 key: 0xed, 0x01
    Byte, Base,      \* 256 and 58, or less
    Lifetimes,       \* expiresInSeconds and expirationDate that callers pass; zero is none
    Verifications,   \* calls of verifyVC
    ClockSkew,       \* seconds for which did-jwt accepts an expired token: 300
    MaxCredentials, LastInstant,   \* bounds
    LibraryMayFail,
    Missing

ASSUME CredentialsAssumption ==
    /\ Byte \in Nat /\ Base \in Nat /\ Byte > 1 /\ Base > 1
    /\ MulticodecPrefix \in Seq(0 .. Byte - 1) /\ MulticodecPrefix # <<>> /\ MulticodecPrefix[1] # 0
    /\ PublicKeys \subseteq Seq(0 .. Byte - 1) /\ \A k, l \in PublicKeys : Len(k) = Len(l)
    /\ Lifetimes \subseteq Nat /\ ClockSkew \in Nat
    /\ LibraryMayFail \in BOOLEAN

VARIABLES
    clock,      \* now, in seconds
    issued,     \* tokens that issueVC has returned
    verifying   \* the calls of verifyVC

credentialVars == <<clock, issued, verifying>>

-----------------------------------------------------------------------------
(* Base58                                                                   *)

\* The numbers that a sequence of digits in some base writes, up to each of them and in all.
ValuesOf(digits, base) ==
    LET v[k \in 0 .. Len(digits)] == IF k = 0 THEN 0 ELSE base * v[k - 1] + digits[k]
    IN  v

ValueOf(digits, base) == ValuesOf(digits, base)[Len(digits)]

\* Its digits, none for zero.
DigitsUpTo(n, base) ==
    LET d[k \in 0 .. n] == IF k = 0 THEN <<>> ELSE Append(d[k \div base], k % base)
    IN  d

DigitsOf(n, base) == DigitsUpTo(n, base)[n]

LeadingZeros(s) ==
    LET zeros == {n \in 0 .. Len(s) : \A i \in 1 .. n : s[i] = 0}
    IN  CHOOSE n \in zeros : \A m \in zeros : m <= n

Zeros(n) == [i \in 1 .. n |-> 0]

encodeBase58(bytes) == Zeros(LeadingZeros(bytes)) \o DigitsOf(ValueOf(bytes, Byte), Base)

\* The text of zero is one byte already before the leading ones are added.
decodeBase58(text) ==
    LET n == ValueOf(text, Base)
    IN  Zeros(LeadingZeros(text)) \o (IF n = 0 THEN <<0>> ELSE DigitsOf(n, Byte))

-----------------------------------------------------------------------------
(* did:key                                                                  *)

\* generateDIDKeyPair and importDIDKeyPair: the text after did:key:z.
DIDKeyOf(key) == encodeBase58(MulticodecPrefix \o key)

KeyLength == Len(CHOOSE k \in PublicKeys : TRUE)

\* Mutant: the prefix is taken for a part of the key.
KeyWithPrefix(did) ==
    LET k == decodeBase58(did)
    IN  IF IsPrefix(MulticodecPrefix, k) THEN SubSeq(k, 1, KeyLength) ELSE Missing

\* resolveDidKey, decodeMultibaseKey and extractEd25519PublicKey.
PublicKeyOf(did) ==
    LET k == decodeBase58(did)
        p == Len(MulticodecPrefix)
    IN  IF IsPrefix(MulticodecPrefix, k) THEN SubSeq(k, p + 1, p + KeyLength) ELSE Missing

-----------------------------------------------------------------------------
(* Issuing                                                                  *)

\* The expirationDate of the credential goes before expiresInSeconds.
ExpiryOf(date, seconds) ==
    IF date # 0 THEN date ELSE IF seconds # 0 THEN clock + seconds ELSE 0

Token(key, payload, signed) ==
    [payload |-> payload, signer |-> IF signed THEN key ELSE Missing, over |-> payload]

\* issueVC; the issuer is the DID of the key pair.
issueVC(key, date, seconds) ==
    /\ Cardinality(issued) < MaxCredentials
    /\ issued' = issued \cup {Token(key,
           [iss |-> DIDKeyOf(key), exp |-> ExpiryOf(date, seconds)], TRUE)}
    /\ UNCHANGED <<clock, verifying>>

\* createFallbackVC, after any error of the library: unsigned, and without an expiry.
createFallbackVC(key) ==
    /\ LibraryMayFail
    /\ Cardinality(issued) < MaxCredentials
    /\ issued' = issued \cup {Token(key, [iss |-> DIDKeyOf(key), exp |-> 0], FALSE)}
    /\ UNCHANGED <<clock, verifying>>

-----------------------------------------------------------------------------
(* Verifying                                                                *)

\* What may arrive: a token as it was issued, or with the payload of another.
Presented == issued \cup {[t EXCEPT !.payload = u.payload] : t, u \in issued}

present(v, token) ==
    /\ verifying[v] = Missing
    /\ verifying' = [verifying EXCEPT ![v] =
          [pc |-> "library", token |-> token, verified |-> FALSE, at |-> clock]]
    /\ UNCHANGED <<clock, issued>>

verifyEdDSASignature(token) ==
    /\ token.signer # Missing /\ token.over = token.payload
    /\ token.signer = PublicKeyOf(token.payload.iss)

LibraryAccepts(token) ==
    /\ verifyEdDSASignature(token)
    /\ token.payload.exp = 0 \/ token.payload.exp + ClockSkew > clock

\* verifyCredential of did-jwt-vc; whatever error leads to the native verification.
verifyVC(v) ==
    LET c == verifying[v]
    IN  /\ c # Missing /\ c.pc = "library"
        /\ \E works \in IF LibraryMayFail THEN BOOLEAN ELSE {TRUE} :
              verifying' = [verifying EXCEPT ![v] =
                 IF works /\ LibraryAccepts(c.token)
                 THEN [c EXCEPT !.pc = "answered", !.verified = TRUE, !.at = clock]
                 ELSE [c EXCEPT !.pc = "native"]]
        /\ UNCHANGED <<clock, issued>>

\* Mutant: a token has expired already in its last second.
ExpiredEarly(token) ==
    /\ token.payload.exp = 0 \/ token.payload.exp > clock
    /\ verifyEdDSASignature(token)

NativelyVerified(token) ==
    /\ token.payload.exp = 0 \/ token.payload.exp >= clock
    /\ verifyEdDSASignature(token)

\* Mutant: the fallback trusts what the library refused for its age.
VerifyUnaged(v) ==
    LET c == verifying[v]
    IN  /\ c # Missing /\ c.pc = "native"
        /\ verifying' = [verifying EXCEPT ![v] =
              [c EXCEPT !.pc = "answered", !.verified = verifyEdDSASignature(c.token), !.at = clock]]
        /\ UNCHANGED <<clock, issued>>

verifyVCNative(v) ==
    LET c == verifying[v]
    IN  /\ c # Missing /\ c.pc = "native"
        /\ verifying' = [verifying EXCEPT ![v] =
              [c EXCEPT !.pc = "answered", !.verified = NativelyVerified(c.token), !.at = clock]]
        /\ UNCHANGED <<clock, issued>>

\* The caller takes the result: extractClaims.
extractClaims(v) ==
    /\ verifying[v] # Missing /\ verifying[v].pc = "answered"
    /\ verifying' = [verifying EXCEPT ![v] = Missing]
    /\ UNCHANGED <<clock, issued>>

Second == clock < LastInstant /\ clock' = clock + 1 /\ UNCHANGED <<issued, verifying>>

CredentialInit == clock = 1 /\ issued = {} /\ verifying = [v \in Verifications |-> Missing]

CredentialNext ==
    \/ \E k \in PublicKeys :
          \/ \E date, seconds \in Lifetimes : issueVC(k, date, seconds)
          \/ createFallbackVC(k)
    \/ \E v \in Verifications :
          \/ \E t \in Presented : present(v, t)
          \/ verifyVC(v) \/ verifyVCNative(v) \/ extractClaims(v)
    \/ Second

CredentialSpec == CredentialInit /\ [][CredentialNext]_credentialVars
-----------------------------------------------------------------------------
Decided(v) == verifying[v] # Missing /\ verifying[v].pc = "answered"

\* Shapes; a token is signed by the key of its issuer.
CredentialTypeOK ==
    /\ clock \in 1 .. LastInstant
    /\ \A t \in issued : t.payload.exp \in Nat
                      /\ t.signer \in {Missing, PublicKeyOf(t.payload.iss)}
    /\ \A v \in Verifications : verifying[v] = Missing \/
          verifying[v].pc \in {"library", "native", "answered"}

\* Whichever of the two verifications answers and however long it took: what is called
\* verified was issued with that payload, under a signature, and had expired for no
\* longer than the library tolerates when the answer was given.
VerifiedIsGenuine ==
    \A v \in Verifications : Decided(v) /\ verifying[v].verified =>
        LET c == verifying[v]
        IN  /\ \E t \in issued : t.signer # Missing /\ t.payload = c.token.payload
            /\ c.token.payload.exp = 0 \/ c.at < c.token.payload.exp + ClockSkew
                                       \/ c.at <= c.token.payload.exp

\* A signed credential that arrives as it was issued is verified until it expires, also
\* when the library fails: the key is found in the text of the issuer's did:key.
SignedVerifies ==
    \A v \in Verifications : Decided(v) /\ ~verifying[v].verified =>
        LET c == verifying[v]
        IN  \/ c.token \notin issued \/ c.token.signer = Missing
            \/ c.token.payload.exp # 0 /\ c.token.payload.exp < c.at

\* A verdict is right both ways, by the library or by the native way that follows it.
VerdictsAreRight == VerifiedIsGenuine /\ SignedVerifies

=============================================================================
