------------------------------ MODULE Sharing ------------------------------
(***************************************************************************)
(* How a credential is handed to somebody who verifies it: two generators  *)
(* of verification URLs, generateVerificationURL of packages/qr-toolkit    *)
(* and getVerificationUrl of the platform, two readers of them,            *)
(* parseVerificationURL and extractCredentialId, and the platform's page   *)
(* /verify.  Generators and readers were written apart and do not          *)
(* understand all of each other's formats.  A URL is what the readers take *)
(* from one: scheme, host, segments of the path, and query.  Identifiers   *)
(* are texts that a URL holds as they are: UUIDs, the service's urn:uuid:  *)
(* names, or any other, such as credential-123 of the toolkit's examples.  *)
(***************************************************************************)
EXTENDS Integers, Sequences, FiniteSets

CONSTANTS
    Ids,         \* identifiers of credentials
    Uuids,       \* those of them that have the form of a UUID
    HexPrefix,   \* the longest beginning of each that is of hexadecimal digits and dashes only
    BasePaths,   \* paths of base URLs: sequences of segments
    MaxShared    \* bound: URLs that are handed over

\* No base URL has a segment that the formats give a meaning to, and no identifier is a word.
ASSUME SharingAssumption ==
    /\ MaxShared \in Nat /\ BasePaths \subseteq Seq(STRING) /\ Ids \subseteq STRING
    /\ \A p \in BasePaths : \A i \in DOMAIN p : p[i] \notin {"verify", "credentials", ".well-known"}
    /\ Ids \cap {"verify", "credentials", ".well-known", "null"} = {}
    /\ DOMAIN HexPrefix = Ids
    /\ Uuids \subseteq Ids /\ \A id \in Uuids : HexPrefix[id] = id

VARIABLES
    shared,   \* what has been handed over: [url, id, by, format]
    read,     \* what readers made of it: [of, by, id, format]
    verify    \* the page /verify: [input, running, busy, result]

sharingVars == <<shared, read, verify>>

NoId == "null"

Web(path, query) == [scheme |-> "https", host |-> "api", path |-> path, query |-> query]

Formats == {"vc-http-api", "openid4vc", "deeplink", "chapi", "plain"}

-----------------------------------------------------------------------------
(* Generators                                                               *)

\* encodeURIComponent keeps the base in one parameter.
openid4vc(id, base) ==
    [scheme |-> "openid-vc", host |-> "", path |-> <<>>, query |-> [credential_id |-> id, issuer |-> base]]

deeplink(id) == [scheme |-> "proofpass", host |-> "verify", path |-> <<id>>, query |-> <<>>]

generateVerificationURL(id, format, base) ==
    CASE format = "vc-http-api" -> Web(base \o <<"credentials", id, "verify">>, <<>>)
      [] format = "openid4vc" -> openid4vc(id, base)
      [] format = "deeplink" -> deeplink(id)
      [] format = "chapi" -> Web(base \o <<".well-known", "vc-handler">>, [credential |-> id, action |-> "verify"])
      [] format = "plain" -> Web(base \o <<"verify", id>>, <<>>)

\* attestationsService.getVerificationUrl of the platform.
getVerificationUrl(id, format, base) ==
    CASE format = "vc-http-api" -> Web(base \o <<"credentials", id, "verify">>, <<>>)
      [] format = "openid4vc" -> openid4vc(id, base)
      [] format = "deeplink" -> deeplink(id)
      [] format = "chapi" -> Web(base \o <<"chapi", "credentials", id>>, <<>>)
      [] format = "plain" -> Web(base \o <<"verify">>, [credential |-> id])

-----------------------------------------------------------------------------
(* Readers                                                                  *)

\* The segment after the first of these names, if one follows.
After(names, path) ==
    LET at == {i \in 1 .. Len(path) - 1 : path[i] \in names}
    IN  IF at = {} THEN NoId ELSE path[(CHOOSE i \in at : \A j \in at : i <= j) + 1]

\* /credentials/x/verify
Between(path) ==
    LET at == {i \in 1 .. Len(path) - 2 : path[i] = "credentials" /\ path[i + 2] = "verify"}
    IN  IF at = {} THEN NoId ELSE path[(CHOOSE i \in at : \A j \in at : i <= j) + 1]

Parameter(url, name) == IF name \in DOMAIN url.query THEN url.query[name] ELSE NoId

Parsed(id, format, base) == [id |-> id, format |-> format, base |-> base]

\* Mutant: the plain format is tried before the others, and takes what follows the first name it knows.
parsePlainFirst(url) == Parsed(After({"verify", ".well-known"}, url.path), "plain", <<>>)

\* The base of a web URL is its protocol and host: a path of it is lost.
parseWebURL(url) ==
    CASE \E i \in DOMAIN url.path : i < Len(url.path) /\ url.path[i] = ".well-known" /\ url.path[i + 1] = "vc-handler" ->
             Parsed(Parameter(url, "credential"), "chapi", <<>>)
      [] OTHER ->
             IF Between(url.path) # NoId THEN Parsed(Between(url.path), "vc-http-api", <<>>)
             ELSE Parsed(After({"verify"}, url.path), "plain", <<>>)

\* It throws when no format fits, as for a bare identifier: NoId.
parseVerificationURL(url) ==
    CASE url.scheme = "openid-vc" -> Parsed(Parameter(url, "credential_id"), "openid4vc", url.query["issuer"])
      [] url.scheme = "proofpass" -> Parsed(url.path[1], "deeplink", <<>>)
      [] url.scheme = "bare" -> Parsed(NoId, "plain", <<>>)
      [] OTHER -> parseWebURL(url)

\* [a-f0-9-]+ takes what it can of a segment, and the expression finds nothing where that is empty.
HexOf(segment) == IF segment = NoId \/ HexPrefix[segment] = "" THEN NoId ELSE HexPrefix[segment]

\* A UUID as it is, a query, then the path.  In a deep link `verify` is the host, so that nothing is
\* found in its path, and what is neither a UUID nor a URL has no identifier.
extractCredentialId(url) ==
    CASE url.scheme = "bare" -> IF url.path[1] \in Uuids THEN url.path[1] ELSE NoId
      [] Parameter(url, "credential") # NoId -> Parameter(url, "credential")
      [] OTHER -> HexOf(After({"verify", "credentials"}, url.path))

-----------------------------------------------------------------------------
SharingInit ==
    /\ shared = {} /\ read = {}
    /\ verify = [input |-> {}, running |-> {}, busy |-> FALSE, result |-> {}]

Share(url, id, by, format) ==
    /\ Cardinality(shared) < MaxShared
    /\ shared' = shared \union {[url |-> url, id |-> id, by |-> by, format |-> format]}
    /\ UNCHANGED <<read, verify>>

\* generateQRCode and its variants encode the URL as it is.
generateQRCode ==
    \E id \in Ids, format \in Formats, base \in BasePaths :
        Share(generateVerificationURL(id, format, base), id, "toolkit", format)

\* The page of a credential shows the code and copies the URL; an identifier may be copied as well.
ShareFromPlatform ==
    \E id \in Ids :
        \/ \E format \in Formats, base \in BasePaths :
               Share(getVerificationUrl(id, format, base), id, "platform", format)
        \/ Share([scheme |-> "bare", host |-> "", path |-> <<id>>, query |-> <<>>], id, "platform", "bare")

Read(s, by, id, format) == read' = read \union {[of |-> s, by |-> by, id |-> id, format |-> format]}

Parse(s) ==
    /\ LET p == parseVerificationURL(s.url) IN Read(s, "toolkit", p.id, p.format)
    /\ UNCHANGED <<shared, verify>>

\* Without an identifier the input goes to the server as a URL.
handleVerify(s) ==
    /\ LET id == extractCredentialId(s.url)
       IN  /\ verify' = [input |-> {s}, running |-> verify.running \union {s}, busy |-> TRUE, result |-> {}]
           /\ Read(s, "platform", id, s.format)
    /\ UNCHANGED shared

\* The input and the button are disabled while it runs ...
TypeInput(s) == ~verify.busy /\ handleVerify(s)

\* ... but the address of the page may change, whose effect verifies as well.
FromAddress(s) == verify.input # {s} /\ handleVerify(s)

\* verificationService.verify turns every error into a result that is not valid, and its client is
\* undefined, an export that does not exist, so that no call gets further.  The first answer enables
\* the input, and the last one stays, whichever input it is of.
VerifyAnswer ==
    /\ \E s \in verify.running :
        verify' = [verify EXCEPT !.running = @ \ {s}, !.busy = FALSE, !.result = {[of |-> s, valid |-> FALSE]}]
    /\ UNCHANGED <<shared, read>>

SharingNext ==
    \/ generateQRCode \/ ShareFromPlatform
    \/ \E s \in shared : Parse(s) \/ TypeInput(s) \/ FromAddress(s)
    \/ VerifyAnswer

SharingSpec == SharingInit /\ [][SharingNext]_sharingVars

\* An identifier that the platform's page reads whole, wherever it stands.
WhollyHex(id) == HexPrefix[id] = id

(***************************************************************************)
(* The toolkit reads what was put into a URL or nothing, and understands   *)
(* every format of its own, with a path in the base URL or without; and so *)
(* does the platform with identifiers of hexadecimal digits and dashes.    *)
(* Of any other identifier it reads at most the beginning that is of these.*)
(***************************************************************************)
ReadIsShared ==
    \A r \in read :
        /\ r.id \notin {r.of.id, NoId} => /\ r.by = "platform" /\ ~WhollyHex(r.of.id)
                                          /\ r.id = HexPrefix[r.of.id]
        /\ r.by = "toolkit" /\ r.of.by = "toolkit" => r.id = r.of.id /\ r.format = r.of.format
=============================================================================
