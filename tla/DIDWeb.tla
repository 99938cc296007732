------------------------------- MODULE DIDWeb -------------------------------
(***************************************************************************)
(* did:web identifiers of packages/vc-toolkit: buildDIDWeb makes one of a  *)
(* domain and a path, didWebToUrl makes the URL of one, and two functions  *)
(* resolve it, resolveDIDWeb of did/did-web.ts and resolveDidWeb of        *)
(* did-resolver.ts, which makes the URL without decoding.  Organizations   *)
(* host their documents at the URL of their DID; two DIDs may have one     *)
(* URL, as a slash in a segment is encoded in the DID and decoded in the   *)
(* URL.  A text is a sequence of characters, one of which may be a percent *)
(* escape.                                                                 *)
(***************************************************************************)
EXTENDS Integers, Sequences, FiniteSets, SequencesExt

CONSTANTS
    Domains,       \* texts, with a colon before a port
    Paths,         \* sequences of texts
    WebKeys,
    MaxPublished   \* bound: documents that are put on hosts

ASSUME DIDWebAssumption == MaxPublished \in Nat

VARIABLES
    hosts,       \* the document at every URL: a set of [url, document]
    published,   \* every publication, in order: [did, key]
    resolved     \* what the two functions have returned: [did, key, latest]

webVars == <<hosts, published, resolved>>

-----------------------------------------------------------------------------
\* replace(/:/g, '%3A') and replace(/\//g, '%2F')
Escape(text, escapes) == [i \in DOMAIN text |-> IF text[i] \in DOMAIN escapes THEN escapes[text[i]] ELSE text[i]]

Colon == (":" :> "%3A")
ColonAndSlash == Colon @@ ("/" :> "%2F")

\* decodeURIComponent
Unescape(text) == [i \in DOMAIN text |-> IF text[i] = "%3A" THEN ":" ELSE IF text[i] = "%2F" THEN "/" ELSE text[i]]

\* join
JoinBy(texts, separator) ==
    FoldLeft(LAMBDA joined, text : joined \o <<separator>> \o text, Head(texts), Tail(texts))

\* split(':')
Split(text) ==
    FoldLeft(LAMBDA parts, ch : IF ch = ":" THEN Append(parts, <<>>)
                                ELSE [parts EXCEPT ![Len(parts)] = Append(@, ch)],
             << <<>> >>, text)

\* What follows did:web:
buildDIDWeb(domain, path) ==
    JoinBy(<<Escape(domain, Colon)>> \o [i \in DOMAIN path |-> Escape(path[i], ColonAndSlash)], ":")

Url(domain, path) ==
    IF path = <<>> THEN domain \o <<"/", ".well-known">> ELSE domain \o <<"/">> \o JoinBy(path, "/")

didWebToUrl(did) ==
    LET parts == Split(did)
    IN  Url(Unescape(parts[1]), [i \in 1 .. Len(parts) - 1 |-> Unescape(parts[i + 1])])

\* In did-resolver the parts stay as they are; a host decodes the path of a request, not its own name.
UrlOfResolver(did) ==
    LET parts == Split(did)
    IN  Url(parts[1], [i \in 1 .. Len(parts) - 1 |-> Unescape(parts[i + 1])])

-----------------------------------------------------------------------------
WebInit == hosts = {} /\ published = <<>> /\ resolved = {}

\* createDIDDocument: one verification method, with the key.
createDIDDocument(did, key) == [id |-> did, key |-> key]

\* createDIDWeb, and the organization puts the document where it belongs, over what is there.
createDIDWeb(domain, path, key) ==
    /\ Len(published) < MaxPublished
    /\ LET did == buildDIDWeb(domain, path)
           url == didWebToUrl(did)
       IN  /\ hosts' = {h \in hosts : h.url # url} \union
                           {[url |-> url, document |-> createDIDDocument(did, key)]}
           /\ published' = Append(published, createDIDDocument(did, key))
    /\ UNCHANGED resolved

\* Mutant: the document at the URL is taken for the one of the DID.
AnyAt(url, did) == {h.document : h \in {x \in hosts : x.url = url}}

\* The response: nothing, or a document whose id is the DID.
Fetch(url, did) == {h.document : h \in {x \in hosts : x.url = url /\ x.document.id = did}}

Latest(did) ==
    LET mine == {i \in DOMAIN published : published[i].id = did}
    IN  published[CHOOSE i \in mine : \A j \in mine : j <= i].key

Return(did, documents) ==
    /\ resolved' = resolved \union {[did |-> did, key |-> d.key, latest |-> Latest(did)] : d \in documents}
    /\ UNCHANGED <<hosts, published>>

\* The DIDs that anybody may ask for.
PublishedDIDs == {published[i].id : i \in DOMAIN published}

\* resolveDIDWeb throws without a document or a verification method.
resolveDIDWeb(did) == Return(did, Fetch(didWebToUrl(did), did))

\* resolveDID with the method web; an error becomes part of the result.
resolveDidWeb(did) == Return(did, Fetch(UrlOfResolver(did), did))

WebNext ==
    \/ \E domain \in Domains, path \in Paths, key \in WebKeys : createDIDWeb(domain, path, key)
    \/ \E did \in PublishedDIDs : resolveDIDWeb(did) \/ resolveDidWeb(did)

WebSpec == WebInit /\ [][WebNext]_webVars

(***************************************************************************)
(* Whoever resolves a DID gets the key that its owner has published last   *)
(* or an error, although the document of another DID may lie at its URL.   *)
(***************************************************************************)
ResolvedIsPublished == \A r \in resolved : r.key = r.latest
=============================================================================
