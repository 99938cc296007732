---------------------------- MODULE MC_Documents ----------------------------
(***************************************************************************)
(* Constants for model checking, in one run, Attestations and the modules  *)
(* about documents and who handles them: Credentials, StatusList, DIDWeb,  *)
(* Signatures, Circuits, Sharing and Platform.  They share no state: a     *)
(* behaviour is one of one of them and leaves the others where they start, *)
(* so that the states of the run are the sum of theirs and not their       *)
(* product.  The parts with a bounded number of steps may stop.            *)
(***************************************************************************)
EXTENDS Attestations, Credentials, StatusList, DIDWeb, Signatures, Circuits, Sharing,
        Platform, TLC

CONSTANT a1    \* the attestation that verifications start from in the other parts

\* Credentials: keys of two digits, one of them all zeros, one that starts with the prefix.
ThreeKeys == {<<0, 0>>, <<0, 3>>, <<3, 1>>}
ThreeIs   == <<3>>

\* StatusList: from a byte before the list to a byte beyond it.
Around == -2 .. 6

\* DIDWeb: a host with a port and one without; two paths have one URL.
TwoHosts  == {<<"h">>, <<"h", ":", "1">>}
FourPaths == {<<>>, << <<"a">>, <<"b">> >>, << <<"a", "/", "b">> >>, << <<"a", ":">> >>}

\* Signatures: names in no order, an object with names of the top level and others, an expiration.
M(name, value, object) == [name |-> name, value |-> value, object |-> object]
TwoDrafts ==
    { << M(4, 0, <<M(5, 1, <<>>), M(3, 1, <<>>)>>), M(1, 1, <<>>), M(2, 1, <<>>), M(3, 1, <<>>) >>,
      << M(1, 2, <<>>), M(4, 0, <<M(3, 2, <<>>)>>), M(3, 1, <<>>) >> }

\* Circuits: two strings, and two objects, in both orders.
BelowZeroAndAbove == {-1, 2}
Item(key, json) == [key |-> key, json |-> json]
FourLists ==
    { <<Item(1, 1), Item(2, 2)>>, <<Item(2, 2), Item(1, 1)>>,
      <<Item(0, 3), Item(0, 4)>>, <<Item(0, 4), Item(0, 3)>> }

\* Sharing: a UUID, and identifiers that begin with nothing or with little of a UUID, one of
\* which is an identifier as well; a base URL with a path and one without.
FourIds == {"c", "c0ffee00-0000-4000-8000-000000000000", "credential-123", "urn:uuid:1-a"}
OneUuid == {"c0ffee00-0000-4000-8000-000000000000"}
HexBeginnings ==
    [id \in FourIds |-> CASE id = "credential-123" -> "c" [] id = "urn:uuid:1-a" -> "" [] OTHER -> id]
TwoBases == {<<>>, <<"api", "v1">>}

EveryPage == DOMAIN Pages

VARIABLE part

others == <<credentialVars, statusVars, webVars, signatureVars, circuitVars, sharingVars, platformVars>>
mcVars == <<attVars, others, part>>

Parts == {"attestations", "credentials", "status list", "did:web", "signatures", "circuits",
          "sharing", "platform"}

MCInit ==
    /\ AttInit /\ CredentialInit /\ StatusInit /\ WebInit /\ SignatureInit /\ CircuitInit
    /\ SharingInit /\ PlatformInit
    /\ part \in Parts
    /\ part # "attestations" => \A v \in Verifiers : check[v].att = a1
    /\ part # "circuits" => heldList = <<Item(1, 1), Item(2, 2)>>

MCNext ==
    \/ part = "attestations" /\ AttNext
       /\ UNCHANGED <<others, part>>
    \/ part = "credentials" /\ CredentialNext
       /\ UNCHANGED <<attVars, statusVars, webVars, signatureVars, circuitVars, sharingVars, platformVars, part>>
    \/ part = "status list" /\ StatusNext
       /\ UNCHANGED <<attVars, credentialVars, webVars, signatureVars, circuitVars, sharingVars, platformVars, part>>
    \/ part = "did:web" /\ WebNext
       /\ UNCHANGED <<attVars, credentialVars, statusVars, signatureVars, circuitVars, sharingVars, platformVars, part>>
    \/ part = "signatures" /\ SignatureNext
       /\ UNCHANGED <<attVars, credentialVars, statusVars, webVars, circuitVars, sharingVars, platformVars, part>>
    \/ part = "circuits" /\ CircuitNext
       /\ UNCHANGED <<attVars, credentialVars, statusVars, webVars, signatureVars, sharingVars, platformVars, part>>
    \/ part = "sharing" /\ SharingNext
       /\ UNCHANGED <<attVars, credentialVars, statusVars, webVars, signatureVars, circuitVars, platformVars, part>>
    \/ part = "platform" /\ PlatformNext
       /\ UNCHANGED <<attVars, credentialVars, statusVars, webVars, signatureVars, circuitVars, sharingVars, part>>
    \/ part \notin {"attestations", "credentials", "status list"} /\ UNCHANGED mcVars

MCSpec == MCInit /\ [][MCNext]_mcVars

MCFairSpec ==
    /\ MCSpec
    /\ \A a \in Attestations : WF_attVars(Settling(a))
=============================================================================
