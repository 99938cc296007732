------------------------------- MODULE Vault -------------------------------
(***************************************************************************)
(* The OpenBao client of apps/api/src/services/openbao.service.ts, and of  *)
(* the server, with the engines that init-openbao.sh enables, what the     *)
(* client relies on: versions of a secret, of which a delete hides the     *)
(* last, metadata that lists a path as long as it has versions, and a      *)
(* transit key, which is not derived and ignores contexts.  Every method   *)
(* is one request; the server may refuse it, its answer may be lost after  *)
(* it has taken effect, and the client gives up after ten seconds.  The    *)
(* script and operators write to the store as well.  No module of the API  *)
(* calls this service yet.                                                 *)
(***************************************************************************)
EXTENDS Integers, Sequences

CONSTANTS
    Callers,       \* concurrent callers of the methods
    KeyIds, Organizations,
    MaxVersions,   \* bound: versions of a secret
    MaxRenewals    \* bound: how often a token comes to its end and is replaced or renewed

ASSUME VaultAssumption == MaxVersions \in Nat /\ MaxRenewals \in Nat

VARIABLES
    address,   \* of the configuration: "root", that of the server, or "v1", with /v1
    service,   \* openBaoService: "none" or "there", and whether its token is valid
    kv,        \* the secrets: path -> versions, each a number or Deleted
    call,      \* the requests of the callers
    log        \* what a promise has just settled with

vaultVars == <<address, service, kv, call, log>>

Deleted == 0

-----------------------------------------------------------------------------
(* Paths                                                                    *)

didKeyPath(key) == <<"did-keys", key>>

organizationKeyPath(organization, key) == <<"organizations", organization, "keys", key>>

\* storeSecret and getSecret take any path, also one of the others, and the script puts a
\* placeholder among the keys.
SecretPaths ==
    {<<"did-keys", ".keep">>} \union {didKeyPath(k) : k \in KeyIds}
    \union {organizationKeyPath(o, k) : o \in Organizations, k \in KeyIds}

Folders == {<<"did-keys">>} \union {<<"organizations", o, "keys">> : o \in Organizations}

Below(folder) == {p \in SecretPaths : Len(p) > Len(folder) /\ SubSeq(p, 1, Len(folder)) = folder}

Readable(path) == kv[path] # <<>> /\ kv[path][Len(kv[path])] # Deleted

\* Metadata stays when the last version is deleted.
ListedBelow(folder) == {p \in Below(folder) : kv[p] # <<>>}

-----------------------------------------------------------------------------
NoCall == [op |-> "none", at |-> <<>>, status |-> 0, truth |-> {}]

VaultInit ==
    /\ address \in {"root", "v1"}
    /\ service = [there |-> FALSE, valid |-> FALSE, renewals |-> 0]
    /\ kv = [p \in SecretPaths |-> <<>>]
    /\ call = [c \in Callers |-> NoCall]
    /\ log = {}

\* A new instance with a token of its own.
initializeOpenBao ==
    /\ service.renewals < MaxRenewals
    /\ service' = [there |-> TRUE, valid |-> TRUE, renewals |-> service.renewals + 1]
    /\ log' = {} /\ UNCHANGED <<address, kv, call>>

TokenExpires ==
    /\ service.valid
    /\ service' = [service EXCEPT !.valid = FALSE]
    /\ log' = {} /\ UNCHANGED <<address, kv, call>>

\* The script, an operator or another process: a version, the delete of one, or of all with the metadata.
OthersWrite(p) ==
    /\ \/ Len(kv[p]) < MaxVersions /\ kv' = [kv EXCEPT ![p] = Append(@, Len(@) + 1)]
       \/ kv[p] # <<>> /\ \E versions \in {<<>>, [kv[p] EXCEPT ![Len(kv[p])] = Deleted]} :
              kv' = [kv EXCEPT ![p] = versions]
    /\ log' = {} /\ UNCHANGED <<address, service, call>>

\* getOpenBaoService throws without an instance.
Send(c, op, at) ==
    /\ service.there /\ call[c].op = "none"
    /\ call' = [call EXCEPT ![c] = [NoCall EXCEPT !.op = op, !.at = at]]
    /\ log' = {} /\ UNCHANGED <<address, service, kv>>

storeDIDKey(c, key) == Send(c, "store", didKeyPath(key))
getDIDKey(c, key) == Send(c, "get", didKeyPath(key))
deleteDIDKey(c, key) == Send(c, "delete", didKeyPath(key))
listDIDKeys(c) == Send(c, "list", <<"did-keys">>)
storeOrganizationKey(c, organization, key) == Send(c, "store", organizationKeyPath(organization, key))
getOrganizationKey(c, organization, key) == Send(c, "get", organizationKeyPath(organization, key))
listOrganizationKeys(c, organization) == Send(c, "list", <<"organizations", organization, "keys">>)
storeSecret(c, path) == Send(c, "store", path)
getSecret(c, path) == Send(c, "get", path)
encrypt(c) == Send(c, "encrypt", <<>>)
decrypt(c) == Send(c, "decrypt", <<>>)
generateDataKey(c) == Send(c, "encrypt", <<>>)
healthCheck(c) == Send(c, "health", <<>>)
renewToken(c) == Send(c, "renew", <<>>)

-----------------------------------------------------------------------------
(* The server                                                               *)

\* Only these two methods have /v1 in their path; the server knows no path without it.
KnownPath(op) == (op \in {"health", "renew"}) = (address = "root")

\* What a read is to find.
Truth(r) ==
    CASE r.op = "get" -> IF Readable(r.at) THEN {kv[r.at][Len(kv[r.at])]} ELSE {}
      [] r.op = "list" -> ListedBelow(r.at)
      [] OTHER -> {}

\* The status, and what is true when it answers.
Answered(c, status) == call' = [call EXCEPT ![c].status = status, ![c].truth = Truth(call[c])]

Respond(c) ==
    LET r == call[c]
        Changes(versions) == kv' = [kv EXCEPT ![r.at] = versions]
    IN  /\ r.op # "none" /\ r.status = 0
        /\ \/ Answered(c, 500) /\ UNCHANGED <<kv, service>>
           \/ ~KnownPath(r.op) /\ Answered(c, 404) /\ UNCHANGED <<kv, service>>
           \/ KnownPath(r.op) /\ ~service.valid /\ r.op # "health" /\ Answered(c, 403) /\ UNCHANGED <<kv, service>>
           \/ /\ KnownPath(r.op) /\ (service.valid \/ r.op = "health")
              /\ \/ /\ r.op = "store" /\ Len(kv[r.at]) < MaxVersions
                    /\ Answered(c, 200) /\ Changes(Append(kv[r.at], Len(kv[r.at]) + 1)) /\ UNCHANGED service
                 \/ /\ r.op = "delete" /\ Answered(c, 200) /\ UNCHANGED service
                    /\ Changes(IF kv[r.at] = <<>> THEN <<>> ELSE [kv[r.at] EXCEPT ![Len(kv[r.at])] = Deleted])
                 \/ /\ r.op = "get" /\ Answered(c, IF Readable(r.at) THEN 200 ELSE 404) /\ UNCHANGED <<kv, service>>
                 \/ /\ r.op = "list" /\ Answered(c, IF ListedBelow(r.at) # {} THEN 200 ELSE 404) /\ UNCHANGED <<kv, service>>
                 \/ /\ r.op \in {"encrypt", "decrypt", "health"} /\ Answered(c, 200) /\ UNCHANGED <<kv, service>>
                 \/ /\ r.op = "decrypt" /\ Answered(c, 400) /\ UNCHANGED <<kv, service>>
                 \/ /\ r.op = "renew" /\ service.renewals < MaxRenewals
                    /\ Answered(c, 200) /\ kv' = kv
                    /\ service' = [service EXCEPT !.renewals = @ + 1]
        /\ log' = {} /\ UNCHANGED address

-----------------------------------------------------------------------------
(* The client                                                               *)

\* Mutant: every error of a read is taken for an absence.
AnyStatus(status) == status # 200

\* error.response?.status === 404
MeansAbsent(status) == status = 404

\* What the promise settles with: a read turns 404 into null or [], a health check every error into
\* false, and the others throw.
Settled(r, status) ==
    CASE status = 200 -> "value"
      [] r.op \in {"get", "list"} /\ MeansAbsent(status) -> "absent"
      [] r.op = "health" -> "false"
      [] OTHER -> "thrown"

\* The answer arrives, or ten seconds have passed: status 0, whether the server has answered or not.
Settle(c) ==
    /\ call[c].op # "none"
    /\ \E status \in {0, call[c].status} :
        log' = {[op |-> call[c].op, result |-> Settled(call[c], status), truth |-> call[c].truth]}
    /\ call' = [call EXCEPT ![c] = NoCall]
    /\ UNCHANGED <<address, service, kv>>

-----------------------------------------------------------------------------
Call(c) ==
    \/ \E k \in KeyIds : storeDIDKey(c, k) \/ getDIDKey(c, k) \/ deleteDIDKey(c, k)
    \/ \E o \in Organizations, k \in KeyIds : storeOrganizationKey(c, o, k) \/ getOrganizationKey(c, o, k)
    \/ \E o \in Organizations : listOrganizationKeys(c, o)
    \/ \E p \in SecretPaths : storeSecret(c, p) \/ getSecret(c, p)
    \/ encrypt(c) \/ decrypt(c) \/ listDIDKeys(c) \/ generateDataKey(c) \/ healthCheck(c) \/ renewToken(c)

VaultNext ==
    \/ initializeOpenBao \/ TokenExpires
    \/ \E p \in SecretPaths : OthersWrite(p)
    \/ \E c \in Callers : Call(c) \/ Respond(c) \/ Settle(c)

VaultSpec == VaultInit /\ [][VaultNext]_vaultVars

\* A method that says a key or a folder is absent, or returns one, says what was so when the
\* server answered.
SaysWhatIsSo ==
    \A l \in log :
        /\ l.result = "absent" => l.truth = {}
        /\ l.result = "value" /\ l.op \in {"get", "list"} => l.truth # {}

\* An expired token, a failing server or a lost answer is never taken for an absence, whoever
\* writes to the store, if the address has the /v1 that the paths of the secrets lack.
AbsentIsAbsent == address = "v1" => SaysWhatIsSo
=============================================================================
