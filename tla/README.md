# TLA+ models of the ProofPass platform

ProofPass issues verifiable credentials ("attestations"), anchors their hashes on
a public ledger and groups them into product passports. This directory holds
TLA+ models of the parts of the platform where the order of steps matters, TLC
configurations that check them on small instances, and proofs of their safety
properties that hold for every value of the constants.

Contents: 1 the system; 2 the modules and how they correspond to the code;
3 the runs and their bounds; 4 fairness; 5 what is proved; 6 findings and
observations; 7 what is not modelled; 8 the plan.

To check a run: `tlc -config Tables_all.cfg MC_Tables`. To check the proofs
of a module: `tlapm PassportsProofs.tla`.

## 1. The system

The API (`apps/api`) is one Node process with Fastify. It keeps its state in
PostgreSQL (through a pool that gives every statement a connection of its own),
in Redis (counters and BullMQ queues) and on a ledger (Stellar through a
provider). JavaScript runs one callback at a time, so that the only places where
another request can come in between are the awaits: each SQL statement, Redis
command or ledger call. Every model takes exactly those as its steps.

| Part | State | Operations | What is hard | What makes it correct |
|---|---|---|---|---|
| **DID manager** `services/did-manager.ts` | table `user_dids` with its two unique indexes; `ENCRYPTION_KEY` of the process | createUserDID, getPrimaryDID, getOrCreatePrimaryDID, getDIDForSigning, getDIDPrivateKey, updateDIDUsage, setPrimaryDID (a transaction), deleteDID | statements of concurrent calls between the UPDATE that takes the primary flag away and the one that gives it; row locks; failing statements; restarts | one primary DID per user; a user keeps one; calls end |
| **Attestation service** `modules/attestations` | tables `attestations`, `blockchain_transactions`; the ledger; anchorings in the background | createAttestation, anchorToBlockchain, verifyAttestation | the anchoring is not awaited, may fail at each of its statements and dies with the process; verifications overlap it | rows name only transactions the ledger has; what was signed verifies and what was not does not; an anchoring that the ledger answers ends |
| **Passport service** `modules/passports` | tables `product_passports`, `passport_attestations` | createProductPassport, addAttestationToPassport, verifyProductPassport | checks and inserts in separate statements, over rows that a background anchoring changes; parallel queries of a verification | a passport aggregates anchored attestations of its owner; a created passport is complete; a passport of anchored attestations verifies |
| **Rate limiter** `middleware/rate-limit.ts` | a counter with an expiry per identifier, in Redis | the preHandler of createRateLimiter | GET, INCR and PEXPIRE are separate commands; errors are swallowed; Redis outlives the process | the limit is kept up to the concurrency; a window starts once and ends |
| **Job queue** `queue/` | BullMQ jobs in Redis; workers and queues of the process | initialize, add, the processors, retry/remove/pause routes, shutdown | retries, stalled jobs, callbacks that are jobs themselves, the order of shutdown | work is repeated only for failures and stalls; no callback is lost; jobs and shutdowns end |
| **Replay protection** `packages/zk-toolkit` | used nullifiers and transaction hashes, in a Map or in PostgreSQL | verifyAndRecordNullifier, verifyAndRecordTransaction, cleanup | check and record an await apart; a record that is made although its answer is lost; restarts | each token is accepted once; a call behaves as one atomic test-and-record |
| **API keys and their use** `modules/admin/api-keys`, `middleware/api-key-auth.ts`, `usage-tracking.ts`, `rbac.ts` | tables `organizations`, `api_keys`, `usage_records`, `usage_aggregates` | generate, deactivate, reactivate, delete, rotate; look up, check and record a request; the routes that do this for an administrator | the day's records are counted before a request and written after it; aggregates are not awaited; rotation in three statements, whose answer may be lost; lookup of one row by a shared prefix | the daily limit holds up to the concurrency; a rotation that fails leaves nobody without a key; aggregates never run ahead |
| **Quotas** `services/quota.service.ts` | counters per hour, day and month in Redis | checkQuota, recordUsage, resetUsage | check and increment apart; keys that live from their last use; KEYS and DEL apart | a counter is exact while its period lasts; usage below the quota up to the concurrency |
| **Payments** `modules/admin/payments` | table `payments`; `subscription_end` | createPayment, status changes, getPaymentStats, change of plan | a payment and the extension it pays for are two statements | no subscription is extended for nothing |
| **User accounts** `modules/auth` | table `users`; signed tokens | register, login | looking the email up, hashing and inserting are awaits apart | who was told that an account exists can log in to it |
| **Blockchain manager and providers** `packages/blockchain`, `modules/blockchain` | the manager of the process; accounts, pools and chains of the ledgers | anchorData, batchAnchorData, transaction status, verifyAnchor, the routes | two submissions with one sequence number; batches that are cut; a transaction and its receipt read apart; lost answers | what is answered as anchored is on the ledger and verifies |
| **Zero-knowledge proofs** `modules/zkp`, `packages/zk-toolkit` | table `zk_proofs` | generate, verify, the circuits | values of any JSON type, compared as JavaScript does and then in a field; padded sets; a row read, verified and written back | a proof is stored only of what holds; what holds is refused for known reasons only; a passing failure is undone |
| **Status list** `packages/vc-toolkit/src/status-list.ts` | an array of bits and its published copy | set, get, encode, decode, statistics | positions at the borders of bytes, negative indices | the list is a register of revoked credentials |
| **Credential toolkit** `packages/vc-toolkit` | none but the clock | did:key, issueVC, verifyVC and their fallbacks | two verifications that tolerate different ages; leading zeros in Base58 | verified means issued and signed; signed verifies until it expires |
| **Templates and batches** `packages/templates` | the registry of templates | custom templates, credentials and packages from templates, batches and retries | indices of partial failures, and of failures among retries; templates that are replaced | a credential validates against its template; every input gets its result |
| **Server** `main.ts`, `app.ts`, `middleware/security.ts`, `error-handler.ts` | the process, its server, queues and pool; the requests in their hooks and handlers | start, buildApp, the hooks and the error handler, the handlers of SIGTERM and SIGINT | a signal before the server listens, two signals whose handlers interleave, jobs and requests in progress | nothing is cut off by a stop; a stop ends, unless a request waits for a block for ever |
| **Telemetry** `telemetry/` | the SDK, the counters, a span for each request or job | initializeTelemetry, the hooks, withSpan, shutdown | errors end a span before the answer does; the SDK starts after the first count, or is shut down while requests go on; requests that never reach the hooks | the figures are those of the answers given to requests that reached the plugin, or none; no span is exported twice |
| **OpenBao client** `services/openbao.service.ts` | the client and its token; secrets on the server | store, get, delete and list keys, encrypt and decrypt, renewal | a refused, lost or late answer, or a wrong address, may look like an absence; others write to the store | absent means absent |
| **Migrations** `config/migrate.ts`, `scripts/` | the database and its two tables of records | five programs that prepare it, each a process | programs side by side, each of which may stop between two statements | records are true of the database |
| **Set-up tools** `setup.js`, `cli/proofpass.ts` | files, dependencies and container of a machine | the wizard, the commands of the command line | children that fail or are killed and are taken for successful | what they start keeps the database's records true |
| **did:web and JSON signers** `packages/vc-toolkit` | documents at URLs; signed credentials | build and resolve a DID, sign and verify in three ways | two DIDs with one URL, two resolvers; stores that reorder members | who resolves gets the last published key; what is accepted is what the signed text says |
| **Circuits without SNARKs** `packages/zk-toolkit/src/circuits.ts` | proofs and public inputs | three generators, their verifiers | proof and inputs of different generations, or of none: the HMAC's key is public | a generated proof keeps its statement |
| **Platform pages** `apps/platform` | session, page, requests in flight | signing in, loading, filtering, acting, submitting forms | answers in any order, also to a page that was left; answers lost after they took effect | a page settles; a form creates once and once more for each failure that it told |
| **Sharing** `packages/qr-toolkit`, `/verify` of the platform | URLs that are handed over | two generators and two readers of verification URLs, the page /verify | generators and readers were written apart; identifiers of any form | a reader finds the identifier that was put in, or a known part of it |
| Client SDK, website, types, demonstrations, examples | none | - | - | - |

Interactions: the attestation service asks the DID manager for a signing key
(`attestations/service.ts:84`); the passport service reads and links rows of the
attestation service while their anchorings go on; processors of the job queue
call the credential toolkit and add jobs to the webhooks queue; `main.ts` closes
the server, then workers, then queues. The rate limiter, the API keys and the
quotas each limit requests on their own. The plan of an organization limits its
requests, and its `subscription_end` is set by payments and by changes of plan.
The blockchain routes submit from the account that the anchorings of the
attestation service use, too; each of them sees the other only as a sequence
number that is gone. The signal handlers of `Server` wait for the requests in
progress, then for the shutdown of `JobQueue`, then for the pool. The command line
(`Setup`) starts the programs of `Migrations` on the database that the service
uses afterwards. `PROJECT.json` lists the hazards of these
parts, line by line, with the properties that watch them.

## 2. Modules

| Module | Models | Uses |
|---|---|---|
| `DIDManager` | the DID manager over `user_dids` | - |
| `Attestations` | attestation service and its ledger | - |
| `Passports` | passport service, composed with `Attestations` | EXTENDS `Attestations` |
| `RateLimiter` | createRateLimiter over Redis | - |
| `JobQueue` | queues, processors, management routes, start and stop | - |
| `OneUse` | what replay protection promises (abstract) | - |
| `ReplayProtection` | the replay protection of the toolkit | INSTANCE `OneUse` |
| `Tenants` | organizations, API keys, requests that carry one, usage records | - |
| `Quotas` | the quota counters | - |
| `Payments` | payments and subscriptions | - |
| `Accounts` | registration and login | - |
| `Anchoring` | blockchain manager, providers, routes, ledgers | - |
| `ZKProofs` | generation and verification of proofs, the circuits | - |
| `Credentials` | did:key, issuing and verifying credentials | - |
| `Revocation` | what a status list promises (abstract) | - |
| `StatusList` | the status list as an array of bits | INSTANCE `Revocation` |
| `Templates` | templates, credentials made from them, batches | - |
| `Server` | the process: start, hooks and handlers of a request, signals | - |
| `Telemetry` | SDK, counters and spans | - |
| `Vault` | the OpenBao client and what it uses of the server | - |
| `Migrations` | the programs that prepare the database | - |
| `Setup` | the wizard and the command line | EXTENDS `Migrations` |
| `DIDWeb` | did:web identifiers, their URLs and two resolvers | - |
| `Signatures` | the three signers of JSON credentials | - |
| `Circuits` | the proofs of circuits.ts | - |
| `Platform` | the pages of the platform in one browser tab | - |
| `Sharing` | generators and readers of verification URLs, /verify | - |
| `Ordering` | the sorted sequence of a finite set, used by `Signatures`, `Circuits` | - |
| `MC_Tables`, `MC_Limits`, `MC_Proofs`, `MC_Documents`, `MC_Operations`, `MC_Server` | sums of parts that share no state, and their constants | EXTENDS the parts (section 3) |
| `Foundations` | induction, recursion, division and order, for the proofs | EXTENDS `Ordering`, TLAPS |
| `DIDManagerProofs` | the theorems about `DIDManager` | EXTENDS it, TLAPS |
| `PassportsProofs` | the theorems about `Attestations`, `Passports` | EXTENDS `Passports`, TLAPS |
| `LimitsProofs` | the theorems about `RateLimiter`, `Tenants`, `Quotas`, `Payments` | EXTENDS them, TLAPS |
| `OperationsProofs` | the theorems about `JobQueue`, `Server`, `Telemetry`, `Vault`, `Migrations` | EXTENDS them, TLAPS |
| `VerificationProofs` | the theorems about `ReplayProtection`, `Accounts`, `ZKProofs`, `Anchoring`, `Templates` | EXTENDS them, `Foundations` |
| `DocumentsProofs` | the theorems about `StatusList`, `DIDWeb`, `Sharing`, `Platform` | EXTENDS them, `Foundations` |
| `CredentialsProofs` | the theorems about `Credentials`, `Signatures`, `Circuits` | EXTENDS them, `Foundations` |

Definitions named "Mutant" in the comment above them are not part of any
specification: they are plausible mistakes in the definition that follows, kept
to show that each property notices at least one of them (`PROJECT.json`,
"mutants").

**DIDManager.** `userDids` is the committed table, a row per DID with its owner, its
primary flag and the lifetime of the process whose key encrypted it (a process
without `DID_ENCRYPTION_KEY` makes up a key, line 30). `req` holds the calls in
flight, each at its next statement. `StartRequest` is the entry of an exported
function; `UnsetPrimaries` and `InsertDID` are the two statements of createUserDID,
with the unique indexes in `Duplicate`; `ReadPrimary`, `ReadById`, `ReadPrivateKey`
and `UpdateUsage` are those of a signing; `TxnCheck`, `TxnUnset`, `TxnSet` and
`TxnCommit` those of setPrimaryDID, which keeps its connection and runs as one READ
COMMITTED transaction; `DeleteDID` is deleteDID. A row an open transaction has
updated is in `rowLock`: readers see its committed version, writers wait for it
(`FreeFor`), and an INSERT waits while the index entry it may collide with is in
doubt (`IndexEntryInDoubt`). A statement may fail without effect (`QueryFails`) or
take effect while its answer is lost, which the code sees as the same error
(`Answered`). Only getDIDForSigning with a user id is reached from a route today; the
other functions are exported API, and the model lets callers use them all. Counters,
names and key bytes are abstracted. Names that Passports or Attestations have too
begin with `DID` (`DIDNext`, `DIDRestart`) or differ (`Owners`, `NoRow`), so that one
run can take both.

**Attestations.** `CreateAttestation` is the signing and the INSERT. What it stores
is a string in any case: `"jwt"`, or `"unsigned"` when anything is thrown while
issueVC signs and its fallback makes a token with a placeholder for the signature
(`IssuedTokens`), which verifyVC never accepts. After it `worker[a]` is the
background anchoring: `Submit` to the ledger, `RecordAnchor` (the UPDATE of the row),
`RecordTransaction` (the INSERT into `blockchain_transactions`) and `RevertStatus` in
the catch block; each may fail, and the last failure is only logged. The ledger may
have accepted a transaction, and the database made a change, whose answer is lost;
the anchoring is then `"stopped"` half-way, as a restart leaves it, too. `Settling`
is the part of it that needs only the database. `ReadForVerification` and `AskLedger`
are the two awaits of verifyAttestation; its result is the conjunction of the
credential's own verification and the ledger's. The ids the service makes do not have
the form that the route's schema demands; the constant `IdsAreUuids` tells whether
that is looked at: when TRUE, the model is the service behind its routes, when FALSE,
the two together.

**Passports.** `Creations`, `Additions` and `Verifications` are the three calls of
the service in flight, one slot of `call` each; a call that throws or has nothing
more to tell is forgotten (`End`). A creation's attestations are a sequence, since
the code compares its length with a number of rows. `SelectFails` is a failed
query before the first write; an INSERT may fail or its answer may be lost.
Promise.all of verifyProductPassport is the set `unread`, answered in any
order. `Next` interleaves them with creations, anchorings and restarts of
`Attestations`, unchanged.

**RateLimiter.** `Get`, `Incr`, `PExpire` and `Ttl` are the commands of one
request; `RedisFails` is the catch block, which admits the request wherever it
was; `Expire` and the rest of Redis are external. Time is abstracted to the
expiry of a key. The preHandler of the outer registration runs before a route
verifies its token, so that the identifier is in fact always the address of the
client; the model takes it as a parameter. A restart ends the requests, not the
counters.

**JobQueue.** `job` is what Redis and the processor know of a job: its BullMQ
state, the step its processor is at, the attempts and stalls counted, and how
much it has done. `WorkOnCredential`, `QueueCallback` and `Complete` are a
processor of credentials, `SendCallback` is that of webhooks; `Take`, `Promote`
and `Recover` are BullMQ's (version 5, modelled from its use: waiting, delayed
after a failure, stalled after a crash). `Sigterm` and `CloseNext` follow
`shutdown` worker by worker, `Crash` ends the process anywhere. `RetryFailed`,
`Remove` and `PauseOrResume` are the management routes. A callback is a job of
its own, named by the job and the run that made it.

**ReplayProtection, OneUse.** A call is `Verify` (proof checked, outside), then
`Check`, then `Record`, with an await between. Tokens in `Durable` are in
PostgreSQL, the others in the Map of the process, so that a restart forgets
them. `Age` ends a retention period and `Cleanup` deletes what is old; the
DELETE of the PostgreSQL class has its parameter inside a string literal, is
refused, and deletes nothing. `OneUse` is the promise: one atomic step accepts
or refuses a token; tokens may be forgotten. `Refines` maps the store to the set
of used tokens and the calls to their answers.

**Tenants.** `org` and `key` are the tables; a key is its row, known to whoever
`delivered` it. The actions in capitals (`POSTOrganization`, `PATCHDeactivate`,
`DELETEAPIKey` ...) are the administration routes, which `requireAdmin` guards.
`RotateRead`, `RotateInsert` and `RotateDeactivate` are the three statements of
rotateAPIKey, each committed by itself, and `RotateAnswer` is the answer, the only
one that shows the new key; `RotateFails` is an error, a lost answer or the end of
the process between them. A request with a key is `LookUp` (any one row that the
prefix selects, with the limit of its plan), `Check` (hash, expiry and the count of
the day's records), `Record` (the INSERT after the response) and `updateAggregates`;
`Unrecorded` is an error, a route without the hook or the end of the process.
`Midnight` starts the next day's count. The variables `paused`, `origin` and `lost`
remember who switched a key off, what it was generated for, and which new keys nobody
was told of although the old one is off; the code does not keep them.

**Quotas.** `counter` holds the keys of Redis with the period they name, their
count and their expiry; `Ask` is checkQuota, `recordUsage` the MULTI of three
INCR and three EXPIRE, `ResetKeys` and `ResetDel` the KEYS and the DEL of
resetUsage. Time is in ticks, several to an hour, and a period is `now`
divided by its length. `used` counts what a perfect counter would.

**Payments.** `InsertPayment` and `ExtendSubscription` are the two statements of
createPayment, `ReportTotal`, `ReportByMethod` and `ReportByStatus` the three of
getPaymentStats; `ChangePlan` is the UPDATE of updateOrganizationPlan. `agreed`
remembers whether a plan or a payment set the date. Amounts are counted, not
added.

**Accounts.** `LookUp` and `InsertUser` are a registration before and after the
hash, `FindUser`, `ComparePassword` and `NoteLogin` a login. The unique
constraint on the email is the database's; `EmailIsUnique` tells whether it is
there.

**Anchoring.** `getBlockchainManager` folds addProvider over the configuration
and sets the default network; every route calls it. `LoadAccount`,
`SubmitTransaction` and `Confirm` are an anchoring by one of the providers, each
a round trip; `AnchoringFails` is a refusal, a drop or a lost answer. `Apply` and
`Drop` are the ledgers, external: transactions are applied in the order of their
sequence numbers. `Inquire` reads a transaction and `Answer` its receipt, with
`Finding` the verdict of getTransactionStatus or verifyAnchor. The constant
`HashMemoTaken` tells whether the Stellar library takes the memo that the
provider passes.

**ZKProofs.** `Generate`, `Prove` and `InsertProof` are POST /zkp/proofs;
`VerifyProof` and `RecordFinding` are the read and the UPDATE of a verification. The
routes take any JSON for values and bounds (zkp/routes.ts:15, although
packages/types/src/zkproof.ts:26 says `number`): here a value is its kind and a
number, `Less` is JavaScript's comparison, which goes by the characters when both
sides are strings (`TextBefore`), and `Readable` is what BigInt takes, which throws
at a fraction, a word and an object. The circuits are operators: `LessThan` is
circomlib's, over `Bits` bits in a field of `Field` elements, `PaddedSet` the set
with its padding. A cryptographic proof is abstracted to whether the circuit has a
solution. `quiet` remembers whether a failed verification of the same proof has
overlapped.

**Credentials.** `encodeBase58` and `decodeBase58` are the conversions digit by
digit, `DIDKeyOf` and `PublicKeyOf` the way from a key to its did:key and back.
`issueVC` signs, `createFallbackVC` is what it returns when the library throws.
`verifyVC` asks the library, `verifyVCNative` is the fallback, an await and perhaps
a `Second` later. A signature is a record of who signed what, and `Presented` are
tokens as issued or with another's payload.

**StatusList, Revocation.** A byte is the set of its bits. `setStatus` and
`getStatus` are the functions of status-list.ts with the division and remainder
of JavaScript, which treat a negative index in their own way. `Revocation` is a
set of revoked credentials and a published copy; `Register` maps the bits to it.

**Templates.** A schema is the fields it requires and those it knows, claims the
fields that are present. `createCustomTemplate` changes the registry,
`createVCFromTemplate`, `createProductPassportVC` and `createSupplyChainPackage` make
credentials, the batches validate their inputs, a sequential one throws at the first
failure, with its results, and `retryFailedCredentials` takes the failed ones again,
as often as it is called, out of the inputs that it is given: those of the first call
or those that the last results number (`asked`). For the property `numbered`
remembers which.

**Server.** `boot` is the step that start() awaits, `stop` the signal handlers in
progress, one for each delivery of a signal, since a second one is not prevented. A
request runs its hooks (`RunHook`: size, content type, the sanitizer with its search
for SQL, and on some routes the rate limit and the API key), then its handler
(`Handle`); `errorHandler` maps errors to their status. A request's input is its
size, type and fields. The service hands requests, jobs and queries to Fastify,
BullMQ and pg, of which the model takes what the code relies on: `ServerClosed` waits
for the requests in flight, `QueuesShut` for the jobs, `PoolEnded` for the queries.
`buildApp` is the same server for tests, without queues and signals. The handlers of
the anchor routes wait for a block without a time limit (`AwaitsBlock`) and need not
answer. The order in which the workers close is in JobQueue.

**Telemetry.** `work` is a request or a job with its span, `metrics` the counters,
made at their first use and kept: made before the SDK they are no-op ones for good.
`telemetryMiddleware`, `onError` and `onSend` are the hooks of a request,
`EarlierHookAnswers` a request that an earlier onRequest hook has answered and that
therefore has no start time, `StartSpan`, `RecordBusiness` and `withSpan` those of a
job. A span that ends while the SDK is up reaches the exporter, external. main.ts and
app.ts register neither the SDK nor the plugin: the module is about a program that
registers both.

**Vault.** `Call` is one of the methods, `Respond` the server's part of it, external,
and `Settle` what the method returns or throws, ten seconds later at the latest.
`log` holds, for the property, what has just been returned with what was true when
the server answered (`Truth`). `address` says whether the configured address ends in
/v1, which the paths of the secrets lack and those of healthCheck and renewToken
have. The engines are those that init-openbao.sh enables, with its transit key, which
is not derived and ignores the context; `OthersWrite` is that script, an operator or
another process. No module of the API calls this service yet.

**Migrations.** `db` is the database: the files that were executed, the two tables of
records, the column that two scripts rename, and the lock of the one transaction
that alters a table. A program is a process, killed or failing anywhere
(`Abandon`). The files that migrate.ts lists are not in the repository, only 004
is; the runs take two of them as present, so that its loop has something to do.
`todo` is the places of the files that are left, taken from the first.

**Setup.** `wizard` and `cli` are the two programs, `machine` what they find and
leave: `.env`, dependencies, builds, the container. A child may succeed, fail or
be killed, and `runCommand` resolves `code || 0` of what it is given. db:migrate
starts one of the `Programs` of Migrations. Setup has no property of its own; it is
the environment in which the records of Migrations stay true.

**DIDWeb.** A text is a sequence of characters, some of them percent escapes; the
conversions escape, unescape, split and join them as the code does. `hosts` has
one document for each URL, and two DIDs may have one URL. `Fetch` is the request
with the check of the document's id.

**Signatures.** A signed credential is a record of members in their order;
`StoreCopy` changes the order, `DifferentCopy` a value, `DayPasses` the date. Each
scheme makes its text in its own way: canonical, the members at every level whose
name the top level has, as ordered.

**Circuits.** A commitment stands for the value and the millisecond it was made of,
an HMAC for its key and text. `Verify` takes proof and public inputs that need not
come from one generation, or from any: public inputs of any statement, and the proof
that anyone can compute for them (`Computed`), since the HMAC's key is the public
commitment. The lists of a caller may be reordered in place by the hash of a set.

**Platform.** `page` is what is mounted, `pending` the requests in flight, with the
visit that sent them; `Answer` is any of them being answered, answered in another
shape, refused or not at all, followed by the code after its await. A form counts
what the server has `made` for it, also when the answer is lost or not understood,
and the answers that it told as `failed`. A page is a row of a table: what it loads,
filters, acts on and submits, and which of its calls throw before they are sent.

**Sharing.** A URL is its scheme, host, path and query. `generateQRCode` and
`ShareFromPlatform` make one, `Parse`, `TypeInput` and `FromAddress` read one. An
identifier is any text without a slash; the page's expression takes the longest
beginning of a segment that is of hexadecimal digits and dashes (`HexOf`); the page
/verify is `verify`: its input is disabled while a verification runs, but the address
of the page may change meanwhile.

## 3. Runs

| Run | Question and answer | Bounds |
|---|---|---|
| `Tables_all` | Passports: can a passport link what is not on the ledger or not its owner's, or a creation report success without all its links? DIDManager: can any interleaving, failure or restart give a user two primary DIDs? No. | 2 users, 2 attestations, 2 passports, 2 calls, lists up to 2, failing database and ledger, 1 restart; 2 users, 3 DIDs, 2 concurrent calls of all operations but a signing with a named DID, failing statements, 1 restart, no configured key; 2.19 million states |
| `DIDManager_primary` | Without deletions and failures, does a user keep a primary DID, does setPrimaryDID set what it was given, do calls end? Yes. | 1 user, 3 DIDs, 2 calls, configured key; 24 000 states |
| `DIDManager_SetPrimary` | With deletions too? No: finding 1. | as above |
| `Attestations_all` | Attestations: do ledger, rows and records agree, does a verification accept exactly what was signed, does an anchoring end once the ledger has answered? Credentials: is what is accepted what was issued and signed, by the library and natively? Signatures: does what is accepted fit the text that was signed? Circuits: is a generated proof accepted with its own statement and no other? StatusList: does the array of bits implement a register? DIDWeb: does who resolves get the last published key? Sharing: does a reader take what was put in, none, or no more than the page's expression cuts off? Platform: does every page settle, and does a form whose button stays disabled create only once more than it told failures? Yes. | 2 attestations, 2 verifications, failing database, ledger and signing, 1 restart; 3 keys of 2 digits below 4 in base 3, 2 credentials, lifetimes 0 and 2, a skew of 1, 4 instants; 3 slots in bytes of 2 bits, indices from -2 to 6; 2 hosts, 4 paths, 2 keys, 3 publications; 2 drafts, 2 keys, 1 copy, days 0 to 2; numbers -1 and 2, 4 lists, 2 proofs, 2 milliseconds, computed proofs for all statements about these; 4 identifiers, one of them a UUID, one of no hexadecimal beginning and one whose beginning is another one, bases with and without a path, 2 shared URLs; all 22 pages, 2 visits, 1 change of a filter, 2 creations, 2 failures, 2 requests in flight; 680 000 states |
| `Attestations_ids` | And with the ids the service makes? Finding 2. | no failures |
| `Signatures_claims` | Is what the signer of vc-signer.ts accepts what was signed, with the claims? No: finding 5. | as Attestations_all |
| `Passports_AnchoredPassportVerifies` | Does a passport of anchored attestations verify? No: finding 3. | 1 call, no failures |
| `RateLimiter_faults` | RateLimiter, Tenants, Quotas: are the limits kept up to the number of concurrent requests, and windows and counters started once and kept for their time? Tenants: can a rotation leave a client without a key, other than by losing its last answer, or an aggregate run ahead? Payments: can a subscription be extended for nothing? Yes, no, no. | 2 identifiers, 3 requests, limit 2, failures, 1 restart; 1 organization, 2 keys, 1 administrator, 2 requests, plans of 0 and 1 requests a day, 2 days, 3 records; 1 action, 2 users, 1 use an hour, 12 ticks with 2 to an hour, 4 to a day, 8 to a month; 2 organizations, 2 payments, 2 clerks, dates 0 and 1; 2.42 million states |
| `RateLimiter_WindowsEnd` | Does every window end? No: finding 4. | 1 restart |
| `JobQueue_all` | JobQueue: is work repeated without a failure or stall, a callback lost, a processor left running? Migrations and Setup: can a record be false of the database? Vault: can a failure be taken for an absence, if the address has its /v1? Telemetry: can the figures be a part of the answers? No. | 1 DID job with callback (whose worker closes after that of the callback), 1 attempt, 1 retry by hand, 2 crashes or stops, all routes; 2 processes of the database's programs, 2 listed files and one of its own, 2 commands; 2 callers and whoever else writes, 1 key, 1 organization, both addresses, 1 version of a secret, 2 ends of a token; 3 requests and jobs, 1 ignored and 1 other route, the SDK started at any time or never; 3.96 million states |
| `JobQueue_live` | Do jobs and shutdowns of the queues end? Server: does a signal end the process unless a request waits for a block for ever, and is everything open until then that a request or a job uses? Yes. | 1 issuance job with callback, 2 attempts, 1 crash or stop; 2 requests with 6 inputs, 2 environments, 2 signals, 1 job, failing peers; 276 000 states |
| `ReplayProtection_all` | ReplayProtection: is a PostgreSQL token accepted once, and does every answer fit an atomic test-and-record? ZKProofs: is a proof stored only of what holds, what holds refused only for a known reason, and a passing failure undone? Anchoring: is what was answered on the ledger, and does it verify? Accounts: can whoever was welcomed log in? Templates: does a credential pass its own template, and every input of a batch keep its result, through retries of retries? Yes. | 1 token in PostgreSQL, 1 in memory, 3 calls, 1 restart; comparators of 2 bits in a field of 31, sets of 2, 15 statements (negative, crossing and out of reach among them, with fractions, strings of digits, words and objects), 10 values of five kinds, 2 concurrent verifications; one network of either kind, 2 hashes, 2 anchorers, 1 asker, batches of 1 cut from 2; 2 emails, 2 passwords, 2 ids, 2 sessions; 3 template ids, 1 custom template, 2 claims, batches up to 2, 2 documents; 703 000 states |

Seven of the runs put several parts into one behaviour (`MC_Tables`, `MC_Documents`,
`MC_Limits`, `MC_Proofs`, `MC_Operations`, `MC_Server`). The parts of such a run
share no state: a behaviour is one of one part, which `part` names from the start,
and leaves the others where they began. Their states add up instead of multiplying,
no interleaving is lost that two of them could notice, and every property is checked
over all behaviours of its part. Where a part has several initial states, one of them
stands for it in the behaviours of the others; in those of the passports the DID
manager has no state at all, so that the symmetry of the passports is not broken by
it. `Parts` of MC_Tables is what a run checks.

No run checks a type invariant by itself: it would say less than the properties
do. `DIDTypeOK` and its like are stated in the modules that hold data, and proved
where section 5 needs them.

Several properties are conjunctions of named parts, each with a comment:
`RecordsMatchLedger`, `LimitIsKept`, `QuotasHold`, `AnswersHold`, `VerdictsAreRight`
and `PagesSettle`. Setup has no property of its own, because nothing
it leaves behind is relied on but the database.

Why the bounds are enough. Conflicts in these parts are between two calls over one
user, one row or one key: two calls, three DIDs (a primary one, a target and one
being created) and two users (one of whom must not disturb the other) show each of
them; the race of GET and INCR needs two requests, the third shows that the overshoot
grows with them. A second restart or attempt meets the same state as the first except
in JobQueue, whose counters add up, and which therefore has two ends of the process.
In Tenants the race of counting and recording needs two requests, overlapping
rotations of one key and of its successor two rows; in Quotas time runs past a month,
so that every boundary of an hour and a day falls before and after a use. In
Anchoring a second transaction of an account would be refused or applied as the first
one is: what matters is that two calls load one sequence number. In ZKProofs 2 bits
in a field of 31 leave room for negative numbers that the comparators take for large
ones, as 64 bits in 254 do. Keys of two digits include one of zeros and one that
begins with the prefix, bytes of two bits have all their borders within the list. A
signal while another is being handled is the most a stop can meet, so two are enough;
two programs of the database interfere at every pair of their statements, and a third
waits like the second. Two publications show a URL that two DIDs share, the third the
return of the first DID. The pages of Platform share nothing but the session, and two
visits are a page with its predecessor's answers still in flight. The theorems remove
the bounds for the safety properties they are about. `MaxRestarts`, `MaxDIDRestarts`,
`MaxEnds`, `MaxRetries`, `MaxLinks`, `Attempts`, `LastDay`, `MaxRecords`, `LastTick`,
`LastDate`, `MaxSequence`, `BatchLength`, `MaxDocuments`, `MaxCustom`,
`MaxCredentials`, `LastInstant`, `MaxPublished`, `MaxProofs`, `LastTime`,
`MaxShared`, `MaxVisits`, `MaxFilter`, `MaxMade`, `MaxPending`, `MaxCommands`,
`MaxVersions`, `MaxRenewals`, `MaxServerJobs`, `MaxStalledCount` (BullMQ's, 1) and
`MaxOps` (a provider's batch) are the names of all bounds; `MaxRestarts`, `MaxEnds`,
`MaxRetries` and the bounds on time stop only the environment. The finite sets of
rows and callers bound the rest.

Deadlock is checked in every run except those of JobQueue and `ReplayProtection_all`,
where the end is a legitimate state: all jobs ended and the process down for the last
time, or every call answered. `Tables_all`, `Passports_AnchoredPassportVerifies`,
`RateLimiter_faults` and `ReplayProtection_all`, which check no liveness property,
use symmetry of the model values: in the last two only of rows, callers and hashes
that no constant and no CHOOSE tells apart. In `Tables_all` two of the DIDs have the
names of the passports and the calls of both parts the same, so that every
permutation leaves all constants as they are (`MCTablesAssumption`).

## 4. Fairness

Liveness is checked under the fairness that the scheduling of the code justifies,
and nothing more: no fairness on callers, failures, restarts or on anything that
a person does.

- DIDManager: the statements of a call go on. Fairness is strong because a call
  that waits for a row lock is disabled again and again by other transactions,
  while PostgreSQL queues the waiters of a lock and serves them in order.
- Attestations: the database answers the statements of a background anchoring as long
  as its process lives (`Settling`); weak fairness, since nothing but a restart disables
  one. The ledger need not answer: the provider for Ethereum waits for a block without
  a time limit (optimism-provider.ts:48), so that the call may last for ever and nothing
  is said of what comes before its answer.
  In the sum of MC_Documents, whose other parts are not fair, the same condition is
  stated over the attestations (`MCFairSpec`).
- RateLimiter: Redis answers every command and drops each key whose time has
  come; weak, since only the key's own expiry disables it.
- JobQueue: the process is started again by its supervisor, the event loop
  continues what is active and BullMQ promotes and recovers jobs (weak); a
  waiting job is taken in the end although shutdowns and the concurrency limit
  disable that over and over, because BullMQ serves a queue in order (strong).
  Without administration nobody pauses a queue: `JobQueue_live` excludes it, a
  paused queue may keep its jobs for ever by intent.
- Server: hooks answer, and handlers do, except those of the anchor routes, which
  wait for a block (`AwaitsBlock`): a stop ends unless one of them waits for ever, as
  `StopEnds` says. Jobs end, and an await of a signal handler that can go on does
  (weak: nothing disables them while the process lives). No fairness on clients, on
  the start, or on a second signal: that a stop ends must not depend on them. In the
  sum with JobQueue each part has its own condition.

## 5. What is proved

Every safety property that a passing run checks, invariant or action property, is
also the statement of a theorem, which TLAPS checks for any sets of users, DIDs,
calls, tokens, documents or jobs and any bounds. The theorems assume nothing except
what the modules assume of their constants (`DIDManagerAssumption` and its like),
which TLC evaluates on the constants of the runs, and what their statements name:
`EmailIsUnique`, `IdsAreUuids`, and for the two theorems about keeping and setting a
primary DID that nobody deletes, or that nothing fails, as in the run that checks
them. Besides bounds and placeholders the assumptions say: the bytes of a key are
below `Byte` and all keys have one length (32), a name occurs once in a JSON object,
a value or a bound is of one of the kinds of JSON, a schema knows what it requires,
and neither an identifier nor a segment of a base URL is `verify`, `credentials`,
`.well-known` or `null`, the words by which the readers of a URL find the identifier
or none. Identifiers may have any other form.

- **Foundations.** What proofs about data rest on. A set of naturals that is not
  empty has a least member (`LeastNat`), whence induction over numbers (`NatInd`) and
  over the subsets of a finite set (`FiniteInd`), stated about sets, since a theorem
  with an operator as a parameter cannot be used here; a function on an interval
  exists that follows a given step (`Recursion`, `RecursionFrom`); quotients and
  rests; and a finite set in the order of a total order is one sequence that has each
  member once (`Enumerates`, `OneOrder`).
- **DIDManagerProofs.** `DIDTypeOK /\ OnePrimary /\ TxnDiscipline` is inductive.
  OnePrimary alone is not: setPrimaryDID commits its target as primary three
  statements after it has found the others, and only because it still holds the lock
  of every row that is primary (the last part of TxnDiscipline) does the commit keep
  the other flags away. `AtMostOnePrimary`, `LocksDisciplined` and `TypeCorrect`.
  Without deletions a row, once there, stays its owner's, so that what a transaction
  has read and locked is still there when it commits (`TargetsLocked`):
  `SetPrimaryIsEffective`. `PrimaryIsKept` needs to know what is still to come: a
  user with DIDs and no primary one has a call whose INSERT is next
  (`PrimaryToCome`), and the row of an INSERT is nobody else's (`DrawsAreNew`), so
  that only a primary DID of the user can refuse it.
- **PassportsProofs.** *Attestations*: the invariant adds `AnchorOrder` (what the
  worker's place says of the row, the ledger and the records) and `ReadWasTrue` (what
  a verification has read is still so: a transaction, once named by a row, stays on
  the ledger, and the stored token is never changed). `TxOnLedger`,
  `RecordedAnchored`, together `RecordsMatch`, and `VerificationsAccept`, both ways:
  what was stored without a signature is never accepted, and what was signed is
  rejected only when the ledger fails to answer. It assumes IdsAreUuids, as finding 2
  makes necessary. *Passports*: the calls rely on what they have checked staying true
  while anchorings go on: owner and transaction of a checked attestation never
  change, although its status may. `LinkedOnLedger`, `CreatedComplete`, from the
  invariant of Attestations, whose lemma about a step is used for the composed steps.
- **LimitsProofs.** *RateLimiter*: BoundedOvershoot counts requests and needs the
  lemmas about cardinalities: arriving at INCR turns an increment that is possible
  into one that is pending, INCR turns it into one that is counted.
  `OvershootBounded`, `OneStartPerWindow`, together `LimitKept`. *Tenants*: the
  invariant has three parts for the three groups of variables. `KeyInv` says what a
  rotation has read and inserted stays so: rows keep their organization, environment
  and expiry for ever, so that `RotatedReplaced` holds although another rotation or a
  deletion comes in between. It says what the code can keep: the answer may be lost
  after the last statement has committed, and the new key, which is then in `lost`,
  is of no use to anyone. `MeterInv` says that the limit a request carries is one of
  a plan whose bound holds, and `DailyLimitBound` counts the admitted requests on top
  of the records. `AggregatesNeverAhead` counts the requests whose record is there
  and whose aggregation is not over, and for the credits adds up what they may still
  add, kind by kind (`AggregatesCovered`). *Quotas*: a counter of the current period
  was last used in that period (`CounterDated`), hence less than its length ago, and
  the key of each of the three lives longer than that (`TTLCovers`):
  `CountersAreExact`, and `QuotasBound` by counting, together `QuotasAreKept`.
  *Payments*: a call that is about to extend has its payment in the table
  (`EntriesPaid`): `EndsArePaid`; rows are never removed: `ReportsGrow`.
- **OperationsProofs.** *JobQueue*: `WorkIsCounted` from `Balanced` (how `done`,
  attempts and stalls relate at each step of a processor); `CompletedHaveCalledBack`
  from `OwnCallbacks`, `CallbacksAhead` and `CallbacksQueued` (a job's callbacks are
  named by its runs, those ahead of it do not exist yet, the one it has passed is in
  the queue); `ShutdownWaits`. *Server*: each signal handler is behind what it has
  waited for (`StopOrder`), and requests end before the server has closed, jobs
  before the queues are shut, queries before the pool (`ClosingOrder`), also when a
  second handler has overtaken the first: `UseIsOutlived`. *Telemetry*: a request
  with a start time is counted by the step that answers it (`CountsAreTrue`), which
  is also the one that ends its span (`WorkSound`), with instruments that are all
  live or all not, from the first use on: `FiguresTrue`, over the cardinality of the
  answered. *Vault*: with /v1 in the address, what an answer on its way says was so
  when it was given (`AnswerTrue`), whoever else writes to the store:
  `AbsencesAreTrue`. *Migrations*: a file that is not left to do is recorded, and the
  next one, before its record, executed (`TodoSound`), which no other program undoes:
  `RecordsTrue`, for any list of files.
- **VerificationProofs.** *ReplayProtection*: `AcceptedOnceByPostgres` adds
  `AcceptedStays` (the token of an accepted call stays recorded); `Refinement` shows
  the initial state and every step to be a step or a stutter of OneUse. *Accounts*,
  assuming EmailIsUnique: no two rows have one email and a login has found the row of
  its email (`RowsSound`): `WelcomedLogIn`. *ZKProofs*: a quiet verification that
  read "not verified" will write, and one that read "verified" still finds it so,
  because no failed one has come in between: `RecoveryCompletes`. `GenerationExact`
  follows the values through JavaScript's comparison, BigInt and the field: two
  integers less than 2^Bits apart are compared as they are although both are taken as
  rests (`ComparatorIsExact`), a false order is taken for a true one only beyond
  Field - 2^Bits (`ComparatorIsSound`), and the comparison before the circuit keeps a
  proof of those from being made, unless both sides are strings and it goes by their
  characters (`Compared`). *Anchoring*: a transaction in flight was built of the
  hashes it will be answered with and names its own hash, and chains only grow:
  `AnsweredOnLedger`, `AnswersTrue`, `AnchoredVerifies`, together
  `AnswersAlwaysHold`. *Templates*: what a schema has parsed it parses again
  (`WhatIsMadeValidates`); each result has the index and the verdict of its input
  among those asked last, and the failed ones keep their order in the recursion that
  filters them, so that a retry that is given these inputs takes the right ones, also
  among the results of a retry (`EachInputIsAnswered`).
- **DocumentsProofs.** *StatusList*: every slot has a byte and a bit
  (`SlotHasItsBit`), different slots differ in one of them (`BitsAreApart`), hence
  `SetAndGet`, hence `ListIsRegister`, the refinement; `StatisticsCount` from the
  bijection of slots and bits. *DIDWeb*: what lies on a host is what was published
  last for the DID it names (`HostsCurrent`), so that the document of another DID at
  the same URL is refused by its id and a replaced one cannot come back:
  `ResolvedArePublished`. *Sharing*: for each format and each generator, what the
  readers find in the URL (`PlatformReading` and its like), whatever the base and the
  identifier, and that a URL which was handed over keeps the identifier it was made
  with: `ReadersTakeTheirPart`, which allows the platform's page the hexadecimal
  beginning of an identifier that is not wholly so. *Platform*: of the table of pages
  it is used only that what a page offers is neither a load nor a submission, that no
  two acts of it have one name, and that a form offers none (`PagesAreGood`). Then a
  request of this visit is of this page (`RequestsSound`), a page that is busy has
  one that will end it (`BusyWithReason`), and a form has one submission in flight at
  most and has made no more than it has told of failures and, once it is done, one
  (`FormsOnce`): `PagesAlwaysSettle`, for any number of visits and of requests in any
  order.
- **CredentialsProofs.** *Credentials*: the digits of a number write it and the
  number that digits write has these digits (`DigitsWriteTheNumber`,
  `NumberHasTheDigits`), in any base, so that Base58 is read back (`RoundTrip`) and a
  did:key says which key it is (`DIDSaysTheKey`). What arrives carries the signature
  of something issued, and it fits the payload only if it is the issuer's
  (`FittingIsTheIssuers`): `EveryVerdictIsRight`, both ways. *Signatures*: what a
  store makes of a document is the same object in another order, and two objects have
  one canonical text exactly when they have the same content, because a set has one
  sorted sequence; with the other two texts it is what they hold that is kept:
  `SignedIsWhatIsAccepted`. *Circuits*: the commitment and the HMAC's text tie a
  generated proof to its statement, among public inputs and proofs that anyone has
  computed; lists of the same items are hashed in one order:
  `GeneratedProofsKeepTheirStatement`.

Only model-checked, and why: the liveness properties (`CallsEnd`, `AnchoringEnds`,
`JobsFinish`, `ShutdownEnds`, `StopEnds`), because the prover reaches neither fairness nor
ENABLED. The type invariants of Anchoring, Credentials, Templates, Sharing, Platform,
Signatures and Circuits are not stated as theorems of their own: their inductive
invariants say more. Setup has no property.

What the proofs found in the models. A retry was said to fail again as long as the
registry holds the built-in templates; it may hold them again, or others, after a
template was added and replaced, and what counts is that none has been added
(`EachInputHasItsResult`). Lists of the same items were said to have one hash as soon
as one of them repeats none; the other must not either (`ProofsKeepTheirStatement`).
Both held within the bounds of the runs. Signatures and Circuits now sort with the
operator of Ordering, and Credentials names the functions behind its recursions,
since nothing can be proved about a CHOOSE over permutations or a fold.

## 6. Findings and observations

Each finding is a run whose counterexample is the code's behaviour:

1. `DIDManager_SetPrimary`: setPrimaryDID reads its target without locking it
   (did-manager.ts:190) and does not look at how many rows its UPDATE changed
   (:206). When deleteDID removes the target in between, the transaction takes
   the flag of the old primary, gives it to nobody, commits and returns.
2. `Attestations_ids`: the ids made by createAttestation
   (attestations/service.ts:106) are refused by the parameter schema of the
   verification route (routes.ts:149), so that the verifyUrl of a QR code leads
   to a validation error.
3. `Passports_AnchoredPassportVerifies`: verifyProductPassport looks for a `proof`
   member (passports/service.ts:280) in a credential stored as a JWT string
   (attestations/service.ts:133); no passport with attestations is ever valid.
4. `RateLimiter_WindowsEnd`: a process that dies between INCR and PEXPIRE
   (rate-limit.ts:80) leaves a counter without expiry; only the request that sees
   1 sets one, so that the identifier stays refused after reaching the limit.
5. `Signatures_claims`: vc-signer.ts signs and verifies (:79, :148) the text that
   JSON.stringify makes with the names of the top level as a replacer array, which
   drops every other member at every level. The claims of the subject are not in
   the text: a credential in which they were changed is accepted, although the file
   calls its text canonical (:73) and its signatures proper ones (:4).

Seen in the models, with no run of their own:

- Two first signings of a user both find no primary DID and both create one; the
  index refuses the second INSERT or its UPDATE demotes the first
  (did-manager.ts:115).
- Without `DID_ENCRYPTION_KEY`, keys stored before a restart cannot be decrypted
  after it (did-manager.ts:30); a decryption with another key is modelled as
  failing.
- An anchoring whose INSERT into `blockchain_transactions` fails reverts the row
  to pending although the transaction is on the ledger (attestations/service.ts:187);
  the row keeps its hash, so that a verification still accepts it. When only the
  answer of that INSERT is lost, the transaction is recorded as confirmed and the
  row is pending: `RecordedIsAnchored` is what holds.
- An attestation or passport whose INSERT is done with its answer lost is in the
  table although its caller was refused; nobody anchors or links it
  (attestations/service.ts:120, passports/service.ts:67).
- A passport without links verifies, `every` of an empty list being true
  (passports/service.ts:299); a list that names an attestation twice is refused
  (:27).
- The documented limit of a rate limiter is exceeded by requests that read the
  counter together (rate-limit.ts:58): `BoundedOvershoot` is what holds. The TTL
  in a refusal is negative when the key has expired or has no expiry (:63).
- A credential is issued again when queueing its callback fails
  (vc-issuance.processor.ts:54, :73): `WorkPerAttempt` is what holds.
- The in-memory replay store forgets everything on a restart
  (replay-protection.ts:143), which `OneUse` allows and `AcceptedOnce` therefore
  does not claim for it. Nothing else in the repository calls these functions.
- trackUsage and authenticateAPIKey are hooks of an instance without routes
  (app.ts:286, main.ts:279): no request leaves a record and no daily limit is
  reached. Tenants models them as they are meant to be used.
- The lookup of a key takes one row by a prefix that all live keys share
  (api-key-auth.ts:51): with two live keys a valid one may be compared with the
  other's hash and refused. A rotation of a key that is deactivated meanwhile
  makes an active one (api-keys/service.ts:229).
- No token made by auth/service.ts carries a role, so that requireAdmin refuses
  them all; tokens are signed without `expiresIn` and the configured lifetime
  (env.ts:50) is not used.
- Nothing calls recordUsage (quota.service.ts:52), and monthly limits are
  compared with the count of the period the caller names, an hour by default
  (:39).
- The later statement decides the end of a subscription, not the later date, and
  a payment that is rejected afterwards still counts (payments/service.ts:84):
  `EndIsPaidFor` is what holds.
- Two anchorings that load one sequence number: one is refused and nothing
  retries it (stellar-provider.ts:37). A batch of more than 100 hashes is cut
  (:74), a batch of Stellar has no memo and never verifies (:153), and Memo.hash is
  given 16 bytes where Stellar has 32 (:49). Waiting for an
  Ethereum transaction has no timeout (optimism-provider.ts:48, :78): an anchoring in
  the background, a request to /blockchain/anchor or /batch, and with it a stop of the
  process, may wait for ever (main.ts:306). A default network that is not among
  the configured ones is ignored (blockchain/service.ts:53).
- The private value of a proof comes from the caller and is not compared with the
  attestation (zkp/routes.ts:25). It may be of any type (:15): a fraction for which
  the statement holds is refused because BigInt throws (snark-proofs.ts:84), and of
  two strings the characters are compared (:75), so that "10" is below "9" and a
  proof is refused, or made when the circuit's own comparison wraps around. Sets are
  padded with the element 0 (snark-proofs.ts:250), which is also the number 0: only
  the comparison before the circuit keeps a proof of 0 from being made for any short
  set.
- A negative index is neither refused nor written: the call succeeds and revokes
  nothing (status-list.ts:56). No verification looks at credentialStatus.
- After any error of the library a credential is issued without a signature and
  without an expiry (vc-issuer.ts:103), which no verification accepts:
  createAttestation stores and anchors it all the same (attestations/service.ts:120);
  an expiry of zero counts as none. A text of zeros decodes to one byte too many
  (did-resolver.ts:225), which the prefix of a key rules out; the two resolvers of
  did:web differ in decoding `%3A`.
- A template that requires an `id` refuses what was made from it
  (vc-integration.ts:240); results of a retry are numbered anew, so that a second
  retry of them, with the original inputs that its comment asks for
  (batch-creation.ts:226), takes other inputs (:239); createSequentialBatch is
  documented to return partial results (:125) and throws with them (:166).

- Two signals: each handler closes the server, the queues and the pool; the second
  pool.end() rejects, and the process ends with code 1 after an orderly stop
  (main.ts:308). Nothing in progress is lost by it.
- Of the files that migrate.ts lists none is in the repository, and 004, which is,
  it does not list; it and the scripts keep different tables of records
  (`migrations`, `schema_migrations`). fix-role-column.js renames any column `role` of
  users, after 004 that of the platform. The command line takes a killed child for
  a successful one (`code || 0`, cli/proofpass.ts:172) and reports success whatever
  the code was, except where it starts the container.
- Two DIDs of the web can have one URL, as a slash in a segment is encoded in the DID
  and decoded in the URL (did-web.ts:75). createDIDDocument writes a Base58 key
  without the prefix that extractEd25519PublicKey requires (did-resolver.ts:252).
- The HMAC of vc-generator.ts depends on the order of the members: a credential that a
  store has reordered is refused. `AcceptedFitsItsText` says for each signer what holds.
- The HMAC of circuits.ts is keyed by the public commitment (circuits.ts:72): anyone
  can compute a proof of any statement, and it is accepted. `ProofsKeepTheirStatement` is
  what holds of the proofs that a generator made.
- The new key of a rotation is told once, after the old one is off
  (api-keys/service.ts:245): if that answer is lost, the client is left with a key that
  is off and one that nobody knows. `RotatedHasReplacement` excludes every other failure.
- passports.ts, attestations.ts and verification.ts of the platform import a named
  export that api-client.ts does not have: each of their calls throws, and /verify
  calls everything invalid. Other services take `data` out of what the interceptor
  has already taken it from; the administrator's call /admin where the API has
  /api/v1/admin. The answer to a login names no role, so that the middleware sends
  everyone away from the administrator's pages; /analytics is not among those it
  watches.
- A change of a filter does not cancel the load before it, whose answer may come last
  and stay. The forms for a new credential and a new proof enable their button again
  after a success, before the page has gone: a second click creates a second one. A
  creation whose answer is lost after 30 seconds, or unwrapped to undefined
  (organizations.ts:28), is told as a failure, and submitting again creates another
  (new/page.tsx:36): `CreatedOnce` counts what was told. The answer to a deletion
  navigates away from whatever page is shown by then.
- extractCredentialId takes of a segment the longest beginning of hexadecimal digits and
  dashes (verification.ts:97): of the toolkit's own example `credential-123`
  (qr-toolkit/src/index.ts:81) it reads `c`, and of the service's ids, `urn:uuid:...`,
  nothing. It looks for `verify` in the path of a deep link
  (verification.ts:102), where the URL standard has it as the host, so that only
  browsers before the standard recognise the format; a path in the base URL is lost
  when a URL is parsed; on /verify an older answer may replace a newer one.
- The OpenBao client asks for health and renewal under /v1 and for everything else
  without it (openbao.service.ts:67, :258). With the address of docs/guides/OPENBAO.md:97,
  which has no /v1, the server answers 404 to every path of a secret, and a key that is
  there is reported absent; with /v1 healthCheck is always false and renewToken always
  throws.
  A list still names keys that were deleted, until their metadata is.
- A request that ends while the SDK is down leaves no span; counters made while it was
  up go on, those first used before it started count nothing for good (metrics.ts:40-47,
  :129). A request that an earlier hook has refused is not counted (middleware.ts:87).
  main.ts and app.ts register neither initializeTelemetry nor telemetryPlugin.
- Nothing exports circuits.ts any more.

## 7. What is not modelled, and why

- Cryptography: a signature is who signed what, a hash matches what it was made
  of, a zero-knowledge proof convinces when its circuit has a solution.
- The client library of packages/client, the website, demonstrations, recordings
  and examples: they hold no state of the service and make calls that the models
  already allow in any order. With them the layout of the platform's pages, of which
  only loading, acting and navigating are in Platform.
- Types and schemas: a schema is the fields it requires and knows; generators of
  credential documents and QR images are conversions without control.
- Contents of credentials, key bytes, usage counters of DIDs, amounts of money,
  response headers, wording of errors and metrics, the SQL of migration files: no
  other state depends on them.
- The queue vc-verification is like vc-issuance and closed after it, the emails
  processor is a placeholder; job priorities, the workers' rate limit and the
  expiry of finished jobs are left out; progress updates are not awaited and a
  crash covers their loss.
- What schema files 001-003 create, since they are not in the repository; unique
  constraints beyond those of migration 004 are taken from the code that relies on
  them.
- The second process of a deployment: the code keeps state per process and the
  repository starts one.
- Attestations keeps a ledger of its own, which accepts, fails or loses its
  answer, and does not compose with Anchoring: what Anchoring adds, the sequence
  numbers of an account, reaches it as a failure.

## 8. Plan

Done: the DID manager, the attestation service, the passports composed with it,
the rate limiter, the job queue, replay protection with its abstract
specification; API keys, quotas and payments; the blockchain manager and its
providers; zero-knowledge proofs; user accounts; the status list with its
abstract specification; credentials, templates and batches; the process with its
requests and stops, telemetry, the secret store, migrations and the set-up tools;
did:web, the signers of JSON credentials, the circuits without SNARKs; the pages of
the platform and the URLs that it shares.

Left, in this order:

1. Attestations over Anchoring in place of its own ledger, shown to implement
   what Attestations assumes of one.
2. An abstract register of a user's primary DID, shown to be implemented by
   DIDManager without deletions, and the composition of DIDManager with
   Attestations.
3. One abstract counter of a window that RateLimiter, Tenants and Quotas refine
   up to their overshoot, and one lemma for the three bounds.
4. Liveness of anchorings from their submission on, and of every stop, once the
   provider for Ethereum has a timeout: today a call may wait for ever.
5. The queue vc-verification and priorities in JobQueue.
6. Server over JobQueue in place of its own count of jobs.
