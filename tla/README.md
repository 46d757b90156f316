# A TLA+ verification of Mintra

Mintra turns an identity check at a KYC provider into a credential for a Mina
wallet, and lets a site ask the wallet to prove facts about it. This directory
holds TLA+ models of its protocols (`services/api`, `services/verifier`, the
packages under them, and the two contracts with their scripts), the TLC
configurations that check them, and TLAPS proofs of what matters most.
Everything is translated from the source of the repository; file and lines of
each definition are in `PROJECT.json` ("map").

## 1. The system

```
 provider (Didit, ID Norm)            wallet + browser               site (relying party)
    |  webhooks, at least once           |  sign-in, start, issue,       |  request, presentation,
    v                                    v  prove                        v  zk policy and proof
 services/api  -- InMemoryStore, WalletAuthStore      services/verifier -- challenge store, passkey store
    |  state file (rename)                               |  memory, or Redis shared by replicas
    v                                                    v
  verification-state.json                             packages/verifier-core: verifyPresentation
                                                         |  trust resolved once, at startup
 operators: deploy, publish, revoke, update              v
    |  attestation state file -----------------> packages/zk-age-gate-contract: registry and age gate (Mina)
```

| Component | State it keeps | Operations | What makes it correct |
|---|---|---|---|
| Presentation challenges (`services/verifier/src/challenges`) | issued and consumed records, in maps or in Redis keys with TTLs | issue, get, updatePasskeyAuthentication, consume; validateForPresentation over them | a challenge is granted to one presentation at most, in time; the loser of a race is told the truth; every call is answered |
| Passkey bindings (`services/verifier/src/passkeys`) | pending registrations; bindings by id and a pointer per wallet; signature counters | begin/finish registration, look up, update counter | a registration is taken in time; a pointer always leads to a binding; the counter falls back only where assertions overlap |
| Verification pipeline (`services/verifier/src/app.ts`, `packages/verifier-core`) | none of its own | presentation-request, verify-presentation, verifyPresentationWithRegistry, zk/policy-request, zk/verify-proof | the challenge is spent before the proof is judged; who is verified meets the policy at that moment, and who is refused is refused for a reason |
| Trust resolution (`services/verifier/src/trust.ts`) | the context taken at startup | resolveVerifierTrustContext | what is trusted as the registry's was anchored there, for the programs compiled; a verifier told to use a registry it can look up trusts nothing else |
| Verification and claims store (`services/api/src/store.ts`) | verifications, claims per user, dedupe keys; the state file | create, update status, upsert, get, mark; hydrate, persist | a dedupe key never outruns the claims it suppresses; what is idle is durable; maps stay in their capacities |
| Verification and webhook routes (`routes/verifications.ts`, `routes/webhooks.ts`) | handlers in flight | start, webhook, status | claims come from an approval of their own user; an approval ends in claims |
| Credential issuance and demo issuer (`routes/mina.ts`, `routes/demo.ts`) | none; signed bundles live in browsers | issue-credential, zk-input, zk-proof, issue-claims | a credential tells the ages of its day and nothing of an older record; proof material is of its wallet |
| Wallet sign-in (`services/api/src/auth.ts`, `routes/auth.ts`) | sign-in challenges and sessions, bounded maps | challenge, verify, logout; the onRequest hook | one attempt per challenge; calls are routed with live sessions only; a full map gives up its oldest entries only |
| Claim state (`claim-state.ts`, `routes/claims.ts`) | none | freshness, age | boundary days; an age once reached stays reached |
| Providers (`packages/provider-*`) | none | parseWebhook, mapVerificationStatus, materializeClaims | commitments are to what was verified, with salts that can be rebuilt |
| Credential v2, registry trees (`packages/credential-v2`) | Merkle trees | build, prove, verify, attest | a proof that fits the roots speaks of a commitment that is active under them |
| Registry contract and scripts (`packages/zk-age-gate-contract`) | on-chain roots and anchors, the operators' state file | deploy, publish, revoke, update | file and account follow the operators' wishes, through failing runs and late transactions |
| Age gate contract (same package) | keys and policy on the account | initialize, updatePolicy, four ways to pass | the proofs of a passage hold against the policy at inclusion, as far as its method reads it |
| ZK claims (`packages/zk-claims`) | none | circuits for age, KYC, country | the circuits say what the API's claims say |
| Mina bridge (`packages/mina-bridge`) | none | claims to credential data | a credential says what the claims say |
| SDK, demo application, key scripts, examples | client-side only | | mostly not part of what the services promise |

How they interact: the API's routes call the store synchronously and the
store flushes itself to the state file behind their backs; the provider learns a
session id before the API has recorded it; the verifier's handlers await the
challenge store, the passkey store and the proof check in turn, and any other
request, replica, expiry or restart may act at each await; the operators'
scripts write their file first and send the transaction afterwards; contract
methods run on the account of one moment and are included at another.

Hard behaviours, and therefore what the models are about: steps of concurrent
requests between two awaits; the shared Redis connection, on which WATCH and
EXEC of different requests meet; key TTLs in whole seconds against records in
milliseconds; clocks read several times in one handler; duplicated, reordered,
refused and repeated webhooks; failing and retried writes of the state file;
crashes between an answer and the write that should outlive it; full maps; ages,
claims, credentials, requests and verdicts of different instants meeting in one
check; secrets that change under commitments already made; scripts that die
between file and chain; transactions included late, in another order, or never;
odd levels of Merkle trees; unsigned subtraction; padded lists.
`PROJECT.json` ("hazards") lists each at its line with the properties that
would see it go wrong, or why none does.

## 2. The modules

| Module | Models | Built on |
|---|---|---|
| `ChallengeRegister` | the abstract promise of a challenge store: fresh, open, spent or lapsed; granted at most once while open | |
| `ChallengeRules` | records, envelopes and the decisions of validateForPresentation | |
| `MemoryVerifier` | one verifier process over the memory store | `ChallengeRules`, refines `ChallengeRegister` |
| `RedisVerifier` | verifier processes over Redis | `ChallengeRules`, refines `ChallengeRegister` where connections are isolated |
| `Passkeys` | registration, lookup and counters over either passkey store | |
| `VerificationStore` | the maps of InMemoryStore and the chain of flushes | |
| `VerificationApi` | start, webhook, demo, issuance and reading routes, the provider, crashes | `VerificationStore` |
| `WalletAuth` | sign-in, sessions, the hook and the fresh-wallet check | |
| `PresentationPolicy` | proof products, policy overrides, the assertions of a request (operators) | |
| `Presentations` | claims record, credential, request, proof and verdict of a holder over time | `PresentationPolicy` |
| `MerkleProofs` | the trees of credential-v2 (operators) | |
| `RegistryReaders` | attestation states and their roots, claim proofs, the registry checks of verifyPresentationWithRegistry, trust resolution (operators) | `MerkleProofs` |
| `RegistryLedger` | the abstract promise of the registry: an account that moves forward along the operators' wishes | |
| `AttestationRegistry` | the operators' scripts over state file and account, the holder and the verifier that read them | `RegistryReaders`, refines `RegistryLedger` while scripts do not overlap |
| `ZkClaims` | the three circuits, commitments, public inputs and the calendar (operators) | |
| `ZkProofs` | from an approved report over salts, records and bundles to a proof and its judgement | `ZkClaims` |
| `AgeGate` | the gate account and the transactions sent to it | `ZkProofs` |
| `*_proofs` | the theorems about the module they are named after | that module, TLAPS |
| `MC*` | constants of the TLC runs | one module each |

### Conventions

*Actions.* JavaScript runs from one await to the next without interruption, so
an action is the code between two awaits. The store methods of the memory stores
are `async` but run synchronously inside the action that calls them; a Redis
command, a write of a file or the sending of a transaction is an action of its
own. A handler's local variables live in a record (`req[r]`, `opt[u]`,
`hook[d]`, `finish[f]`, `asn[a]`, `run[o]`) whose `pc` names the await it stands at.

*Time.* `clock` is `Date.now()`, advanced by `Tick` and, where one handler reads the
time twice in a row, by the handler itself (`later`). Expiry is taken as the code
takes it, at the instant `expiresAt = now`. With Redis, `Second` instants make a
second, because TTLs are whole seconds, rounded up. `ZkProofs` counts days, each
a date of the calendar.

*Histories.* `granted`, `taken`, `overlap`, `storedAt`, `tried`, `revoked`
(of `WalletAuth`), `approved`, `passed`, `log`, `overlapped`, `anchored`, the
`delay` of a challenge or a registration handed out, the fields `of` of a credential, `saltedWith` of a record and `fresh` of a bundle
record what happened. No guard reads them; the position a run of a script got in
`log` goes along with its transaction as `version`, for the properties. `since`
(of `RedisVerifier`) is no history: it bounds when the process computed what a
command carries.

*Data.* Ids are model values, or positions in the order of their making, and fresh
when issued (UUIDs). A presentation says what differs from the issued request
("nonce", "request") instead of carrying both. Hashes (SHA-256, Poseidon, HMAC)
are injective constructors; where two encodings of one number are compared the
encoding is part of the value (`Hex`/`Decimal`, `FieldToHex`/`FieldToDecimal`).

*Bugs kept on purpose.* A definition named `X_Y` is `X` with a plausible bug `Y`
(a dropped guard, an off-by-one, a missing reset). No action uses one. Put in
place of `X` it makes TLC refute the property `PROJECT.json` ("mutants") names for
it: evidence that each property can fail.

*Types.* Each module has one `TypeOK`. Capacities and consistency that the code
maintains rather than declares (map limits, the status of each published
commitment) are part of it. Where it is proved and would be the only such
property of a run, the run leaves it to the proof (`MemoryVerifier`,
`RedisVerifier`, `Presentations`, `AgeGate`).

### Correspondence with the code

`MemoryVerifier`: `issued` and `consumed` are the two maps of
`MemoryPresentationChallengeStore`; `Evict` is evictExpired, `Consume` and
`Attach` are consume and updatePasskeyAuthentication. `ReadChallenge` is
verify-presentation up to the await of `store.get`, `ValidateAndConsume` the rest of
validateForPresentation, `VerifyProof` verifyPresentation: the challenge is gone
whatever it answers. `BeginOptions`/`FinishOptions` are assertion/options on
either side of buildAuthenticationRequest, whose handler ignores whether
setPasskeyAuthentication found the record. `Restart` empties both maps.

`RedisVerifier`: `active` and `tombs` are the two keys of a challenge with their
expiry. `watched` and `dirty` are what Redis keeps per CONNECTION: `factory.ts`
opens one per process. A `deployment`, chosen once, says which requests share a
connection (`connOf`), whose passkey updates may run (`updaters`) and whether
connections drop (`reconnects`). `Watch`, `Mget`, `Unwatch`,
`ExecConsume`/`ExecAborted` and `Fallback` are the loop of consume();
`StoreGet`, `StoreGetConsumed` and `SetActive` are updatePasskeyAuthentication.
`Reconnect` is ioredis reopening a connection, `Crash` the end of a process.
A process computes a TTL and then sends the command; the key lives from when Redis runs
it. So `IssueChallenge` is Redis running the SET of issue() `delay` instants
after the process read the clock (until it is answered no client knows the id, so
nothing else can happen to the challenge), and the TTLs of `SetActive`
and `ExecConsume` are computed at some `sent` between the answer to the handler's
last command (`since`) and now. `PasskeyPolicies` says whether what a site asks for
includes a passkey.

`Passkeys`: `TakePending` and `DeletePending` are consumePendingRegistration (one
step in memory, GET and DEL in Redis), `StoreBinding` is upsertBinding,
`AnswerRegistration` the origin check of register/verify that follows it,
`LookUpWallet`/`LookUpBinding` getBindingForWallet, `ReadBinding`,
`AcceptAssertion`, `UpdateGet`, `UpdateSet` verifyPasskeyBinding with
updateBindingCounter. `device` is the authenticator. `kind` is the choice the
factory makes at startup. In Redis `BeginRegistration` is the SET of a registration whose
TTL was computed `delay` instants before.

`VerificationStore`: `flushes`, `writing`, `attempt` are the promise chain of
schedulePersist: a job takes its snapshot after its first await, a failed job is
run once more by `.catch`, and a second failure rejects the chain; with a job
behind it that job starts in its `.catch`, with none Node ends the process
(`FlushFailureEndsProcess` of `VerificationApi`). `Reload` is hydrate, which drops
expired claims. `VerificationApi` has the handlers of start and webhook between their awaits, a
provider that posts any status, in any order, several at a time, and again
until it gets a 200, and the routes that read claims (`IssueCredential`,
`GetClaimsOf`, `GetProofInput`, `GetStatus`), each of which may delete an
expired record and so owe a flush.

`WalletAuth`: ids and tokens are fresh, so a key of a map is the position of its
record in `issued` or `opened`, the sequences of everything ever created; the maps
`challenges` and `sessions` are sets of positions, and the insertion order
evictOverflow goes by is the order of the numbers. The records themselves never
change. `OnRequest` is the hook, which looks the session up twice, and
`RequireFreshWalletAuth` the handler that later trusts what the hook found.

`Presentations` follows one holder. `person` says from which instant on the holder
is 18 and 21 and in which country; `claims` is the record of upsertClaims, which
each of `ApproveDidit`, `ApproveIdNorm` and `IssueDemoClaims` replaces as a whole.
`IssueCredential` is issue-credential with buildNormalizedClaims and
claimsToCredentialData, `RefuseCredential` the getClaims that deletes an expired
record. `ResolvePolicy` is resolveProofProductPolicy, where only an absent
override takes the default, and `Satisfies` the assertions buildPresentationRequest
puts into the circuit: they are fixed when the request is made, countries are
numbers and an unknown code is the number 0. `Prove` is the wallet, whose proof exists
only for a credential that satisfies them. `Checks` lists the refusals of the
handler and of verifyPresentation in their order. The client is
taken to build the envelope with createPresentationEnvelope from the request it was
given, so that request and challenge agree; what the wallet signs and what the
client attaches (derivedClaims and credentialTrust of the proof's credential, or
neither) is a choice, and so are the options of the relying party. Audience,
replay and the other answers of validateForPresentation are in `ChallengeRules`,
passkeys in `Passkeys`. A day is one instant, and an age is reached at an instant:
the calendar of hasReachedAge is in `ZkClaims`. A behaviour ends with its first
verdict (`Ongoing`); before it, records, credentials and requests may be replaced
as often as the clock leaves time for.

`RegistryReaders`: a state is what the state file holds after
normalizeRegistryAttestationState: the published commitments (`listed`) and the
status of each (`cleared`, `revoked`). `CredentialRoot` and `RevocationRoot` are
built from the sorted lists by `MerkleProofs`, whose `Levels`, `Siblings` and
`VerifyMerkleProof` are buildMerkleTree, createMerkleProof and verifyMerkleProof.
`RegistryClaimChecks` are the refusals of verifyPresentationWithRegistry in order.
`ResolveTrust` is resolveVerifierTrustContext; "failed" is the error that keeps
the service from starting.

`AttestationRegistry`: a run of a script is `ReadState` (up to the await of
readFile; a file that does not parse ends it), `Truncate` and `WriteState` (writeFile
empties the file before it writes; what another script has written meanwhile may
stick out behind), `SendUpdate` and `FinishWait`. `UpdateRegistry` takes its roots from the
environment, `DeployRegistry` and `SendInitialize` are the two transactions of
deploy:registry. `FailScript` is any failing await or the death of the process
between two steps: nothing is undone. `Include` is the network: it checks the preconditions
at that moment, and a transaction overtaken by a later one of its fee payer has lost its
nonce. `TakeProof` is a holder, `StartVerifier` a verifier service that reads the
account once.

`ZkProofs`: `MaterializeClaims` is what a provider's materializeClaims puts into the
record, `DeriveZkSalt` its HMAC under the webhook secret,
`BuildZkProofInputPayload` the route that derives the salts again under the secret
of the day; `Restart` changes a secret or takes a provider away. `ProveFromBundle`
and `ProveFromRecord` are the two forms of POST zk-proof, `ProveInBrowser` the demo
application's fallback to its stored bundle. A circuit is the set of its
assertions; a proof exists for exactly the inputs that satisfy them.
`ZkProofVerified` is verifyZkProofPayload behind the circuit check; it writes the reference
date out of the public input again without padding the year, so that only a year of
four digits (`WrittenInFull`) reads as it was asked for.

`AgeGate`: a method is the transaction it makes, with `requires`, the values read with
getAndRequireEquals, and `next`, what it sets. `SendInitialize(policy, FALSE)` is
deploy.ts, whose initialize lacks the signature of the account and is never included;
`Include` takes any pending transaction whose requirements hold.

## 3. The runs

| Run | Instance | Shows |
|---|---|---|
| `memory_verifier` | 1 challenge, 2 presentations, 1 passkey call, 2 origins, 4 instants, 1 restart | the register is implemented; SingleUse, GrantInTime, SpentStaysSpent, ReplayHasWinner, NoFalseUnknown |
| `redis_verifier` | 2 presentations, 1 crash, 4 instants, seconds of 2, a SET under way for up to 1 instant; either two processes with a connection each, or one process with one connection, a passkey call and reconnects; fairness | isolated connections implement the register and grant late by less than a second and the delay of the SET; in both deployments ReplayHasWinner, NoFalseUnknown and EventuallyAnswered |
| `redis_shared_connection` | 2 presentations on 1 connection, no update, no reconnect | SingleUse VIOLATED |
| `api_state_file` | 2 sessions of 2 users, 2 deliveries, room for 1 claims record and 1 dedupe key, 2 failing writes, 1 crash | TypeOK (capacities), DedupeImpliesClaims, ClaimsComeFromApproval, IdleMeansDurable |
| `api_webhooks` | 1 session, 3 deliveries, expiring claims, the demo issuer, fairness | NoStrandedApproval, ApprovalIsServed |
| `passkeys` | 2 registrations, 2 finishers, 2 assertions of one wallet, either store, a SET under way for up to 1 instant, 4 instants, 1 restart | TypeOK, RegisteredIsFound, TakenInTime, FallbackNeedsOverlap |
| `wallet_auth` | 3 challenges and 3 sessions of 2 wallets, maps of 2 entries, 6 instants | TypeOK (limits), EvictedOnlyByNewer, OneAttemptPerChallenge, RoutedWhileLive |
| `presentations` | 3 holders who come of age at different instants, records of 3 sources, 6 requests with every override, 7 submissions, 4 instants | VerifiedMeetsPolicy, ReviewIsRecent, CredentialIsCurrent, RefusalsHaveReasons |
| `registry` | 2 operators with different keys and programs, 3 script runs, 3 wishes over 3 commitments, a new registry or one with 2 published, 1 read by the holder or the verifier, 4 trust settings | TypeOK (statuses), SuccessIsAnchored, DecisionsStick, FollowsLedger, ProofSpeaksForAccount, RegistryTrustIsAnchored |
| `registry_trust` | 1 operator, 2 script runs, a used registry, the same settings | RegistryModeIsMandatory VIOLATED |
| `age_gate` | 2 users, 2 providers, 2 secrets, 2 days, 6 policy requests, 2 gate policies, 2 proofs, 1 bundle, 3 gate transactions | AgeAndKycProofsAreTrue, CountryProofsAreTrue, ProvesWhatIsClaimed, PassHoldsAtInclusion, InitializedOnce |
| `zk_honest` | the same | HonestProofAccepted VIOLATED |

The largest instances are `passkeys` with 7.6 million distinct states, `registry` with
4.2, `api_state_file` and `presentations` with about three, `wallet_auth` with 1.8
and `redis_verifier` with 1.3 million.

*Why the bounds are enough.* The races of interest are between two calls and one
third party (the clock, a crash, a passkey update, a late transaction), and the
models have two calls of each kind plus the third party. Challenges do not share
state with one another in the memory verifier and share only the connection in
Redis, where two challenges on one connection can do nothing one cannot; the
proofs confirm both for any number. Lifetimes include 0 (late on arrival), lifetimes that end
while a handler waits, and, for Redis, one that is not a whole number of
seconds and one above the tombstone's minimum. A SET under way for one instant (`MaxDelay`)
already makes a key outlive its record by more than the rounding does; the bounds are
proved for any delay. In Redis a challenge asks for no passkey: the passkey update runs for any
challenge, and what its answer is compared with is in `memory_verifier`.
`WatchRetryLimit` is 2 instead of 5: one retry and one give-up. Maps hold one or two entries, so that they are
full early; `EvictCount` is 1 as the code's `Math.max(1, ...)` makes it for any map
below twenty. In `presentations` the retention and the default age limit are one
instant each and the clock has three steps: enough for a record, a credential,
a request and a verdict of four different instants, for a holder who turns 18
or 21 between any two of them, and for a credential re-issued at the end of the
retention. The countries are one a policy names, one it does not, one code without
a number and one name that cannot be translated. In `registry` three runs suffice
for a publish that dies, one that overtakes it and a revoke between; the third
commitment makes a level with an odd number of nodes. In `age_gate` the days are
a leap day and the day after, one user turns 21 on the second and the other is a
day short of 18; the allowlist is full with the deciding entry last; one
reference date is none. Bundles live on while secrets and records change, and
three gate transactions are an initialize, a passage and a policy change between
its making and its inclusion. All bounds are CONSTANTS named in the modules.

Deadlock is not checked: all runs end when the bounded inputs are used up
and the clock stands at its bound.

Symmetry is used where it is sound: interchangeable sessions, users and
deliveries, finishers and assertions, wallets, secrets, and only in runs without liveness.

### Fairness

`RedisVerifier!FairSpec` has weak fairness on the step of each handler: Redis
answers a command or the connection is reopened and the command sent again,
and the event loop runs a resolved promise. A crash is an answer (`lost`).
`VerificationApi!FairSpec` has weak fairness on `Repost` (the provider repeats a
webhook that got no 200) and strong fairness on `ReceiveWebhook` and
`StoreClaims`: a post may be refused and a fetch may fail any number of times, but
not forever. Without the latter nothing is served, and no code could change
that. The other modules are checked for safety only: the network may drop any
transaction and the operators may never run a script again.

### What the violations say

- `redis_shared_connection`: *two consumes on one connection.* WATCH, MGET, WATCH, MGET, EXEC, EXEC: the first
  EXEC clears the watches of its connection, the second's included, and both
  commit. The README promises replay safety across replicas; the parallel test
  of the repository is skipped for Redis.
- `registry_trust`: *TRUST_SOURCE=registry trusts the environment.* Without the address of the registry or an
  endpoint, but with an issuer in the environment, resolveVerifierTrustContext
  starts with that issuer (trust.ts:80-88). README.md:328 calls the lookup mandatory at
  startup, docs/verifier-integration.md:212 says the same.
  `RegistryTrustIsAnchored` shows that this is the only such case.
- `zk_honest`: *no zero-knowledge proof is accepted.* The commitment read from the proof is decimal,
  the one in the signed bundle hexadecimal.

A fourth disagreement is a theorem, stronger than a run: *no registry-backed presentation
is accepted* (`RefusedByRootsAlone`). The roots of a claim proof are hexadecimal, those read from the
account decimal (verifier-core index.ts:1445, 1457), and the two comparisons fail for
every proof, the current one of an active commitment included, which
docs/registry-attestations.md:44 has the verifier check.

Behind `zk_honest` and these roots lie checks no presentation reaches (the
expiry, the claim value); they are modelled as the code has them, and what an
accepted proof would mean is `ProofSpeaksForAccount`.

### Seen while modelling, and not runs

For most of these the documents of the repository promise nothing, or no model is needed to
see them; where a document does, it is named, and the property of the runs says what the
code keeps of it.

*Challenges over Redis.* A passkey update that read its record before the challenge
was consumed writes it back afterwards, and it can be consumed again
(redis-store.ts:56); a connection reopened between WATCH and EXEC has forgotten the
watch. consume() that gives up after `WATCH_RETRY_LIMIT` aborts looks at the
tombstone alone (redis-store.ts:64), so that a challenge kept busy by passkey
updates is called unknown while it is open: `NoFalseUnknown` excepts exactly this
answer. Only get() judges the expiry: a challenge that expires between get() and
EXEC is granted late, although README.md:382 has an accepted challenge "not expired";
`GrantWithinTtl` says how late.

*Passkeys.* Over Redis, GET, GET, DEL, DEL consumes a pending registration twice.
register/verify compares origins after finishRegistration has stored the binding
(app.ts:250), so a refused registration is the wallet's passkey.

*Presentations.* verifyPresentation looks for the demo mark in `credentialTrust`,
which the client may attach and the demo application does not (verifier-core
index.ts:1239, README.md:222); what the proof itself says of it is only reported.
Ages are said to be derived from the date of birth; ID Norm's are estimates,
which is why `VerifiedMeetsPolicy` speaks of Didit's records. An allowlist of names
that cannot be translated is normalized to the empty list and restricts nothing.
issue-credential asks for claims, not for the status: a rejection, or a document
that expires, after an approval changes nothing until the claims expire.
Claims are said to be kept for 30 days (README, docs/security.md); `CLAIM_TTL_MS`
is 365 days.

*Webhooks.* One that arrives before /start has recorded its session is
acknowledged and lost, which is why `ApprovalIsServed` speaks of recorded sessions.
ID Norm's statuses are matched by substring ("unverified" contains "verified").

*Registry.* Revoked commitments stay under `credentialRoot`, which the documents call
a root over active commitments; publishing one again clears its revocation.
update:registry without CREDENTIAL_ROOT or REVOCATION_ROOT sets that root to 0.
Overlapping operators lose updates, and a crash inside writeFile leaves a file
that does not parse, which stops every later script: the properties exempt the
first, the second is in the model. A proof of the last leaf of an odd level also
verifies at the index past it. `params.now` is seconds in one check and
milliseconds in another (verifier-core index.ts:828, 1362), which the comparison of the
roots hides. A verifier that is running does not see what is
anchored later (app.ts:135).

*Zero knowledge and the gate.* A country allowlist whose codes all lack a number
becomes unrestricted, although a request without lists is an error; of such
requests `CountryProofsAreTrue` promises nothing. Bundles have no expiry. A policy request for
an age on a date before the year 1000 is given out, and every proof for it refused (app.ts:611).
proveAge ignores requireKycPassed, so that a gate with the flag lets an age proof pass
alone, although packages/zk-age-gate-contract/README.md:55-58 lists the flag among
what the gate "can currently enforce"; the gate does not look at the reference date of a
proof; and proveAgeAndKycPassed takes an age and a KYC proof that need not be of one holder.
`PassHoldsAtInclusion` therefore promises each proof for its own holder and its own date,
and the flag only of methods that read it. deploy.ts and the example sign
initialize with the deployer's key alone.

## 4. The proofs

Each theorem is for all values of the constants, under the assumptions the modules name.

| Module | Theorems |
|---|---|
| `MemoryVerifier_proofs` | TypeCorrect, SingleUseHolds, SpentStaysSpentHolds, GrantInTimeHolds, ReplayHasWinnerHolds, NoFalseUnknownHolds, RegisterImplemented |
| `RedisVerifier_proofs` | every deployment: TypeCorrect, ReplayHasWinnerHolds, NoFalseUnknownHolds; isolated deployments: SingleUseHolds, GrantWithinTtlHolds, RegisterImplemented |
| `Passkeys_proofs` | TypeCorrect, RegisteredIsFoundHolds, TakenInTimeHolds, FallbackNeedsOverlapHolds |
| `VerificationApi_proofs` | TypeCorrect, DedupeHolds, ClaimsHold, DurableHolds, NoneStranded |
| `WalletAuth_proofs` | TypeCorrect, EvictionHolds, OneAttempt, RoutedLive |
| `Presentations_proofs` | PolicyTheorem, ReviewTheorem, CurrentTheorem, RefusalTheorem, TypeCorrect |
| `AgeGate_proofs` | of the circuits and inputs: AgeCircuitIsCalendar, CountryCircuitIsMembership, InputsOfRequest; of the system: TypeCorrect, ProofsTrue, CountryProofsTrue, ClaimsProvable, PassesHoldAtInclusion, InitializedAtMostOnce |
| `AttestationRegistry_proofs` | of trees and roots: MadeProofVerifies, VerifiedLeafIsInTree, ClaimProofIsOfActive, ActiveHasClaimProof, RootsFixState, RefusedByRootsAlone; of the system: TypeCorrect, RegistryTrustHolds, SuccessHolds, LedgerFollowed, DecisionsHold, ProofSpeaks, ProofsAgeWithState |

### Challenges in memory

*Assumptions.* `NoneIsOutside` (the absence value is none of the data) and
`MemoryBounds` (bounds and lifetimes are natural numbers).

*Argument.* `TypeInv` is TypeOK with the fact that a handler past its first await
has an envelope. `SingleUse` is not inductive: nothing in it stops a second
consume. The strengthening `Holdings` says what the two maps know about the
history: an issued record was handed out, carries the expiry of its handout and
has been granted to nobody; a consumed one was granted to somebody. Consuming
moves the record, so the second presentation finds no issued record; an
update of the passkey request touches issued records only. `StoreInv` is Holdings
with SingleUse and SpentStaysSpent, and `InvHolds` its invariance, one lemma
per kind of step (`EvictKeeps`, `IssueKeeps`, `ConsumeKeeps`, `AttachKeeps`,
`TickKeeps`, `RestartKeeps`). `ReplayInv` adds what a handler between get and consume
remembers: a consumed record it has read was granted to someone else.
NoFalseUnknown rests on `Kept` (what the process handed out, and is in time, is in one
of the two maps) and `Aware` (a handler that has read nothing has read too late, or
belongs to an earlier process).
The refinement maps a challenge to spent, fresh, lapsed or open by its
history, restart and clock; `LapseStep`, `IssueStep` and `GrantStep` map the
steps, and every step of the register allows open challenges to lapse at the
same time, because time passes and records expire in the same step.

### Challenges in Redis

*Assumptions.* `RedisBounds`: positive seconds, limits and minimal TTL.

*Every deployment.* A handler knows what its last command told it, and the world
has moved since. `KeyInv` says what keys mean: an active key is an issued record
of its handout that has not outlived its TTL, a tombstone is a grant, and a
challenge with neither is past its expiry. `ReadHolds` says what a handler has
read, in words that stay true: "a grant exists", "the expiry has passed". `Grows`
is what no step undoes (handouts, grants, time; a tombstone goes only after the expiry),
and `ReadKeeps` follows from it, for every step of everyone else at once. A
consumed record, or a tombstone found by the loop of consume(), then leads to a
grant (`ReplyHolds`), and no record to an expiry that has passed, except where
`Fallback` looks at the tombstone alone: the exception of NoFalseUnknown.

*Isolated deployments.* `GuardHolds`: between WATCH and EXEC the key is watched, and if
the connection was not touched since the MGET the key is still there. `OnceHolds`: a
granted challenge has no active key, and a key outlives its record by less than a
second and the delay of the SET of issue(). EXEC on an untouched connection therefore
finds the challenge not yet granted, and grants it no later than that. Both need that no other
request uses the connection (`OwnConnection`), that it does not drop, and that no passkey update
SETs the key: `Isolated`. The register is implemented there; elsewhere
`ImplementsRegister` promises nothing, and `redis_shared_connection` shows why.

### Passkeys

*Assumptions.* `PasskeyBounds`: lifetimes and bounds are numbers, seconds positive, and
the absence value is none of the data.

*Argument.* Four facts, one per kind of state, make the invariant. `PendHolds`: a stored
registration was offered, and lives no longer than the offer, in Redis longer by less than
a second and the delay of its SET (`KeyExpiryBounds` is the rounding of TTLs); from memory it is taken by
deleting it. `FinHolds`: a call has what its next step reads, and only it stores its
binding. `PointerHolds`: a wallet's pointer leads to a binding of that wallet; bindings
are replaced, never removed, except by a restart that empties the maps with them.
`AsnHolds`: an assertion that has met no other of its binding has read the counter that
is stored. Steps of a registration leave the assertions alone (`RegFrame`), and
those of an assertion change of a binding at most its counter (`AsnFrame`).

### Verifications and claims

*Assumptions.* `StoreBounds`: the absence value is none of the data, limits are numbers
and the store remembers at least one webhook.

*Argument.* The same three facts have to hold of the maps, of the state file and of
the snapshot on its way there, so `Good` is stated once of any snapshot: it is within
the capacities, every remembered approval is served (`Served`), and its records are
of who opened the session, its claims of an announced approval (`Sourced`). `Inv` is
`Good` of the three, with `HookHolds`: a handler about to mark an approval has
stored its claims. Taking, committing and reloading a snapshot move Good things
around; time passes (`Later`) without undoing it, because claims that expire have
outlived their TTL; only the handlers change the maps, one lemma each (`MemKept`).
DedupeHolds and ClaimsHold read their property off `Inv`.
`DurableHolds` counts: `Chained` says that a snapshot being written belongs to a
job, `Durable` that with no job left the file, and with one job left its snapshot if
it has one, equals the maps up to claims that have expired (`Same`), which
hydrate drops. A change of the maps owes a job; a dropped claims record is
the one change that does not disturb `Same`.
`NoneStranded` is proved where the process has not lost what it knew
(`Uninterrupted`: no state file, or neither a crash nor a failed write yet): a crash between status
and claims does leave an approval without claims until the provider repeats the
webhook. Until then a call for the approval is pending (`Pending`), and it leaves that
state only by storing the claims or with a dedupe key that has them.

### Wallet sign-in

*Assumptions.* `AuthBounds`: positive lifetimes and limits.

*Argument.* Both maps satisfy one invariant, `Map`: of the records ever made,
those that are not tried or revoked, not expired and not among the oldest of
a full map are in the map, and it is within its limit. The lemmas about one map
(evictExpired, evictOverflow, delete, set) are about any sequence of records and any set of
positions; EvictOverflow needs that what remains of a full map after dropping its
`EvictCount` oldest entries still holds the newer ones, an argument about
cardinalities of intervals. OneAttempt and RoutedLive follow from disjointness of the keys
with `tried` and `revoked`: an id once deleted is never a key again.

### Presentations

*Assumptions.* `PolicyConstants` (the kinds of country names are disjoint, the
absence values are outside the data) and `PresentationBounds` (the members of the
sets of inputs have the shapes the schemas let in).

*Argument.* None of the properties is inductive: a verdict says nothing by itself. `IInv`
carries the truth along the way. `RecordIsTrue`: the claims record has no age the
provider did not see reached, no country but the holder's, no time to come.
`CredentialIsTrue`: the same of a credential at its `issuedAt`, at most the
retention after its review. `RequestIsResolved`: the request carries the policy resolved from
what was asked. Of a proof it says that its credential is true and satisfies the
request; `VerdictIsChecked` that an "ok" is fresh now and signed by the owner.
`NextIInv` has one step per action, on `DiditRecordIsTrue`, `IdNormRecordIsTrue`,
`IssuedCredentialIsTrue` and `OkPassesChecks`. An age once reached stays reached, so what
held when the credential was issued holds at the verdict; for the
countries `ResolvedPolicy` says what normalization leaves of the lists, and the
numbers of two codes are equal only if the codes are or neither has one.
A second invariant, `MInv`, on top of the first, carries what the metadata say
(`RecordCarries`, `CredentialCarries`): CurrentTheorem reads the credential off it,
RefusalTheorem the only two ways a derived claim can differ from a proof, a
birthday since the review and a country without a number.

### Zero-knowledge proofs and the gate

*Assumptions.* `ZkConstants` (dates of the calendar, inputs of the schemas' shapes,
lists of at most the eight codes CreateZkPolicyRequestSchema lets in, a number of its
own for each code that has one, as ISO 3166 assigns them) and `AgeGateConstants`.

*Argument.* AgeCircuitIsCalendar and CountryCircuitIsMembership are about the
circuits alone: for all dates the assertions of AgeRelation, with an age that
must not be negative on either branch, hold exactly when hasReachedAge does; for all
lists of up to eight numbers the padded slots accept what the lists say. `ZkInv`
carries the truth: a record is of its user (`RecordTrue`), proof material is of whom it
names (`MaterialTrue`), a bundle names the wallet it was signed for (`BundleTrue`), and a proof
was made by that wallet from such material, through the circuit (`ProofTrue`). No salt
appears in it: a wrong salt can only prevent a proof. `GateInv` says of each
pending transaction what it requires: an initialize zero keys, a passage the
threshold its proofs meet (`MeetsThreshold`). Included, those requirements hold of the
account at that moment, and an age above a higher threshold is above a lower one
(`ReachedLower`).

What is said of countries and of provability needs the commitments too: a proof about a
country goes by the number in the material, and two countries may both have none.
`CarryInv` follows the data from the provider on. A record carries facts of the
documents, or nothing, and commitments to just these under the salts of one secret
(`RecordCarries`); a bundle carries what a record carried, with salts that may be of
another secret, and knows whether they are (`BundleCarries`); a proof is of a country its
request accepts (`CountryProofTrue`). The proof opens a commitment (`CommitmentsRead`),
the circuit over the padded slots is membership in the lists of numbers
(`CountryRelationIsMeets`), and since numbers tell countries apart, of the lists of
codes (`NumberMeets`): CountryProofsTrue. In the other direction `FreshMaterialProves`
shows that with salts and commitments of one secret no other assertion of a
circuit fails: ClaimsProvable. InputsOfRequest is the conversion itself: filtering the
codes without a number (`ListedNumbers`), padding to eight slots and dropping the
zeros again (`PositiveOfPadded`) leaves the lists the request was made with. A reference
date reads back as itself exactly if its year has four digits.

### The registry

*Assumptions.* `RegistryBounds`: commitments are finitely many numbers, bounds are numbers; environments, wishes,
histories and settings have the shapes the scripts accept; absence values are none of
the data.

*Argument about files and account.* Roots are functions of the states, and these theorems
say which state is where. `Base` holds always: a run, a transaction and the account carry
the state of an entry of `log`, an initialize that of nothing, and a transaction is of its
operator's present run only while that waits for it. `Solo` holds while scripts have
not overlapped: one run is under way, the file has the last entry or cannot be read
(`FileHolds`), later entries contain earlier ones but for what a publish clears
(`LogGrows`), transactions go in order and none is behind the account (`InOrder`), what
a run knows included stays (`Delivered`), and roots left over from nothing or from the
environment are no news to any entry (`Outdated`). `StepInv` has one lemma per
script step and one for each fate of a transaction. The overlap of
scripts switches `Solo` off for good, which is why the properties except it.

*Argument about roots.* A tree has finitely many levels that shrink to one root
(`LevelsShrink`, `TreeShape`). MadeProofVerifies climbs it: at every level the hash reached is
the node over the leaf, paired with its sibling or with itself (`ParentOf`).
VerifiedLeafIsInTree descends: the root is a node of the tree, and if a hash of the
climb is a node and not a leaf, it is the branch of two nodes below, one of which is the
hash before. Neither path can end early or go on too long, because leaves are tagged
apart from branches (`LeavesAreNoBranches`). The index of a proof plays no part in
it, which is why an index past the last leaf does no harm. With `SortedLists` (each commitment
is listed, and once) the leaves are those of the state (`LeavesOfState`), and
ClaimProofIsOfActive, ActiveHasClaimProof and RootsFixState follow: two states with
equal roots have the leaves of each other. The invariant for ProofSpeaks is `HeldHolds`:
a claim proof was taken from a state in which its commitment has one status. It holds
however scripts overlap, because it does not say that this state is still, or
ever becomes, that of the account. ProofsAgeWithState is the other side of RootsFixState: any
publish or revoke that changes the state makes all claim proofs taken before useless,
those of other commitments included. RefusedByRootsAlone puts a sound state, a commitment
active in it, the anchors of the account and a matching presentation into the checks of
verifyPresentationWithRegistry: all hold but the two comparisons of roots.

### Limits

*Only model-checked.* Liveness (`EventuallyAnswered`, `ApprovalIsServed`): the
temporal backend does not handle fairness and ENABLED. And the properties the violation
runs refute, which are not true. Every other property of the runs is stated by a theorem.

*Induction.* The induction theorems of the library take an operator, which the
installed provers cannot instantiate. The inductions over levels, positions and lists are
therefore about sets: `Induction` says that a set with 0 in it, and with n + 1 whenever it
has n, has every number, and is proved from the least element of a set
(`LeastNatural`); each use names its set. For the same reason trees, climbs and the filtered lists
(`Levels`, `Indices`, `Climb`, `Positive`) are recursive functions with a lemma each that
says they satisfy their equations (`LevelsUnfold`, `IndicesUnfold`, `ClimbUnfold`,
`PositiveUnfold`), a recursive function being a CHOOSE whose witness has to be shown to exist.
`Sorted` is chosen by what it is, a list in order, and `Orderable` shows there is one.
No module declares a RECURSIVE operator.

*What a theorem does not say.* It is about the model: a step between two awaits is
taken as atomic, hashes as injective, the proof systems as sound and complete.

## 5. Not modelled

- What mina-attestations and o1js do: a presentation proof, or a proof of a
  circuit, is taken to exist exactly for data that satisfies its assertions.
- The caching of compiled programs, the lifetime and audience of zk policy requests,
  the registry snapshot copied into a bundle.
- Nationality, document expiry and credential mode: no policy looks at them.
- Canonicalization of claims and the assembly of credential metadata.
- Labels of claim freshness, payload shapes of the providers, ID Norm's status words.
- Webhook signatures, rate limits, CORS, request schemas: each is a refusal before
  the modelled code begins.
- Cryptography of circuits, wallets and passkeys.
- SDK and types (HTTP calls without retries, schemas), the user interface of the demo application,
  one-shot key and demo scripts, examples: no state of the services.

## 6. Open ends

What the plan has left, in the order of what it would add:

1. Which of the fairness assumptions each step of an answer needs, as lemmas about
   ranks that every retry lowers: the part of liveness that is a safety property.
2. The lifetime of zk policy requests and the snapshot of the registry in bundles.
