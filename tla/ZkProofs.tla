------------------------------ MODULE ZkProofs ------------------------------
(* From an approved verification to a zero-knowledge proof: providers commit *)
(* to what they verified with salts derived from their webhook secret, the   *)
(* API rebuilds the salts when it is asked for proof material, signs bundles *)
(* of it and proves for wallets, and the verifier hands out policy requests  *)
(* and judges proofs. A restart may bring the API another secret, or take a  *)
(* provider away; bundles and proofs live on in the browsers.                *)
(* A definition named X_Y is X with the plausible bug Y: no action uses it.  *)
EXTENDS ZkClaims, FiniteSets

CONSTANTS
    User,
    DobOf, CountryOf,   \* User -> what is on their documents
    Code, Numeric,      \* country codes, and their number (0: not listed)
    Secret,             \* webhook secrets
    Days,               \* the dates the clock takes, in order
    Asked,              \* what relying parties ask /zk/policy-request for
    None,
    MaxEvents,          \* bound: approvals, demo claims, expiries, restarts
    MaxBundles,         \* bound: signed bundles in circulation
    MaxProofs           \* bound: proofs kept

Provider == {"didit", "idnorm"}
Kind == {"dob", "kyc", "country"}

\* A list of countries, of at most eight codes.
CodeList == {codes \in Seq(Code) : Len(codes) <= MaxCountryPolicyEntries}

\* CreateZkPolicyRequestSchema: a reference date is any digits in its form.
PolicyArguments ==
    [type : {"age"}, minAge : {18, 21},
     reference : [year : 0..9999, month : 0..99, day : 0..99] \cup {None}]
        \cup [type : {"kyc"}]
        \cup [type : {"country"}, allow : CodeList, block : CodeList]

ASSUME ZkConstants ==
    /\ Asked \subseteq PolicyArguments
    /\ DobOf \in [User -> Calendar]
    /\ CountryOf \in [User -> Code]
    /\ Numeric \in [Code -> Nat]
    /\ \A a, b \in Code : Numeric[a] = Numeric[b] => a = b \/ Numeric[a] = 0
    /\ Days \in Seq(Calendar) /\ Days # <<>>
    /\ None \notin User \cup Code \cup Secret
    /\ MaxEvents \in Nat /\ MaxBundles \in Nat /\ MaxProofs \in Nat

VARIABLES
    store,      \* User -> the claims record of the API, or None
    secrets,    \* Provider -> its webhook secret, None if not configured
    bundles,    \* the bundles the issuer has signed
    proofs,     \* the proofs wallets hold
    today,      \* the day, a position in Days
    events,     \* what the bound MaxEvents counts
    approved    \* history: the users a provider has approved

zkVars == <<store, secrets, bundles, proofs, today, events, approved>>

-----------------------------------------------------------------------------
(* Providers and claims records *)

\* deriveZkSalt: an HMAC under the secret.
DeriveZkSalt(secret, user, kind) ==
    [secret |-> secret, user |-> user, kind |-> kind]

Alpha2ToNumeric(country) == IF country = None THEN 0 ELSE Numeric[country]

\* materializeClaims of an approved report; ID Norm reports neither a date of
\* birth nor a country.
SourceCommitments(user, secret, dob, country) ==
    [kind \in {"kyc"} \cup (IF dob = None THEN {} ELSE {"dob"})
                      \cup (IF Alpha2ToNumeric(country) = 0
                            THEN {} ELSE {"country"}) |->
        LET salt == DeriveZkSalt(secret, user, kind)
        IN  FieldToHex(CASE kind = "dob" -> CreateDateOfBirthCommitment(dob, salt)
                         [] kind = "kyc" -> CreateKycPassedCommitment(TRUE, salt)
                         [] OTHER -> CreateCountryCodeCommitment(
                                         Alpha2ToNumeric(country), salt))]

MaterializeClaims(user, provider, dob, country) ==
    [version |-> "v2", provider |-> provider, dob |-> dob, country |-> country,
     commitments |-> SourceCommitments(user, secrets[provider], dob, country),
     saltedWith |-> secrets[provider]]

\* Claims of the demo issuer are of the first model and carry no commitments.
DemoClaims ==
    [version |-> "v1", provider |-> "didit", dob |-> None, country |-> None,
     commitments |-> [kind \in {} |-> None], saltedWith |-> None]

-----------------------------------------------------------------------------
(* Proof material *)

\* buildZkProofInputPayload answers null for the first model, and throws when
\* the provider a salt comes from is not configured.
HasZkInput(user) ==
    /\ store[user] # None
    /\ store[user].version = "v2"
    /\ secrets[store[user].provider] # None

BuildZkProofInputPayload(user) ==
    LET record == store[user]
    IN  [userId |-> user, dob |-> record.dob, kycPassed |-> TRUE,
         code |-> Alpha2ToNumeric(record.country),
         commitments |-> record.commitments,
         salts |-> [kind \in Kind |->
             DeriveZkSalt(secrets[record.provider], user, kind)]]

\* History: the salts rebuilt are those of the commitments.
Fresh(user) == store[user].saltedWith = secrets[store[user].provider]

SignedBundle(user) ==
    [wallet |-> user, material |-> BuildZkProofInputPayload(user),
     fresh |-> Fresh(user)]

\* bundles is the set of bundles whose signature verifies.
BundleVerifies(bundle) ==
    bundle \in bundles /\ bundle.wallet = bundle.material.userId

-----------------------------------------------------------------------------
(* Policy requests *)

Listed(codes) == Positive([i \in DOMAIN codes |-> Numeric[codes[i]]])

\* createZkPolicyRequest throws when both lists are empty.
Askable(asked) ==
    asked.type = "country" => asked.allow # <<>> \/ asked.block # <<>>

CreateZkPolicyRequest(asked, day) ==
    CASE asked.type = "age" ->
           [type |-> "age", ageGte |-> asked.minAge,
            reference |-> IF asked.reference = None THEN Days[day]
                          ELSE asked.reference]
      [] asked.type = "kyc" -> [type |-> "kyc"]
      [] OTHER ->
           [type |-> "country", countryAllow |-> asked.allow,
            countryBlock |-> asked.block, allow |-> Listed(asked.allow),
            block |-> Listed(asked.block)]

Requests ==
    {CreateZkPolicyRequest(asked, today) : asked \in {a \in Asked : Askable(a)}}

-----------------------------------------------------------------------------
(* Proving: createBackendZkProof, and createBrowserProofForRequest, which    *)
(* does the same in the browser                                              *)

PublicInput(material, request) ==
    CASE request.type = "age" ->
           CreateAgeClaimPublicInput(material.commitments, request.ageGte,
                                     request.reference)
      [] request.type = "kyc" -> CreateKycPassedPublicInput(material.commitments)
      [] OTHER -> CreateCountryMembershipPublicInput(
                      material.commitments, request.allow, request.block)

CanProve(material, request) ==
    CASE request.type = "age" ->
           /\ material.dob # None
           /\ "dob" \in DOMAIN material.commitments
           /\ AgeCircuit(PublicInput(material, request),
                  [birth |-> material.dob, salt |-> material.salts["dob"]])
      [] request.type = "kyc" ->
           /\ material.kycPassed
           /\ "kyc" \in DOMAIN material.commitments
           /\ KycCircuit(PublicInput(material, request),
                  [kycPassed |-> TRUE, salt |-> material.salts["kyc"]])
      [] OTHER ->
           /\ material.code # 0
           /\ "country" \in DOMAIN material.commitments
           /\ FitsCountryPolicy(request.allow)
           /\ FitsCountryPolicy(request.block)
           /\ CountryCircuit(PublicInput(material, request),
                  [code |-> material.code, salt |-> material.salts["country"]])

Proof(holder, bundle, request) ==
    [holder |-> holder, request |-> request, bundle |-> bundle,
     publicInput |-> PublicInput(bundle.material, request)]

-----------------------------------------------------------------------------
(* Judging a proof: verifyZkProofPayload of a proof whose circuit accepted   *)

\* verifySignedProofMaterialBundle of the verifier.
TrustedBundle(bundle) ==
    bundle \in bundles /\ bundle.wallet = bundle.material.userId

\* The endpoint writes the reference date out of the public input again, with
\* month and day padded to their two digits, and the year as it is.
WrittenInFull(year) == year >= 1000

\* The endpoint reads its inputs out of the public input of the proof.
InputsMatch(public, request) ==
    CASE request.type = "age" ->
           /\ public.minAge = request.ageGte
           /\ public.reference = request.reference
           /\ WrittenInFull(public.reference.year)
      [] request.type = "kyc" -> TRUE
      [] OTHER ->
           /\ CountryPolicyList(public.allow) = request.allow
           /\ CountryPolicyList(public.block) = request.block

KindOf(request) ==
    CASE request.type = "age" -> "dob"
      [] request.type = "kyc" -> "kyc"
      [] OTHER -> "country"

CommitmentMatches(public, bundle, request) ==
    LET commitments == bundle.material.commitments
        kind == KindOf(request)
    IN  /\ kind \in DOMAIN commitments
        /\ FieldToDecimal(public.commitment) = commitments[kind]

\* For a caller of the audience the request was made for, in its lifetime.
ZkProofVerified(proof, bundle, request) ==
    /\ TrustedBundle(bundle)
    /\ InputsMatch(proof.publicInput, request)
    /\ CommitmentMatches(proof.publicInput, bundle, request)

-----------------------------------------------------------------------------
ZkInit ==
    /\ store = [user \in User |-> None]
    /\ secrets \in [Provider -> Secret]
    /\ bundles = {}
    /\ proofs = {}
    /\ today = 1
    /\ events = 0
    /\ approved = {}

Event == events < MaxEvents /\ events' = events + 1

\* A webhook of an approved verification replaces the record of its user.
Approve(user, provider) ==
    /\ Event
    /\ secrets[provider] # None
    /\ \E dob \in {DobOf[user], None}, country \in {CountryOf[user], None} :
         /\ provider = "idnorm" => dob = None /\ country = None
         /\ store' = [store EXCEPT ![user] =
                         MaterializeClaims(user, provider, dob, country)]
    /\ approved' = approved \cup {user}
    /\ UNCHANGED <<secrets, bundles, proofs, today>>

IssueDemoClaims(user) ==
    /\ Event
    /\ store' = [store EXCEPT ![user] = DemoClaims]
    /\ UNCHANGED <<secrets, bundles, proofs, today, approved>>

\* getClaims drops a record that has expired.
ExpireClaims(user) ==
    /\ Event
    /\ store[user] # None
    /\ store' = [store EXCEPT ![user] = None]
    /\ UNCHANGED <<secrets, bundles, proofs, today, approved>>

\* The API starts again with another environment.
Restart(provider, secret) ==
    /\ Event
    /\ secrets[provider] # secret
    /\ secrets' = [secrets EXCEPT ![provider] = secret]
    /\ UNCHANGED <<store, bundles, proofs, today, approved>>

NextDay ==
    /\ today < Len(Days)
    /\ today' = today + 1
    /\ UNCHANGED <<store, secrets, bundles, proofs, events, approved>>

\* POST /issue-credential, for the wallet that is signed in.
IssueBundle(user) ==
    /\ HasZkInput(user)
    /\ bundles' = bundles \cup {SignedBundle(user)}
    /\ Cardinality(bundles') <= MaxBundles
    /\ UNCHANGED <<store, secrets, proofs, today, events, approved>>

Keep(proof) ==
    /\ proofs' = proofs \cup {proof}
    /\ Cardinality(proofs') <= MaxProofs

\* Bug: the bundle is not compared with the wallet that is signed in.
ProveFromBundle_AnyWallet(wallet, bundle, request) ==
    /\ BundleVerifies(bundle)
    /\ CanProve(bundle.material, request)
    /\ Keep(Proof(wallet, bundle, request))
    /\ UNCHANGED <<store, secrets, bundles, today, events, approved>>

\* POST /zk-proof with a bundle, which may be one of another wallet.
ProveFromBundle(wallet, bundle, request) ==
    /\ BundleVerifies(bundle)
    /\ bundle.material.userId = wallet
    /\ CanProve(bundle.material, request)
    /\ Keep(Proof(wallet, bundle, request))
    /\ UNCHANGED <<store, secrets, bundles, today, events, approved>>

\* POST /zk-proof without one: the answer brings a new bundle.
ProveFromRecord(wallet, request) ==
    /\ HasZkInput(wallet)
    /\ CanProve(BuildZkProofInputPayload(wallet), request)
    /\ bundles' = bundles \cup {SignedBundle(wallet)}
    /\ Cardinality(bundles') <= MaxBundles
    /\ Keep(Proof(wallet, SignedBundle(wallet), request))
    /\ UNCHANGED <<store, secrets, today, events, approved>>

\* The API does not answer: the browser proves from the bundle it has stored
\* for the wallet.
ProveInBrowser(wallet, bundle, request) ==
    /\ bundle.wallet = wallet
    /\ CanProve(bundle.material, request)
    /\ Keep(Proof(wallet, bundle, request))
    /\ UNCHANGED <<store, secrets, bundles, today, events, approved>>

ZkNext ==
    \/ \E user \in User :
         \/ \E provider \in Provider : Approve(user, provider)
         \/ IssueDemoClaims(user)
         \/ ExpireClaims(user)
         \/ IssueBundle(user)
         \/ \E request \in Requests :
              \/ ProveFromRecord(user, request)
              \/ \E bundle \in bundles :
                   \/ ProveFromBundle(user, bundle, request)
                   \/ ProveInBrowser(user, bundle, request)
    \/ \E provider \in Provider, secret \in Secret \cup {None} :
         Restart(provider, secret)
    \/ NextDay

-----------------------------------------------------------------------------
(* Properties *)

Meets(country, allow, block) ==
    /\ allow # <<>> => \E i \in DOMAIN allow : allow[i] = country
    /\ \A i \in DOMAIN block : block[i] # country

CountryMeets(user, request) ==
    Meets(CountryOf[user], request.countryAllow, request.countryBlock)

\* An age or KYC proof a wallet holds is true of its holder: of the date of
\* birth on the documents, of an approval.  Restarts with other secrets, other
\* wallets' bundles, records replaced by another provider's and days that pass
\* between request and proof change nothing.
AgeAndKycProofsAreTrue ==
    \A proof \in proofs :
        /\ proof.request.type = "age" =>
              HasReachedAge(DobOf[proof.holder], proof.publicInput.minAge,
                            proof.publicInput.reference)
        /\ proof.request.type = "kyc" => proof.holder \in approved

\* The same of country proofs: the country on the documents meets the lists
\* of codes that were asked for, through their numbers and the eight slots.
\* (Of an allowlist whose codes have no number createZkPolicyRequest keeps
\* nothing, and such a request restricts nothing.)
CountryProofsAreTrue ==
    \A proof \in proofs :
        LET request == proof.request
        IN  (/\ request.type = "country"
             /\ request.countryAllow # <<>> => request.allow # <<>>)
            => CountryMeets(proof.holder, request)

\* What the API itself would answer: hasReachedAge over the record, the
\* decision of the provider, the country against the lists.
Claimed(dob, country, request) ==
    CASE request.type = "age" ->
           /\ dob # None /\ request.reference \in Calendar
           /\ HasReachedAge(dob, request.ageGte, request.reference)
      [] request.type = "kyc" -> TRUE
      [] OTHER ->
           /\ Alpha2ToNumeric(country) # 0
           /\ Meets(Alpha2ToNumeric(country), request.allow, request.block)

\* Material whose salts are those of the commitments proves exactly what the
\* record claims, on the day and ever after: the circuits, the commitments of
\* the providers, the padding of the lists and the salts rebuilt fit together.
ProvesWhatIsClaimed ==
    \A request \in Requests :
        /\ \A user \in User :
              (HasZkInput(user) /\ Fresh(user)) =>
                  (CanProve(BuildZkProofInputPayload(user), request)
                       <=> Claimed(store[user].dob, store[user].country, request))
        /\ \A bundle \in bundles :
              bundle.fresh =>
                  (CanProve(bundle.material, request)
                       <=> Claimed(bundle.material.dob,
                               IF bundle.material.code = 0 THEN None
                               ELSE CountryOf[bundle.wallet], request))

\* docs/zk-proofs-and-registry.md: "the verifier checks that proof off-chain":
\* a proof made for a request is accepted for it with the bundle it is of.
HonestProofAccepted ==
    \A proof \in proofs : ZkProofVerified(proof, proof.bundle, proof.request)
=============================================================================
