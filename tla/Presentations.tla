---------------------------- MODULE Presentations ----------------------------
(* The way of one holder's claims to a verifier: a provider's approval or    *)
(* the demo issuer writes the claims record, the API issues a credential     *)
(* from it, a site requests a presentation, the wallet proves it and the     *)
(* verifier runs verifyPresentation.  Time passes between any two of these.  *)
(* Clients build the envelope with createPresentationEnvelope from the       *)
(* request they were given; challenges are in MemoryVerifier and             *)
(* RedisVerifier, passkeys in Passkeys, whose branches are left out here.    *)
EXTENDS PresentationPolicy, FiniteSets

CONSTANTS
    None,
    People,         \* who the holder may be: when of age, which country
    DiditReports,   \* whether Didit reports a date of birth and the country
    Estimates,      \* which ages IdNorm estimates to be reached
    DemoForms,      \* what is typed into the demo issuer
    Requests,       \* products and policy overrides that sites ask for
    Submissions,    \* what clients attach and how relying parties verify
    ClaimTtl,       \* CLAIM_TTL_MS of the claims store
    ChallengeTtl,   \* expiresInSeconds of a presentation request
    MaxClock        \* bound: the last instant of the clock

EvidenceClasses == {"provider-normalized", "locally-derived", "zk-proven"}

Country == Listed \cup Unlisted \cup {None}

\* The keys of a derivedClaims object that are present and true, and the
\* value of its country_code.
Derived == [ageOver18 : BOOLEAN, ageOver21 : BOOLEAN, country : Country]

ASSUME PresentationBounds ==
    /\ None \notin Listed \cup Unlisted \cup Derived
    /\ Undefined \notin {"holder", "other"}
    /\ ClaimTtl \in Nat
    /\ ChallengeTtl \in Nat \ {0}
    /\ MaxClock \in Nat
    /\ People \subseteq [adult18 : Nat, adult21 : Nat,
                         country : Listed \cup Unlisted]
    /\ DiditReports \subseteq [dateOfBirth : BOOLEAN, country : BOOLEAN]
    /\ Estimates \subseteq {e \in [over18 : BOOLEAN, over21 : BOOLEAN] :
                             e.over21 => e.over18}
    /\ DemoForms \subseteq [over18 : BOOLEAN, over21 : BOOLEAN,
                            kyc : BOOLEAN, country : BOOLEAN]
    /\ Requests \subseteq [product : Products, given : Overrides]
    /\ Submissions \subseteq
         [expectedOwner : {"holder", "other", Undefined},
          signer : {"holder", "other"},
          attached : SUBSET {"derivedClaims", "credentialTrust"},
          allowDemoCredentials : BOOLEAN,
          allowedEvidenceClasses : {Undefined} \cup SUBSET EvidenceClasses,
          minimumAssurance : {"high", Undefined}]

VARIABLES
    clock,
    person,         \* the holder as the documents would tell
    claims,         \* ClaimsRecord of the holder's wallet, or None
    credential,     \* the credential in the wallet with its metadata, or None
    request,        \* the presentation request in hand, or None
    proof,          \* the credential that the wallet's proof is about, or None
    verdict         \* what verifyPresentation answered, or None

vars == <<clock, person, claims, credential, request, proof, verdict>>

ClaimsRecord ==
    [source : {"didit", "idnorm", "demo"}, dateOfBirth : BOOLEAN,
     ageOver18 : BOOLEAN, ageOver21 : BOOLEAN, kycPassed : BOOLEAN,
     country : Country, derivedClaims : Derived \cup {None},
     verifiedAt : Nat]

Provenance ==
    [source : {"didit", "idnorm", "demo"}, dateOfBirth : BOOLEAN,
     country : Country, verifiedAt : Nat]

Credential ==
    [ageOver18 : BOOLEAN, ageOver21 : BOOLEAN, kycPassed : BOOLEAN,
     countryCode : Listed \cup {NoCode}, isDemoCredential : BOOLEAN,
     issuedAt : Nat, derivedClaims : Derived \cup {None},
     of : Provenance]      \* history: of the record it was made from

Codes == {"ok", "challenge_expired", "owner_mismatch",
          "derived_claim_mismatch", "stale_credential",
          "demo_credential_not_allowed",
          "credential_evidence_class_not_allowed",
          "credential_assurance_too_low", "holder_binding_failed"}

TypeOK ==
    /\ clock \in 0..MaxClock
    /\ person \in People
    /\ claims \in ClaimsRecord \cup {None}
    /\ credential \in Credential \cup {None}
    /\ request = None \/
         /\ request.product \in Products
         /\ request.policy \in Policies
         /\ request.expiresAt = request.at + ChallengeTtl
         /\ request.at \in 0..clock
    /\ proof \in Credential \cup {None}
    /\ proof # None => request # None
    /\ verdict = None \/
         /\ proof # None
         /\ verdict.code \in Codes
         /\ verdict.of \in Submissions
         /\ verdict.at \in 0..clock

Init ==
    /\ clock = 0
    /\ person \in People
    /\ claims = None
    /\ credential = None
    /\ request = None
    /\ proof = None
    /\ verdict = None

-----------------------------------------------------------------------------
(* The claims record *)

HasReached18 == person.adult18 <= clock
HasReached21 == person.adult21 <= clock
Reported(known) == IF known THEN person.country ELSE None

\* Bug: fields the new record does not set stay those of the old one.
Upsert_Merges(record) ==
    claims' = IF claims # None /\ record.derivedClaims = None
              THEN [record EXCEPT !.derivedClaims = claims.derivedClaims]
              ELSE record

\* upsertClaims replaces the record.
Upsert(record) == claims' = record

\* Bound: a behaviour ends with its first verdict, after as many records,
\* credentials and requests as the clock leaves time for.
Ongoing == verdict = None

Wallet == <<credential, request, proof, verdict>>

\* deriveClaimMaterial of Didit: ages only from a date of birth, and only
\* when reached; the country may be missing.
DiditClaims(dob, country) ==
    [source |-> "didit", dateOfBirth |-> dob,
     ageOver18 |-> dob /\ HasReached18, ageOver21 |-> dob /\ HasReached21,
     kycPassed |-> TRUE, country |-> country,
     derivedClaims |-> [ageOver18 |-> dob /\ HasReached18,
                        ageOver21 |-> dob /\ HasReached21,
                        country |-> country],
     verifiedAt |-> clock]

ApproveDidit ==
    /\ Ongoing
    /\ \E report \in DiditReports :
         Upsert(DiditClaims(report.dateOfBirth, Reported(report.country)))
    /\ UNCHANGED <<clock, person, Wallet>>

\* materializeClaims of IdNorm: an estimate of the age and no country.
IdNormClaims(over18, over21) ==
    [source |-> "idnorm", dateOfBirth |-> FALSE,
     ageOver18 |-> over18, ageOver21 |-> over21,
     kycPassed |-> TRUE, country |-> None,
     derivedClaims |-> [ageOver18 |-> over18, ageOver21 |-> over21,
                        country |-> None],
     verifiedAt |-> clock]

ApproveIdNorm ==
    /\ Ongoing
    /\ \E e \in Estimates : Upsert(IdNormClaims(e.over18, e.over21))
    /\ UNCHANGED <<clock, person, Wallet>>

\* POST /api/demo/issue-claims: what the caller typed, without derivedClaims.
IssueDemoClaims ==
    /\ Ongoing
    /\ \E form \in DemoForms :
         /\ form.over21 => form.over18
         /\ Upsert([source |-> "demo", dateOfBirth |-> FALSE,
                    ageOver18 |-> form.over18, ageOver21 |-> form.over21,
                    kycPassed |-> form.kyc, country |-> Reported(form.country),
                    derivedClaims |-> None, verifiedAt |-> clock])
    /\ UNCHANGED <<clock, person, Wallet>>

-----------------------------------------------------------------------------
(* POST /api/mina/issue-credential *)

\* Bug: the ages are those the provider reported.
NormalizedAges_Stored(record) ==
    [ageOver18 |-> record.ageOver18, ageOver21 |-> record.ageOver21]

\* buildNormalizedClaims: with a date of birth the ages are computed anew.
NormalizedAges(record) ==
    IF record.dateOfBirth
    THEN [ageOver18 |-> HasReached18, ageOver21 |-> HasReached21]
    ELSE [ageOver18 |-> record.ageOver18, ageOver21 |-> record.ageOver21]

\* claimsToCredentialData and the metadata returned next to the credential.
CredentialOf(record) ==
    [ageOver18 |-> NormalizedAges(record).ageOver18,
     ageOver21 |-> NormalizedAges(record).ageOver21,
     kycPassed |-> record.kycPassed,
     countryCode |-> Numeric(record.country),
     isDemoCredential |-> record.source = "demo",
     issuedAt |-> clock,
     derivedClaims |-> record.derivedClaims,
     of |-> [source |-> record.source, dateOfBirth |-> record.dateOfBirth,
             country |-> record.country, verifiedAt |-> record.verifiedAt]]

\* Bug: a record is kept for good.
ClaimsExpired_Never(record) == FALSE

ClaimsExpired(record) == clock - record.verifiedAt > ClaimTtl

IssueCredential ==
    /\ Ongoing
    /\ claims # None
    /\ ~ClaimsExpired(claims)
    /\ credential' = CredentialOf(claims)
    /\ UNCHANGED <<clock, person, claims, request, proof, verdict>>

\* getClaims deletes an expired record and the caller is refused.
RefuseCredential ==
    /\ Ongoing
    /\ claims # None
    /\ ClaimsExpired(claims)
    /\ claims' = None
    /\ UNCHANGED <<clock, person, Wallet>>

-----------------------------------------------------------------------------
(* The presentation *)

\* createPresentationRequest; the site starts over when it likes.
CreatePresentationRequest ==
    /\ Ongoing
    /\ \E r \in Requests :
         request' = [product |-> r.product, given |-> r.given,
                     policy |-> ResolvePolicy(r.product, r.given),
                     at |-> clock, expiresAt |-> clock + ChallengeTtl]
    /\ proof' = None
    /\ UNCHANGED <<clock, person, claims, credential, verdict>>

\* requestPresentation of the wallet: there is a proof only when the
\* credential satisfies the request.
Prove ==
    /\ Ongoing
    /\ request # None
    /\ credential # None
    /\ proof = None
    /\ Satisfies(credential, request.policy, request.at)
    /\ proof' = credential
    /\ UNCHANGED <<clock, person, claims, credential, request, verdict>>

\* Bug: the code is compared with the number, which it never equals.
DerivedCountryAgrees_Numeric(derived) ==
    derived.country # None => FALSE

\* numericToAlpha2 of the number in the proof; 0 has no country.
DerivedCountryAgrees(derived) ==
    derived.country # None =>
        proof.countryCode \in Listed /\ derived.country = proof.countryCode

\* verifyDerivedClaim by product; kyc_passed is true in all derivedClaims.
DerivedClaimsHold ==
    /\ request.product = "proof_of_age_18" => proof.derivedClaims.ageOver18
    /\ request.product = "proof_of_country_code" =>
         DerivedCountryAgrees(proof.derivedClaims)

\* Bug: the assertion of the request is all there is.
Fresh_AsRequested(now) == TRUE

\* Bug: the last instant is refused.
Fresh_Strict(now) ==
    request.policy.maxCredentialAgeDays # Null =>
        now - proof.issuedAt < request.policy.maxCredentialAgeDays

\* verifyFreshness
Fresh(now) ==
    request.policy.maxCredentialAgeDays # Null =>
        now - proof.issuedAt <= request.policy.maxCredentialAgeDays

\* credentialTrust of a credential, as the webhook and the demo issuer set it.
Evidence == IF proof.isDemoCredential THEN "locally-derived"
            ELSE "provider-normalized"
Assurance == IF proof.isDemoCredential THEN "low" ELSE "high"

EvidenceAllowed(p) ==
    p.allowedEvidenceClasses # Undefined =>
        Evidence \in p.allowedEvidenceClasses

\* The wallet that owns the credential, and so the proof, is the one expected
\* and the one that signed the holder-binding message.
OwnerExpected(p) == p.expectedOwner \in {Undefined, "holder"}
OwnerSigned(p) == p.signer = "holder"

\* The checks of the handler and of verifyPresentation in their order: the
\* code of a check and whether the presentation p passes it.
Checks(p) ==
    LET derived == "derivedClaims" \in p.attached /\ proof.derivedClaims # None
        trust == "credentialTrust" \in p.attached
    IN << <<"challenge_expired", clock < request.expiresAt>>,
          <<"owner_mismatch", OwnerExpected(p)>>,
          <<"derived_claim_mismatch", derived => DerivedClaimsHold>>,
          <<"stale_credential", Fresh(clock)>>,
          <<"demo_credential_not_allowed",
            trust => (p.allowDemoCredentials \/ ~proof.isDemoCredential)>>,
          <<"credential_evidence_class_not_allowed",
            trust => EvidenceAllowed(p)>>,
          <<"credential_assurance_too_low",
            trust => (p.minimumAssurance = "high" => Assurance = "high")>>,
          <<"holder_binding_failed", OwnerSigned(p)>> >>

Failing(p) == {i \in DOMAIN Checks(p) : ~Checks(p)[i][2]}

Outcome(p) ==
    IF Failing(p) = {} THEN "ok"
    ELSE LET first == CHOOSE i \in Failing(p) : \A j \in Failing(p) : i <= j
         IN Checks(p)[first][1]

\* POST /api/verify-presentation, or a site with a challenge store of its own
\* that calls verifyPresentation.
VerifyPresentation ==
    /\ Ongoing
    /\ proof # None
    /\ \E p \in Submissions :
         verdict' = [code |-> Outcome(p), at |-> clock, of |-> p]
    /\ UNCHANGED <<clock, person, claims, credential, request, proof>>

Tick ==
    /\ Ongoing
    /\ clock < MaxClock
    /\ clock' = clock + 1
    /\ UNCHANGED <<person, claims, Wallet>>

Next ==
    \/ ApproveDidit \/ ApproveIdNorm \/ IssueDemoClaims
    \/ IssueCredential \/ RefuseCredential
    \/ CreatePresentationRequest \/ Prove \/ VerifyPresentation
    \/ Tick

Spec == Init /\ [][Next]_vars

-----------------------------------------------------------------------------
(* Properties *)

Verified == verdict # None /\ verdict.code = "ok"

OfAge(policy) ==
    /\ policy.minAge = 18 => person.adult18 <= verdict.at
    /\ policy.minAge = 21 => person.adult21 <= verdict.at

\* The site named countries, and each by its code or not at all.
NamesCountries(list) ==
    list # Undefined /\ list \cap Listed # {} /\ list \cap Unlisted = {}

Blocked(list) == IF list = Undefined THEN {} ELSE list

\* Whoever is verified on Didit's word meets the policy at that moment: is of
\* age, in no blocked country that was reported, in an allowed one, with a
\* credential no older than asked, and signed for it with the owner's key
\* (buildPresentationRequest asserts it of an earlier moment and of numbers,
\* verifyPresentation has to close the gap).
VerifiedMeetsPolicy ==
    (Verified /\ proof.of.source = "didit") =>
        /\ OfAge(request.policy)
        /\ proof.of.country # None =>
             person.country \notin Blocked(request.given.countryBlocklist)
        /\ NamesCountries(request.given.countryAllowlist) =>
             person.country \in request.given.countryAllowlist
        /\ request.policy.maxCredentialAgeDays # Null =>
             verdict.at <= proof.issuedAt + request.policy.maxCredentialAgeDays
        /\ verdict.of.signer = "holder"
        /\ verdict.of.expectedOwner # "other"

\* A credential is re-issued as long as the claims are retained, and each time
\* its age starts again; so the review behind a verified presentation is at
\* most the retention older than the policy asks (getClaims, verifyFreshness).
ReviewIsRecent ==
    (Verified /\ request.policy.maxCredentialAgeDays # Null) =>
        verdict.at <= proof.of.verifiedAt + ClaimTtl
                        + request.policy.maxCredentialAgeDays

\* A credential tells the ages of the day it is issued, not those the provider
\* reported when it approved (buildNormalizedClaims, README.md:234); and the
\* metadata handed out with it never says more than its fields do, nor goes
\* with a demo credential, whatever records the wallet had before
\* (upsertClaims, issue-credential).
CredentialIsCurrent ==
    credential # None =>
        /\ credential.of.dateOfBirth =>
              /\ credential.ageOver18 <=> person.adult18 <= credential.issuedAt
              /\ credential.ageOver21 <=> person.adult21 <= credential.issuedAt
        /\ credential.derivedClaims # None =>
              /\ ~credential.isDemoCredential
              /\ credential.derivedClaims.ageOver18 => credential.ageOver18
              /\ credential.derivedClaims.ageOver21 => credential.ageOver21
              /\ Numeric(credential.derivedClaims.country) = credential.countryCode

\* A proof that could be made is not refused as stale at the moment of its
\* request: circuit and verifyFreshness agree on the boundary. And although
\* derivedClaims are as old as the approval and may lag behind the proof, a
\* holder who was of age then, and whose country has a number, is never turned
\* away for them (verifyPresentation's derived-claim checks).
RefusalsHaveReasons ==
    verdict # None =>
        /\ verdict.code = "stale_credential" => verdict.at > request.at
        /\ (verdict.code = "derived_claim_mismatch"
              /\ proof.of.source = "didit" /\ proof.of.dateOfBirth) =>
                \/ person.adult18 > proof.of.verifiedAt
                \/ proof.of.country \in Unlisted
=============================================================================
