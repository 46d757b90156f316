------------------------ MODULE Presentations_proofs ------------------------
(* Proofs about Presentations: what a positive verdict says of the holder,   *)
(* for all people, policies, lifetimes and clocks.                           *)
EXTENDS Presentations, WellFoundedInduction, TLAPS

-----------------------------------------------------------------------------
(* The inductive invariant *)

\* A record tells no age the provider did not see reached, and no country but
\* the holder's own.
RecordIsTrue(r) ==
    /\ r.verifiedAt \in Nat
    /\ r.verifiedAt <= clock
    /\ r.country \in {person.country, None}
    /\ r.dateOfBirth => r.source = "didit"
    /\ (r.source = "didit" /\ ~r.dateOfBirth) => ~r.ageOver18 /\ ~r.ageOver21

\* The same of a credential, at the time it was issued.
CredentialIsTrue(c) ==
    /\ c.issuedAt \in Nat
    /\ c.issuedAt <= clock
    /\ c.of.verifiedAt \in Nat
    /\ c.issuedAt <= c.of.verifiedAt + ClaimTtl
    /\ c.of.country \in {person.country, None}
    /\ c.countryCode = Numeric(c.of.country)
    /\ c.of.source = "didit" =>
         /\ c.ageOver18 => person.adult18 <= c.issuedAt
         /\ c.ageOver21 => person.adult21 <= c.issuedAt

RequestIsResolved ==
    /\ [product |-> request.product, given |-> request.given] \in Requests
    /\ request.policy = ResolvePolicy(request.product, request.given)

\* What the last check of each kind left for the verdict.
VerdictIsChecked ==
    /\ verdict.at = clock
    /\ verdict.code = "ok" =>
         /\ Fresh(verdict.at)
         /\ verdict.of.signer = "holder"
         /\ verdict.of.expectedOwner # "other"

IInv ==
    /\ clock \in Nat
    /\ person \in People
    /\ claims # None => RecordIsTrue(claims)
    /\ credential # None => CredentialIsTrue(credential)
    /\ request # None => RequestIsResolved
    /\ proof # None =>
         /\ request # None
         /\ CredentialIsTrue(proof)
         /\ Satisfies(proof, request.policy, request.at)
    /\ verdict # None => proof # None /\ VerdictIsChecked

-----------------------------------------------------------------------------
(* Lemmas about single operators *)

\* The answer is "ok" when no check fails, and the code of a failing one
\* otherwise.
LEMMA OutcomeIsACheck ==
    ASSUME NEW p
    PROVE  \/ Outcome(p) = "ok" /\ \A i \in 1..8 : Checks(p)[i][2]
           \/ \E i \in 1..8 : ~Checks(p)[i][2] /\ Outcome(p) = Checks(p)[i][1]
<1>1. DOMAIN Checks(p) = 1..8
  BY DEF Checks
<1>2. CASE Failing(p) = {}
  BY <1>1, <1>2 DEF Failing, Outcome
<1>3. CASE Failing(p) # {}
  <2>2. Failing(p) \subseteq 1..8
    BY <1>1 DEF Failing
  <2>3. \E i \in Failing(p) : \A j \in Failing(p) : i <= j
    <3> DEFINE less == {ss \in Nat \X Nat : ss[1] < ss[2]}
    <3>1. IsWellFoundedOn(less, Nat)
      BY NatLessThanWellFounded DEF OpToRel
    <3>2. Failing(p) \subseteq Nat
      BY <2>2
    <3>4. \A a, b \in Nat : <<a, b>> \in less <=> a < b
      OBVIOUS
    <3> HIDE DEF less
    <3>3. \E i \in Failing(p) : \A j \in Failing(p) : <<j, i>> \notin less
      BY ONLY <1>3, <3>1, <3>2, WFMin
    <3>5. PICK i \in Failing(p) : \A j \in Failing(p) : <<j, i>> \notin less
      BY <3>3
    <3>6. ASSUME NEW j \in Failing(p) PROVE i <= j
      <4>1. ~(j < i)
        BY <3>2, <3>4, <3>5
      <4> QED
        BY <3>2, <4>1
    <3> QED
      BY <3>6
  <2> DEFINE first == CHOOSE i \in Failing(p) : \A j \in Failing(p) : i <= j
  <2>4. first \in Failing(p)
    BY <2>3
  <2>5. Outcome(p) = Checks(p)[first][1]
    BY <1>3 DEF Outcome
  <2>6. first \in 1..8 /\ ~Checks(p)[first][2]
    BY <1>1, <2>4 DEF Failing
  <2> HIDE DEF first
  <2> QED
    BY <2>5, <2>6
<1> QED
  BY <1>2, <1>3

\* The codes of the checks, in their order.
LEMMA CodesOfChecks ==
    ASSUME NEW p
    PROVE  /\ Checks(p)[1][1] = "challenge_expired"
           /\ Checks(p)[2][1] = "owner_mismatch"
           /\ Checks(p)[3][1] = "derived_claim_mismatch"
           /\ Checks(p)[4][1] = "stale_credential"
           /\ Checks(p)[5][1] = "demo_credential_not_allowed"
           /\ Checks(p)[6][1] = "credential_evidence_class_not_allowed"
           /\ Checks(p)[7][1] = "credential_assurance_too_low"
           /\ Checks(p)[8][1] = "holder_binding_failed"
BY DEF Checks

\* verifyPresentation answers "ok" only when no check failed; in particular
\* the proof is fresh and was signed for by its owner.
LEMMA OkPassesChecks ==
    ASSUME NEW p \in Submissions, Outcome(p) = "ok"
    PROVE  /\ Fresh(clock)
           /\ p.signer = "holder"
           /\ p.expectedOwner # "other"
<1>1. ASSUME NEW i \in 1..8 PROVE Checks(p)[i][1] # "ok"
  <2>1. i \in {1, 2, 3, 4, 5, 6, 7, 8}
    OBVIOUS
  <2> QED
    BY <2>1, CodesOfChecks
<1>4. \A i \in 1..8 : Checks(p)[i][2]
  BY <1>1, OutcomeIsACheck
<1>5. Fresh(clock)
  BY <1>4 DEF Checks
<1>6. OwnerSigned(p) /\ OwnerExpected(p)
  BY <1>4 DEF Checks
<1> QED
  BY <1>5, <1>6, PresentationBounds
     DEF OwnerSigned, OwnerExpected, PresentationBounds

\* A presentation refused for its derived claims has some and they do not
\* hold; one refused as stale is not fresh. Every answer is one of the Codes.
LEMMA RefusedForItsCheck ==
    ASSUME NEW p
    PROVE  /\ Outcome(p) = "derived_claim_mismatch" =>
                proof.derivedClaims # None /\ ~DerivedClaimsHold
           /\ Outcome(p) = "stale_credential" => ~Fresh(clock)
           /\ Outcome(p) \in Codes
<1>1. CASE Outcome(p) = "ok"
  BY <1>1 DEF Codes
<1>2. CASE \E i \in 1..8 : ~Checks(p)[i][2] /\ Outcome(p) = Checks(p)[i][1]
  <2>1. PICK i \in 1..8 : ~Checks(p)[i][2] /\ Outcome(p) = Checks(p)[i][1]
    BY <1>2
  <2>2. i \in {1, 2, 3, 4, 5, 6, 7, 8}
    OBVIOUS
  <2>3. Outcome(p) \in Codes
    BY <2>1, <2>2, CodesOfChecks DEF Codes
  <2>4. Outcome(p) = "derived_claim_mismatch" => ~Checks(p)[3][2]
    BY <2>1, <2>2, CodesOfChecks
  <2>5. Outcome(p) = "stale_credential" => ~Checks(p)[4][2]
    BY <2>1, <2>2, CodesOfChecks
  <2> QED
    BY <2>3, <2>4, <2>5 DEF Checks
<1> QED
  BY <1>1, <1>2, OutcomeIsACheck

\* A credential made from a true record within its retention is true: with a
\* date of birth its ages are those of the moment, without one Didit's records
\* have none.
LEMMA IssuedCredentialIsTrue ==
    ASSUME clock \in Nat, NEW r, RecordIsTrue(r), ~ClaimsExpired(r)
    PROVE  CredentialIsTrue(CredentialOf(r))
<1> DEFINE c == CredentialOf(r)
<1>1. /\ c.issuedAt = clock
      /\ c.of.verifiedAt = r.verifiedAt
      /\ c.of.country = r.country
      /\ c.of.source = r.source
      /\ c.countryCode = Numeric(r.country)
  BY Zenon DEF CredentialOf
<1>2. c.issuedAt <= c.of.verifiedAt + ClaimTtl
  BY <1>1, PresentationBounds
     DEF ClaimsExpired, RecordIsTrue, PresentationBounds
<1>3. /\ c.ageOver18 = NormalizedAges(r).ageOver18
      /\ c.ageOver21 = NormalizedAges(r).ageOver21
  BY Zenon DEF CredentialOf
<1>4. ASSUME r.source = "didit"
      PROVE  /\ NormalizedAges(r).ageOver18 => person.adult18 <= clock
             /\ NormalizedAges(r).ageOver21 => person.adult21 <= clock
  <2>1. CASE r.dateOfBirth
    BY <2>1 DEF NormalizedAges, HasReached18, HasReached21
  <2>2. CASE ~r.dateOfBirth
    BY <1>4, <2>2 DEF NormalizedAges, RecordIsTrue
  <2> QED
    BY <2>1, <2>2
<1> QED
  BY <1>1, <1>2, <1>3, <1>4 DEF CredentialIsTrue, RecordIsTrue

\* Didit reports a true record.
LEMMA DiditRecordIsTrue ==
    ASSUME clock \in Nat, NEW report \in DiditReports
    PROVE  RecordIsTrue(DiditClaims(report.dateOfBirth, Reported(report.country)))
<1> DEFINE r == DiditClaims(report.dateOfBirth, Reported(report.country))
<1>1. /\ r.source = "didit"
      /\ r.dateOfBirth = report.dateOfBirth
      /\ r.ageOver18 = (report.dateOfBirth /\ HasReached18)
      /\ r.ageOver21 = (report.dateOfBirth /\ HasReached21)
      /\ r.country = Reported(report.country)
      /\ r.verifiedAt = clock
  BY Zenon DEF DiditClaims
<1>2. ~r.dateOfBirth => ~r.ageOver18 /\ ~r.ageOver21
  BY <1>1, Zenon
<1> QED
  BY <1>1, <1>2 DEF RecordIsTrue, Reported

\* So does IdNorm, which sees neither date of birth nor country.
LEMMA IdNormRecordIsTrue ==
    ASSUME clock \in Nat, NEW over18, NEW over21
    PROVE  RecordIsTrue(IdNormClaims(over18, over21))
BY DEF RecordIsTrue, IdNormClaims

-----------------------------------------------------------------------------
(* The invariant is inductive *)

\* At the start there is nothing to be wrong about.
LEMMA InitIInv == Init => IInv
BY DEF Init, IInv

\* Each step keeps what records, credential, request, proof and verdict say.
LEMMA NextIInv == IInv /\ [Next]_vars => IInv'
<1> SUFFICES ASSUME IInv, [Next]_vars PROVE IInv'
  OBVIOUS
<1> USE DEF IInv
<1>1. CASE ApproveDidit
  <2>1. PICK report \in DiditReports :
          claims' = DiditClaims(report.dateOfBirth, Reported(report.country))
    BY <1>1 DEF ApproveDidit, Upsert
  <2>2. RecordIsTrue(claims')
    BY <2>1, DiditRecordIsTrue
  <2> QED
    BY <1>1, <2>2 DEF ApproveDidit, Wallet, Ongoing, RecordIsTrue,
                      CredentialIsTrue, RequestIsResolved
<1>2. CASE ApproveIdNorm
  <2>1. RecordIsTrue(claims')
    BY <1>2, IdNormRecordIsTrue DEF ApproveIdNorm, Upsert
  <2> QED
    BY <1>2, <2>1 DEF ApproveIdNorm, Wallet, Ongoing, RecordIsTrue,
                      CredentialIsTrue, RequestIsResolved
<1>3. CASE IssueDemoClaims
  <2>1. RecordIsTrue(claims')
    BY <1>3 DEF IssueDemoClaims, Upsert, Reported, RecordIsTrue
  <2> QED
    BY <1>3, <2>1 DEF IssueDemoClaims, Wallet, Ongoing, RecordIsTrue,
                      CredentialIsTrue, RequestIsResolved
<1>4. CASE IssueCredential
  <2>1. CredentialIsTrue(credential')
    BY <1>4, IssuedCredentialIsTrue DEF IssueCredential
  <2> QED
    BY <1>4, <2>1 DEF IssueCredential, Ongoing, RecordIsTrue,
                      CredentialIsTrue, RequestIsResolved
<1>5. CASE RefuseCredential
  BY <1>5 DEF RefuseCredential, Wallet, Ongoing, RecordIsTrue,
              CredentialIsTrue, RequestIsResolved
<1>6. CASE CreatePresentationRequest
  <2>1. RequestIsResolved'
    <3>1. PICK r \in Requests :
            request' = [product |-> r.product, given |-> r.given,
                        policy |-> ResolvePolicy(r.product, r.given),
                        at |-> clock, expiresAt |-> clock + ChallengeTtl]
      BY <1>6 DEF CreatePresentationRequest
    <3>2. r = [product |-> r.product, given |-> r.given]
      BY PresentationBounds DEF PresentationBounds
    <3>3. /\ request'.product = r.product
          /\ request'.given = r.given
          /\ request'.policy = ResolvePolicy(r.product, r.given)
      BY <3>1, Zenon
    <3> QED
      BY <3>2, <3>3 DEF RequestIsResolved
  <2> QED
    BY <1>6, <2>1 DEF CreatePresentationRequest, Ongoing, RecordIsTrue,
                      CredentialIsTrue
<1>7. CASE Prove
  BY <1>7 DEF Prove, Ongoing, RecordIsTrue, CredentialIsTrue,
              RequestIsResolved
<1>8. CASE VerifyPresentation
  <2>1. PICK p \in Submissions :
          verdict' = [code |-> Outcome(p), at |-> clock, of |-> p]
    BY <1>8 DEF VerifyPresentation
  <2>2. /\ verdict'.at = clock
        /\ verdict'.of = p
        /\ verdict'.code = Outcome(p)
    BY <2>1, Zenon
  <2>3. UNCHANGED <<clock, person, claims, credential, request, proof>>
    BY <1>8 DEF VerifyPresentation
  <2>4. VerdictIsChecked'
    BY <2>2, <2>3, OkPassesChecks DEF VerdictIsChecked, Fresh
  <2> QED
    BY <1>8, <2>3, <2>4 DEF VerifyPresentation, RecordIsTrue,
                            CredentialIsTrue, RequestIsResolved
<1>9. CASE Tick
  <2>1. clock' = clock + 1 /\ UNCHANGED <<person, claims, Wallet>>
    BY <1>9 DEF Tick
  <2>2. \A r : RecordIsTrue(r) => RecordIsTrue(r)'
    BY <2>1 DEF RecordIsTrue
  <2>3. \A c : CredentialIsTrue(c) => CredentialIsTrue(c)'
    BY <2>1 DEF CredentialIsTrue
  <2> QED
    BY <1>9, <2>1, <2>2, <2>3 DEF Tick, Wallet, Ongoing, RequestIsResolved
<1>10. CASE UNCHANGED vars
  BY <1>10 DEF vars, RecordIsTrue, CredentialIsTrue, RequestIsResolved,
               VerdictIsChecked, Fresh
<1> QED
  BY <1>1, <1>2, <1>3, <1>4, <1>5, <1>6, <1>7, <1>8, <1>9, <1>10 DEF Next

\* The invariant holds in every reachable state.
THEOREM Invariance == Spec => []IInv
<1>1. Init => IInv
  BY InitIInv
<1>2. IInv /\ [Next]_vars => IInv'
  BY NextIInv
<1> QED
  BY <1>1, <1>2, PTL DEF Spec

-----------------------------------------------------------------------------
(* What a positive verdict means *)

\* The resolved policy has the lists the site gave, less what has no
\* translation, and an age that is a number or null.
LEMMA ResolvedPolicy ==
    ASSUME RequestIsResolved
    PROVE  /\ request.policy.countryBlocklist = Blocked(request.given.countryBlocklist) \ Unknown
           /\ request.given.countryAllowlist # Undefined =>
                request.policy.countryAllowlist = request.given.countryAllowlist \ Unknown
           /\ request.given.countryAllowlist # Undefined =>
                request.given.countryAllowlist \subseteq Listed \cup Unlisted \cup Unknown
           /\ request.policy.maxCredentialAgeDays \in Nat \cup {Null}
<1>1. /\ request.product \in Products
      /\ request.given \in Overrides
  BY PresentationBounds DEF RequestIsResolved, PresentationBounds
<1>2. DefaultPolicy(request.product).maxCredentialAgeDays = DefaultMaxAge
      /\ DefaultPolicy(request.product).countryBlocklist = {}
  BY DEF DefaultPolicy
<1>3. request.policy.countryBlocklist
        = NormalizeCountryList(IF request.given.countryBlocklist = Undefined
                               THEN DefaultPolicy(request.product).countryBlocklist
                               ELSE request.given.countryBlocklist)
  BY DEF RequestIsResolved, ResolvePolicy
<1>4. request.policy.countryAllowlist
        = NormalizeCountryList(IF request.given.countryAllowlist = Undefined
                               THEN DefaultPolicy(request.product).countryAllowlist
                               ELSE request.given.countryAllowlist)
  BY DEF RequestIsResolved, ResolvePolicy
<1>5. request.policy.maxCredentialAgeDays
        = IF request.given.maxCredentialAgeDays = Undefined
          THEN DefaultPolicy(request.product).maxCredentialAgeDays
          ELSE request.given.maxCredentialAgeDays
  BY DEF RequestIsResolved, ResolvePolicy
<1>6. request.policy.maxCredentialAgeDays \in Nat \cup {Null}
  BY <1>1, <1>2, <1>5, PolicyConstants DEF Overrides, PolicyConstants
<1>7. request.given.countryAllowlist # Undefined =>
        request.given.countryAllowlist \subseteq Listed \cup Unlisted \cup Unknown
  <2>1. request.given.countryAllowlist \in CountryLists
    BY <1>1 DEF Overrides
  <2> QED
    BY <2>1 DEF CountryLists
<1>8. request.policy.countryBlocklist = Blocked(request.given.countryBlocklist) \ Unknown
  BY <1>2, <1>3 DEF NormalizeCountryList, Blocked
<1>9. request.given.countryAllowlist # Undefined =>
        request.policy.countryAllowlist = request.given.countryAllowlist \ Unknown
  BY <1>4 DEF NormalizeCountryList
<1> QED
  BY <1>6, <1>7, <1>8, <1>9

\* The invariant and a positive verdict give the policy, point by point.
LEMMA IInvMeetsPolicy == IInv => VerifiedMeetsPolicy
<1> SUFFICES ASSUME IInv, Verified, proof.of.source = "didit"
             PROVE  VerifiedMeetsPolicy
  BY DEF VerifiedMeetsPolicy
<1>1. /\ proof # None /\ verdict # None /\ verdict.code = "ok"
      /\ CredentialIsTrue(proof) /\ RequestIsResolved /\ VerdictIsChecked
      /\ Satisfies(proof, request.policy, request.at)
      /\ clock \in Nat /\ person \in People
  BY DEF IInv, Verified
<1>2. person.adult18 \in Nat /\ person.adult21 \in Nat
      /\ person.country \in Listed \cup Unlisted
  BY <1>1, PresentationBounds DEF PresentationBounds
<1>3. OfAge(request.policy)
  <2>1. proof.issuedAt \in Nat /\ proof.issuedAt <= verdict.at /\ verdict.at \in Nat
    BY <1>1 DEF CredentialIsTrue, VerdictIsChecked
  <2>2. /\ proof.ageOver18 => person.adult18 <= proof.issuedAt
        /\ proof.ageOver21 => person.adult21 <= proof.issuedAt
    BY <1>1 DEF CredentialIsTrue
  <2>3. /\ request.policy.minAge = 18 => proof.ageOver18
        /\ request.policy.minAge = 21 => proof.ageOver21
    BY <1>1 DEF Satisfies
  <2> QED
    BY <1>2, <2>1, <2>2, <2>3 DEF OfAge
<1>4. ASSUME proof.of.country # None
      PROVE  person.country \notin Blocked(request.given.countryBlocklist)
  <2>1. proof.countryCode = Numeric(person.country)
    BY <1>1, <1>4 DEF CredentialIsTrue
  <2>2. person.country \notin Unknown
    BY <1>2, PolicyConstants DEF PolicyConstants
  <2>3. person.country \notin request.policy.countryBlocklist
    BY <1>1, <2>1 DEF Satisfies
  <2> QED
    BY <1>1, <2>2, <2>3, ResolvedPolicy
<1>5. ASSUME NamesCountries(request.given.countryAllowlist)
      PROVE  person.country \in request.given.countryAllowlist
  <2> DEFINE list == request.given.countryAllowlist
  <2>1. /\ list # Undefined
        /\ list \subseteq Listed \cup Unknown
        /\ request.policy.countryAllowlist = list \ Unknown
        /\ request.policy.countryAllowlist # {}
    BY <1>1, <1>5, ResolvedPolicy, PolicyConstants
       DEF NamesCountries, PolicyConstants
  <2>2. PICK c \in list \ Unknown : proof.countryCode = Numeric(c)
    BY <1>1, <2>1 DEF Satisfies
  <2>3. c \in Listed /\ Numeric(proof.of.country) = c
    BY <1>1, <2>1, <2>2 DEF CredentialIsTrue, Numeric
  <2>4. proof.of.country = c
    BY <2>3, PolicyConstants DEF Numeric, PolicyConstants
  <2> QED
    BY <1>1, <2>2, <2>3, <2>4, PresentationBounds
       DEF CredentialIsTrue, PresentationBounds
<1>6. ASSUME request.policy.maxCredentialAgeDays # Null
      PROVE  verdict.at <= proof.issuedAt + request.policy.maxCredentialAgeDays
  BY <1>1, <1>6, ResolvedPolicy DEF VerdictIsChecked, Fresh, CredentialIsTrue
<1> QED
  BY <1>1, <1>3, <1>4, <1>5, <1>6 DEF VerifiedMeetsPolicy, VerdictIsChecked

\* A holder verified on Didit's word meets the site's policy at the moment of
\* the verdict, whoever the holder is and whatever the site asked.
THEOREM PolicyTheorem == Spec => []VerifiedMeetsPolicy
BY Invariance, IInvMeetsPolicy, PTL

\* The retention of claims and the maximal age of credentials add up.
LEMMA IInvReviewIsRecent == IInv => ReviewIsRecent
<1> SUFFICES ASSUME IInv, Verified, request.policy.maxCredentialAgeDays # Null
             PROVE  verdict.at <= proof.of.verifiedAt + ClaimTtl
                                    + request.policy.maxCredentialAgeDays
  BY DEF ReviewIsRecent
<1>1. /\ CredentialIsTrue(proof) /\ RequestIsResolved /\ VerdictIsChecked
      /\ verdict.code = "ok" /\ clock \in Nat
  BY DEF IInv, Verified
<1>2. request.policy.maxCredentialAgeDays \in Nat
  BY <1>1, ResolvedPolicy
<1>3. verdict.at - proof.issuedAt <= request.policy.maxCredentialAgeDays
  BY <1>1 DEF VerdictIsChecked, Fresh
<1> QED
  BY <1>1, <1>2, <1>3, PresentationBounds
     DEF VerdictIsChecked, CredentialIsTrue, PresentationBounds

\* No verified presentation rests on a review older than the policy's maximal
\* age and the retention together, however often the credential was renewed.
THEOREM ReviewTheorem == Spec => []ReviewIsRecent
BY Invariance, IInvReviewIsRecent, PTL

-----------------------------------------------------------------------------
(* What a refusal means *)

\* The metadata of a record are its own: none for the demo issuer, else the
\* country of the record and ages the record tells too or the holder had.
RecordCarries(r) ==
    /\ r.dateOfBirth => r.derivedClaims # None
    /\ r.derivedClaims # None =>
         /\ r.source # "demo"
         /\ r.derivedClaims.country = r.country
         /\ r.dateOfBirth =>
              /\ r.derivedClaims.ageOver18 <=> person.adult18 <= r.verifiedAt
              /\ r.derivedClaims.ageOver21 <=> person.adult21 <= r.verifiedAt
         /\ ~r.dateOfBirth =>
              /\ r.derivedClaims.ageOver18 => r.ageOver18
              /\ r.derivedClaims.ageOver21 => r.ageOver21

\* So are those of a credential; with a date of birth its ages are those of
\* the day it was issued, the ages of its metadata those of the review.
CredentialCarries(c) ==
    /\ c.of.verifiedAt <= c.issuedAt
    /\ c.isDemoCredential <=> c.of.source = "demo"
    /\ c.of.dateOfBirth =>
         /\ c.derivedClaims # None
         /\ c.ageOver18 <=> person.adult18 <= c.issuedAt
         /\ c.ageOver21 <=> person.adult21 <= c.issuedAt
         /\ c.derivedClaims.ageOver18 <=> person.adult18 <= c.of.verifiedAt
         /\ c.derivedClaims.ageOver21 <=> person.adult21 <= c.of.verifiedAt
    /\ c.derivedClaims # None =>
         /\ c.of.source # "demo"
         /\ c.derivedClaims.country = c.of.country
         /\ c.derivedClaims.ageOver18 => c.ageOver18
         /\ c.derivedClaims.ageOver21 => c.ageOver21

MInv ==
    /\ claims # None => RecordCarries(claims)
    /\ credential # None => CredentialCarries(credential)
    /\ proof # None => CredentialCarries(proof)
    /\ request # None => request.at \in Nat /\ request.at <= clock
    /\ RefusalsHaveReasons

\* The webhook derives the metadata from what it has just been told.
LEMMA DiditRecordCarries ==
    ASSUME person \in People, NEW report \in DiditReports
    PROVE  RecordCarries(DiditClaims(report.dateOfBirth, Reported(report.country)))
<1> DEFINE r == DiditClaims(report.dateOfBirth, Reported(report.country))
           d == [ageOver18 |-> report.dateOfBirth /\ HasReached18,
                 ageOver21 |-> report.dateOfBirth /\ HasReached21,
                 country |-> Reported(report.country)]
<1>1. /\ r.source = "didit"
      /\ r.dateOfBirth = report.dateOfBirth
      /\ r.ageOver18 = (report.dateOfBirth /\ HasReached18)
      /\ r.ageOver21 = (report.dateOfBirth /\ HasReached21)
      /\ r.country = Reported(report.country)
      /\ r.verifiedAt = clock
      /\ r.derivedClaims = d
  BY Zenon DEF DiditClaims
<1>2. /\ d.ageOver18 = (report.dateOfBirth /\ HasReached18)
      /\ d.ageOver21 = (report.dateOfBirth /\ HasReached21)
      /\ d.country = Reported(report.country)
  BY Zenon
<1>3. d # None
  <2>1. Reported(report.country) \in Country
    BY PresentationBounds DEF Country, Reported, PresentationBounds
  <2>2. d \in Derived
    BY <2>1 DEF Derived
  <2> QED
    BY <2>2, PresentationBounds DEF PresentationBounds
<1> HIDE DEF r, d
<1>4. RecordCarries(r)
  BY <1>1, <1>2, <1>3 DEF RecordCarries, HasReached18, HasReached21
<1> QED
  BY <1>4 DEF r

\* IdNorm's metadata repeat its estimates.
LEMMA IdNormRecordCarries ==
    ASSUME NEW over18, NEW over21
    PROVE  RecordCarries(IdNormClaims(over18, over21))
BY DEF RecordCarries, IdNormClaims

\* A credential takes the metadata of its record, and an age that was reached
\* at the review is reached when the credential is issued.
LEMMA IssuedCredentialCarries ==
    ASSUME clock \in Nat, person \in People,
           NEW r, RecordIsTrue(r), RecordCarries(r)
    PROVE  CredentialCarries(CredentialOf(r))
<1> DEFINE c == CredentialOf(r)
<1>1. /\ c.issuedAt = clock
      /\ c.isDemoCredential <=> r.source = "demo"
      /\ c.derivedClaims = r.derivedClaims
      /\ c.of.verifiedAt = r.verifiedAt
      /\ c.of.dateOfBirth = r.dateOfBirth
      /\ c.of.country = r.country
      /\ c.of.source = r.source
      /\ c.ageOver18 = NormalizedAges(r).ageOver18
      /\ c.ageOver21 = NormalizedAges(r).ageOver21
  BY Zenon DEF CredentialOf
<1>2. person.adult18 \in Nat /\ person.adult21 \in Nat
  BY PresentationBounds DEF PresentationBounds
<1>3. CASE r.dateOfBirth
  <2>1. /\ NormalizedAges(r).ageOver18 <=> person.adult18 <= clock
        /\ NormalizedAges(r).ageOver21 <=> person.adult21 <= clock
    BY <1>3 DEF NormalizedAges, HasReached18, HasReached21
  <2> HIDE DEF c
  <2>2. CredentialCarries(c)
    BY <1>1, <1>2, <1>3, <2>1 DEF RecordIsTrue, RecordCarries, CredentialCarries
  <2> QED
    BY <2>2 DEF c
<1>4. CASE ~r.dateOfBirth
  <2>1. /\ NormalizedAges(r).ageOver18 = r.ageOver18
        /\ NormalizedAges(r).ageOver21 = r.ageOver21
    BY <1>4, Zenon DEF NormalizedAges
  <2> HIDE DEF c
  <2>2. CredentialCarries(c)
    BY <1>1, <1>4, <2>1 DEF RecordIsTrue, RecordCarries, CredentialCarries
  <2> QED
    BY <2>2 DEF c
<1> QED
  BY <1>3, <1>4

\* Circuit and verifyFreshness draw the same line: what is stale at the
\* verdict was asked for earlier.
LEMMA StaleTakesTime ==
    ASSUME IInv, MInv, proof # None, ~Fresh(clock)
    PROVE  clock > request.at
<1>1. /\ CredentialIsTrue(proof)
      /\ Satisfies(proof, request.policy, request.at)
      /\ RequestIsResolved
      /\ request.at \in Nat /\ request.at <= clock /\ clock \in Nat
  BY DEF IInv, MInv
<1>2. request.policy.maxCredentialAgeDays \in Nat
  BY <1>1, ResolvedPolicy DEF Fresh
<1>3. clock - proof.issuedAt > request.policy.maxCredentialAgeDays
  BY <1>1, <1>2 DEF Fresh, CredentialIsTrue
<1>4. request.at - request.policy.maxCredentialAgeDays <= proof.issuedAt
  BY <1>1, <1>2, PolicyConstants DEF Satisfies, MinIssuedAt, PolicyConstants
<1> QED
  BY <1>1, <1>2, <1>3, <1>4 DEF CredentialIsTrue

\* Derived claims made from a date of birth lag behind the proof only where
\* the holder came of age after the review or the country has no number.
LEMMA MismatchIsLag ==
    ASSUME IInv, MInv, proof # None, proof.of.dateOfBirth,
           proof.derivedClaims # None, ~DerivedClaimsHold
    PROVE  \/ person.adult18 > proof.of.verifiedAt
           \/ proof.of.country \in Unlisted
<1>1. /\ CredentialIsTrue(proof)
      /\ CredentialCarries(proof)
      /\ person \in People
  BY DEF IInv, MInv
<1>2. person.adult18 \in Nat /\ person.country \in Listed \cup Unlisted
  BY <1>1, PresentationBounds DEF PresentationBounds
<1>3. CASE ~proof.derivedClaims.ageOver18
  BY <1>1, <1>2, <1>3 DEF CredentialIsTrue, CredentialCarries
<1>4. CASE ~DerivedCountryAgrees(proof.derivedClaims)
  <2>1. /\ proof.of.country # None
        /\ ~(proof.countryCode \in Listed /\ proof.of.country = proof.countryCode)
    BY <1>1, <1>4 DEF DerivedCountryAgrees, CredentialCarries
  <2>2. proof.of.country \in Listed \cup Unlisted
    BY <1>1, <1>2, <2>1 DEF CredentialIsTrue
  <2> QED
    BY <1>1, <2>1, <2>2 DEF CredentialIsTrue, Numeric
<1> QED
  BY <1>3, <1>4 DEF DerivedClaimsHold

\* At the start nobody has been refused.
LEMMA InitMInv == Init => MInv
BY DEF Init, MInv, RefusalsHaveReasons

\* Each step keeps what records and credentials carry, and a verdict is the
\* code of a check that failed.
LEMMA NextMInv == IInv /\ MInv /\ [Next]_vars => MInv'
<1> SUFFICES ASSUME IInv, MInv, [Next]_vars PROVE MInv'
  OBVIOUS
<1>0. clock \in Nat /\ person \in People
  BY DEF IInv
<1>a. ASSUME UNCHANGED <<person, request, proof, verdict>>
      PROVE  RefusalsHaveReasons'
  BY <1>a DEF MInv, RefusalsHaveReasons
<1>b. ASSUME person' = person
      PROVE  /\ \A r : RecordCarries(r)' <=> RecordCarries(r)
             /\ \A c : CredentialCarries(c)' <=> CredentialCarries(c)
  BY <1>b DEF RecordCarries, CredentialCarries
<1>1. ASSUME ApproveDidit \/ ApproveIdNorm \/ IssueDemoClaims PROVE MInv'
  <2>1. UNCHANGED <<clock, person, credential, request, proof, verdict>>
    BY <1>1 DEF ApproveDidit, ApproveIdNorm, IssueDemoClaims, Wallet
  <2>2. RecordCarries(claims')
    <3>1. CASE ApproveDidit
      BY <1>0, <3>1, DiditRecordCarries DEF ApproveDidit, Upsert
    <3>2. CASE ApproveIdNorm
      BY <3>2, IdNormRecordCarries DEF ApproveIdNorm, Upsert
    <3>3. CASE IssueDemoClaims
      BY <3>3 DEF IssueDemoClaims, Upsert, RecordCarries
    <3> QED
      BY <1>1, <3>1, <3>2, <3>3
  <2> QED
    BY <1>a, <1>b, <2>1, <2>2 DEF MInv
<1>4. CASE IssueCredential
  <2>1. UNCHANGED <<clock, person, claims, request, proof, verdict>>
    BY <1>4 DEF IssueCredential
  <2>2. CredentialCarries(credential')
    BY <1>0, <1>4, IssuedCredentialCarries DEF IssueCredential, IInv, MInv
  <2> QED
    BY <1>a, <1>b, <2>1, <2>2 DEF MInv
<1>5. CASE RefuseCredential
  <2>1. /\ UNCHANGED <<clock, person, credential, request, proof, verdict>>
        /\ claims' = None
    BY <1>5 DEF RefuseCredential, Wallet
  <2> QED
    BY <1>a, <1>b, <2>1 DEF MInv
<1>6. CASE CreatePresentationRequest
  <2>1. /\ UNCHANGED <<clock, person, claims, credential, verdict>>
        /\ proof' = None /\ verdict = None
    BY <1>6 DEF CreatePresentationRequest, Ongoing
  <2>2. request'.at = clock
    <3>1. PICK r \in Requests :
            request' = [product |-> r.product, given |-> r.given,
                        policy |-> ResolvePolicy(r.product, r.given),
                        at |-> clock, expiresAt |-> clock + ChallengeTtl]
      BY <1>6 DEF CreatePresentationRequest
    <3> QED
      BY <3>1, Zenon
  <2> QED
    BY <1>0, <1>b, <2>1, <2>2 DEF MInv, RefusalsHaveReasons
<1>7. CASE Prove
  <2>1. /\ UNCHANGED <<clock, person, claims, credential, request, verdict>>
        /\ proof' = credential /\ credential # None /\ verdict = None
    BY <1>7 DEF Prove, Ongoing
  <2> QED
    BY <1>b, <2>1 DEF MInv, RefusalsHaveReasons
<1>8. CASE VerifyPresentation
  <2>1. PICK p \in Submissions :
          verdict' = [code |-> Outcome(p), at |-> clock, of |-> p]
    BY <1>8 DEF VerifyPresentation
  <2>2. /\ verdict'.at = clock
        /\ verdict'.code = Outcome(p)
    BY <2>1, Zenon
  <2>3. /\ UNCHANGED <<clock, person, claims, credential, request, proof>>
        /\ proof # None
    BY <1>8 DEF VerifyPresentation
  <2>4. Outcome(p) = "stale_credential" => clock > request.at
    BY <2>3, RefusedForItsCheck, StaleTakesTime
  <2>5. (Outcome(p) = "derived_claim_mismatch" /\ proof.of.dateOfBirth) =>
          \/ person.adult18 > proof.of.verifiedAt
          \/ proof.of.country \in Unlisted
    BY <2>3, RefusedForItsCheck, MismatchIsLag
  <2>6. RefusalsHaveReasons'
    BY <2>2, <2>3, <2>4, <2>5 DEF RefusalsHaveReasons
  <2> QED
    BY <1>b, <2>3, <2>6 DEF MInv
<1>9. CASE Tick
  <2>1. clock' = clock + 1
        /\ UNCHANGED <<person, claims, credential, request, proof, verdict>>
    BY <1>9 DEF Tick, Wallet
  <2> QED
    BY <1>0, <1>a, <1>b, <2>1 DEF MInv
<1>10. CASE UNCHANGED vars
  BY <1>10, <1>a, <1>b DEF vars, MInv
<1> QED
  BY <1>1, <1>4, <1>5, <1>6, <1>7, <1>8, <1>9, <1>10 DEF Next

\* What a credential carries makes it current.
LEMMA InvCredentialIsCurrent == IInv /\ MInv => CredentialIsCurrent
BY DEF IInv, MInv, CredentialIsTrue, CredentialCarries, CredentialIsCurrent

\* A credential tells the ages of the day it is issued, and the metadata that
\* go with it never say more than it does, whatever records came before.
THEOREM CurrentTheorem == Spec => []CredentialIsCurrent
<1>1. Init => MInv
  BY InitMInv
<1>2. IInv /\ MInv /\ [Next]_vars => MInv'
  BY NextMInv
<1>3. IInv /\ MInv => CredentialIsCurrent
  BY InvCredentialIsCurrent
<1> QED
  BY <1>1, <1>2, <1>3, Invariance, PTL DEF Spec

\* A refusal as stale comes later than the request, and one for derived claims
\* finds a holder who came of age since the review or a country without number.
THEOREM RefusalTheorem == Spec => []RefusalsHaveReasons
<1>1. Init => MInv
  BY InitMInv
<1>2. IInv /\ MInv /\ [Next]_vars => MInv'
  BY NextMInv
<1>3. MInv => RefusalsHaveReasons
  BY DEF MInv
<1> QED
  BY <1>1, <1>2, <1>3, Invariance, PTL DEF Spec

-----------------------------------------------------------------------------
(* Types *)

\* What is written into the claims record is one.
LEMMA DiditClaimsType ==
    ASSUME clock \in Nat, NEW dob \in BOOLEAN, NEW country \in Country
    PROVE  DiditClaims(dob, country) \in ClaimsRecord
<1> DEFINE b18 == dob /\ HasReached18
           b21 == dob /\ HasReached21
           d == [ageOver18 |-> b18, ageOver21 |-> b21, country |-> country]
<1>1. b18 \in BOOLEAN /\ b21 \in BOOLEAN
  BY Zenon
<1>2. DiditClaims(dob, country) =
        [source |-> "didit", dateOfBirth |-> dob, ageOver18 |-> b18,
         ageOver21 |-> b21, kycPassed |-> TRUE, country |-> country,
         derivedClaims |-> d, verifiedAt |-> clock]
  BY Zenon DEF DiditClaims
<1> HIDE DEF b18, b21
<1>3. d \in Derived
  BY <1>1 DEF Derived
<1> HIDE DEF d
<1> QED
  BY <1>1, <1>2, <1>3 DEF ClaimsRecord

\* So is what IdNorm's estimates are written as.
LEMMA IdNormClaimsType ==
    ASSUME clock \in Nat, NEW over18 \in BOOLEAN, NEW over21 \in BOOLEAN
    PROVE  IdNormClaims(over18, over21) \in ClaimsRecord
<1> DEFINE d == [ageOver18 |-> over18, ageOver21 |-> over21, country |-> None]
<1>1. d \in Derived
  BY DEF Derived, Country
<1>2. IdNormClaims(over18, over21) =
        [source |-> "idnorm", dateOfBirth |-> FALSE, ageOver18 |-> over18,
         ageOver21 |-> over21, kycPassed |-> TRUE, country |-> None,
         derivedClaims |-> d, verifiedAt |-> clock]
  BY Zenon DEF IdNormClaims
<1> HIDE DEF d
<1> QED
  BY <1>1, <1>2 DEF ClaimsRecord, Country

\* A credential made from a record of claims has the fields of one.
LEMMA CredentialOfType ==
    ASSUME clock \in Nat, NEW r \in ClaimsRecord
    PROVE  CredentialOf(r) \in Credential
<1> DEFINE b18 == NormalizedAges(r).ageOver18
           b21 == NormalizedAges(r).ageOver21
           demo == r.source = "demo"
           of == [source |-> r.source, dateOfBirth |-> r.dateOfBirth,
                  country |-> r.country, verifiedAt |-> r.verifiedAt]
<1>1. b18 \in BOOLEAN /\ b21 \in BOOLEAN
  <2>1. CASE r.dateOfBirth
    BY <2>1 DEF NormalizedAges, HasReached18, HasReached21
  <2>2. CASE ~r.dateOfBirth
    BY <2>2 DEF NormalizedAges, ClaimsRecord
  <2> QED
    BY <2>1, <2>2
<1>2. demo \in BOOLEAN
  BY Zenon
<1>3. of \in Provenance
  BY DEF Provenance, ClaimsRecord
<1>4. Numeric(r.country) \in Listed \cup {NoCode}
  BY DEF Numeric
<1>5. CredentialOf(r) =
        [ageOver18 |-> b18, ageOver21 |-> b21, kycPassed |-> r.kycPassed,
         countryCode |-> Numeric(r.country), isDemoCredential |-> demo,
         issuedAt |-> clock, derivedClaims |-> r.derivedClaims, of |-> of]
  BY Zenon DEF CredentialOf
<1>6. r.kycPassed \in BOOLEAN /\ r.derivedClaims \in Derived \cup {None}
  BY DEF ClaimsRecord
<1> HIDE DEF b18, b21, demo, of
<1> QED
  BY <1>1, <1>2, <1>3, <1>4, <1>5, <1>6 DEF Credential

\* A resolved policy is a policy.
LEMMA ResolvePolicyType ==
    ASSUME NEW product \in Products, NEW given \in Overrides
    PROVE  ResolvePolicy(product, given) \in Policies
<1> DEFINE Resolved(f) == IF given[f] = Undefined THEN DefaultPolicy(product)[f]
                          ELSE given[f]
<1>1. Resolved("minAge") \in {18, 21, Null}
  BY DEF Overrides, DefaultPolicy
<1>2. Resolved("requireKycPassed") \in BOOLEAN
  BY DEF Overrides, DefaultPolicy
<1>3. Resolved("maxCredentialAgeDays") \in Nat \cup {Null}
  BY PolicyConstants DEF Overrides, DefaultPolicy, PolicyConstants
<1>4. NormalizeCountryList(Resolved("countryAllowlist"))
        \in SUBSET (Listed \cup Unlisted)
  BY DEF Overrides, DefaultPolicy, CountryLists, NormalizeCountryList
<1>5. NormalizeCountryList(Resolved("countryBlocklist"))
        \in SUBSET (Listed \cup Unlisted)
  BY DEF Overrides, DefaultPolicy, CountryLists, NormalizeCountryList
<1>6. ResolvePolicy(product, given) =
        [minAge |-> Resolved("minAge"),
         requireKycPassed |-> Resolved("requireKycPassed"),
         countryAllowlist |-> NormalizeCountryList(Resolved("countryAllowlist")),
         countryBlocklist |-> NormalizeCountryList(Resolved("countryBlocklist")),
         maxCredentialAgeDays |-> Resolved("maxCredentialAgeDays")]
  BY Zenon DEF ResolvePolicy
<1> HIDE DEF Resolved
<1> QED
  BY <1>1, <1>2, <1>3, <1>4, <1>5, <1>6 DEF Policies

\* Each step keeps the shapes.
LEMMA NextTypeOK == TypeOK /\ [Next]_vars => TypeOK'
<1> SUFFICES ASSUME TypeOK, [Next]_vars PROVE TypeOK'
  OBVIOUS
<1>0. clock \in Nat /\ MaxClock \in Nat
  BY PresentationBounds DEF TypeOK, PresentationBounds
<1>1. ASSUME ApproveDidit \/ ApproveIdNorm \/ IssueDemoClaims PROVE TypeOK'
  <2>1. UNCHANGED <<clock, person, credential, request, proof, verdict>>
    BY <1>1 DEF ApproveDidit, ApproveIdNorm, IssueDemoClaims, Wallet
  <2>2. \A known : Reported(known) \in Country
    BY PresentationBounds DEF TypeOK, Reported, Country, PresentationBounds
  <2>3. claims' \in ClaimsRecord
    <3>1. CASE ApproveDidit
      <4>1. PICK report \in DiditReports :
              claims' = DiditClaims(report.dateOfBirth, Reported(report.country))
        BY <3>1 DEF ApproveDidit, Upsert
      <4>2. report.dateOfBirth \in BOOLEAN
        BY PresentationBounds DEF PresentationBounds
      <4> QED
        BY <1>0, <2>2, <4>1, <4>2, DiditClaimsType
    <3>2. CASE ApproveIdNorm
      <4>1. PICK e \in Estimates : claims' = IdNormClaims(e.over18, e.over21)
        BY <3>2 DEF ApproveIdNorm, Upsert
      <4>2. e.over18 \in BOOLEAN /\ e.over21 \in BOOLEAN
        BY PresentationBounds DEF PresentationBounds
      <4> QED
        BY <1>0, <4>1, <4>2, IdNormClaimsType
    <3>3. CASE IssueDemoClaims
      <4>1. PICK form \in DemoForms :
              claims' = [source |-> "demo", dateOfBirth |-> FALSE,
                         ageOver18 |-> form.over18, ageOver21 |-> form.over21,
                         kycPassed |-> form.kyc,
                         country |-> Reported(form.country),
                         derivedClaims |-> None, verifiedAt |-> clock]
        BY <3>3 DEF IssueDemoClaims, Upsert
      <4>2. /\ form.over18 \in BOOLEAN /\ form.over21 \in BOOLEAN
            /\ form.kyc \in BOOLEAN
        BY PresentationBounds DEF PresentationBounds
      <4> QED
        BY <1>0, <2>2, <4>1, <4>2 DEF ClaimsRecord
    <3> QED
      BY <1>1, <3>1, <3>2, <3>3
  <2> QED
    BY <2>1, <2>3 DEF TypeOK
<1>2. CASE IssueCredential
  <2>1. credential' \in Credential
    BY <1>0, <1>2, CredentialOfType DEF IssueCredential, TypeOK
  <2> QED
    BY <1>2, <2>1 DEF IssueCredential, TypeOK
<1>3. CASE RefuseCredential
  BY <1>3 DEF RefuseCredential, Wallet, TypeOK
<1>4. CASE CreatePresentationRequest
  <2>1. PICK r \in Requests :
          request' = [product |-> r.product, given |-> r.given,
                      policy |-> ResolvePolicy(r.product, r.given),
                      at |-> clock, expiresAt |-> clock + ChallengeTtl]
    BY <1>4 DEF CreatePresentationRequest
  <2>2. r.product \in Products /\ r.given \in Overrides
    BY PresentationBounds DEF PresentationBounds
  <2>3. /\ request'.product = r.product
        /\ request'.policy = ResolvePolicy(r.product, r.given)
        /\ request'.at = clock
        /\ request'.expiresAt = clock + ChallengeTtl
    BY <2>1, Zenon
  <2>4. /\ UNCHANGED <<clock, person, claims, credential, verdict>>
        /\ proof' = None /\ verdict = None
    BY <1>4 DEF CreatePresentationRequest, Ongoing
  <2> QED
    BY <1>0, <2>2, <2>3, <2>4, ResolvePolicyType DEF TypeOK
<1>5. CASE Prove
  BY <1>5 DEF Prove, Ongoing, TypeOK
<1>6. CASE VerifyPresentation
  <2>1. PICK p \in Submissions :
          verdict' = [code |-> Outcome(p), at |-> clock, of |-> p]
    BY <1>6 DEF VerifyPresentation
  <2>2. /\ verdict'.code = Outcome(p)
        /\ verdict'.at = clock
        /\ verdict'.of = p
    BY <2>1, Zenon
  <2>3. Outcome(p) \in Codes
    BY RefusedForItsCheck
  <2> QED
    BY <1>0, <1>6, <2>2, <2>3 DEF VerifyPresentation, TypeOK
<1>7. CASE Tick
  BY <1>0, <1>7 DEF Tick, Wallet, Ongoing, TypeOK
<1>8. CASE UNCHANGED vars
  BY <1>8 DEF vars, TypeOK
<1> QED
  BY <1>1, <1>2, <1>3, <1>4, <1>5, <1>6, <1>7, <1>8 DEF Next

\* Records, credentials, requests and verdicts keep their shapes.
THEOREM TypeCorrect == Spec => []TypeOK
<1>1. Init => TypeOK
  BY PresentationBounds DEF Init, TypeOK, PresentationBounds
<1> QED
  BY <1>1, NextTypeOK, PTL DEF Spec
=============================================================================
