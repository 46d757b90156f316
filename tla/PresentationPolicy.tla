------------------------- MODULE PresentationPolicy -------------------------
(* What a relying party asks of a credential and what the request asserts    *)
(* in its circuit: the proof products, normalizeVerifierPolicy,              *)
(* resolveProofProductPolicy and buildPresentationRequest of verifier-core.  *)
EXTENDS Integers

CONSTANTS
    Listed,         \* two-letter codes i18n-iso-countries has a number for
    Unlisted,       \* two-letter codes it does not know
    Unknown,        \* longer inputs it cannot translate
    NoCode,         \* the number 0 of a credential without a country
    Null,
    Undefined,
    DefaultMaxAge   \* maxCredentialAgeDays of every product

ASSUME PolicyConstants ==
    /\ Listed \cap (Unlisted \cup Unknown) = {}
    /\ Unlisted \cap Unknown = {}
    /\ NoCode \notin Listed \cup Unlisted \cup Unknown
    /\ Null # Undefined
    /\ Null \notin Int
    /\ DefaultMaxAge \in Nat \ {0}

Products == {"proof_of_age_18", "proof_of_kyc_passed", "proof_of_country_code"}

\* normalizeCountryList: what has no translation is left out.
NormalizeCountryList(list) == list \ Unknown

\* alpha2ToNumeric; a country and its number are the same model value.
Numeric(code) == IF code \in Listed THEN code ELSE NoCode

DefaultPolicy(product) ==
    [minAge |-> IF product = "proof_of_age_18" THEN 18 ELSE Null,
     requireKycPassed |-> TRUE,
     countryAllowlist |-> {},
     countryBlocklist |-> {},
     maxCredentialAgeDays |-> DefaultMaxAge]

\* The country lists of an override; undefined is not the empty list.
CountryLists == {Undefined} \cup SUBSET (Listed \cup Unlisted \cup Unknown)

\* A policy override as CreatePresentationRequestSchema lets it in.
Overrides ==
    [minAge : {18, 21, Null, Undefined},
     requireKycPassed : BOOLEAN \cup {Undefined},
     countryAllowlist : CountryLists,
     countryBlocklist : CountryLists,
     maxCredentialAgeDays : (Nat \ {0}) \cup {Null, Undefined}]

\* resolveProofProductPolicy: a null is an answer, only undefined takes the
\* default.
ResolvePolicy(product, given) ==
    LET Resolved(f) == IF given[f] = Undefined THEN DefaultPolicy(product)[f]
                       ELSE given[f]
    IN [minAge |-> Resolved("minAge"),
        requireKycPassed |-> Resolved("requireKycPassed"),
        countryAllowlist |-> NormalizeCountryList(Resolved("countryAllowlist")),
        countryBlocklist |-> NormalizeCountryList(Resolved("countryBlocklist")),
        maxCredentialAgeDays |-> Resolved("maxCredentialAgeDays")]

Policies ==
    [minAge : {18, 21, Null}, requireKycPassed : BOOLEAN,
     countryAllowlist : SUBSET (Listed \cup Unlisted),
     countryBlocklist : SUBSET (Listed \cup Unlisted),
     maxCredentialAgeDays : Nat \cup {Null}]

\* The lower bound on issuedAt that a request made at an instant carries.
MinIssuedAt(policy, now) == now - policy.maxCredentialAgeDays

\* The assertions of the request, over the fields of a credential.
Satisfies(credential, policy, requestedAt) ==
    /\ policy.minAge = 21 => credential.ageOver21
    /\ policy.minAge = 18 => credential.ageOver18
    /\ policy.requireKycPassed => credential.kycPassed
    /\ policy.countryAllowlist # {} =>
         credential.countryCode \in {Numeric(c) : c \in policy.countryAllowlist}
    /\ policy.countryBlocklist # {} =>
         credential.countryCode \notin {Numeric(c) : c \in policy.countryBlocklist}
    /\ policy.maxCredentialAgeDays # Null =>
         MinIssuedAt(policy, requestedAt) <= credential.issuedAt
=============================================================================
