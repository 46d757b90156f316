--------------------------- MODULE MCPresentations ---------------------------
(* Constants for the runs of Presentations.                                  *)
EXTENDS Presentations

\* A grown-up, one who turns 18 on the way in a country without a number, and
\* one who turns 18 and 21 on the way.
MCPeople(listed, unlisted) ==
    {[adult18 |-> 0, adult21 |-> 0, country |-> listed],
     [adult18 |-> 1, adult21 |-> MaxClock + 1, country |-> unlisted],
     [adult18 |-> 1, adult21 |-> 2, country |-> listed]}

CONSTANTS fr, de, xx, narnia

PeopleDef == MCPeople(fr, xx)

NoOverride ==
    [minAge |-> Undefined, requireKycPassed |-> Undefined,
     countryAllowlist |-> Undefined, countryBlocklist |-> Undefined,
     maxCredentialAgeDays |-> Undefined]

\* Every override at least once, country lists with entries of each kind.
RequestsDef ==
    {[product |-> "proof_of_age_18", given |-> NoOverride],
     [product |-> "proof_of_age_18",
      given |-> [NoOverride EXCEPT !.minAge = 21, !.requireKycPassed = FALSE]],
     [product |-> "proof_of_age_18",
      given |-> [NoOverride EXCEPT !.minAge = Null,
                                   !.maxCredentialAgeDays = Null]],
     [product |-> "proof_of_kyc_passed",
      given |-> [NoOverride EXCEPT !.countryBlocklist = {fr, xx}]],
     [product |-> "proof_of_country_code",
      given |-> [NoOverride EXCEPT !.countryAllowlist = {fr, narnia}]],
     [product |-> "proof_of_country_code",
      given |-> [NoOverride EXCEPT !.countryAllowlist = {de, xx},
                                   !.maxCredentialAgeDays = 2]]}

DiditReportsDef ==
    {[dateOfBirth |-> TRUE, country |-> TRUE],
     [dateOfBirth |-> TRUE, country |-> FALSE],
     [dateOfBirth |-> FALSE, country |-> TRUE]}

EstimatesDef ==
    {[over18 |-> TRUE, over21 |-> FALSE], [over18 |-> FALSE, over21 |-> FALSE]}

DemoFormsDef == {[over18 |-> TRUE, over21 |-> TRUE, kyc |-> TRUE,
                  country |-> TRUE]}

\* The demo web application attaches nothing and the verifier service sets no
\* trust options; the others are relying parties with the library.
AsDeployed ==
    [expectedOwner |-> Undefined, signer |-> "holder", attached |-> {},
     allowDemoCredentials |-> FALSE, allowedEvidenceClasses |-> Undefined,
     minimumAssurance |-> Undefined]

All == {"derivedClaims", "credentialTrust"}

SubmissionsDef ==
    {AsDeployed,
     [AsDeployed EXCEPT !.expectedOwner = "holder", !.signer = "other"],
     [AsDeployed EXCEPT !.expectedOwner = "other"],
     [AsDeployed EXCEPT !.attached = All],
     [AsDeployed EXCEPT !.attached = All, !.allowDemoCredentials = TRUE],
     [AsDeployed EXCEPT !.attached = All, !.allowDemoCredentials = TRUE,
                        !.allowedEvidenceClasses = {"provider-normalized"}],
     [AsDeployed EXCEPT !.attached = All, !.allowDemoCredentials = TRUE,
                        !.minimumAssurance = "high"]}
=============================================================================
