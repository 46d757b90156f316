--------------------------- MODULE ChallengeRules ---------------------------
(* The data of services/verifier/src/challenges and the decision             *)
(* PresentationChallengeService.validateForPresentation takes on a record    *)
(* before it consumes it.  Nonce, claim reference and request JSON only ever *)
(* matter by being the issued ones or not, so a presentation says which of   *)
(* them differs; challenge ids are fresh UUIDs.                              *)
(* In this and in the modules that extend it a definition named X_Y is X     *)
(* with the plausible bug Y: no action uses it, the README says what it is   *)
(* for.                                                                      *)
EXTENDS Naturals

CONSTANTS
    Challenge,      \* challenge ids
    Audience,       \* allowed origins, the audiences of the verifier
    Updater,        \* passkey assertion-options calls
    None            \* absence: null, undefined, a missing key

\* PresentationChallengeRecord; auth names the assertion-options call whose
\* PasskeyAuthenticationRequest the record carries.
ChallengeRecord ==
    [audience : Audience, expiresAt : Nat,
     auth : Updater \cup {None}, status : {"issued", "consumed"}]

\* What the site is handed back: the challenge of the request envelope.
Handout == [audience : Audience, expiresAt : Nat, passkey : BOOLEAN]

\* The challenge part of a PresentationEnvelope, as its presenter sends it;
\* assertion names the assertion-options call its passkey signature answers.
Envelope ==
    [challenge : Challenge, audience : Audience, expiresAt : Nat,
     passkey : BOOLEAN, match : {"same", "nonce", "request"},
     assertion : Updater \cup {None}]

Refusal == {"unknown_challenge", "expired_challenge", "challenge_replay",
            "challenge_audience_mismatch", "challenge_nonce_mismatch",
            "challenge_request_mismatch"}

\* None is none of the values it stands in for.
ASSUME NoneIsOutside ==
    /\ None \notin Updater \cup Refusal
    /\ None \notin ChallengeRecord \cup Handout \cup Envelope

\* toChallengeRecord
ToChallengeRecord(handout) ==
    [audience |-> handout.audience, expiresAt |-> handout.expiresAt,
     auth |-> None, status |-> "issued"]

\* The envelope a wallet builds from a handout, with what it may get wrong.
Present(c, handout, match, assertion) ==
    [challenge |-> c, audience |-> handout.audience,
     expiresAt |-> handout.expiresAt, passkey |-> handout.passkey,
     match |-> match, assertion |-> assertion]

\* inferMissingChallengeError: all it has is what the presenter says.
InferMissing(env, now) ==
    IF env.expiresAt <= now THEN "expired_challenge" ELSE "unknown_challenge"

\* The checks of validateForPresentation that precede consume(), in order.
Validate(rec, env, origin, now) ==
    IF rec = None THEN InferMissing(env, now)
    ELSE IF rec.expiresAt <= now THEN "expired_challenge"
    ELSE IF rec.status = "consumed" THEN "challenge_replay"
    ELSE IF rec.audience # origin \/ env.audience # origin
         THEN "challenge_audience_mismatch"
    ELSE IF env.match = "nonce" THEN "challenge_nonce_mismatch"
    ELSE IF env.match = "request" THEN "challenge_request_mismatch"
    ELSE "ok"

\* What verifyPresentation may still answer once the challenge is consumed:
\* the passkey checks of verifyPasskeyBinding on the record consume() returned,
\* any verdict on the rest of the proof.
ProofVerdicts(rec, env) ==
    IF \/ env.assertion = None /\ ~env.passkey
       \/ env.assertion # None /\ env.assertion = rec.auth
    THEN {"verified", "proof_failed"}
    ELSE {"proof_failed"}
=============================================================================
