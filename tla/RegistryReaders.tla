--------------------------- MODULE RegistryReaders ---------------------------
(* Registry states and what reads the MintraRegistry account: claim proofs,  *)
(* the registry checks of verifyPresentationWithRegistry and the trust       *)
(* resolution of the verifier service.                                       *)
(* A registry state is what the operators' state file holds, normalized (no  *)
(* duplicates, sorted): the published commitments and, of each commitment    *)
(* with a status, whether it is cleared (revoked: false) or revoked.         *)
(* Commitments are natural numbers, so that they have an order.              *)
EXTENDS Naturals, Sequences, FiniteSets, MerkleProofs

EmptyState == [listed |-> {}, cleared |-> {}, revoked |-> {}]

\* normalizeRegistryAttestationState leaves lists without duplicates, in order.
Sorted(S) ==
    CHOOSE list \in [1..Cardinality(S) -> S] :
        \A i, j \in 1..Cardinality(S) : i < j => list[i] < list[j]

CredentialLeaves(state) ==
    LET commitments == Sorted(state.listed)
    IN  [i \in DOMAIN commitments |-> HashCredentialLeaf(commitments[i])]

Statuses(state) ==
    LET commitments == Sorted(state.cleared \cup state.revoked)
    IN  [i \in DOMAIN commitments |->
            [commitment |-> commitments[i],
             revoked    |-> commitments[i] \in state.revoked]]

RevocationLeaves(state) ==
    LET statuses == Statuses(state)
    IN  [i \in DOMAIN statuses |-> HashRevocationLeaf(statuses[i])]

CredentialRoot(state) == MerkleRoot(CredentialLeaves(state))

RevocationRoot(state) == MerkleRoot(RevocationLeaves(state))

\* Bug: the new state starts from the commitments alone.
UpsertCredentialCommitment_DropStatuses(state, c) ==
    [EmptyState EXCEPT !.listed = state.listed \cup {c}]

UpsertCredentialCommitment(state, c) ==
    [state EXCEPT !.listed = @ \cup {c}]

SetRevocationStatus(state, c, revoked) ==
    [state EXCEPT !.cleared = IF revoked THEN @ \ {c} ELSE @ \cup {c},
                  !.revoked = IF revoked THEN @ \cup {c} ELSE @ \ {c}]

-----------------------------------------------------------------------------
(* Claim proofs *)

\* createRegistryClaimProof finds the leaf of the commitment in either list.
Provable(state, c) == c \in state.listed /\ c \in state.cleared \cup state.revoked

Position(seq, x) == (CHOOSE i \in DOMAIN seq : seq[i] = x) - 1

CreateRegistryClaimProof(state, c) ==
    LET leaf == [commitment |-> c, revoked |-> c \in state.revoked]
        credentials == CredentialLeaves(state)
        revocations == RevocationLeaves(state)
    IN  [commitment      |-> c,
         inclusionProof  |-> CreateMerkleProof(credentials,
                                 Position(credentials, HashCredentialLeaf(c))),
         revocationLeaf  |-> leaf,
         revocationProof |-> CreateMerkleProof(revocations,
                                 Position(revocations, HashRevocationLeaf(leaf)))]

\* Bug: the status of the leaf is not looked at.
VerifyRegistryClaimProof_AnyStatus(proof) ==
    /\ HashCredentialLeaf(proof.commitment) = proof.inclusionProof.leafHash
    /\ VerifyMerkleProof(proof.inclusionProof)
    /\ HashRevocationLeaf(proof.revocationLeaf) = proof.revocationProof.leafHash
    /\ proof.revocationLeaf.commitment = proof.commitment
    /\ VerifyMerkleProof(proof.revocationProof)

VerifyRegistryClaimProof(proof) ==
    /\ HashCredentialLeaf(proof.commitment) = proof.inclusionProof.leafHash
    /\ VerifyMerkleProof(proof.inclusionProof)
    /\ HashRevocationLeaf(proof.revocationLeaf) = proof.revocationProof.leafHash
    /\ proof.revocationLeaf.commitment = proof.commitment
    /\ VerifyMerkleProof(proof.revocationProof)
    /\ ~proof.revocationLeaf.revoked

\* A digest is 64 hexadecimal digits; hexDigestToField makes it the field
\* element the contract stores, and the node reports that one in decimal.
Hex(digest) == <<"hex", digest>>

Decimal(digest) == <<"decimal", digest>>

\* The refusals of one required claim, in the order of the code: account is
\* the registry account, att the attestation behind the commitment, shown the
\* owner and the value of the claim in the verified presentation.
RegistryClaimChecks(proof, att, account, shown, now) ==
    << <<"registry_proof_invalid", VerifyRegistryClaimProof(proof)>>,
       <<"registry_subject_mismatch", att.subject = shown.owner>>,
       <<"registry_issuer_mismatch", att.issuer = account.anchors.issuer>>,
       <<"registry_attestation_expired", ~(att.expiresAt < now)>>,
       <<"registry_root_mismatch",
         Hex(proof.inclusionProof.root) = Decimal(CredentialRoot(account.state))>>,
       <<"registry_revocation_root_mismatch",
         Hex(proof.revocationProof.root)
             = Decimal(RevocationRoot(account.state))>>,
       <<"registry_claim_value_mismatch", att.value = shown.value>> >>

RegistryVerified(proof, att, account, shown, now) ==
    LET checks == RegistryClaimChecks(proof, att, account, shown, now)
    IN  \A i \in DOMAIN checks : checks[i][2]

-----------------------------------------------------------------------------
(* Trust resolution *)

CONSTANTS
    Unset,          \* an issuer or a verification key the account has not got
    Issuer,
    Program         \* builds of the proof programs: their verification keys

Anchors ==
    [issuer : Issuer \cup {Unset}, program : Program \cup {Unset}]

TrustModes == {"auto", "registry", "env"}

\* TRUST_SOURCE, TRUSTED_ISSUER_PUBLIC_KEY, whether MINTRA_REGISTRY_ADDRESS
\* and MINA_GRAPHQL_URL are set, and the programs the verifier compiled.
TrustSettings ==
    [mode : TrustModes, envIssuer : Issuer \cup {Unset}, configured : BOOLEAN,
     program : Program]

EnvContext(s) ==
    IF s.envIssuer # Unset THEN [source |-> "env", issuer |-> s.envIssuer]
    ELSE [source |-> "unconfigured", issuer |-> Unset]

\* Bug: the hashes of the verification keys are not compared.
ResolveTrust_AnyProgram(s, found, anchors) ==
    IF s.mode # "env" /\ s.configured
    THEN IF found
         THEN [source |-> "registry", issuer |-> anchors.issuer]
         ELSE IF s.mode = "registry" THEN [source |-> "failed", issuer |-> Unset]
         ELSE EnvContext(s)
    ELSE IF s.mode = "registry" /\ s.envIssuer = Unset
         THEN [source |-> "failed", issuer |-> Unset]
    ELSE EnvContext(s)

\* found says whether the account could be loaded.  "failed" stands for the
\* error that keeps buildVerifierApp from starting.
ResolveTrust(s, found, anchors) ==
    IF s.mode # "env" /\ s.configured
    THEN IF found /\ anchors.program = s.program
         THEN [source |-> "registry", issuer |-> anchors.issuer]
         ELSE IF s.mode = "registry" THEN [source |-> "failed", issuer |-> Unset]
         ELSE EnvContext(s)
    ELSE IF s.mode = "registry" /\ s.envIssuer = Unset
         THEN [source |-> "failed", issuer |-> Unset]
    ELSE EnvContext(s)
=============================================================================
