------------------------------- MODULE AgeGate -------------------------------
(* A MintraAgeGate account and the transactions sent to it, over the proofs  *)
(* wallets hold (ZkProofs). A method runs, and its proof is made, on what    *)
(* the account holds when the transaction is built; getAndRequireEquals      *)
(* makes the values read conditions of the transaction, which the network    *)
(* checks when it includes it, later and in any order, or never.             *)
EXTENDS ZkProofs

CONSTANTS
    Policies,       \* [minAge, requireKycPassed] the owner of the gate sets
    MaxGateSends    \* bound: transactions sent to the gate

ASSUME AgeGateConstants ==
    /\ Policies \subseteq [minAge : Nat, requireKycPassed : BOOLEAN]
    /\ MaxGateSends \in Nat

VARIABLES
    gate,       \* the on-chain state of the account
    pending,    \* transactions sent, not included
    sends,      \* what the bound MaxGateSends counts
    passed      \* history: the passages included: [method, proofs]

gateVars == <<gate, pending, sends, passed>>
vars == <<zkVars, gateVars>>

\* The state of a fresh account is zero; the keys of the two programs are
\* written together.
Undeployed == [keys |-> "zero", minAge |-> 0, requireKycPassed |-> FALSE]

Initialized(policy) ==
    [keys |-> "set", minAge |-> policy.minAge,
     requireKycPassed |-> policy.requireKycPassed]

GateInit ==
    /\ gate = Undeployed
    /\ pending = {}
    /\ sends = 0
    /\ passed = {}

AgeProofs == {proof \in proofs : proof.request.type = "age"}
KycProofs == {proof \in proofs : proof.request.type = "kyc"}

-----------------------------------------------------------------------------
(* The methods, as the transactions they make *)

\* A transaction: what it did, the fields of the state it requires to be as
\* they were, and what it sets.
Transaction(method, of, fields, next) ==
    [method |-> method, proofs |-> of,
     requires |-> [field \in fields |-> gate[field]], next |-> next]

\* Bug: the threshold is read with get(), which requires nothing.
ProveAgeFields_NotRequired == {"keys"}

ProveAgeFields == {"keys", "minAge"}

\* Bug: the keys are looked at, and not required.
Initialize_NotRequired(policy) ==
    IF gate.keys = "zero"
    THEN {Transaction("initialize", {}, {}, Initialized(policy))} ELSE {}

Initialize(policy) ==
    IF gate.keys = "zero"
    THEN {Transaction("initialize", {}, {"keys"}, Initialized(policy))} ELSE {}

UpdatePolicy(policy) ==
    {Transaction("updatePolicy", {}, {}, Initialized(policy))}

\* The verification key that comes with a proof must be the stored one.
VerifiedAge(proof) == gate.keys = "set" /\ proof.publicInput.minAge >= gate.minAge

ProveAge ==
    {Transaction("proveAge", {proof}, ProveAgeFields, gate) :
        proof \in {p \in AgeProofs : VerifiedAge(p)}}

ProveKycPassed ==
    {Transaction("proveKycPassed", {proof}, {"keys", "requireKycPassed"}, gate) :
        proof \in {p \in KycProofs : gate.keys = "set" /\ gate.requireKycPassed}}

ProveAgeOnly ==
    {Transaction("proveAgeOnly", {proof},
                 ProveAgeFields \cup {"requireKycPassed"}, gate) :
        proof \in {p \in AgeProofs : VerifiedAge(p) /\ ~gate.requireKycPassed}}

ProveAgeAndKycPassed ==
    {Transaction("proveAgeAndKycPassed", {pair[1], pair[2]},
                 ProveAgeFields \cup {"requireKycPassed"}, gate) :
        pair \in {p \in AgeProofs \X KycProofs :
                      VerifiedAge(p[1]) /\ gate.requireKycPassed}}

Passages == ProveAge \cup ProveKycPassed \cup ProveAgeOnly \cup ProveAgeAndKycPassed

-----------------------------------------------------------------------------
(* Sending and inclusion *)

\* deploy.ts signs the initialize with the deployer's key alone, although the
\* method requires the signature of the account; who calls it with both keys
\* has it included.
SendInitialize(policy, signed) ==
    /\ sends < MaxGateSends
    /\ sends' = sends + 1
    /\ \E t \in Initialize(policy) :
         pending' = IF signed THEN pending \cup {t} ELSE pending
    /\ UNCHANGED <<zkVars, gate, passed>>

\* update-policy.ts signs with both keys.
SendUpdatePolicy(policy) ==
    /\ sends < MaxGateSends
    /\ sends' = sends + 1
    /\ pending' = pending \cup UpdatePolicy(policy)
    /\ UNCHANGED <<zkVars, gate, passed>>

SendPassage ==
    /\ sends < MaxGateSends
    /\ sends' = sends + 1
    /\ \E t \in Passages : pending' = pending \cup {t}
    /\ UNCHANGED <<zkVars, gate, passed>>

Include(t) ==
    /\ \A field \in DOMAIN t.requires : gate[field] = t.requires[field]
    /\ gate' = IF t.method \in {"initialize", "updatePolicy"} THEN t.next ELSE gate
    /\ passed' = IF t.method \in {"initialize", "updatePolicy"} THEN passed
                 ELSE passed \cup {[method |-> t.method, proofs |-> t.proofs]}
    /\ pending' = pending \ {t}
    /\ UNCHANGED <<zkVars, sends>>

GateNext ==
    \/ \E policy \in Policies :
         \/ SendUpdatePolicy(policy)
         \/ \E signed \in BOOLEAN : SendInitialize(policy, signed)
    \/ SendPassage
    \/ \E t \in pending : Include(t)

Init == ZkInit /\ GateInit

Next ==
    \/ ZkNext /\ UNCHANGED gateVars
    \/ GateNext

Spec == Init /\ [][Next]_vars

-----------------------------------------------------------------------------
(* Properties *)

TypeOK ==
    /\ secrets \in [Provider -> Secret \cup {None}]
    /\ today \in DOMAIN Days
    /\ events \in 0..MaxEvents
    /\ Cardinality(bundles) <= MaxBundles
    /\ Cardinality(proofs) <= MaxProofs
    /\ \A proof \in proofs : proof.bundle \in bundles /\ proof.holder \in User
    /\ gate \in {Undeployed} \cup {Initialized(policy) : policy \in Policies}
    /\ sends \in 0..MaxGateSends

\* The proofs of a passage hold against the policy at its inclusion, also when
\* that changed after the transaction was made: the holder of an age proof had
\* reached the age the gate now asks for on the date the proof names, whoever
\* shows KYC is approved, and a method that reads requireKycPassed passes only
\* while the flag is still what it read.
\* The contract promises no more.  proveAge does not read the flag, so that a
\* gate with requireKycPassed lets an age proof through alone, although the
\* README of the package lists the flag among what the gate "can currently
\* enforce"; no method compares the date of a proof with the present; and the
\* two proofs of proveAgeAndKycPassed may be those of two holders.
PassHoldsAtInclusion ==
    [][\A passage \in passed' \ passed :
          /\ \A proof \in passage.proofs :
                CASE proof.request.type = "age" ->
                       HasReachedAge(DobOf[proof.holder], gate.minAge,
                                     proof.publicInput.reference)
                  [] OTHER -> proof.holder \in approved
          /\ passage.method = "proveAgeOnly" => ~gate.requireKycPassed
          /\ passage.method \in {"proveKycPassed", "proveAgeAndKycPassed"}
                => gate.requireKycPassed]_vars

\* Of all initialize transactions one at most takes effect, and none once a
\* policy is set.
InitializedOnce ==
    [][\A t \in pending \ pending' :
          t.method = "initialize" => gate = Undeployed]_vars
=============================================================================
