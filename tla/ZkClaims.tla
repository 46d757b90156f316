------------------------------ MODULE ZkClaims ------------------------------
(* The circuits of packages/zk-claims, what is put into them, and the claims *)
(* of the API they must agree with. A circuit is the set of assertions it    *)
(* makes: a proof exists for exactly the inputs that satisfy them all.       *)
(* Poseidon is injective; a field element has a hexadecimal form, which      *)
(* source commitments carry, and a decimal one, which proofs carry.          *)
(* A definition named X_Y is X with the plausible bug Y: no action uses it.  *)
EXTENDS Integers, Sequences

MaxCountryPolicyEntries == 8

Poseidon(fields) == [hash |-> fields]

FieldToHex(field) == [form |-> "hexadecimal", field |-> field]

HexToField(hex) == hex.field

FieldToDecimal(field) == [form |-> "decimal", field |-> field]

-----------------------------------------------------------------------------
(* Dates, as Date.getUTC* and parseIsoDate give them: the second takes any   *)
(* two digits for a month or a day, the circuit then refuses them.           *)

Calendar == [year : Nat, month : 1..12, day : 1..31]

HasReachedAge(dateOfBirth, ageYears, now) ==
    LET thresholdYear == now.year - ageYears
    IN  \/ dateOfBirth.year < thresholdYear
        \/ /\ dateOfBirth.year = thresholdYear
           /\ \/ dateOfBirth.month < now.month
              \/ dateOfBirth.month = now.month /\ dateOfBirth.day <= now.day

\* Bug: the day is not looked at.
HadBirthday_MonthOnly(birth, reference) == birth.month <= reference.month

\* Bug: the birthday itself does not count.
HadBirthday_DayAfter(birth, reference) ==
    \/ birth.month < reference.month
    \/ birth.month = reference.month /\ birth.day < reference.day

HadBirthday(birth, reference) ==
    \/ birth.month < reference.month
    \/ birth.month = reference.month /\ birth.day <= reference.day

\* UInt32.sub asserts that it does not underflow, and Provable.if evaluates
\* both of its sides: the age and the age less one.
AgeYears(birth, reference) == reference.year - birth.year

AdjustedAge(birth, reference) ==
    IF HadBirthday(birth, reference) THEN AgeYears(birth, reference)
    ELSE AgeYears(birth, reference) - 1

AgeRelation(birth, minAge, reference) ==
    /\ reference.month \in 1..12 /\ reference.day \in 1..31
    /\ birth.month \in 1..12 /\ birth.day \in 1..31
    /\ birth.year < reference.year
    /\ minAge <= AdjustedAge(birth, reference)

-----------------------------------------------------------------------------
(* Commitments *)

CreateDateOfBirthCommitment(birth, salt) ==
    Poseidon(<<birth.year, birth.month, birth.day, salt>>)

CreateKycPassedCommitment(kycPassed, salt) ==
    Poseidon(<<IF kycPassed THEN 1 ELSE 0, salt>>)

CreateCountryCodeCommitment(code, salt) == Poseidon(<<code, salt>>)

-----------------------------------------------------------------------------
(* The three programs, over a public input and a witness *)

AgeCircuit(public, witness) ==
    /\ CreateDateOfBirthCommitment(witness.birth, witness.salt)
           = public.commitment
    /\ AgeRelation(witness.birth, public.minAge, public.reference)

KycCircuit(public, witness) ==
    /\ CreateKycPassedCommitment(witness.kycPassed, witness.salt)
           = public.commitment
    /\ witness.kycPassed

\* Bug: padding is taken for a country code.
Active_Padding(slots) == {slots[i] : i \in DOMAIN slots}

\* The slots of a list that are in use: 0 is padding.
Active(slots) == {slots[i] : i \in DOMAIN slots} \ {0}

\* Bug: without an allowlist everybody is in.
CountryRelation_OpenByDefault(code, allow, block) ==
    Active(allow) = {} \/ (code \in Active(allow) /\ code \notin Active(block))

CountryRelation(code, allow, block) ==
    /\ Active(allow) = {} \/ code \in Active(allow)
    /\ code \notin Active(block)

CountryCircuit(public, witness) ==
    /\ CreateCountryCodeCommitment(witness.code, witness.salt)
           = public.commitment
    /\ CountryRelation(witness.code, public.allow, public.block)

-----------------------------------------------------------------------------
(* Public inputs, from the metadata of a credential *)

\* Bug: the last slot is taken for a terminator.
PadCountryPolicyList_Cut(values) ==
    [i \in 1..MaxCountryPolicyEntries |->
        IF i <= Len(values) /\ i < MaxCountryPolicyEntries
        THEN values[i] ELSE 0]

PadCountryPolicyList(values) ==
    [i \in 1..MaxCountryPolicyEntries |->
        IF i <= Len(values) THEN values[i] ELSE 0]

FitsCountryPolicy(values) == Len(values) <= MaxCountryPolicyEntries

\* filter((value) => value > 0)
Positive(values) ==
    LET kept[n \in 0..Len(values)] ==
            IF n = 0 THEN <<>>
            ELSE IF values[n] > 0 THEN Append(kept[n - 1], values[n])
            ELSE kept[n - 1]
    IN  kept[Len(values)]

\* countryMembershipPublicInputToLists, toCountryPublicInputFromRawProof.
CountryPolicyList(slots) == Positive(slots)

ReadCommitment(commitments, key) == HexToField(commitments[key])

CreateAgeClaimPublicInput(commitments, minAge, reference) ==
    [commitment |-> ReadCommitment(commitments, "dob"),
     minAge |-> minAge, reference |-> reference]

CreateKycPassedPublicInput(commitments) ==
    [commitment |-> ReadCommitment(commitments, "kyc")]

CreateCountryMembershipPublicInput(commitments, allow, block) ==
    [commitment |-> ReadCommitment(commitments, "country"),
     allow |-> PadCountryPolicyList(allow),
     block |-> PadCountryPolicyList(block)]
=============================================================================
