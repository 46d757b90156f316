--------------------------- MODULE AgeGate_proofs ---------------------------
(* Theorems about the circuits of ZkClaims, for every date, threshold and    *)
(* list, and about ZkProofs and AgeGate, for any users, documents, secrets,  *)
(* requests of relying parties, policies and bounds.                         *)
EXTENDS AgeGate, FiniteSetTheorems, SequenceTheorems, TLAPS

-----------------------------------------------------------------------------
(* The circuits *)

(* The age a circuit computes is the age of the calendar: for real dates and *)
(* a positive threshold age.ts (unsigned subtraction, adjustment by one      *)
(* before the birthday) and hasReachedAge of claim-state.ts agree.           *)
THEOREM AgeCircuitIsCalendar ==
    ASSUME NEW birth \in Calendar, NEW reference \in Calendar,
           NEW minAge \in Nat \ {0}
    PROVE  AgeRelation(birth, minAge, reference)
               <=> HasReachedAge(birth, minAge, reference)
<1> DEFINE years == reference.year - birth.year
<1>1. /\ birth.year \in Nat /\ birth.month \in 1..12 /\ birth.day \in 1..31
      /\ reference.year \in Nat /\ reference.month \in 1..12
      /\ reference.day \in 1..31
  BY DEF Calendar
<1>2. AgeRelation(birth, minAge, reference) <=>
          /\ birth.year < reference.year
          /\ minAge <= AdjustedAge(birth, reference)
  BY <1>1 DEF AgeRelation
<1>3. CASE HadBirthday(birth, reference)
  <2>1. AdjustedAge(birth, reference) = years
    BY <1>3 DEF AdjustedAge, AgeYears
  <2>2. HasReachedAge(birth, minAge, reference)
            <=> birth.year <= reference.year - minAge
    BY <1>1, <1>3 DEF HasReachedAge, HadBirthday
  <2> QED
    BY <1>1, <1>2, <2>1, <2>2
<1>4. CASE ~HadBirthday(birth, reference)
  <2>1. AdjustedAge(birth, reference) = years - 1
    BY <1>4 DEF AdjustedAge, AgeYears
  <2>2. HasReachedAge(birth, minAge, reference)
            <=> birth.year < reference.year - minAge
    BY <1>1, <1>4 DEF HasReachedAge, HadBirthday
  <2> QED
    BY <1>1, <1>2, <2>1, <2>2
<1> QED
  BY <1>3, <1>4

(* Whoever has reached an age has reached every lower one.                   *)
LEMMA ReachedLower ==
    ASSUME NEW birth \in Calendar, NEW reference \in Calendar,
           NEW high \in Nat, NEW low \in Nat, low <= high,
           HasReachedAge(birth, high, reference)
    PROVE  HasReachedAge(birth, low, reference)
<1>1. birth.year \in Nat /\ reference.year \in Nat
  BY DEF Calendar
<1> QED
  BY <1>1 DEF HasReachedAge

(* The slots of a padded list that are in use hold the values of the list.   *)
LEMMA ActiveOfPadded ==
    ASSUME NEW values \in Seq(Nat \ {0}), FitsCountryPolicy(values)
    PROVE  Active(PadCountryPolicyList(values))
               = {values[i] : i \in DOMAIN values}
<1> DEFINE slots == PadCountryPolicyList(values)
           n == Len(values)
<1>1. /\ n \in Nat /\ n <= 8
      /\ DOMAIN values = 1..n
      /\ \A i \in 1..n : values[i] \in Nat /\ values[i] # 0
  BY DEF FitsCountryPolicy, MaxCountryPolicyEntries
<1>2. /\ DOMAIN slots = 1..8
      /\ \A i \in 1..8 : slots[i] = IF i <= n THEN values[i] ELSE 0
  BY DEF PadCountryPolicyList, MaxCountryPolicyEntries
<1> HIDE DEF slots, n
<1>3. \A i \in 1..n : i \in 1..8 /\ slots[i] = values[i]
  BY <1>1, <1>2
<1>4. \A i \in 1..8 : slots[i] # 0 => i \in 1..n
  BY <1>1, <1>2
<1>5. Active(slots) = {values[i] : i \in 1..n}
  <2>1. Active(slots) = {slots[i] : i \in 1..8} \ {0}
    BY <1>2 DEF Active
  <2>2. ASSUME NEW x \in Active(slots)
        PROVE  \E i \in 1..n : x = values[i]
    BY <2>1, <1>3, <1>4
  <2>3. ASSUME NEW i \in 1..n
        PROVE  values[i] \in Active(slots)
    BY <2>1, <1>1, <1>3
  <2> QED
    BY <2>2, <2>3
<1> QED
  BY <1>1, <1>5 DEF slots

(* The country circuit decides membership in the lists that were asked for:  *)
(* padding them to eight slots (country.ts) neither adds nor drops a code.   *)
THEOREM CountryCircuitIsMembership ==
    ASSUME NEW code \in Nat, NEW allow \in Seq(Nat \ {0}),
           NEW block \in Seq(Nat \ {0}),
           FitsCountryPolicy(allow), FitsCountryPolicy(block)
    PROVE  CountryRelation(code, PadCountryPolicyList(allow),
                           PadCountryPolicyList(block))
               <=> /\ allow # <<>> => \E i \in DOMAIN allow : allow[i] = code
                   /\ \A i \in DOMAIN block : block[i] # code
<1>1. {allow[i] : i \in DOMAIN allow} = {} <=> allow = <<>>
  <2>1. DOMAIN allow = 1..Len(allow) /\ Len(allow) \in Nat
    OBVIOUS
  <2>2. DOMAIN allow = {} <=> allow = <<>>
    <3>1. allow = <<>> => Len(allow) = 0
      BY EmptySeq
    <3>2. allow # <<>> => Len(allow) >= 1
      BY EmptySeq
    <3> QED
      BY <2>1, <3>1, <3>2
  <2>3. {allow[i] : i \in DOMAIN allow} = {} <=> DOMAIN allow = {}
    OBVIOUS
  <2> QED
    BY <2>2, <2>3
<1>2. /\ Active(PadCountryPolicyList(allow)) = {allow[i] : i \in DOMAIN allow}
      /\ Active(PadCountryPolicyList(block)) = {block[i] : i \in DOMAIN block}
  BY ActiveOfPadded
<1> DEFINE allowed == {allow[i] : i \in DOMAIN allow}
           blocked == {block[i] : i \in DOMAIN block}
<1>3. /\ code \in allowed <=> \E i \in DOMAIN allow : allow[i] = code
      /\ code \notin blocked <=> \A i \in DOMAIN block : block[i] # code
  OBVIOUS
<1>4. CountryRelation(code, PadCountryPolicyList(allow),
                      PadCountryPolicyList(block))
          <=> (allowed = {} \/ code \in allowed) /\ code \notin blocked
  BY <1>2 DEF CountryRelation
<1> QED
  BY <1>1, <1>3, <1>4

-----------------------------------------------------------------------------
(* Proofs of relying parties *)

(* What a verification record says is true of its user.                      *)
RecordTrue(user, record) ==
    (record # None /\ record.version = "v2") =>
        user \in approved /\ record.dob \in {None, DobOf[user]}

(* Proof material is of the user it names.                                   *)
MaterialTrue(material) ==
    /\ material.userId \in User
    /\ material.userId \in approved
    /\ material.dob \in {None, DobOf[material.userId]}

BundleTrue(bundle) ==
    bundle.wallet = bundle.material.userId /\ MaterialTrue(bundle.material)

AgeProofTrue(proof) ==
    /\ proof.publicInput.minAge \in Nat
    /\ proof.publicInput.reference \in Calendar
    /\ HasReachedAge(DobOf[proof.holder], proof.publicInput.minAge,
                     proof.publicInput.reference)

ProofTrue(proof) ==
    /\ proof.holder \in User
    /\ proof.bundle \in bundles
    /\ proof.request.type = "age" => AgeProofTrue(proof)
    /\ proof.request.type = "kyc" => proof.holder \in approved

(* The inductive invariant of the API and the wallets: every record, bundle  *)
(* and proof is true of the user it is of.                                   *)
ZkInv ==
    /\ DOMAIN store = User
    /\ \A user \in User : RecordTrue(user, store[user])
    /\ \A bundle \in bundles : BundleTrue(bundle)
    /\ \A proof \in proofs : ProofTrue(proof)
    /\ secrets \in [Provider -> Secret \cup {None}]
    /\ today \in DOMAIN Days
    /\ events \in 0..MaxEvents
    /\ Cardinality(bundles) <= MaxBundles
    /\ Cardinality(proofs) <= MaxProofs

Digits == [year : 0..9999, month : 0..99, day : 0..99]

(* The fields of a date.                                                     *)
LEMMA DateFields ==
    /\ \A date \in Calendar : date.year \in Nat
    /\ \A date \in Digits : date.year \in Nat
    /\ \A date \in Digits :
          (date.month \in 1..12 /\ date.day \in 1..31) => date \in Calendar
<1>1. ASSUME NEW date \in Calendar PROVE date.year \in Nat
  BY DEF Calendar
<1>2. ASSUME NEW date \in Digits
      PROVE  /\ date.year \in Nat
             /\ (date.month \in 1..12 /\ date.day \in 1..31) => date \in Calendar
  <2> DEFINE Years == 0..9999
  <2>1. date.year \in Years
    BY DEF Digits
  <2>2. \A n \in Years : n \in Nat
    OBVIOUS
  <2>3. date = [year |-> date.year, month |-> date.month, day |-> date.day]
    BY DEF Digits
  <2> HIDE DEF Years
  <2>4. date.year \in Nat
    BY <2>1, <2>2, Zenon
  <2> QED
    BY <2>3, <2>4 DEF Calendar
<1> QED
  BY <1>1, <1>2

(* A request for an age asks for a real threshold on a date in digits.       *)
LEMMA AgeRequest ==
    ASSUME NEW request \in Requests, request.type = "age", today \in DOMAIN Days
    PROVE  /\ request.ageGte \in Nat \ {0}
           /\ request.reference.year \in Nat
           /\ request.reference \in Calendar \cup Digits
<1>1. PICK asked \in Asked : request = CreateZkPolicyRequest(asked, today)
  BY DEF Requests
<1>2. asked \in PolicyArguments
  BY <1>1, ZkConstants
<1>3. asked.type = "age"
  BY <1>1, <1>2 DEF CreateZkPolicyRequest, PolicyArguments
<1>4. /\ asked.minAge \in {18, 21}
      /\ asked.reference \in Digits \cup {None}
  BY <1>2, <1>3 DEF PolicyArguments, Digits
<1>5. Days[today] \in Calendar
  BY ZkConstants
<1>6. /\ request.ageGte = asked.minAge
      /\ request.reference = IF asked.reference = None THEN Days[today]
                             ELSE asked.reference
  BY <1>1, <1>3 DEF CreateZkPolicyRequest
<1>7. request.reference \in Calendar \cup Digits
  BY <1>4, <1>5, <1>6
<1>8. request.ageGte \in Nat \ {0}
  BY <1>4, <1>6
<1> QED
  BY <1>7, <1>8, DateFields

(* Requests are of one of the three types.                                   *)
LEMMA RequestType ==
    ASSUME NEW request \in Requests
    PROVE  request.type \in {"age", "kyc", "country"}
<1>1. PICK asked \in Asked : request = CreateZkPolicyRequest(asked, today)
  BY DEF Requests
<1>2. CASE asked.type = "age"
  BY <1>1, <1>2 DEF CreateZkPolicyRequest
<1>3. CASE asked.type = "kyc"
  BY <1>1, <1>3 DEF CreateZkPolicyRequest
<1>4. CASE asked.type # "age" /\ asked.type # "kyc"
  BY <1>1, <1>4 DEF CreateZkPolicyRequest
<1> QED
  BY <1>2, <1>3, <1>4

(* What is proved from true material is true: the circuit is the calendar,   *)
(* and refuses the dates that are none.                                      *)
LEMMA ProofFromTrueMaterial ==
    ASSUME NEW material, MaterialTrue(material), today \in DOMAIN Days,
           NEW request \in Requests, CanProve(material, request),
           NEW bundle, bundle.material = material, bundle.wallet = material.userId,
           NEW holder, holder = material.userId
    PROVE  LET proof == Proof(holder, bundle, request)
           IN  /\ proof.holder \in User
               /\ proof.bundle = bundle
               /\ proof.request.type = "age" => AgeProofTrue(proof)
               /\ proof.request.type = "kyc" => proof.holder \in approved
<1> DEFINE proof == Proof(holder, bundle, request)
<1>1. /\ proof.holder = holder /\ proof.bundle = bundle
      /\ proof.request = request
      /\ proof.publicInput = PublicInput(material, request)
  BY DEF Proof
<1> HIDE DEF proof
<1>2. holder \in User /\ holder \in approved
  BY DEF MaterialTrue
<1>3. ASSUME request.type = "age"
      PROVE  AgeProofTrue(proof)
  <2> DEFINE public == PublicInput(material, request)
  <2>1. public.minAge = request.ageGte /\ public.reference = request.reference
    BY <1>3 DEF PublicInput, CreateAgeClaimPublicInput
  <2>2. /\ material.dob # None
        /\ AgeCircuit(public, [birth |-> material.dob,
                               salt |-> material.salts["dob"]])
    BY <1>3 DEF CanProve
  <2>3. material.dob = DobOf[holder]
    BY <2>2 DEF MaterialTrue
  <2>4. AgeRelation(DobOf[holder], request.ageGte, request.reference)
    BY <2>1, <2>2, <2>3 DEF AgeCircuit
  <2>5. DobOf[holder] \in Calendar
    BY <1>2, ZkConstants
  <2>6. request.reference \in Calendar
    <3>1. request.reference.month \in 1..12 /\ request.reference.day \in 1..31
      BY <2>4 DEF AgeRelation
    <3> QED
      BY <3>1, <1>3, AgeRequest, DateFields
  <2>7. request.ageGte \in Nat \ {0}
    BY <1>3, AgeRequest
  <2>8. HasReachedAge(DobOf[holder], request.ageGte, request.reference)
    BY <2>4, <2>5, <2>6, <2>7, AgeCircuitIsCalendar
  <2> QED
    BY <1>1, <2>1, <2>6, <2>7, <2>8 DEF AgeProofTrue
<1> QED
  BY <1>1, <1>2, <1>3 DEF proof

(* The material rebuilt from a record that is true is true.                  *)
LEMMA MaterialOfRecord ==
    ASSUME NEW user \in User, RecordTrue(user, store[user]), HasZkInput(user)
    PROVE  /\ MaterialTrue(BuildZkProofInputPayload(user))
           /\ SignedBundle(user).wallet = user
           /\ SignedBundle(user).material = BuildZkProofInputPayload(user)
           /\ BuildZkProofInputPayload(user).userId = user
           /\ BundleTrue(SignedBundle(user))
<1>1. user \in approved /\ store[user].dob \in {None, DobOf[user]}
  BY DEF RecordTrue, HasZkInput
<1>2. /\ BuildZkProofInputPayload(user).userId = user
      /\ BuildZkProofInputPayload(user).dob = store[user].dob
  BY DEF BuildZkProofInputPayload
<1>3. /\ SignedBundle(user).wallet = user
      /\ SignedBundle(user).material = BuildZkProofInputPayload(user)
  BY DEF SignedBundle
<1> QED
  BY <1>1, <1>2, <1>3 DEF MaterialTrue, BundleTrue

(* Nothing that is true stops being true when approvals and bundles are      *)
(* added.                                                                    *)
LEMMA TruthIsKept ==
    ASSUME bundles \subseteq bundles', approved \subseteq approved'
    PROVE  /\ \A bundle : BundleTrue(bundle) => BundleTrue(bundle)'
           /\ \A proof : ProofTrue(proof) => ProofTrue(proof)'
           /\ \A user, record :
                 (RecordTrue(user, record) /\ record # None
                    /\ record.version = "v2") =>
                         user \in approved' /\ record.dob \in {None, DobOf[user]}
<1>1. ASSUME NEW bundle, BundleTrue(bundle) PROVE BundleTrue(bundle)'
  BY <1>1 DEF BundleTrue, MaterialTrue
<1>2. ASSUME NEW proof, ProofTrue(proof) PROVE ProofTrue(proof)'
  BY <1>2 DEF ProofTrue, AgeProofTrue
<1>3. ASSUME NEW user, NEW record, RecordTrue(user, record),
             record # None, record.version = "v2"
      PROVE  user \in approved' /\ record.dob \in {None, DobOf[user]}
  BY <1>3 DEF RecordTrue
<1> QED
  BY <1>1, <1>2, <1>3

(* The invariant holds in the beginning.                                     *)
LEMMA ZkInvInit == ASSUME ZkInit PROVE ZkInv
<1>1. Cardinality({}) = 0
  BY FS_EmptySet
<1>2. today \in DOMAIN Days
  BY ZkConstants, EmptySeq DEF ZkInit
<1>3. secrets \in [Provider -> Secret \cup {None}]
  BY DEF ZkInit
<1>4. \A user \in User : RecordTrue(user, store[user])
  BY DEF ZkInit, RecordTrue
<1> QED
  BY <1>1, <1>2, <1>3, <1>4, ZkConstants DEF ZkInit, ZkInv

(* An approval writes what is on the documents, or nothing.                  *)
LEMMA ApproveKeepsZkInv ==
    ASSUME ZkInv, NEW user \in User, NEW provider \in Provider,
           Approve(user, provider)
    PROVE  ZkInv'
<1>1. PICK dob \in {DobOf[user], None}, country \in {CountryOf[user], None} :
          store' = [store EXCEPT ![user] =
                       MaterializeClaims(user, provider, dob, country)]
  BY DEF Approve
<1> DEFINE record == MaterializeClaims(user, provider, dob, country)
<1>2. record.dob = dob
  BY DEF MaterializeClaims
<1> HIDE DEF record
<1>3. /\ approved' = approved \cup {user}
      /\ UNCHANGED <<secrets, bundles, proofs, today>>
      /\ events < MaxEvents /\ events' = events + 1
  BY DEF Approve, Event
<1>4. DOMAIN store = User /\ store' = [store EXCEPT ![user] = record]
  BY <1>1 DEF ZkInv, record
<1>5. ASSUME NEW u \in User PROVE RecordTrue(u, store[u])'
  <2>1. CASE u = user
    <3>1. store'[u] = record
      BY <1>4, <2>1
    <3> QED
      BY <1>2, <1>3, <2>1, <3>1 DEF RecordTrue
  <2>2. CASE u # user
    <3>1. store'[u] = store[u] /\ RecordTrue(u, store[u])
      BY <1>4, <2>2 DEF ZkInv
    <3> QED
      BY <1>3, <3>1 DEF RecordTrue
  <2> QED
    BY <2>1, <2>2
<1>6. events' \in 0..MaxEvents
  BY <1>3, ZkConstants DEF ZkInv
<1>7. /\ \A bundle \in bundles' : BundleTrue(bundle)'
      /\ \A proof \in proofs' : ProofTrue(proof)'
  BY <1>3, TruthIsKept DEF ZkInv
<1> QED
  BY <1>3, <1>4, <1>5, <1>6, <1>7 DEF ZkInv

(* A record that is dropped, or made by the demo issuer, says nothing.       *)
LEMMA DropKeepsZkInv ==
    ASSUME ZkInv, NEW user \in User,
           IssueDemoClaims(user) \/ ExpireClaims(user)
    PROVE  ZkInv'
<1>1. PICK record : /\ record = None \/ record.version = "v1"
                    /\ store' = [store EXCEPT ![user] = record]
  BY DEF IssueDemoClaims, ExpireClaims, DemoClaims
<1>2. /\ UNCHANGED <<secrets, bundles, proofs, today, approved>>
      /\ events < MaxEvents /\ events' = events + 1
  BY DEF IssueDemoClaims, ExpireClaims, Event
<1>3. DOMAIN store = User
  BY DEF ZkInv
<1>4. ASSUME NEW u \in User PROVE RecordTrue(u, store[u])'
  <2>1. CASE u = user
    BY <1>1, <1>3, <2>1 DEF RecordTrue
  <2>2. CASE u # user
    <3>1. store'[u] = store[u] /\ RecordTrue(u, store[u])
      BY <1>1, <1>3, <2>2 DEF ZkInv
    <3> QED
      BY <1>2, <3>1 DEF RecordTrue
  <2> QED
    BY <2>1, <2>2
<1>5. events' \in 0..MaxEvents
  BY <1>2, ZkConstants DEF ZkInv
<1>6. /\ \A bundle \in bundles' : BundleTrue(bundle)'
      /\ \A proof \in proofs' : ProofTrue(proof)'
  BY <1>2, TruthIsKept DEF ZkInv
<1>7. DOMAIN store' = User
  BY <1>1, <1>3
<1> QED
  BY <1>2, <1>4, <1>5, <1>6, <1>7 DEF ZkInv

(* What a wallet proves from true material, of its own, is true.             *)
LEMMA KeepTrueProof ==
    ASSUME ZkInv, NEW material, MaterialTrue(material),
           NEW request \in Requests, CanProve(material, request),
           NEW bundle, bundle.material = material,
           bundle.wallet = material.userId, bundle \in bundles',
           BundleTrue(bundle), bundles \subseteq bundles',
           NEW holder, holder = material.userId,
           Keep(Proof(holder, bundle, request)), UNCHANGED approved
    PROVE  /\ \A proof \in proofs' : ProofTrue(proof)'
           /\ Cardinality(proofs') <= MaxProofs
<1> DEFINE new == Proof(holder, bundle, request)
<1>1. /\ new.holder \in User
      /\ new.bundle = bundle
      /\ new.request.type = "age" => AgeProofTrue(new)
      /\ new.request.type = "kyc" => new.holder \in approved
  <2>1. today \in DOMAIN Days
    BY DEF ZkInv
  <2> QED
    BY <2>1, ProofFromTrueMaterial
<1> HIDE DEF new
<1>2. ProofTrue(new)'
  BY <1>1 DEF ProofTrue, AgeProofTrue
<1>3. proofs' = proofs \cup {new} /\ Cardinality(proofs') <= MaxProofs
  BY DEF Keep, new
<1>4. \A proof \in proofs : ProofTrue(proof)'
  BY TruthIsKept DEF ZkInv
<1> QED
  BY <1>2, <1>3, <1>4

(* A bundle issued is of the record of the wallet it is issued to.           *)
LEMMA IssueKeepsZkInv ==
    ASSUME ZkInv, NEW user \in User, HasZkInput(user),
           bundles' = bundles \cup {SignedBundle(user)}
    PROVE  UNCHANGED approved => \A bundle \in bundles' : BundleTrue(bundle)'
<1>1. BundleTrue(SignedBundle(user))
  BY MaterialOfRecord DEF ZkInv
<1>2. SUFFICES ASSUME UNCHANGED approved
               PROVE  \A bundle \in bundles' : BundleTrue(bundle)'
  OBVIOUS
<1>3. \A bundle : BundleTrue(bundle) => BundleTrue(bundle)'
  BY <1>2, TruthIsKept
<1> QED
  BY <1>1, <1>3 DEF ZkInv

(* Every step of the API and the wallets keeps the invariant.                *)
LEMMA ZkInvNext == ASSUME ZkInv, [ZkNext]_zkVars PROVE ZkInv'
<1>1. ASSUME UNCHANGED zkVars PROVE ZkInv'
  BY <1>1 DEF zkVars, ZkInv, RecordTrue, BundleTrue, MaterialTrue, ProofTrue,
              AgeProofTrue
<1>2. ASSUME NEW user \in User, NEW provider \in Provider,
             Approve(user, provider)
      PROVE  ZkInv'
  BY <1>2, ApproveKeepsZkInv
<1>3. ASSUME NEW user \in User, IssueDemoClaims(user) \/ ExpireClaims(user)
      PROVE  ZkInv'
  BY <1>3, DropKeepsZkInv
<1>4. ASSUME UNCHANGED <<store, today, events, approved>>, UNCHANGED secrets
      PROVE  /\ DOMAIN store' = User
             /\ \A user \in User : RecordTrue(user, store[user])'
             /\ (secrets \in [Provider -> Secret \cup {None}])'
             /\ (today \in DOMAIN Days)'
             /\ (events \in 0..MaxEvents)'
  BY <1>4 DEF ZkInv, RecordTrue
<1>5. ASSUME NEW user \in User, IssueBundle(user) PROVE ZkInv'
  <2>1. UNCHANGED <<store, secrets, proofs, today, events, approved>>
    BY <1>5 DEF IssueBundle
  <2>2. /\ \A bundle \in bundles' : BundleTrue(bundle)'
        /\ Cardinality(bundles') <= MaxBundles
    BY <1>5, <2>1, IssueKeepsZkInv DEF IssueBundle
  <2>3. \A proof \in proofs' : ProofTrue(proof)'
    BY <1>5, <2>1, TruthIsKept DEF ZkInv, IssueBundle
  <2> QED
    BY <1>4, <2>1, <2>2, <2>3 DEF ZkInv
<1>6. ASSUME NEW user \in User, NEW request \in Requests,
             ProveFromRecord(user, request)
      PROVE  ZkInv'
  <2>1. /\ UNCHANGED <<store, secrets, today, events, approved>>
        /\ HasZkInput(user)
        /\ CanProve(BuildZkProofInputPayload(user), request)
        /\ bundles' = bundles \cup {SignedBundle(user)}
        /\ Cardinality(bundles') <= MaxBundles
        /\ Keep(Proof(user, SignedBundle(user), request))
    BY <1>6 DEF ProveFromRecord
  <2>2. \A bundle \in bundles' : BundleTrue(bundle)'
    BY <2>1, IssueKeepsZkInv
  <2>3. /\ MaterialTrue(BuildZkProofInputPayload(user))
        /\ SignedBundle(user).wallet = user
        /\ SignedBundle(user).material = BuildZkProofInputPayload(user)
        /\ BuildZkProofInputPayload(user).userId = user
        /\ BundleTrue(SignedBundle(user))
    BY <2>1, MaterialOfRecord DEF ZkInv
  <2>4. /\ \A proof \in proofs' : ProofTrue(proof)'
        /\ Cardinality(proofs') <= MaxProofs
    BY <2>1, <2>3, KeepTrueProof
  <2> QED
    BY <1>4, <2>1, <2>2, <2>4 DEF ZkInv
<1>7. ASSUME NEW user \in User, NEW request \in Requests, NEW bundle \in bundles,
             \/ ProveFromBundle(user, bundle, request)
             \/ ProveInBrowser(user, bundle, request)
      PROVE  ZkInv'
  <2>1. BundleTrue(bundle)
    BY DEF ZkInv
  <2>2. /\ UNCHANGED <<store, secrets, bundles, today, events, approved>>
        /\ CanProve(bundle.material, request)
        /\ Keep(Proof(user, bundle, request))
        /\ bundle.wallet = user /\ bundle.material.userId = user
    BY <1>7, <2>1 DEF ProveFromBundle, ProveInBrowser, BundleVerifies, BundleTrue
  <2>3. /\ \A proof \in proofs' : ProofTrue(proof)'
        /\ Cardinality(proofs') <= MaxProofs
    BY <2>1, <2>2, KeepTrueProof DEF BundleTrue
  <2>4. \A b \in bundles' : BundleTrue(b)'
    BY <2>2, TruthIsKept DEF ZkInv
  <2> QED
    BY <1>4, <2>2, <2>3, <2>4 DEF ZkInv
<1>8. ASSUME NEW provider \in Provider, NEW secret \in Secret \cup {None},
             Restart(provider, secret)
      PROVE  ZkInv'
  <2>1. /\ UNCHANGED <<store, bundles, proofs, today, approved>>
        /\ events < MaxEvents /\ events' = events + 1
        /\ secrets' = [secrets EXCEPT ![provider] = secret]
    BY <1>8 DEF Restart, Event
  <2>2. /\ (secrets \in [Provider -> Secret \cup {None}])'
        /\ events' \in 0..MaxEvents
    BY <2>1, ZkConstants DEF ZkInv
  <2>3. /\ \A bundle \in bundles' : BundleTrue(bundle)'
        /\ \A proof \in proofs' : ProofTrue(proof)'
    BY <2>1, TruthIsKept DEF ZkInv
  <2>4. \A user \in User : RecordTrue(user, store[user])'
    BY <2>1 DEF ZkInv, RecordTrue
  <2> QED
    BY <2>1, <2>2, <2>3, <2>4 DEF ZkInv
<1>9. ASSUME NextDay PROVE ZkInv'
  <2>1. /\ UNCHANGED <<store, secrets, bundles, proofs, events, approved>>
        /\ today < Len(Days) /\ today' = today + 1
    BY <1>9 DEF NextDay
  <2>2. today' \in DOMAIN Days
    BY <2>1, ZkConstants DEF ZkInv
  <2>3. /\ \A bundle \in bundles' : BundleTrue(bundle)'
        /\ \A proof \in proofs' : ProofTrue(proof)'
    BY <2>1, TruthIsKept DEF ZkInv
  <2>4. \A user \in User : RecordTrue(user, store[user])'
    BY <2>1 DEF ZkInv, RecordTrue
  <2> QED
    BY <2>1, <2>2, <2>3, <2>4 DEF ZkInv
<1> QED
  BY <1>1, <1>2, <1>3, <1>5, <1>6, <1>7, <1>8, <1>9 DEF ZkNext

-----------------------------------------------------------------------------
(* The gate                                                                  *)

GateStates == {Undeployed} \cup {Initialized(policy) : policy \in Policies}

Requires(t, field, value) ==
    field \in DOMAIN t.requires /\ t.requires[field] = value

(* What a transaction that moves the policy is.                              *)
PolicyMove(t) ==
    /\ t.method \in {"initialize", "updatePolicy"}
    /\ t.next \in GateStates
    /\ t.method = "initialize" => Requires(t, "keys", "zero")

(* An age proof a transaction takes is for the threshold it requires.        *)
MeetsThreshold(t, proof) ==
    /\ proof.request.type \in {"age", "kyc"}
    /\ proof.request.type = "age" =>
          /\ "minAge" \in DOMAIN t.requires
          /\ t.requires["minAge"] \in Nat
          /\ proof.publicInput.minAge >= t.requires["minAge"]

(* What a passage is: of proofs that wallets hold.                           *)
Passage(t) ==
    /\ t.method \in {"proveAge", "proveKycPassed", "proveAgeOnly",
                     "proveAgeAndKycPassed"}
    /\ \A proof \in t.proofs : MeetsThreshold(t, proof) /\ ProofTrue(proof)
    /\ t.method = "proveAgeOnly" => Requires(t, "requireKycPassed", FALSE)
    /\ t.method \in {"proveKycPassed", "proveAgeAndKycPassed"} =>
          Requires(t, "requireKycPassed", TRUE)

(* The inductive invariant of the gate: the account is as deployed or at a   *)
(* policy, and every transaction sent is one its method could make.          *)
GateInv ==
    /\ gate \in GateStates
    /\ sends \in 0..MaxGateSends
    /\ \A t \in pending : PolicyMove(t) \/ Passage(t)

IInv == ZkInv /\ GateInv

(* The gate and its transactions have their fields.                          *)
LEMMA GateFields ==
    ASSUME gate \in GateStates
    PROVE  gate.minAge \in Nat /\ gate.requireKycPassed \in BOOLEAN
<1>1. CASE gate = Undeployed
  BY <1>1 DEF Undeployed
<1>2. ASSUME NEW policy \in Policies, gate = Initialized(policy)
      PROVE  gate.minAge \in Nat /\ gate.requireKycPassed \in BOOLEAN
  <2>1. policy \in [minAge : Nat, requireKycPassed : BOOLEAN]
    BY AgeGateConstants
  <2> QED
    BY <1>2, <2>1 DEF Initialized
<1> QED
  BY <1>1, <1>2 DEF GateStates

(* The parts of a transaction.                                               *)
LEMMA TransactionParts ==
    ASSUME NEW method, NEW of, NEW fields, NEW next
    PROVE  LET t == Transaction(method, of, fields, next)
           IN  /\ t.method = method /\ t.proofs = of /\ t.next = next
               /\ \A field \in fields : Requires(t, field, gate[field])
BY DEF Transaction, Requires

(* Initialize and update transactions move the policy as it allows.          *)
LEMMA MovesArePolicyMoves ==
    ASSUME NEW policy \in Policies,
           NEW t \in Initialize(policy) \cup UpdatePolicy(policy)
    PROVE  PolicyMove(t)
<1>1. Initialized(policy) \in GateStates
  BY DEF GateStates
<1>2. CASE t \in UpdatePolicy(policy)
  <2>1. t = Transaction("updatePolicy", {}, {}, Initialized(policy))
    BY <1>2 DEF UpdatePolicy
  <2>2. t.method = "updatePolicy" /\ t.next = Initialized(policy)
    BY <2>1, TransactionParts
  <2> QED
    BY <1>1, <2>2 DEF PolicyMove
<1>3. CASE t \in Initialize(policy)
  <2>1. /\ gate.keys = "zero"
        /\ t = Transaction("initialize", {}, {"keys"}, Initialized(policy))
    BY <1>3 DEF Initialize
  <2>2. t.method = "initialize" /\ t.next = Initialized(policy)
    BY <2>1, TransactionParts
  <2>3. Requires(t, "keys", gate["keys"])
    BY <2>1, TransactionParts
  <2> QED
    BY <1>1, <2>1, <2>2, <2>3 DEF PolicyMove
<1> QED
  BY <1>2, <1>3

(* A method that verifies an age requires the threshold it compared with.    *)
LEMMA PassagesArePassages ==
    ASSUME ZkInv, GateInv, NEW t \in Passages
    PROVE  Passage(t)
<1>1. gate.minAge \in Nat /\ gate.requireKycPassed \in BOOLEAN
  BY GateFields DEF GateInv
<1>2. ASSUME NEW proof \in AgeProofs, VerifiedAge(proof),
             Requires(t, "minAge", gate["minAge"])
      PROVE  MeetsThreshold(t, proof) /\ ProofTrue(proof)
  BY <1>1, <1>2 DEF AgeProofs, VerifiedAge, Requires, MeetsThreshold, ZkInv
<1>3. ASSUME NEW proof \in KycProofs
      PROVE  MeetsThreshold(t, proof) /\ ProofTrue(proof)
  BY DEF KycProofs, MeetsThreshold, ZkInv
<1>4. CASE t \in ProveAge
  <2>1. PICK proof \in AgeProofs :
            /\ VerifiedAge(proof)
            /\ t = Transaction("proveAge", {proof}, ProveAgeFields, gate)
    BY <1>4 DEF ProveAge
  <2>2. /\ t.method = "proveAge" /\ t.proofs = {proof}
        /\ \A field \in ProveAgeFields : Requires(t, field, gate[field])
    BY <2>1, TransactionParts
  <2>3. MeetsThreshold(t, proof) /\ ProofTrue(proof)
    BY <1>2, <2>1, <2>2 DEF ProveAgeFields
  <2> QED
    BY <2>2, <2>3 DEF Passage
<1>5. CASE t \in ProveKycPassed
  <2>1. PICK proof \in KycProofs :
            /\ gate.requireKycPassed
            /\ t = Transaction("proveKycPassed", {proof},
                               {"keys", "requireKycPassed"}, gate)
    BY <1>5 DEF ProveKycPassed
  <2>2. /\ t.method = "proveKycPassed" /\ t.proofs = {proof}
        /\ Requires(t, "requireKycPassed", gate["requireKycPassed"])
    BY <2>1, TransactionParts
  <2>3. Requires(t, "requireKycPassed", TRUE)
    BY <1>1, <2>1, <2>2
  <2> QED
    BY <1>3, <2>2, <2>3 DEF Passage
<1>6. CASE t \in ProveAgeOnly
  <2> DEFINE fields == ProveAgeFields \cup {"requireKycPassed"}
  <2>1. PICK proof \in AgeProofs :
            /\ VerifiedAge(proof) /\ ~gate.requireKycPassed
            /\ t = Transaction("proveAgeOnly", {proof}, fields, gate)
    BY <1>6 DEF ProveAgeOnly
  <2>2. /\ t.method = "proveAgeOnly" /\ t.proofs = {proof}
        /\ Requires(t, "requireKycPassed", gate["requireKycPassed"])
        /\ Requires(t, "minAge", gate["minAge"])
    BY <2>1, TransactionParts DEF ProveAgeFields
  <2>3. Requires(t, "requireKycPassed", FALSE)
    BY <1>1, <2>1, <2>2
  <2> QED
    BY <1>2, <2>1, <2>2, <2>3 DEF Passage
<1>7. CASE t \in ProveAgeAndKycPassed
  <2> DEFINE fields == ProveAgeFields \cup {"requireKycPassed"}
  <2>1. PICK pair \in AgeProofs \X KycProofs :
            /\ VerifiedAge(pair[1]) /\ gate.requireKycPassed
            /\ t = Transaction("proveAgeAndKycPassed", {pair[1], pair[2]},
                               fields, gate)
    BY <1>7 DEF ProveAgeAndKycPassed
  <2>2. /\ t.method = "proveAgeAndKycPassed" /\ t.proofs = {pair[1], pair[2]}
        /\ Requires(t, "requireKycPassed", gate["requireKycPassed"])
        /\ Requires(t, "minAge", gate["minAge"])
    BY <2>1, TransactionParts DEF ProveAgeFields
  <2>3. Requires(t, "requireKycPassed", TRUE)
    BY <1>1, <2>1, <2>2
  <2>4. pair[1] \in AgeProofs /\ pair[2] \in KycProofs
    OBVIOUS
  <2> QED
    BY <1>2, <1>3, <2>1, <2>2, <2>3, <2>4 DEF Passage
<1> QED
  BY <1>4, <1>5, <1>6, <1>7 DEF Passages

(* The proofs in transactions sent stay true while the wallets go on.        *)
LEMMA GateWhileZk ==
    ASSUME GateInv, UNCHANGED gateVars, bundles \subseteq bundles',
           approved \subseteq approved'
    PROVE  GateInv'
<1>1. ASSUME NEW t, Passage(t) PROVE Passage(t)'
  <2>1. \A proof : ProofTrue(proof) => ProofTrue(proof)'
    BY TruthIsKept
  <2> QED
    BY <1>1, <2>1 DEF Passage, MeetsThreshold, Requires
<1>2. ASSUME NEW t, PolicyMove(t) PROVE PolicyMove(t)'
  BY <1>2 DEF PolicyMove, GateStates, Requires, Undeployed, Initialized
<1> QED
  BY <1>1, <1>2 DEF GateInv, gateVars, GateStates, Undeployed, Initialized

(* Bundles and approvals are never taken back.                               *)
LEMMA ZkOnlyAdds ==
    ASSUME [ZkNext]_zkVars
    PROVE  bundles \subseteq bundles' /\ approved \subseteq approved'
BY DEF ZkNext, zkVars, Approve, IssueDemoClaims, ExpireClaims, IssueBundle,
       ProveFromRecord, ProveFromBundle, ProveInBrowser, Restart, NextDay

(* The gate keeps its invariant.                                             *)
LEMMA GateInvNext == ASSUME ZkInv, GateInv, GateNext PROVE GateInv'
<1>1. UNCHANGED zkVars
  BY DEF GateNext, SendUpdatePolicy, SendInitialize, SendPassage, Include
<1>2. /\ \A t : Passage(t) => Passage(t)'
      /\ \A t : PolicyMove(t) => PolicyMove(t)'
  BY <1>1 DEF zkVars, Passage, PolicyMove, MeetsThreshold, Requires, GateStates,
              ProofTrue, AgeProofTrue, Undeployed, Initialized
<1>3. (\A t \in pending' : PolicyMove(t) \/ Passage(t))
          => \A t \in pending' : PolicyMove(t)' \/ Passage(t)'
  BY <1>2
<1>4. ASSUME sends < MaxGateSends, sends' = sends + 1, UNCHANGED gate,
             \A t \in pending' : t \in pending \/ PolicyMove(t) \/ Passage(t)
      PROVE  GateInv'
  <2>1. sends' \in 0..MaxGateSends
    BY <1>4, AgeGateConstants DEF GateInv
  <2>2. \A t \in pending' : PolicyMove(t) \/ Passage(t)
    BY <1>4 DEF GateInv
  <2> QED
    BY <1>3, <1>4, <2>1, <2>2 DEF GateInv, GateStates, Undeployed, Initialized
<1>5. ASSUME NEW policy \in Policies, SendUpdatePolicy(policy) PROVE GateInv'
  BY <1>4, <1>5, MovesArePolicyMoves DEF SendUpdatePolicy
<1>6. ASSUME NEW policy \in Policies, NEW signed \in BOOLEAN,
             SendInitialize(policy, signed)
      PROVE  GateInv'
  BY <1>4, <1>6, MovesArePolicyMoves DEF SendInitialize
<1>7. ASSUME SendPassage PROVE GateInv'
  BY <1>4, <1>7, PassagesArePassages DEF SendPassage
<1>8. ASSUME NEW t \in pending, Include(t) PROVE GateInv'
  <2>1. \A x \in pending' : PolicyMove(x) \/ Passage(x)
    BY <1>8 DEF Include, GateInv
  <2>2. sends' = sends
    BY <1>8 DEF Include
  <2>3. gate' \in GateStates
    <3>1. CASE t.method \in {"initialize", "updatePolicy"}
      <4>1. PolicyMove(t)
        BY <3>1 DEF GateInv, Passage
      <4> QED
        BY <1>8, <3>1, <4>1 DEF Include, PolicyMove
    <3>2. CASE t.method \notin {"initialize", "updatePolicy"}
      BY <1>8, <3>2 DEF Include, GateInv
    <3> QED
      BY <3>1, <3>2
  <2> QED
    BY <1>3, <2>1, <2>2, <2>3 DEF GateInv, GateStates, Undeployed, Initialized
<1> QED
  BY <1>5, <1>6, <1>7, <1>8 DEF GateNext

(* The invariant of the whole.                                               *)
THEOREM Invariant == Spec => []IInv
<1>1. Init => IInv
  <2>1. ASSUME Init PROVE GateInv
    BY <2>1, AgeGateConstants DEF Init, GateInit, GateInv, GateStates
  <2> QED
    BY <2>1, ZkInvInit DEF Init, IInv
<1>2. IInv /\ [Next]_vars => IInv'
  <2> SUFFICES ASSUME IInv, [Next]_vars PROVE IInv'
    OBVIOUS
  <2>1. CASE ZkNext /\ UNCHANGED gateVars
    BY <2>1, ZkInvNext, ZkOnlyAdds, GateWhileZk DEF IInv
  <2>2. CASE GateNext
    <3>1. UNCHANGED zkVars
      BY <2>2 DEF GateNext, SendUpdatePolicy, SendInitialize, SendPassage, Include
    <3> QED
      BY <2>2, <3>1, ZkInvNext, GateInvNext DEF IInv
  <2>3. CASE UNCHANGED vars
    BY <2>3, ZkInvNext, ZkOnlyAdds, GateWhileZk DEF IInv, vars
  <2> QED
    BY <2>1, <2>2, <2>3 DEF Next
<1> QED
  BY <1>1, <1>2, PTL DEF Spec

(* Spec => []TypeOK.                                                         *)
THEOREM TypeCorrect == Spec => []TypeOK
<1>1. IInv => TypeOK
  BY DEF IInv, ZkInv, GateInv, GateStates, ProofTrue, TypeOK
<1> QED
  BY <1>1, Invariant, PTL

(* Every age or KYC proof a wallet holds is true of its holder.              *)
THEOREM ProofsTrue == Spec => []AgeAndKycProofsAreTrue
<1>1. IInv => AgeAndKycProofsAreTrue
  BY DEF IInv, ZkInv, ProofTrue, AgeProofTrue, AgeAndKycProofsAreTrue
<1> QED
  BY <1>1, Invariant, PTL

(* The proofs of a passage hold against the age and the flag of the account  *)
(* at the inclusion, as far as the method reads them (contract.ts), whatever *)
(* the policy was when the transaction was made.                             *)
THEOREM PassesHoldAtInclusion == Spec => PassHoldsAtInclusion
<1> DEFINE Meets1(passage) ==
      /\ \A proof \in passage.proofs :
            CASE proof.request.type = "age" ->
                   HasReachedAge(DobOf[proof.holder], gate.minAge,
                                 proof.publicInput.reference)
              [] OTHER -> proof.holder \in approved
      /\ passage.method = "proveAgeOnly" => ~gate.requireKycPassed
      /\ passage.method \in {"proveKycPassed", "proveAgeAndKycPassed"}
            => gate.requireKycPassed
<1>1. ASSUME IInv, NEW t \in pending, Include(t),
             t.method \notin {"initialize", "updatePolicy"}
      PROVE  Meets1([method |-> t.method, proofs |-> t.proofs])
  <2>1. Passage(t)
    BY <1>1 DEF IInv, GateInv, PolicyMove
  <2>2. \A field, value : Requires(t, field, value) => gate[field] = value
    BY <1>1 DEF Include, Requires
  <2>3. ASSUME NEW proof \in t.proofs, proof.request.type = "age"
        PROVE  HasReachedAge(DobOf[proof.holder], gate.minAge,
                             proof.publicInput.reference)
    <3>1. /\ MeetsThreshold(t, proof) /\ ProofTrue(proof)
          /\ proof.holder \in User /\ AgeProofTrue(proof)
      BY <2>1, <2>3 DEF Passage, ProofTrue
    <3>2. /\ gate.minAge \in Nat
          /\ gate.minAge <= proof.publicInput.minAge
      BY <1>1, <2>3, <3>1 DEF MeetsThreshold, Include, AgeProofTrue
    <3>3. DobOf[proof.holder] \in Calendar
      BY <3>1, ZkConstants
    <3> QED
      BY <3>1, <3>2, <3>3, ReachedLower DEF AgeProofTrue
  <2>4. ASSUME NEW proof \in t.proofs, proof.request.type # "age"
        PROVE  proof.holder \in approved
    BY <2>1, <2>4 DEF Passage, MeetsThreshold, ProofTrue
  <2>5. t.method = "proveAgeOnly" => gate.requireKycPassed = FALSE
    BY <2>1, <2>2 DEF Passage
  <2>6. t.method \in {"proveKycPassed", "proveAgeAndKycPassed"}
            => gate.requireKycPassed = TRUE
    BY <2>1, <2>2 DEF Passage
  <2> DEFINE passage == [method |-> t.method, proofs |-> t.proofs]
  <2>7. passage.method = t.method /\ passage.proofs = t.proofs
    OBVIOUS
  <2> HIDE DEF passage
  <2> QED
    BY <2>3, <2>4, <2>5, <2>6, <2>7 DEF passage
<1>2. ASSUME IInv, [Next]_vars, NEW passage \in passed' \ passed
      PROVE  Meets1(passage)
  <2>1. PICK t \in pending : Include(t)
    BY <1>2 DEF Next, GateNext, SendUpdatePolicy, SendInitialize, SendPassage,
                vars, gateVars
  <2>2. /\ t.method \notin {"initialize", "updatePolicy"}
        /\ passage = [method |-> t.method, proofs |-> t.proofs]
    BY <1>2, <2>1 DEF Include
  <2> QED
    BY <1>1, <1>2, <2>1, <2>2
<1>3. IInv /\ [Next]_vars =>
        [\A passage \in passed' \ passed : Meets1(passage)]_vars
  BY <1>2
<1> QED
  BY <1>3, Invariant, PTL DEF Spec, PassHoldsAtInclusion

(* A policy once set is never initialized over.                              *)
THEOREM InitializedAtMostOnce == Spec => InitializedOnce
<1>1. ASSUME IInv, [Next]_vars, NEW t \in pending \ pending',
             t.method = "initialize"
      PROVE  gate = Undeployed
  <2>1. Include(t)
    BY <1>1 DEF Next, GateNext, SendUpdatePolicy, SendInitialize, SendPassage,
                vars, gateVars, Include
  <2>2. gate.keys = "zero"
    BY <1>1, <2>1 DEF IInv, GateInv, Passage, PolicyMove, Requires, Include
  <2>3. \A policy : Initialized(policy).keys = "set"
    BY DEF Initialized
  <2> QED
    BY <1>1, <2>2, <2>3 DEF IInv, GateInv, GateStates
<1>2. IInv /\ [Next]_vars =>
        [\A t \in pending \ pending' :
            t.method = "initialize" => gate = Undeployed]_vars
  BY <1>1
<1> QED
  BY <1>2, Invariant, PTL DEF Spec, InitializedOnce

-----------------------------------------------------------------------------
(* Induction over the naturals, and lists                                    *)

(* A set of naturals that is not empty has a least member.                   *)
LEMMA LeastNatural ==
    ASSUME NEW T, T \subseteq Nat, T # {}
    PROVE  \E x \in T : \A y \in T : x <= y
<1> DEFINE R == OpToRel(<, Nat)
<1>1. IsWellFoundedOn(R, Nat)
  BY NatLessThanWellFounded
<1> HIDE DEF R
<1>2. PICK x \in T : \A y \in T : ~(<<y, x>> \in R)
  BY <1>1, WFMin
<1>3. \A y \in T : ~(y < x)
  BY <1>2 DEF R, OpToRel
<1> QED
  BY <1>2, <1>3

(* Induction, over the set of the numbers a fact holds of.                   *)
LEMMA Induction ==
    ASSUME NEW S, 0 \in S, \A n \in Nat : n \in S => n + 1 \in S
    PROVE  \A n \in Nat : n \in S
<1> DEFINE T == Nat \ S
<1>1. SUFFICES ASSUME T # {} PROVE FALSE
  OBVIOUS
<1> HIDE DEF T
<1>2. PICK x \in T : \A y \in T : x <= y
  BY <1>1, LeastNatural DEF T
<1>3. x \in Nat /\ x \notin S /\ x # 0
  BY <1>2 DEF T
<1>4. x - 1 \in Nat /\ ~(x <= x - 1) /\ (x - 1) + 1 = x
  BY <1>3
<1>5. x - 1 \in S
  BY <1>2, <1>4 DEF T
<1> QED
  BY <1>3, <1>4, <1>5

(* Filtering a list goes through it one value after the other.               *)
LEMMA PositiveUnfold ==
    ASSUME NEW values, Len(values) \in Nat
    PROVE  \E kept :
             /\ Positive(values) = kept[Len(values)]
             /\ kept[0] = <<>>
             /\ \A k \in 1..Len(values) :
                   kept[k] = IF values[k] > 0 THEN Append(kept[k - 1], values[k])
                             ELSE kept[k - 1]
<1> DEFINE Body(f, k) == IF k = 0 THEN <<>>
                         ELSE IF values[k] > 0 THEN Append(f[k - 1], values[k])
                         ELSE f[k - 1]
           size == Len(values)
           Built(n) == \E f : f = [k \in 0..n |-> Body(f, k)]
           B == {n \in Nat : Built(n)}
<1>1. 0 \in B
  <2> DEFINE f == [k \in 0..0 |-> <<>>]
  <2>1. f = [k \in 0..0 |-> Body(f, k)]
    OBVIOUS
  <2> QED
    BY <2>1
<1>2. ASSUME NEW n \in Nat, n \in B PROVE n + 1 \in B
  <2>1. PICK f : f = [k \in 0..n |-> Body(f, k)]
    BY <1>2
  <2> DEFINE g == [k \in 0..(n + 1) |-> IF k <= n THEN f[k] ELSE Body(f, n + 1)]
  <2>2. ASSUME NEW k \in 0..(n + 1) PROVE g[k] = Body(g, k)
    <3>1. CASE k = 0
      BY <2>1, <3>1
    <3>2. CASE k # 0
      <4>1. k - 1 \in 0..n /\ k - 1 \in 0..(n + 1) /\ k - 1 <= n
        BY <3>2
      <4>2. g[k - 1] = f[k - 1]
        BY <4>1
      <4>3. g[k] = Body(f, k)
        <5> HIDE DEF Body
        <5>1. CASE k <= n
          BY <2>1, <3>2, <5>1
        <5>2. CASE ~(k <= n)
          <6>1. k = n + 1
            BY <5>2
          <6> QED
            BY <5>2, <6>1
        <5> QED
          BY <5>1, <5>2
      <4> QED
        BY <3>2, <4>2, <4>3
    <3> QED
      BY <3>1, <3>2
  <2>3. g = [k \in 0..(n + 1) |-> Body(g, k)]
    BY <2>2
  <2> HIDE DEF g
  <2>4. Built(n + 1)
    BY <2>3
  <2> QED
    BY <2>4
<1>3. size \in Nat
  OBVIOUS
<1>4. size \in B
  <2> HIDE DEF B
  <2> QED
    BY <1>1, <1>2, <1>3, Induction
<1> DEFINE kept == CHOOSE f : f = [k \in 0..size |-> Body(f, k)]
<1>5. /\ Positive(values) = kept[size]
      /\ kept = [k \in 0..size |-> Body(kept, k)]
  BY <1>4 DEF Positive
<1> HIDE DEF kept
<1>6. \A k \in 0..size : kept[k] = Body(kept, k)
  BY <1>5
<1> HIDE DEF size
<1>7. Body(kept, 0) = <<>>
  OBVIOUS
<1>8. ASSUME NEW k \in 1..size
      PROVE  Body(kept, k) = IF values[k] > 0 THEN Append(kept[k - 1], values[k])
                             ELSE kept[k - 1]
  OBVIOUS
<1> HIDE DEF Body
<1>9. /\ kept[0] = <<>>
      /\ \A k \in 1..size :
            kept[k] = IF values[k] > 0 THEN Append(kept[k - 1], values[k])
                      ELSE kept[k - 1]
  <2>1. 0 \in 0..size /\ \A k \in 1..size : k \in 0..size
    BY <1>3
  <2>2. kept[0] = <<>>
    BY <1>6, <1>7, <2>1
  <2>3. ASSUME NEW k \in 1..size
        PROVE  kept[k] = IF values[k] > 0 THEN Append(kept[k - 1], values[k])
                         ELSE kept[k - 1]
    BY <1>6, <1>8, <2>1
  <2> QED
    BY <2>2, <2>3
<1> QED
  BY <1>5, <1>9 DEF size

(* Filtering a list of numbers leaves those above 0, and no others.          *)
LEMMA PositiveKeeps ==
    ASSUME NEW values \in Seq(Nat)
    PROVE  /\ Positive(values) \in Seq(Nat \ {0})
           /\ Len(Positive(values)) <= Len(values)
           /\ \A x \in Nat \ {0} :
                 (\E i \in DOMAIN Positive(values) : Positive(values)[i] = x)
                     <=> \E i \in DOMAIN values : values[i] = x
<1> DEFINE size == Len(values)
<1>1. size \in Nat
  BY LenProperties
<1>2. PICK kept :
         /\ Positive(values) = kept[size]
         /\ kept[0] = <<>>
         /\ \A k \in 1..size :
               kept[k] = IF values[k] > 0 THEN Append(kept[k - 1], values[k])
                         ELSE kept[k - 1]
  BY <1>1, PositiveUnfold
<1>3. \A k \in 1..size : values[k] \in Nat
  BY ElementOfSeq
<1> DEFINE In(seq, x) == \E i \in 1..Len(seq) : seq[i] = x
           Fits(k) == /\ kept[k] \in Seq(Nat \ {0})
                      /\ Len(kept[k]) <= k
                      /\ \A x \in Nat \ {0} :
                            In(kept[k], x) <=> \E i \in 1..k : values[i] = x
           S == {k \in Nat : k <= size => Fits(k)}
<1>4. 0 \in S
  <2>1. kept[0] = <<>>
    BY <1>2
  <2>2. kept[0] \in Seq(Nat \ {0}) /\ Len(kept[0]) = 0
    BY <2>1, EmptySeq
  <2> QED
    BY <2>2
<1>5. ASSUME NEW k \in Nat, k \in S PROVE k + 1 \in S
  <2> HIDE DEF Fits
  <2>1. SUFFICES ASSUME k + 1 <= size PROVE Fits(k + 1)
    OBVIOUS
  <2>2. k <= size /\ k + 1 \in 0..size /\ k + 1 \in 1..size /\ k + 1 # 0 /\ (k + 1) - 1 = k
    BY <1>1, <2>1
  <2>3. Fits(k)
    BY <1>5, <2>2
  <2> USE DEF Fits
  <2>4. kept[k + 1] = IF values[k + 1] > 0 THEN Append(kept[k], values[k + 1])
                      ELSE kept[k]
    BY <1>2, <2>2
  <2> HIDE DEF size
  <2>5. CASE values[k + 1] > 0
    <3> DEFINE old == kept[k]
               v == values[k + 1]
               new == Append(old, v)
    <3>1. v \in Nat \ {0} /\ old \in Seq(Nat \ {0})
      BY <1>3, <2>2, <2>3, <2>5
    <3>2. kept[k + 1] = new
      BY <2>4, <2>5
    <3> HIDE DEF old, v
    <3>3. /\ new \in Seq(Nat \ {0}) /\ Len(new) = Len(old) + 1
          /\ Len(old) \in Nat
          /\ \A i \in 1..Len(old) : new[i] = old[i]
          /\ new[Len(old) + 1] = v
      BY <3>1, AppendProperties, LenProperties
    <3> HIDE DEF new
    <3>4. Len(new) <= k + 1
      BY <2>3, <3>3 DEF old
    <3>5. ASSUME NEW x \in Nat \ {0}
          PROVE  In(new, x) <=> \E i \in 1..(k + 1) : values[i] = x
      <4>1. In(new, x) <=> In(old, x) \/ v = x
        <5>1. 1..Len(new) = 1..Len(old) \cup {Len(old) + 1}
          BY <3>3
        <5> QED
          BY <3>3, <5>1
      <4>2. In(old, x) <=> \E i \in 1..k : values[i] = x
        BY <2>3 DEF old
      <4>3. 1..(k + 1) = 1..k \cup {k + 1}
        OBVIOUS
      <4> QED
        BY <4>1, <4>2, <4>3 DEF v
    <3> QED
      BY <3>2, <3>3, <3>4, <3>5
  <2>6. CASE ~(values[k + 1] > 0)
    <3>1. kept[k + 1] = kept[k]
      BY <2>4, <2>6
    <3>2. values[k + 1] = 0
      BY <1>3, <2>2, <2>6
    <3>3. Len(kept[k]) \in Nat
      BY <2>3, LenProperties
    <3>4. Len(kept[k]) <= k + 1
      <4> DEFINE a == Len(kept[k])
      <4>1. a \in Nat /\ a <= k
        BY <2>3, <3>3
      <4> HIDE DEF a
      <4>2. a <= k + 1
        BY <4>1
      <4> QED
        BY <4>2 DEF a
    <3>5. ASSUME NEW x \in Nat \ {0}
          PROVE  In(kept[k], x) <=> \E i \in 1..(k + 1) : values[i] = x
      <4>1. In(kept[k], x) <=> \E i \in 1..k : values[i] = x
        BY <2>3
      <4>2. 1..(k + 1) = 1..k \cup {k + 1}
        OBVIOUS
      <4> HIDE DEF In
      <4> QED
        BY <3>2, <4>1, <4>2
    <3> QED
      BY <2>3, <3>1, <3>4, <3>5
  <2> QED
    BY <2>5, <2>6
<1> HIDE DEF S
<1>6. size \in S
  BY <1>1, <1>4, <1>5, Induction
<1>7. Fits(size)
  BY <1>1, <1>6 DEF S
<1> HIDE DEF size
<1>8. DOMAIN kept[size] = 1..Len(kept[size]) /\ DOMAIN values = 1..size
  BY <1>7, LenProperties DEF size
<1> QED
  BY <1>2, <1>7, <1>8 DEF size

(* Reading a padded list back gives the list.                                *)
LEMMA PositiveOfPadded ==
    ASSUME NEW values \in Seq(Nat \ {0}), FitsCountryPolicy(values)
    PROVE  CountryPolicyList(PadCountryPolicyList(values)) = values
<1> DEFINE slots == PadCountryPolicyList(values)
           n == Len(values)
           Front(k) == [i \in 1..k |-> values[i]]
<1>1. /\ n \in Nat /\ n <= 8
      /\ \A i \in 1..n : values[i] \in Nat /\ values[i] > 0
  BY LenProperties, ElementOfSeq DEF FitsCountryPolicy, MaxCountryPolicyEntries
<1>2. /\ Len(slots) = 8
      /\ \A i \in 1..8 : slots[i] = IF i <= n THEN values[i] ELSE 0
  BY DEF PadCountryPolicyList, MaxCountryPolicyEntries
<1>3. values = Front(n)
  BY LenProperties
<1> HIDE DEF slots, n
<1>4. PICK kept :
         /\ Positive(slots) = kept[Len(slots)]
         /\ kept[0] = <<>>
         /\ \A k \in 1..Len(slots) :
               kept[k] = IF slots[k] > 0 THEN Append(kept[k - 1], slots[k])
                         ELSE kept[k - 1]
  <2>1. Len(slots) \in Nat
    BY <1>2
  <2> QED
    BY <2>1, PositiveUnfold
<1>5. /\ Positive(slots) = kept[8]
      /\ kept[0] = <<>>
      /\ \A k \in 1..8 :
            kept[k] = IF slots[k] > 0 THEN Append(kept[k - 1], slots[k])
                      ELSE kept[k - 1]
  <2>1. Len(slots) = 8
    BY <1>2
  <2> QED
    BY <1>4, <2>1
<1> DEFINE Read(k) == kept[k] = IF k <= n THEN Front(k) ELSE Front(n)
           S == {k \in Nat : k <= 8 => Read(k)}
<1>6. 0 \in S
  <2>1. 0 <= n /\ Front(0) = <<>>
    BY <1>1
  <2> QED
    BY <1>5, <2>1
<1>7. ASSUME NEW k \in Nat, k \in S PROVE k + 1 \in S
  <2> HIDE DEF Read
  <2>1. SUFFICES ASSUME k + 1 <= 8 PROVE Read(k + 1)
    OBVIOUS
  <2>2. k <= 8 /\ k + 1 \in 1..8 /\ (k + 1) - 1 = k
    BY <2>1
  <2>3. kept[k] = IF k <= n THEN Front(k) ELSE Front(n)
    BY <1>7, <2>2 DEF Read
  <2>4. kept[k + 1] = IF slots[k + 1] > 0 THEN Append(kept[k], slots[k + 1])
                      ELSE kept[k]
    BY <1>5, <2>2
  <2>5. CASE k + 1 <= n
    <3>0. k <= n /\ k + 1 \in 1..n
      <4>1. n \in Nat
        BY <1>1
      <4> QED
        BY <2>5, <4>1
    <3>1. /\ k <= n /\ k + 1 \in 1..n
          /\ slots[k + 1] = values[k + 1] /\ values[k + 1] > 0
      BY <1>1, <1>2, <2>2, <2>5, <3>0
    <3>2. Append(Front(k), values[k + 1]) = Front(k + 1)
      <4> DEFINE f == Front(k)
                 v == values[k + 1]
      <4>1. \A i \in 1..k : values[i] \in Nat
        BY <1>1, <3>1
      <4>2. f \in Seq(Nat) /\ v \in Nat /\ Len(f) = k
        BY <1>1, <3>1, <4>1
      <4>3. \A i \in 1..k : f[i] = values[i]
        OBVIOUS
      <4> HIDE DEF f
      <4>4. /\ DOMAIN Append(f, v) = 1..(k + 1)
            /\ \A i \in 1..k : Append(f, v)[i] = f[i]
            /\ Append(f, v)[k + 1] = v
            /\ Append(f, v) \in Seq(Nat)
        BY <4>2, AppendProperties, LenProperties
      <4> DEFINE g == Append(f, v)
      <4>5. \A i \in 1..(k + 1) : g[i] = values[i]
        BY <4>3, <4>4
      <4>6. DOMAIN g = 1..(k + 1) /\ g = [i \in DOMAIN g |-> g[i]]
        BY <4>4
      <4> HIDE DEF g
      <4>7. g = [i \in 1..(k + 1) |-> values[i]]
        BY <4>5, <4>6
      <4> QED
        BY <4>7 DEF f, g
    <3> QED
      BY <2>3, <2>4, <2>5, <3>1, <3>2 DEF Read
  <2>6. CASE ~(k + 1 <= n)
    <3>1. slots[k + 1] = 0 /\ (k <= n => k = n)
      BY <1>1, <1>2, <2>2, <2>6
    <3>2. kept[k + 1] = kept[k]
      BY <2>4, <3>1
    <3> HIDE DEF Front
    <3> QED
      BY <2>3, <2>6, <3>1, <3>2 DEF Read
  <2> QED
    BY <2>5, <2>6
<1> HIDE DEF S
<1>8. 8 \in S
  BY <1>6, <1>7, Induction
<1>9. kept[8] = Front(n)
  <2> HIDE DEF Front
  <2>1. Read(8)
    BY <1>8 DEF S
  <2>2. 8 <= n => n = 8
    BY <1>1
  <2> QED
    BY <2>1, <2>2
<1> QED
  BY <1>3, <1>5, <1>9 DEF CountryPolicyList, slots

-----------------------------------------------------------------------------
(* Requests about countries, and what is proved for them                     *)

(* A request about countries asks for lists of numbers that fit, those of    *)
(* the codes that have one.                                                  *)
LEMMA ListedNumbers ==
    ASSUME NEW codes \in CodeList
    PROVE  /\ Listed(codes) \in Seq(Nat \ {0})
           /\ FitsCountryPolicy(Listed(codes))
           /\ \A x \in Nat \ {0} :
                 (\E i \in DOMAIN Listed(codes) : Listed(codes)[i] = x)
                     <=> \E i \in DOMAIN codes : Numeric[codes[i]] = x
<1> DEFINE numbers == [i \in DOMAIN codes |-> Numeric[codes[i]]]
           n == Len(codes)
<1>1. /\ codes \in Seq(Code) /\ n \in Nat /\ n <= 8 /\ DOMAIN codes = 1..n
      /\ \A i \in 1..n : codes[i] \in Code
  BY LenProperties, ElementOfSeq DEF CodeList, MaxCountryPolicyEntries
<1> HIDE DEF n
<1>2. /\ numbers = [i \in 1..n |-> Numeric[codes[i]]]
      /\ \A i \in 1..n : Numeric[codes[i]] \in Nat
  BY <1>1, ZkConstants
<1>3. numbers \in Seq(Nat) /\ Len(numbers) = n /\ DOMAIN numbers = 1..n
  BY <1>1, <1>2
<1>4. Listed(codes) = Positive(numbers)
  BY DEF Listed
<1>5. \A i \in 1..n : numbers[i] = Numeric[codes[i]]
  BY <1>2
<1> HIDE DEF numbers
<1> DEFINE kept == Positive(numbers)
<1>6. /\ kept \in Seq(Nat \ {0}) /\ Len(kept) <= Len(numbers)
      /\ \A x \in Nat \ {0} :
            (\E i \in DOMAIN kept : kept[i] = x)
                <=> \E i \in DOMAIN numbers : numbers[i] = x
  BY <1>3, PositiveKeeps
<1> HIDE DEF kept
<1>7. FitsCountryPolicy(kept)
  <2>1. Len(kept) \in Nat
    BY <1>6, LenProperties
  <2> DEFINE size == Len(kept)
  <2>2. size \in Nat /\ size <= n
    BY <1>3, <1>6, <2>1
  <2> HIDE DEF size
  <2>3. size <= 8
    BY <1>1, <2>2
  <2> QED
    BY <2>3 DEF size, FitsCountryPolicy, MaxCountryPolicyEntries
<1>8. \A x \in Nat \ {0} :
         (\E i \in DOMAIN kept : kept[i] = x)
             <=> \E i \in DOMAIN codes : Numeric[codes[i]] = x
  <2> SUFFICES ASSUME NEW x \in Nat \ {0}
               PROVE  (\E i \in DOMAIN kept : kept[i] = x)
                          <=> \E i \in DOMAIN codes : Numeric[codes[i]] = x
    OBVIOUS
  <2>1. (\E i \in DOMAIN kept : kept[i] = x)
            <=> \E i \in DOMAIN numbers : numbers[i] = x
    BY <1>6
  <2>2. (\E i \in 1..n : numbers[i] = x) <=> \E i \in 1..n : Numeric[codes[i]] = x
    BY <1>5
  <2> QED
    BY <1>1, <1>3, <2>1, <2>2
<1> QED
  BY <1>4, <1>6, <1>7, <1>8 DEF kept

(* A country request carries lists of at most eight codes and the numbers   *)
(* that CreateZkPolicyRequest finds for them.                                *)
LEMMA CountryRequest ==
    ASSUME NEW request \in Requests, request.type = "country"
    PROVE  /\ request.countryAllow \in CodeList
           /\ request.countryBlock \in CodeList
           /\ request.allow = Listed(request.countryAllow)
           /\ request.block = Listed(request.countryBlock)
<1>1. PICK asked \in Asked : request = CreateZkPolicyRequest(asked, today)
  BY DEF Requests
<1>2. asked \in PolicyArguments
  BY <1>1, ZkConstants
<1>3. asked.type # "age" /\ asked.type # "kyc"
  BY <1>1 DEF CreateZkPolicyRequest
<1>4. asked.allow \in CodeList /\ asked.block \in CodeList
  BY <1>2, <1>3 DEF PolicyArguments
<1>5. request = [type |-> "country", countryAllow |-> asked.allow,
                 countryBlock |-> asked.block, allow |-> Listed(asked.allow),
                 block |-> Listed(asked.block)]
  BY <1>1, <1>3 DEF CreateZkPolicyRequest
<1> QED
  BY <1>4, <1>5

(* What a record of a provider carries: facts of the documents, or nothing,  *)
(* and the commitments to them under the salts of one secret.                *)
RecordCarries(user, record) ==
    (record # None /\ record.version = "v2") =>
        /\ record.provider \in Provider
        /\ record.dob \in {None, DobOf[user]}
        /\ record.country \in {None, CountryOf[user]}
        /\ record.commitments = SourceCommitments(user, record.saltedWith,
                                                  record.dob, record.country)

(* Proof material as buildZkProofInputPayload makes it of such a record:     *)
(* salts are derived again, under the secret of the day.                     *)
Carries(material, user, secret, rebuilt, country) ==
    /\ material.userId = user
    /\ material.kycPassed = TRUE
    /\ material.dob \in {None, DobOf[user]}
    /\ material.code = Alpha2ToNumeric(country)
    /\ material.commitments
           = SourceCommitments(user, secret, material.dob, country)
    /\ material.salts = [kind \in Kind |-> DeriveZkSalt(rebuilt, user, kind)]

(* Proof material carries what a record carried, and salts that may be of    *)
(* another secret than the commitments; if not, the bundle says so.          *)
BundleCarries(bundle) ==
    /\ bundle.wallet \in User
    /\ \E secret, rebuilt :
         \E country \in {None, CountryOf[bundle.wallet]} :
           /\ Carries(bundle.material, bundle.wallet, secret, rebuilt, country)
           /\ bundle.fresh => secret = rebuilt

(* The country of the holder is as the lists of the request want it, unless  *)
(* none of the countries allowed has a number.                               *)
CountryProofTrue(proof) ==
    (/\ proof.request.type = "country"
     /\ proof.request.countryAllow # <<>> => proof.request.allow # <<>>)
        => CountryMeets(proof.holder, proof.request)

(* What providers, API and wallets hand on from each other.                  *)
CarryInv ==
    /\ \A user \in User : RecordCarries(user, store[user])
    /\ \A bundle \in bundles : BundleCarries(bundle)
    /\ \A proof \in proofs : CountryProofTrue(proof)

(* The commitments there are, and what they are of.                          *)
LEMMA CommitmentsRead ==
    ASSUME NEW user, NEW secret, NEW dob, NEW country
    PROVE  LET commitments == SourceCommitments(user, secret, dob, country)
           IN  /\ "dob" \in DOMAIN commitments <=> dob # None
               /\ "kyc" \in DOMAIN commitments
               /\ "country" \in DOMAIN commitments
                      <=> Alpha2ToNumeric(country) # 0
               /\ dob # None => ReadCommitment(commitments, "dob")
                      = CreateDateOfBirthCommitment(dob,
                            DeriveZkSalt(secret, user, "dob"))
               /\ ReadCommitment(commitments, "kyc")
                      = CreateKycPassedCommitment(TRUE,
                            DeriveZkSalt(secret, user, "kyc"))
               /\ Alpha2ToNumeric(country) # 0 =>
                      ReadCommitment(commitments, "country")
                      = CreateCountryCodeCommitment(Alpha2ToNumeric(country),
                            DeriveZkSalt(secret, user, "country"))
<1> DEFINE code == Alpha2ToNumeric(country)
           kinds == {"kyc"} \cup (IF dob = None THEN {} ELSE {"dob"})
                            \cup (IF code = 0 THEN {} ELSE {"country"})
           Salt(kind) == DeriveZkSalt(secret, user, kind)
           Commitment(kind) ==
               CASE kind = "dob" -> CreateDateOfBirthCommitment(dob, Salt(kind))
                 [] kind = "kyc" -> CreateKycPassedCommitment(TRUE, Salt(kind))
                 [] OTHER -> CreateCountryCodeCommitment(code, Salt(kind))
           commitments == SourceCommitments(user, secret, dob, country)
<1>1. commitments = [kind \in kinds |-> FieldToHex(Commitment(kind))]
  BY DEF SourceCommitments
<1>2. /\ "dob" \in kinds <=> dob # None
      /\ "kyc" \in kinds
      /\ "country" \in kinds <=> code # 0
  OBVIOUS
<1>3. /\ Commitment("dob") = CreateDateOfBirthCommitment(dob, Salt("dob"))
      /\ Commitment("kyc") = CreateKycPassedCommitment(TRUE, Salt("kyc"))
      /\ Commitment("country") = CreateCountryCodeCommitment(code, Salt("country"))
  OBVIOUS
<1> HIDE DEF kinds, commitments, Commitment
<1>4. \A kind \in kinds : ReadCommitment(commitments, kind) = Commitment(kind)
  BY <1>1 DEF ReadCommitment, HexToField, FieldToHex
<1>5. DOMAIN commitments = kinds
  BY <1>1
<1> HIDE DEF Salt, code
<1> QED
  BY <1>2, <1>3, <1>4, <1>5 DEF Salt, code, commitments

(* What a country circuit needs of a request: the number is in the lists.    *)
LEMMA CountryRelationIsMeets ==
    ASSUME NEW request \in Requests, request.type = "country",
           NEW code \in Nat
    PROVE  /\ FitsCountryPolicy(request.allow)
           /\ FitsCountryPolicy(request.block)
           /\ CountryRelation(code, PadCountryPolicyList(request.allow),
                              PadCountryPolicyList(request.block))
                  <=> Meets(code, request.allow, request.block)
<1>1. /\ request.allow \in Seq(Nat \ {0}) /\ FitsCountryPolicy(request.allow)
      /\ request.block \in Seq(Nat \ {0}) /\ FitsCountryPolicy(request.block)
  BY CountryRequest, ListedNumbers
<1>2. CountryRelation(code, PadCountryPolicyList(request.allow),
                      PadCountryPolicyList(request.block))
          <=> /\ request.allow # <<>> =>
                    \E i \in DOMAIN request.allow : request.allow[i] = code
              /\ \A i \in DOMAIN request.block : request.block[i] # code
  BY <1>1, CountryCircuitIsMembership
<1> QED
  BY <1>1, <1>2 DEF Meets

(* Numbers tell countries apart, so that a country whose number meets the    *)
(* lists of numbers meets the lists of codes.                                *)
LEMMA NumberMeets ==
    ASSUME NEW request \in Requests, request.type = "country",
           request.countryAllow # <<>> => request.allow # <<>>,
           NEW user \in User, Numeric[CountryOf[user]] # 0,
           Meets(Numeric[CountryOf[user]], request.allow, request.block)
    PROVE  CountryMeets(user, request)
<1> DEFINE country == CountryOf[user]
           code == Numeric[country]
           allow == request.countryAllow
           block == request.countryBlock
<1>1. country \in Code /\ code \in Nat \ {0}
  BY ZkConstants
<1>2. /\ allow \in CodeList /\ request.allow = Listed(allow)
      /\ block \in CodeList /\ request.block = Listed(block)
  BY CountryRequest
<1>3. /\ \A i \in DOMAIN allow : allow[i] \in Code
      /\ \A i \in DOMAIN block : block[i] \in Code
  BY <1>2, LenProperties, ElementOfSeq DEF CodeList
<1> DEFINE Same(numbers, codes) ==
               \A x \in Nat \ {0} :
                   (\E i \in DOMAIN numbers : numbers[i] = x)
                       <=> \E i \in DOMAIN codes : Numeric[codes[i]] = x
<1>4. Same(request.allow, allow) /\ Same(request.block, block)
  <2> HIDE DEF allow, block
  <2>1. \A codes \in CodeList : Same(Listed(codes), codes)
    BY ListedNumbers
  <2> HIDE DEF Same
  <2> QED
    BY <1>2, <2>1
<1>5. ASSUME allow # <<>> PROVE \E i \in DOMAIN allow : allow[i] = country
  <2>1. \E i \in DOMAIN request.allow : request.allow[i] = code
    BY <1>5 DEF Meets
  <2>2. PICK i \in DOMAIN allow : Numeric[allow[i]] = code
    BY <1>1, <1>4, <2>1
  <2>3. allow[i] = country
    BY <1>1, <1>3, <2>2, ZkConstants
  <2> QED
    BY <2>3
<1>6. ASSUME NEW i \in DOMAIN block, block[i] = country PROVE FALSE
  <2>1. \E j \in DOMAIN request.block : request.block[j] = code
    BY <1>1, <1>4, <1>6
  <2> QED
    BY <2>1 DEF Meets
<1> QED
  BY <1>5, <1>6 DEF CountryMeets, Meets

(* A country proof is true of the wallet its material is of, whether or not  *)
(* the salts are those of the commitments.                                   *)
LEMMA CountryProofFromMaterial ==
    ASSUME NEW user \in User, NEW material, NEW secret, NEW rebuilt,
           NEW country \in {None, CountryOf[user]},
           Carries(material, user, secret, rebuilt, country),
           NEW request \in Requests, CanProve(material, request), NEW bundle
    PROVE  CountryProofTrue(Proof(user, bundle, request))
<1> DEFINE proof == Proof(user, bundle, request)
<1>1. proof.request = request /\ proof.holder = user
  BY DEF Proof
<1> HIDE DEF proof
<1>2. SUFFICES ASSUME request.type = "country",
                      request.countryAllow # <<>> => request.allow # <<>>
               PROVE  CountryMeets(user, request)
  BY <1>1 DEF CountryProofTrue, proof
<1> DEFINE public == PublicInput(material, request)
           witness == [code |-> material.code, salt |-> material.salts["country"]]
<1>3. material.code # 0 /\ CountryCircuit(public, witness)
  BY <1>2 DEF CanProve
<1>4. /\ public.allow = PadCountryPolicyList(request.allow)
      /\ public.block = PadCountryPolicyList(request.block)
  BY <1>2 DEF PublicInput, CreateCountryMembershipPublicInput
<1> HIDE DEF public
<1>5. CountryRelation(material.code, PadCountryPolicyList(request.allow),
                      PadCountryPolicyList(request.block))
  BY <1>3, <1>4 DEF CountryCircuit
<1>6. material.code = Numeric[CountryOf[user]] /\ material.code \in Nat
  BY <1>3, ZkConstants DEF Carries, Alpha2ToNumeric
<1>7. Meets(material.code, request.allow, request.block)
  BY <1>2, <1>5, <1>6, CountryRelationIsMeets
<1> QED
  BY <1>2, <1>3, <1>6, <1>7, NumberMeets

(* Material whose salts are those of the commitments proves what its record  *)
(* claims: the circuit asks what the API would answer, and the commitment    *)
(* opens.                                                                    *)
LEMMA FreshMaterialProves ==
    ASSUME NEW user \in User, NEW material, NEW secret,
           NEW country \in {None, CountryOf[user]},
           Carries(material, user, secret, secret, country),
           NEW request \in Requests, today \in DOMAIN Days
    PROVE  CanProve(material, request) <=> Claimed(material.dob, country, request)
<1> DEFINE dob == material.dob
           code == Alpha2ToNumeric(country)
           commitments == SourceCommitments(user, secret, dob, country)
           public == PublicInput(material, request)
<1>1. /\ material.kycPassed = TRUE /\ material.code = code
      /\ dob \in {None, DobOf[user]}
      /\ material.commitments = commitments
      /\ \A kind \in Kind : material.salts[kind] = DeriveZkSalt(secret, user, kind)
  BY DEF Carries
<1>2. /\ "dob" \in DOMAIN commitments <=> dob # None
      /\ "kyc" \in DOMAIN commitments
      /\ "country" \in DOMAIN commitments <=> code # 0
      /\ dob # None => ReadCommitment(commitments, "dob")
             = CreateDateOfBirthCommitment(dob, DeriveZkSalt(secret, user, "dob"))
      /\ ReadCommitment(commitments, "kyc")
             = CreateKycPassedCommitment(TRUE, DeriveZkSalt(secret, user, "kyc"))
      /\ code # 0 => ReadCommitment(commitments, "country")
             = CreateCountryCodeCommitment(code,
                   DeriveZkSalt(secret, user, "country"))
  BY CommitmentsRead
<1>3. code \in Nat /\ (code # 0 => code = Numeric[CountryOf[user]])
  BY ZkConstants DEF Alpha2ToNumeric
<1>4. Kind = {"dob", "kyc", "country"}
  BY DEF Kind
<1> HIDE DEF commitments, code
<1>5. CASE request.type = "age"
  <2>1. Claimed(dob, country, request) <=>
            /\ dob # None /\ request.reference \in Calendar
            /\ HasReachedAge(dob, request.ageGte, request.reference)
    BY <1>5 DEF Claimed
  <2>2. CanProve(material, request) <=>
            /\ dob # None
            /\ "dob" \in DOMAIN material.commitments
            /\ AgeCircuit(public, [birth |-> dob, salt |-> material.salts["dob"]])
    BY <1>5 DEF CanProve
  <2>3. /\ public.commitment = ReadCommitment(commitments, "dob")
        /\ public.minAge = request.ageGte
        /\ public.reference = request.reference
    BY <1>1, <1>5 DEF PublicInput, CreateAgeClaimPublicInput
  <2> HIDE DEF public
  <2>4. dob # None =>
            (AgeCircuit(public, [birth |-> dob, salt |-> material.salts["dob"]])
                 <=> AgeRelation(dob, request.ageGte, request.reference))
    BY <1>1, <1>2, <1>4, <2>3 DEF AgeCircuit
  <2>5. CanProve(material, request) <=>
            dob # None /\ AgeRelation(dob, request.ageGte, request.reference)
    BY <1>1, <1>2, <2>2, <2>4
  <2>6. /\ request.ageGte \in Nat \ {0}
        /\ request.reference \in Calendar \cup Digits
    BY <1>5, AgeRequest
  <2>7. AgeRelation(dob, request.ageGte, request.reference)
            => request.reference \in Calendar
    BY <2>6, DateFields DEF AgeRelation
  <2>8. (dob # None /\ request.reference \in Calendar) =>
            (AgeRelation(dob, request.ageGte, request.reference)
                 <=> HasReachedAge(dob, request.ageGte, request.reference))
    BY <1>1, <2>6, ZkConstants, AgeCircuitIsCalendar
  <2> QED
    BY <2>1, <2>5, <2>7, <2>8
<1>6. CASE request.type = "kyc"
  <2>1. Claimed(dob, country, request)
    BY <1>6 DEF Claimed
  <2>2. CanProve(material, request) <=>
            /\ material.kycPassed
            /\ "kyc" \in DOMAIN material.commitments
            /\ KycCircuit(public, [kycPassed |-> TRUE,
                                   salt |-> material.salts["kyc"]])
    BY <1>6 DEF CanProve
  <2>3. public.commitment = ReadCommitment(commitments, "kyc")
    BY <1>1, <1>6 DEF PublicInput, CreateKycPassedPublicInput
  <2> HIDE DEF public
  <2>4. KycCircuit(public, [kycPassed |-> TRUE, salt |-> material.salts["kyc"]])
    BY <1>1, <1>2, <1>4, <2>3 DEF KycCircuit
  <2> QED
    BY <1>1, <1>2, <2>1, <2>2, <2>4
<1>7. CASE request.type = "country"
  <2>1. Claimed(dob, country, request) <=>
            code # 0 /\ Meets(code, request.allow, request.block)
    BY <1>7 DEF Claimed, code
  <2>2. CanProve(material, request) <=>
            /\ material.code # 0
            /\ "country" \in DOMAIN material.commitments
            /\ FitsCountryPolicy(request.allow)
            /\ FitsCountryPolicy(request.block)
            /\ CountryCircuit(public, [code |-> material.code,
                                       salt |-> material.salts["country"]])
    BY <1>7 DEF CanProve
  <2>3. /\ public.commitment = ReadCommitment(commitments, "country")
        /\ public.allow = PadCountryPolicyList(request.allow)
        /\ public.block = PadCountryPolicyList(request.block)
    BY <1>1, <1>7 DEF PublicInput, CreateCountryMembershipPublicInput
  <2> HIDE DEF public
  <2>4. code # 0 =>
            (CountryCircuit(public, [code |-> material.code,
                                     salt |-> material.salts["country"]])
                 <=> CountryRelation(code, PadCountryPolicyList(request.allow),
                                     PadCountryPolicyList(request.block)))
    BY <1>1, <1>2, <1>4, <2>3 DEF CountryCircuit
  <2>5. /\ FitsCountryPolicy(request.allow) /\ FitsCountryPolicy(request.block)
        /\ CountryRelation(code, PadCountryPolicyList(request.allow),
                           PadCountryPolicyList(request.block))
               <=> Meets(code, request.allow, request.block)
    BY <1>3, <1>7, CountryRelationIsMeets
  <2> QED
    BY <1>1, <1>2, <2>1, <2>2, <2>4, <2>5
<1> QED
  BY <1>5, <1>6, <1>7, RequestType

(* The material rebuilt from a record carries what the record does.          *)
LEMMA RecordMaterial ==
    ASSUME NEW user \in User, RecordCarries(user, store[user]), HasZkInput(user)
    PROVE  /\ store[user].country \in {None, CountryOf[user]}
           /\ store[user].dob = BuildZkProofInputPayload(user).dob
           /\ Carries(BuildZkProofInputPayload(user), user,
                      store[user].saltedWith, secrets[store[user].provider],
                      store[user].country)
           /\ BundleCarries(SignedBundle(user))
<1> DEFINE record == store[user]
           material == BuildZkProofInputPayload(user)
           bundle == SignedBundle(user)
<1>1. /\ record.dob \in {None, DobOf[user]}
      /\ record.country \in {None, CountryOf[user]}
      /\ record.commitments = SourceCommitments(user, record.saltedWith,
                                                record.dob, record.country)
  BY DEF RecordCarries, HasZkInput
<1>2. material = [userId |-> user, dob |-> record.dob, kycPassed |-> TRUE,
                  code |-> Alpha2ToNumeric(record.country),
                  commitments |-> record.commitments,
                  salts |-> [kind \in Kind |->
                      DeriveZkSalt(secrets[record.provider], user, kind)]]
  BY DEF BuildZkProofInputPayload
<1>3. bundle = [wallet |-> user, material |-> material,
                fresh |-> (record.saltedWith = secrets[record.provider])]
  BY DEF SignedBundle, Fresh
<1> HIDE DEF record, material, bundle
<1>4. material.dob = record.dob
  BY <1>2
<1>5. Carries(material, user, record.saltedWith, secrets[record.provider],
              record.country)
  BY <1>1, <1>2 DEF Carries
<1>6. bundle.wallet = user /\ bundle.material = material
  BY <1>3
<1>7. bundle.fresh => record.saltedWith = secrets[record.provider]
  BY <1>3
<1>8. BundleCarries(bundle)
  <2> DEFINE secret == record.saltedWith
             rebuilt == secrets[record.provider]
             country == record.country
  <2>1. /\ bundle.wallet \in User
        /\ country \in {None, CountryOf[bundle.wallet]}
        /\ Carries(bundle.material, bundle.wallet, secret, rebuilt, country)
        /\ bundle.fresh => secret = rebuilt
    BY <1>1, <1>5, <1>6, <1>7
  <2> HIDE DEF secret, rebuilt, country
  <2> QED
    BY <2>1 DEF BundleCarries
<1> QED
  BY <1>1, <1>4, <1>5, <1>8 DEF record, material, bundle

(* Every step of the API and the wallets hands on what it got.               *)
LEMMA CarryInvNext ==
    ASSUME ZkInv, CarryInv, [ZkNext]_zkVars
    PROVE  CarryInv'
<1> USE DEF CarryInv
<1>1. CASE UNCHANGED zkVars
  BY <1>1 DEF zkVars
<1>2. ASSUME NEW user \in User, NEW record, RecordCarries(user, record),
             store' = [store EXCEPT ![user] = record],
             UNCHANGED <<bundles, proofs>>
      PROVE  CarryInv'
  <2>1. DOMAIN store = User
    BY DEF ZkInv
  <2>2. ASSUME NEW u \in User PROVE RecordCarries(u, store'[u])
    BY <1>2, <2>1
  <2> QED
    BY <1>2, <2>2
<1>3. ASSUME NEW user \in User, NEW provider \in Provider,
             Approve(user, provider)
      PROVE  CarryInv'
  <2>1. PICK dob \in {DobOf[user], None}, country \in {CountryOf[user], None} :
            store' = [store EXCEPT ![user] =
                         MaterializeClaims(user, provider, dob, country)]
    BY <1>3 DEF Approve
  <2> DEFINE record == MaterializeClaims(user, provider, dob, country)
  <2>2. RecordCarries(user, record)
    BY DEF RecordCarries, MaterializeClaims
  <2>3. UNCHANGED <<bundles, proofs>>
    BY <1>3 DEF Approve
  <2> HIDE DEF record
  <2> QED
    BY <1>2, <2>1, <2>2, <2>3 DEF record
<1>4. ASSUME NEW user \in User, IssueDemoClaims(user) PROVE CarryInv'
  <2>1. RecordCarries(user, DemoClaims)
    BY DEF RecordCarries, DemoClaims
  <2> QED
    BY <1>2, <1>4, <2>1 DEF IssueDemoClaims
<1>5. ASSUME NEW user \in User, ExpireClaims(user) PROVE CarryInv'
  <2>1. RecordCarries(user, None)
    BY DEF RecordCarries
  <2> QED
    BY <1>2, <1>5, <2>1 DEF ExpireClaims
<1>6. ASSUME NEW user \in User, HasZkInput(user),
             bundles' = bundles \cup {SignedBundle(user)}
      PROVE  \A bundle \in bundles' : BundleCarries(bundle)
  BY <1>6, RecordMaterial
<1>7. ASSUME NEW user \in User, IssueBundle(user) PROVE CarryInv'
  BY <1>6, <1>7 DEF IssueBundle
<1>8. ASSUME NEW user \in User, NEW request \in Requests,
             ProveFromRecord(user, request)
      PROVE  CarryInv'
  <2> DEFINE new == Proof(user, SignedBundle(user), request)
  <2>1. /\ HasZkInput(user) /\ store' = store
        /\ CanProve(BuildZkProofInputPayload(user), request)
        /\ bundles' = bundles \cup {SignedBundle(user)}
        /\ proofs' = proofs \cup {new}
    BY <1>8 DEF ProveFromRecord, Keep
  <2>2. CountryProofTrue(new)
    <3>1. /\ store[user].country \in {None, CountryOf[user]}
          /\ Carries(BuildZkProofInputPayload(user), user,
                     store[user].saltedWith, secrets[store[user].provider],
                     store[user].country)
      BY <2>1, RecordMaterial
    <3> QED
      BY <2>1, <3>1, CountryProofFromMaterial
  <2> HIDE DEF new
  <2> QED
    BY <1>6, <2>1, <2>2
<1>9. ASSUME NEW user \in User, NEW request \in Requests, NEW bundle \in bundles,
             \/ ProveFromBundle(user, bundle, request)
             \/ ProveInBrowser(user, bundle, request)
      PROVE  CarryInv'
  <2> DEFINE new == Proof(user, bundle, request)
  <2>1. /\ UNCHANGED <<store, bundles>>
        /\ CanProve(bundle.material, request)
        /\ proofs' = proofs \cup {new}
        /\ bundle.wallet = user
    BY <1>9 DEF ProveFromBundle, ProveInBrowser, Keep, BundleVerifies
  <2>2. CountryProofTrue(new)
    <3>1. BundleCarries(bundle)
      OBVIOUS
    <3>2. PICK secret, rebuilt :
            \E country \in {None, CountryOf[user]} :
              Carries(bundle.material, user, secret, rebuilt, country)
      BY <2>1, <3>1 DEF BundleCarries
    <3>3. PICK country \in {None, CountryOf[user]} :
            Carries(bundle.material, user, secret, rebuilt, country)
      BY <3>2
    <3> QED
      BY <2>1, <3>3, CountryProofFromMaterial
  <2> HIDE DEF new
  <2> QED
    BY <2>1, <2>2
<1>10. ASSUME NEW provider \in Provider, NEW secret \in Secret \cup {None},
              Restart(provider, secret)
       PROVE  CarryInv'
  BY <1>10 DEF Restart
<1>11. CASE NextDay
  BY <1>11 DEF NextDay
<1> QED
  BY <1>1, <1>3, <1>4, <1>5, <1>7, <1>8, <1>9, <1>10, <1>11 DEF ZkNext

(* The verifier reads out of a public input what was asked for, whatever     *)
(* material it was made from, unless it asked for an age on a date of a year *)
(* before 1000, which it then writes shorter: padding a list of countries    *)
(* and reading it back gives the list (country.ts,                           *)
(* toCountryPublicInputFromRawProof and toAgePublicInputFromRawProof of      *)
(* app.ts).                                                                  *)
THEOREM InputsOfRequest ==
    ASSUME NEW request \in Requests, NEW material
    PROVE  InputsMatch(PublicInput(material, request), request) <=>
               (request.type = "age" => request.reference.year >= 1000)
<1>1. CASE request.type = "age"
  BY <1>1 DEF InputsMatch, PublicInput, CreateAgeClaimPublicInput, WrittenInFull
<1>2. CASE request.type = "kyc"
  BY <1>2 DEF InputsMatch
<1>3. CASE request.type = "country"
  <2>1. /\ request.allow \in Seq(Nat \ {0}) /\ FitsCountryPolicy(request.allow)
        /\ request.block \in Seq(Nat \ {0}) /\ FitsCountryPolicy(request.block)
    BY <1>3, CountryRequest, ListedNumbers
  <2>2. /\ PublicInput(material, request).allow
               = PadCountryPolicyList(request.allow)
        /\ PublicInput(material, request).block
               = PadCountryPolicyList(request.block)
    BY <1>3 DEF PublicInput, CreateCountryMembershipPublicInput
  <2>3. /\ CountryPolicyList(PadCountryPolicyList(request.allow)) = request.allow
        /\ CountryPolicyList(PadCountryPolicyList(request.block)) = request.block
    BY <2>1, PositiveOfPadded
  <2> QED
    BY <1>3, <2>2, <2>3 DEF InputsMatch
<1> QED
  BY <1>1, <1>2, <1>3, RequestType

(* What is claimed is what fresh material proves.                            *)
LEMMA CarriedIsProvable ==
    ASSUME ZkInv, CarryInv
    PROVE  ProvesWhatIsClaimed
<1>1. today \in DOMAIN Days
  BY DEF ZkInv
<1>2. ASSUME NEW request \in Requests, NEW user \in User, HasZkInput(user),
             Fresh(user)
      PROVE  CanProve(BuildZkProofInputPayload(user), request)
                 <=> Claimed(store[user].dob, store[user].country, request)
  <2>1. RecordCarries(user, store[user])
    BY DEF CarryInv
  <2>2. store[user].saltedWith = secrets[store[user].provider]
    BY <1>2 DEF Fresh
  <2>3. /\ store[user].country \in {None, CountryOf[user]}
        /\ store[user].dob = BuildZkProofInputPayload(user).dob
        /\ Carries(BuildZkProofInputPayload(user), user,
                   store[user].saltedWith, store[user].saltedWith,
                   store[user].country)
    BY <1>2, <2>1, <2>2, RecordMaterial
  <2> QED
    BY <1>1, <2>3, FreshMaterialProves
<1>3. ASSUME NEW request \in Requests, NEW bundle \in bundles, bundle.fresh
      PROVE  CanProve(bundle.material, request)
                 <=> Claimed(bundle.material.dob,
                         IF bundle.material.code = 0 THEN None
                         ELSE CountryOf[bundle.wallet], request)
  <2> DEFINE user == bundle.wallet
             material == bundle.material
  <2>1. user \in User /\ BundleCarries(bundle)
    BY DEF CarryInv, BundleCarries
  <2>2. PICK secret :
           \E country \in {None, CountryOf[user]} :
              Carries(material, user, secret, secret, country)
    BY <1>3, <2>1 DEF BundleCarries
  <2>3. PICK country \in {None, CountryOf[user]} :
           Carries(material, user, secret, secret, country)
    BY <2>2
  <2>4. CanProve(material, request) <=> Claimed(material.dob, country, request)
    BY <1>1, <2>1, <2>3, FreshMaterialProves
  <2> DEFINE shown == IF material.code = 0 THEN None ELSE CountryOf[user]
  <2>5. Alpha2ToNumeric(shown) = Alpha2ToNumeric(country)
    <3>1. material.code = Alpha2ToNumeric(country)
      BY <2>3 DEF Carries
    <3>2. Alpha2ToNumeric(None) = 0
      BY DEF Alpha2ToNumeric
    <3>3. CASE country = None
      BY <3>1, <3>2, <3>3
    <3>4. CASE country = CountryOf[user]
      BY <3>1, <3>2, <3>4
    <3> QED
      BY <3>3, <3>4
  <2> HIDE DEF shown
  <2>6. Claimed(material.dob, shown, request)
            <=> Claimed(material.dob, country, request)
    BY <2>5 DEF Claimed
  <2> QED
    BY <2>4, <2>6 DEF shown
<1> QED
  BY <1>2, <1>3 DEF ProvesWhatIsClaimed

(* The invariant of what is handed on.                                       *)
THEOREM CarriedInvariant == Spec => []CarryInv
<1>1. Init => CarryInv
  BY DEF Init, ZkInit, CarryInv, RecordCarries
<1>2. IInv /\ CarryInv /\ [Next]_vars => CarryInv'
  <2> SUFFICES ASSUME IInv, CarryInv, [Next]_vars PROVE CarryInv'
    OBVIOUS
  <2>1. CASE ZkNext
    BY <2>1, CarryInvNext DEF IInv
  <2>2. CASE GateNext
    <3>1. UNCHANGED zkVars
      BY <2>2 DEF GateNext, SendUpdatePolicy, SendInitialize, SendPassage, Include
    <3> QED
      BY <3>1, CarryInvNext DEF IInv
  <2>3. CASE UNCHANGED vars
    <3>1. UNCHANGED zkVars
      BY <2>3 DEF vars
    <3> QED
      BY <3>1, CarryInvNext DEF IInv
  <2> QED
    BY <2>1, <2>2, <2>3 DEF Next
<1> QED
  BY <1>1, <1>2, Invariant, PTL DEF Spec

(* Every country proof a wallet holds is true of its holder: the country on  *)
(* the documents meets the lists that were asked for, whatever secrets,      *)
(* bundles and records have come and gone.                                   *)
THEOREM CountryProofsTrue == Spec => []CountryProofsAreTrue
<1>1. CarryInv => CountryProofsAreTrue
  BY DEF CarryInv, CountryProofTrue, CountryProofsAreTrue
<1> QED
  BY <1>1, CarriedInvariant, PTL

(* Material with the salts of its commitments proves exactly what the record *)
(* claims, for every request that can be asked for.                          *)
THEOREM ClaimsProvable == Spec => []ProvesWhatIsClaimed
<1>1. IInv /\ CarryInv => ProvesWhatIsClaimed
  BY CarriedIsProvable DEF IInv
<1> QED
  BY <1>1, Invariant, CarriedInvariant, PTL
=============================================================================
