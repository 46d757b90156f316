----------------------- MODULE VerificationApi_proofs -----------------------
(* Proofs about VerificationApi: what the maps, the state file and the       *)
(* snapshot on its way there say of the verifications, for any sessions,     *)
(* users, webhook calls and capacities.                                      *)
EXTENDS VerificationApi, FiniteSetTheorems, TLAPS

-----------------------------------------------------------------------------
(* Snapshots *)

\* The maps, as a snapshot of this instant.
Mem == [verifications |-> verifications, claims |-> claims, processed |-> processed]

\* A snapshot is within the capacities.
Fits(X) ==
    /\ X \in Snapshot
    /\ IsFiniteSet(Present(X.verifications))
    /\ Cardinality(Present(X.verifications)) <= MaxVerifications
    /\ IsFiniteSet(Present(X.claims))
    /\ Cardinality(Present(X.claims)) <= MaxClaims
    /\ Len(X.processed) <= MaxProcessed

\* At t the claims of session s, first stored at since[s], are in X, or newer
\* ones in their place, or they have outlived CLAIM_TTL_MS.
ServedBy(s, X, t, since) ==
    LET v == X.verifications[s]
        r == X.claims[v.user]
    IN
    /\ v # None
    /\ since[s] # None
    /\ r # None => since[s] <= r.verifiedAt
    /\ r = None => t - since[s] > ClaimTtl

\* So they are for every approval that X remembers.
Served(X, t, since) ==
    \A e \in Remembered(X.processed) : IsApproval(e) => ServedBy(e[1], X, t, since)

\* Records are of the user who opened the session, claims of one whose approval
\* the provider has announced.
Sourced(X, st, em) ==
    /\ \A s \in Session :
         X.verifications[s] # None =>
            /\ st[s].pc # "idle"
            /\ X.verifications[s].user = st[s].user
    /\ \A u \in User :
         (X.claims[u] # None /\ X.claims[u].source # "demo") =>
            LET s == X.claims[u].source IN
            /\ st[s].pc # "idle"
            /\ st[s].user = u
            /\ \E raw \in em[s] : MapVerificationStatus(raw) = "approved"

Good(X, t, since, st, em) ==
    Fits(X) /\ Served(X, t, since) /\ Sourced(X, st, em)

\* What hydrate() makes of X at t.
HydratedAt(X, t) ==
    [X EXCEPT !.claims = [u \in User |-> IF Expired(X.claims[u], t) THEN None
                                         ELSE X.claims[u]]]

\* The fields of a snapshot.
LEMMA SnapshotFields ==
    ASSUME NEW X
    PROVE  X \in Snapshot =>
             /\ X.verifications \in [Session -> VerificationRecord \cup {None}]
             /\ X.claims \in [User -> ClaimsRecord \cup {None}]
             /\ X.processed \in Seq(DedupeKey)
             /\ X # None
BY StoreBounds DEF Snapshot, StoreBounds

\* The maps are the fields of their snapshot.
LEMMA MemFields ==
    /\ Mem.verifications = verifications
    /\ Mem.claims = claims
    /\ Mem.processed = processed
BY DEF Mem

\* A full set of dedupe keys makes room before it takes one more.
LEMMA MarkKeeps ==
    ASSUME NEW keys \in Seq(DedupeKey), NEW key \in DedupeKey,
           Len(keys) <= MaxProcessed
    PROVE  /\ Mark(keys, key) \in Seq(DedupeKey)
           /\ Len(Mark(keys, key)) <= MaxProcessed
           /\ Remembered(Mark(keys, key)) \subseteq Remembered(keys) \cup {key}
<1> DEFINE n == EvictCount
           kept == IF Len(keys) >= MaxProcessed
                   THEN SubSeq(keys, n + 1, Len(keys)) ELSE keys
<1>1. n \in Nat /\ n >= 1
  BY StoreBounds DEF EvictCount, StoreBounds
<1> HIDE DEF n
<1>2. Len(keys) \in Nat /\ MaxProcessed \in Nat /\ MaxProcessed >= 1
  BY StoreBounds DEF StoreBounds
<1>3. /\ kept \in Seq(DedupeKey)
      /\ Len(kept) < MaxProcessed
      /\ Remembered(kept) \subseteq Remembered(keys)
  <2>1. CASE Len(keys) >= MaxProcessed
    BY <1>1, <1>2, <2>1 DEF Remembered
  <2>2. CASE ~(Len(keys) >= MaxProcessed)
    BY <1>2, <2>2
  <2> QED
    BY <2>1, <2>2
<1> HIDE DEF kept
<1>4. Mark(keys, key) = IF key \in Remembered(kept) THEN kept ELSE Append(kept, key)
  BY DEF Mark, kept, n
<1>5. /\ Append(kept, key) \in Seq(DedupeKey)
      /\ Len(Append(kept, key)) = Len(kept) + 1
      /\ Remembered(Append(kept, key)) \subseteq Remembered(kept) \cup {key}
  BY <1>3 DEF Remembered
<1> QED
  BY <1>2, <1>3, <1>4, <1>5

-----------------------------------------------------------------------------
(* Capacities *)

\* Setting one key makes room for one more at most, ...
LEMMA PresentGrows ==
    ASSUME NEW map, NEW other, NEW x, NEW max \in Nat,
           Present(other) \subseteq Present(map) \cup {x},
           IsFiniteSet(Present(map)), Cardinality(Present(map)) <= max,
           x \in Present(map) \/ Cardinality(Present(map)) < max
    PROVE  IsFiniteSet(Present(other)) /\ Cardinality(Present(other)) <= max
<1> DEFINE S == Present(map)
<1>3. IsFiniteSet(S \cup {x}) /\ Cardinality(S \cup {x}) <= max
  <2>1. /\ IsFiniteSet(S \cup {x})
        /\ Cardinality(S \cup {x}) = IF x \in S THEN Cardinality(S)
                                     ELSE Cardinality(S) + 1
    BY FS_AddElement
  <2>2. Cardinality(S) \in Nat
    BY FS_CardinalityType
  <2> HIDE DEF S
  <2>3. Cardinality(S) <= max /\ (x \in S \/ Cardinality(S) < max)
    BY DEF S
  <2> QED
    BY <2>1, <2>2, <2>3
<1> HIDE DEF S
<1>4. IsFiniteSet(Present(other)) /\ Cardinality(Present(other)) <= Cardinality(S \cup {x})
  BY <1>3, FS_Subset DEF S
<1>5. Cardinality(Present(other)) \in Nat /\ Cardinality(S \cup {x}) \in Nat
  BY <1>3, <1>4, FS_CardinalityType
<1> QED
  BY <1>3, <1>4, <1>5

\* ... and dropping keys for none.
LEMMA PresentShrinks ==
    ASSUME NEW D, NEW R, NEW map \in [D -> R], NEW other \in [D -> R], NEW max \in Nat,
           \A x \in D : other[x] = map[x] \/ other[x] = None,
           IsFiniteSet(Present(map)), Cardinality(Present(map)) <= max
    PROVE  IsFiniteSet(Present(other)) /\ Cardinality(Present(other)) <= max
<1>1. Present(other) \subseteq Present(map)
  BY DEF Present
<1>2. IsFiniteSet(Present(other)) /\ Cardinality(Present(other)) <= Cardinality(Present(map))
  BY <1>1, FS_Subset
<1>3. Cardinality(Present(other)) \in Nat /\ Cardinality(Present(map)) \in Nat
  BY <1>2, FS_CardinalityType
<1> QED
  BY <1>2, <1>3

-----------------------------------------------------------------------------
(* What the operations make of a snapshot *)

\* Sessions stay those of the user who opened them, statuses announced and
\* claims stored stay so, and time does not go back.
Later(t, since, st, em, t2, since2, st2, em2) ==
    /\ t \in Nat /\ t2 \in Nat /\ t <= t2
    /\ \A s \in Session :
         /\ since[s] # None => since[s] \in Nat /\ since2[s] = since[s]
         /\ st[s].pc # "idle" => st2[s].pc # "idle" /\ st2[s].user = st[s].user
         /\ em[s] \subseteq em2[s]

\* What is served stays served: claims do not grow younger.
LEMMA ServedLasts ==
    ASSUME NEW X \in Snapshot, NEW t, NEW since, NEW st, NEW em,
           NEW t2, NEW since2, NEW st2, NEW em2,
           Later(t, since, st, em, t2, since2, st2, em2),
           NEW s \in Session, ServedBy(s, X, t, since)
    PROVE  ServedBy(s, X, t2, since2)
BY StoreBounds DEF ServedBy, Later, StoreBounds

\* A remembered key names a session and a status.
LEMMA RememberedKeys ==
    ASSUME NEW X \in Snapshot, NEW e \in Remembered(X.processed)
    PROVE  e \in DedupeKey /\ e[1] \in Session /\ e[2] \in RawStatus
<1>1. X.processed \in Seq(DedupeKey)
  BY SnapshotFields
<1>2. e \in DedupeKey
  BY <1>1 DEF Remembered
<1> QED
  BY <1>2 DEF DedupeKey

\* A snapshot stays good while others are made.
LEMMA GoodLasts ==
    ASSUME NEW X, NEW t, NEW since, NEW st, NEW em,
           NEW t2, NEW since2, NEW st2, NEW em2,
           Later(t, since, st, em, t2, since2, st2, em2),
           Good(X, t, since, st, em)
    PROVE  Good(X, t2, since2, st2, em2)
<1>1. Fits(X) /\ X \in Snapshot
  BY DEF Good, Fits
<1>2. Served(X, t2, since2)
  BY <1>1, ServedLasts, RememberedKeys DEF Good, Served
<1>3. \A s \in Session :
         X.verifications[s] # None =>
            /\ st2[s].pc # "idle"
            /\ X.verifications[s].user = st2[s].user
  BY DEF Good, Sourced, Later
<1>4. ASSUME NEW u \in User, X.claims[u] # None, X.claims[u].source # "demo"
      PROVE  LET s == X.claims[u].source IN
             /\ st2[s].pc # "idle"
             /\ st2[s].user = u
             /\ \E raw \in em2[s] : MapVerificationStatus(raw) = "approved"
  <2>1. X.claims[u] \in ClaimsRecord
    BY <1>1, <1>4, SnapshotFields
  <2>2. X.claims[u].source \in Session
    BY <1>4, <2>1 DEF ClaimsRecord
  <2>3. LET s == X.claims[u].source IN
             /\ st[s].pc # "idle"
             /\ st[s].user = u
             /\ \E raw \in em[s] : MapVerificationStatus(raw) = "approved"
    BY <1>4 DEF Good, Sourced
  <2> QED
    BY <2>2, <2>3 DEF Later
<1> QED
  BY <1>1, <1>2, <1>3, <1>4 DEF Good, Sourced

\* Dropping expired claims, on reading or in hydrate(), drops none before its
\* time.
LEMMA DropExpired ==
    ASSUME NEW X, NEW Y, NEW t \in Nat, NEW since, NEW st, NEW em,
           Good(X, t, since, st, em),
           \A s \in Session : since[s] \in Nat \cup {None},
           Y \in Snapshot,
           Y.verifications = X.verifications, Y.processed = X.processed,
           \A u \in User : \/ Y.claims[u] = X.claims[u]
                           \/ Y.claims[u] = None /\ Expired(X.claims[u], t)
    PROVE  /\ Good(Y, t, since, st, em)
           /\ \A s \in Session : ServedBy(s, X, t, since) => ServedBy(s, Y, t, since)
<1>1. /\ Fits(X)
      /\ X.verifications \in [Session -> VerificationRecord \cup {None}]
      /\ X.claims \in [User -> ClaimsRecord \cup {None}]
      /\ Y.claims \in [User -> ClaimsRecord \cup {None}]
  BY SnapshotFields DEF Good, Fits
<1>2. Fits(Y)
  BY <1>1, PresentShrinks, StoreBounds DEF Fits, StoreBounds
<1>3. ASSUME NEW s \in Session, ServedBy(s, X, t, since)
      PROVE  ServedBy(s, Y, t, since)
  <2> DEFINE u == X.verifications[s].user
  <2>1. u \in User
    BY <1>1, <1>3 DEF ServedBy, VerificationRecord
  <2>2. CASE Y.claims[u] = X.claims[u]
    BY <1>3, <2>2 DEF ServedBy
  <2>3. CASE Y.claims[u] = None /\ Expired(X.claims[u], t)
    <3>1. /\ X.claims[u] # None
          /\ t - X.claims[u].verifiedAt > ClaimTtl
          /\ X.claims[u].verifiedAt \in Nat
      BY <1>1, <2>1, <2>3 DEF Expired, ClaimsRecord
    <3>2. since[s] \in Nat /\ since[s] <= X.claims[u].verifiedAt
      BY <1>3, <3>1 DEF ServedBy
    <3>3. t - since[s] > ClaimTtl
      BY <3>1, <3>2, StoreBounds DEF StoreBounds
    <3> QED
      BY <1>3, <2>3, <3>3 DEF ServedBy
  <2> QED
    BY <2>1, <2>2, <2>3
<1>4. Served(Y, t, since)
  BY <1>3, RememberedKeys DEF Good, Served
<1>5. Sourced(Y, st, em)
  BY DEF Good, Sourced
<1> QED
  BY <1>2, <1>3, <1>4, <1>5 DEF Good

\* A record of a session is of the user who opened it, and room has been made
\* for it or was not needed.
LEMMA RecordSet ==
    ASSUME NEW X, NEW Y, NEW t, NEW since, NEW st, NEW em,
           Good(X, t, since, st, em), Y \in Snapshot,
           NEW s \in Session, NEW v \in VerificationRecord,
           st[s].pc # "idle", v.user = st[s].user,
           \/ X.verifications[s] # None
           \/ Cardinality(Present(X.verifications)) < MaxVerifications,
           Y.verifications = [X.verifications EXCEPT ![s] = v],
           Y.claims = X.claims, Y.processed = X.processed
    PROVE  /\ Good(Y, t, since, st, em)
           /\ \A q \in Session : ServedBy(q, X, t, since) => ServedBy(q, Y, t, since)
<1>1. /\ Fits(X)
      /\ X.verifications \in [Session -> VerificationRecord \cup {None}]
  BY SnapshotFields DEF Good, Fits
<1>2. Fits(Y)
  <2>1. MaxVerifications \in Nat
    BY StoreBounds DEF StoreBounds
  <2>3. /\ Present(Y.verifications) \subseteq Present(X.verifications) \cup {s}
        /\ X.verifications[s] # None => s \in Present(X.verifications)
    BY <1>1 DEF Present
  <2>2. /\ IsFiniteSet(Present(Y.verifications))
        /\ Cardinality(Present(Y.verifications)) <= MaxVerifications
    BY <1>1, <2>1, <2>3, PresentGrows DEF Fits
  <2> QED
    BY <1>1, <2>2 DEF Fits
<1>3. v # None
  BY StoreBounds DEF StoreBounds
<1>4. ASSUME NEW q \in Session, ServedBy(q, X, t, since)
      PROVE  ServedBy(q, Y, t, since)
  <2>1. Y.verifications[q] # None /\ Y.verifications[q].user = X.verifications[q].user
    BY <1>1, <1>3, <1>4 DEF ServedBy, Good, Sourced
  <2> QED
    BY <1>4, <2>1 DEF ServedBy
<1>5. Served(Y, t, since)
  BY <1>1, <1>4, RememberedKeys DEF Good, Served, Fits
<1>6. Sourced(Y, st, em)
  BY <1>1 DEF Good, Sourced
<1> QED
  BY <1>2, <1>4, <1>5, <1>6 DEF Good

\* Claims stored now are newer than those of any session served.
LEMMA ClaimsSet ==
    ASSUME NEW X, NEW Y, NEW t, NEW since, NEW st, NEW em,
           Good(X, t, since, st, em), Y \in Snapshot,
           NEW u \in User, NEW r \in ClaimsRecord,
           \A s \in Session : since[s] # None => since[s] <= r.verifiedAt,
           r.source # "demo" =>
              /\ st[r.source].pc # "idle"
              /\ st[r.source].user = u
              /\ \E raw \in em[r.source] : MapVerificationStatus(raw) = "approved",
           X.claims[u] # None \/ Cardinality(Present(X.claims)) < MaxClaims,
           Y.claims = [X.claims EXCEPT ![u] = r],
           Y.verifications = X.verifications, Y.processed = X.processed
    PROVE  /\ Good(Y, t, since, st, em)
           /\ \A s \in Session : ServedBy(s, X, t, since) => ServedBy(s, Y, t, since)
<1>1. /\ Fits(X)
      /\ X.claims \in [User -> ClaimsRecord \cup {None}]
      /\ X.verifications \in [Session -> VerificationRecord \cup {None}]
  BY SnapshotFields DEF Good, Fits
<1>2. Fits(Y)
  <2>1. MaxClaims \in Nat
    BY StoreBounds DEF StoreBounds
  <2>3. /\ Present(Y.claims) \subseteq Present(X.claims) \cup {u}
        /\ X.claims[u] # None => u \in Present(X.claims)
    BY <1>1 DEF Present
  <2>2. /\ IsFiniteSet(Present(Y.claims))
        /\ Cardinality(Present(Y.claims)) <= MaxClaims
    BY <1>1, <2>1, <2>3, PresentGrows DEF Fits
  <2> QED
    BY <1>1, <2>2 DEF Fits
<1>3. r # None
  BY StoreBounds DEF StoreBounds
<1>4. ASSUME NEW s \in Session, ServedBy(s, X, t, since)
      PROVE  ServedBy(s, Y, t, since)
  <2>1. X.verifications[s].user \in User
    BY <1>1, <1>4 DEF ServedBy, VerificationRecord
  <2>2. X.verifications[s].user = u => Y.claims[X.verifications[s].user] = r
    BY <1>1, <2>1
  <2>3. X.verifications[s].user # u
          => Y.claims[X.verifications[s].user] = X.claims[X.verifications[s].user]
    BY <1>1, <2>1
  <2> QED
    BY <1>3, <1>4, <2>2, <2>3 DEF ServedBy
<1>5. Served(Y, t, since)
  BY <1>1, <1>4, RememberedKeys DEF Good, Served, Fits
<1>6. Sourced(Y, st, em)
  BY <1>1 DEF Good, Sourced
<1> QED
  BY <1>2, <1>4, <1>5, <1>6 DEF Good

\* A key is remembered once what it stands for is served.
LEMMA KeyMarked ==
    ASSUME NEW X, NEW Y, NEW t, NEW since, NEW st, NEW em,
           Good(X, t, since, st, em), Y \in Snapshot,
           NEW e \in DedupeKey,
           IsApproval(e) => ServedBy(e[1], X, t, since),
           Y.processed = Mark(X.processed, e),
           Y.verifications = X.verifications, Y.claims = X.claims
    PROVE  /\ Good(Y, t, since, st, em)
           /\ \A s \in Session : ServedBy(s, X, t, since) => ServedBy(s, Y, t, since)
<1>1. Fits(X) /\ X.processed \in Seq(DedupeKey)
  BY SnapshotFields DEF Good, Fits
<1>2. /\ Len(Y.processed) <= MaxProcessed
      /\ Remembered(Y.processed) \subseteq Remembered(X.processed) \cup {e}
  BY <1>1, MarkKeeps DEF Fits
<1>3. Fits(Y)
  BY <1>1, <1>2 DEF Fits
<1>4. \A s \in Session : ServedBy(s, X, t, since) => ServedBy(s, Y, t, since)
  BY DEF ServedBy
<1>5. e[1] \in Session
  BY DEF DedupeKey
<1>6. Served(Y, t, since)
  <2>1. ASSUME NEW f \in Remembered(Y.processed), IsApproval(f)
        PROVE  ServedBy(f[1], X, t, since)
    BY <1>2, <2>1 DEF Good, Served
  <2>2. \A f \in Remembered(Y.processed) : f[1] \in Session
    BY <1>1, <1>2, <1>5, RememberedKeys DEF Fits
  <2> QED
    BY <1>4, <2>1, <2>2 DEF Served
<1>7. Sourced(Y, st, em)
  BY DEF Good, Sourced
<1> QED
  BY <1>3, <1>4, <1>6, <1>7 DEF Good

-----------------------------------------------------------------------------
(* The invariant *)

Now(X) == Good(X, clock, storedAt, start, emitted)

\* A webhook call is about a status the provider announced of a session it has;
\* past updateVerificationStatus the session has a record, and past
\* upsertClaims an approval has its claims.
HookHolds(d) ==
    LET e == hook[d].event IN
    hook[d].pc # "idle" =>
        /\ e \in DedupeKey
        /\ start[e[1]].pc # "idle"
        /\ e[2] \in emitted[e[1]]
        /\ hook[d].pc = "materialize" => IsApproval(e) /\ verifications[e[1]] # None
        /\ hook[d].pc = "mark" /\ IsApproval(e) => ServedBy(e[1], Mem, clock, storedAt)

Types ==
    /\ clock \in Nat /\ flushes \in Nat /\ attempt \in {1, 2}
    /\ failures \in Nat /\ crashes \in Nat
    /\ start \in [Session -> StartState]
    /\ emitted \in [Session -> SUBSET RawStatus]
    /\ hook \in [Delivery -> HookState]
    /\ storedAt \in [Session -> Nat \cup {None}]
    /\ \A s \in Session : storedAt[s] # None => storedAt[s] <= clock
    /\ \A s \in Session : start[s].pc # "idle" => start[s].user \in User

Inv ==
    /\ Types
    /\ Now(Mem) /\ Now(disk)
    /\ writing # None => Now(writing)
    /\ \A d \in Delivery : HookHolds(d)

\* What the steps of the handlers do to the maps: the snapshot is as good as
\* it was, what was served stays served, and no session loses its record.
MemKept ==
    /\ Good(Mem', clock, storedAt, start, emitted)
    /\ \A s \in Session :
         /\ ServedBy(s, Mem, clock, storedAt) => ServedBy(s, Mem', clock, storedAt)
         /\ verifications[s] # None => verifications'[s] # None

\* The maps have their types.
LEMMA MemTypes ==
    ASSUME Inv
    PROVE  /\ Mem \in Snapshot
           /\ verifications \in [Session -> VerificationRecord \cup {None}]
           /\ claims \in [User -> ClaimsRecord \cup {None}]
           /\ processed \in Seq(DedupeKey)
<1>1. Mem \in Snapshot
  BY DEF Inv, Now, Good, Fits
<1> QED
  BY <1>1, SnapshotFields, MemFields

\* New maps make a new snapshot.
LEMMA MemSnapshot ==
    ASSUME verifications' \in [Session -> VerificationRecord \cup {None}],
           claims' \in [User -> ClaimsRecord \cup {None}],
           processed' \in Seq(DedupeKey)
    PROVE  /\ Mem' \in Snapshot
           /\ Mem'.verifications = verifications'
           /\ Mem'.claims = claims'
           /\ Mem'.processed = processed'
BY DEF Mem, Snapshot

\* A step that leaves the maps alone.
LEMMA MemStays == Inv /\ UNCHANGED memory => MemKept
<1> SUFFICES ASSUME Inv, UNCHANGED memory PROVE MemKept
  OBVIOUS
<1>1. Mem' = Mem /\ verifications' = verifications
  BY DEF Mem, memory
<1> QED
  BY <1>1 DEF MemKept, Inv, Now

\* createVerification and updateVerificationStatus.
LEMMA RecordKept ==
    ASSUME Inv, NEW s \in Session, NEW v \in VerificationRecord,
           start[s].pc # "idle", v.user = start[s].user,
           verifications[s] # None \/ CanCreate,
           verifications' = [verifications EXCEPT ![s] = v],
           UNCHANGED <<claims, processed>>
    PROVE  MemKept
<1>1. /\ Mem' \in Snapshot
      /\ Mem'.verifications = [Mem.verifications EXCEPT ![s] = v]
      /\ Mem'.claims = Mem.claims
      /\ Mem'.processed = Mem.processed
  BY MemTypes, MemSnapshot, MemFields
<1>2. Mem.verifications = verifications
  BY MemFields
<1>3. v # None
  BY StoreBounds DEF StoreBounds
<1>4. /\ Good(Mem', clock, storedAt, start, emitted)
      /\ \A q \in Session : ServedBy(q, Mem, clock, storedAt)
                             => ServedBy(q, Mem', clock, storedAt)
  <2>1. Good(Mem, clock, storedAt, start, emitted)
    BY DEF Inv, Now
  <2>2. \/ Mem.verifications[s] # None
        \/ Cardinality(Present(Mem.verifications)) < MaxVerifications
    BY <1>2 DEF CanCreate
  <2> QED
    BY <1>1, <2>1, <2>2, RecordSet
<1>5. \A q \in Session : verifications[q] # None => verifications'[q] # None
  BY <1>3, MemTypes
<1> QED
  BY <1>4, <1>5 DEF MemKept

\* upsertClaims.
LEMMA ClaimsKept ==
    ASSUME Inv, NEW u \in User, NEW source \in Session \cup {"demo"},
           CanUpsert(u), UpsertClaims(u, source),
           source # "demo" =>
              /\ start[source].pc # "idle"
              /\ start[source].user = u
              /\ \E raw \in emitted[source] : MapVerificationStatus(raw) = "approved"
    PROVE  MemKept
<1> DEFINE r == [source |-> source, verifiedAt |-> clock]
<1>1. r \in ClaimsRecord /\ r.source = source /\ r.verifiedAt = clock
  BY DEF ClaimsRecord, Inv, Types
<1>2. /\ claims' = [claims EXCEPT ![u] = r]
      /\ UNCHANGED <<verifications, processed>>
  BY DEF UpsertClaims
<1> HIDE DEF r
<1>3. /\ Mem' \in Snapshot
      /\ Mem'.verifications = Mem.verifications
      /\ Mem'.claims = [Mem.claims EXCEPT ![u] = r]
      /\ Mem'.processed = Mem.processed
  BY <1>1, <1>2, MemTypes, MemSnapshot, MemFields
<1>4. Mem.claims = claims
  BY MemFields
<1>5. /\ Good(Mem', clock, storedAt, start, emitted)
      /\ \A q \in Session : ServedBy(q, Mem, clock, storedAt)
                             => ServedBy(q, Mem', clock, storedAt)
  <2>1. Good(Mem, clock, storedAt, start, emitted)
    BY DEF Inv, Now
  <2>2. Mem.claims[u] # None \/ Cardinality(Present(Mem.claims)) < MaxClaims
    BY <1>4 DEF CanUpsert
  <2>3. \A s \in Session : storedAt[s] # None => storedAt[s] <= r.verifiedAt
    BY <1>1 DEF Inv, Types
  <2>4. r.source # "demo" =>
              /\ start[r.source].pc # "idle"
              /\ start[r.source].user = u
              /\ \E raw \in emitted[r.source] : MapVerificationStatus(raw) = "approved"
    BY <1>1
  <2> QED
    BY <1>1, <1>3, <2>1, <2>2, <2>3, <2>4, ClaimsSet
<1> QED
  BY <1>2, <1>5 DEF MemKept

\* getClaims.
LEMMA ReadKept ==
    ASSUME Inv, NEW u \in User, ReadClaims(u)
    PROVE  MemKept
<1>1. /\ claims' = [claims EXCEPT ![u] = GetClaims(u)]
      /\ UNCHANGED <<verifications, processed>>
  BY DEF ReadClaims
<1>2. claims' \in [User -> ClaimsRecord \cup {None}]
  BY <1>1, MemTypes DEF GetClaims
<1>3. /\ Mem' \in Snapshot
      /\ Mem'.verifications = Mem.verifications
      /\ Mem'.claims = claims'
      /\ Mem'.processed = Mem.processed
  BY <1>1, <1>2, MemTypes, MemSnapshot, MemFields
<1>4. Mem.claims = claims
  BY MemFields
<1>5. \A w \in User : \/ Mem'.claims[w] = Mem.claims[w]
                      \/ Mem'.claims[w] = None /\ Expired(Mem.claims[w], clock)
  BY <1>1, <1>3, <1>4, MemTypes DEF GetClaims
<1>6. /\ Good(Mem', clock, storedAt, start, emitted)
      /\ \A q \in Session : ServedBy(q, Mem, clock, storedAt)
                             => ServedBy(q, Mem', clock, storedAt)
  BY <1>3, <1>5, DropExpired DEF Inv, Now, Types
<1> QED
  BY <1>1, <1>6 DEF MemKept

\* markWebhookProcessed.
LEMMA MarkKept ==
    ASSUME Inv, NEW e \in DedupeKey, MarkWebhookProcessed(e),
           IsApproval(e) => ServedBy(e[1], Mem, clock, storedAt)
    PROVE  MemKept
<1>1. /\ processed' = Mark(processed, e)
      /\ UNCHANGED <<verifications, claims>>
  BY DEF MarkWebhookProcessed
<1>2. Len(processed) <= MaxProcessed
  BY MemFields DEF Inv, Now, Good, Fits
<1>3. processed' \in Seq(DedupeKey)
  BY <1>1, <1>2, MarkKeeps, MemTypes
<1>4. /\ Mem' \in Snapshot
      /\ Mem'.verifications = Mem.verifications
      /\ Mem'.claims = Mem.claims
      /\ Mem'.processed = Mark(Mem.processed, e)
  BY <1>1, <1>3, MemTypes, MemSnapshot, MemFields
<1>5. /\ Good(Mem', clock, storedAt, start, emitted)
      /\ \A q \in Session : ServedBy(q, Mem, clock, storedAt)
                             => ServedBy(q, Mem', clock, storedAt)
  BY <1>4, KeyMarked DEF Inv, Now
<1> QED
  BY <1>1, <1>5 DEF MemKept

-----------------------------------------------------------------------------
(* The steps *)

Forward == Later(clock, storedAt, start, emitted, clock', storedAt', start', emitted')

\* What is served stays served.
ServedLater ==
    \A s \in Session : ServedBy(s, Mem, clock, storedAt)
                         => ServedBy(s, Mem', clock', storedAt')

\* A step that keeps the maps, leaves the state file alone and undoes no
\* history keeps what every snapshot and every other webhook call stands for.
LEMMA StepKeeps ==
    ASSUME Inv, MemKept, Types', Forward, UNCHANGED <<disk, writing>>
    PROVE  /\ Now(Mem)' /\ Now(disk)' /\ (writing # None => Now(writing))'
           /\ ServedLater
           /\ \A d \in Delivery : hook'[d] = hook[d] => HookHolds(d)'
<1>1. Good(Mem', clock', storedAt', start', emitted')
  BY GoodLasts DEF MemKept, Forward
<1>2. /\ Good(disk', clock', storedAt', start', emitted')
      /\ writing' # None => Good(writing', clock', storedAt', start', emitted')
  BY GoodLasts DEF Inv, Now, Forward
<1>3. ASSUME NEW s \in Session, ServedBy(s, Mem, clock, storedAt)
      PROVE  ServedBy(s, Mem', clock', storedAt')
  <2>1. Mem' \in Snapshot
    BY <1>1 DEF Good, Fits
  <2>2. ServedBy(s, Mem', clock, storedAt)
    BY <1>3 DEF MemKept
  <2> QED
    BY <2>1, <2>2, ServedLasts DEF Forward
<1>4. ASSUME NEW d \in Delivery, hook'[d] = hook[d]
      PROVE  HookHolds(d)'
  <2> DEFINE e == hook[d].event
  <2>1. CASE hook[d].pc = "idle"
    BY <1>4, <2>1 DEF HookHolds
  <2>2. CASE hook[d].pc # "idle"
    <3>1. e[1] \in Session
      BY <2>2 DEF Inv, HookHolds, DedupeKey
    <3>2. /\ start'[e[1]].pc # "idle"
          /\ e[2] \in emitted'[e[1]]
      BY <2>2, <3>1 DEF Inv, HookHolds, Forward, Later
    <3>3. verifications[e[1]] # None => verifications'[e[1]] # None
      BY <3>1 DEF MemKept
    <3> QED
      BY <1>3, <1>4, <2>2, <3>1, <3>2, <3>3 DEF Inv, HookHolds
  <2> QED
    BY <2>1, <2>2
<1> QED
  BY <1>1, <1>2, <1>3, <1>4 DEF Now, ServedLater

\* One more persist job, or none.
LEMMA PersistType == Inv /\ SchedulePersist => flushes' \in Nat
BY DEF Inv, Types, SchedulePersist

\* A step of the clock, the demo issuer or a reader.
LEMMA QuietKeeps ==
    ASSUME Inv, MemKept, flushes' \in Nat, clock' \in Nat, clock <= clock',
           UNCHANGED <<flusher, handlers, crashes, storedAt>>
    PROVE  Inv' /\ ServedLater
<1>1. Types'
  BY DEF Inv, Types, flusher, handlers
<1>2. Forward
  BY DEF Inv, Types, handlers, Forward, Later
<1> QED
  BY <1>1, <1>2, StepKeeps DEF Inv, flusher, handlers

\* A webhook call that is posted again, refused, acknowledged or that fails
\* has nothing more to stand for.
LEMMA HookMoves ==
    ASSUME Inv, NEW d \in Delivery, NEW p \in {"received", "acked", "failed"},
           hook[d].pc # "idle", hook' = [hook EXCEPT ![d].pc = p],
           MemKept, flushes' \in Nat,
           UNCHANGED <<clock, flusher, start, emitted, crashes, storedAt>>
    PROVE  Inv' /\ ServedLater
<1>1. hook \in [Delivery -> HookState]
  BY DEF Inv, Types
<1>2. /\ hook'[d] \in HookState
      /\ hook'[d].pc = p /\ hook'[d].event = hook[d].event
      /\ \A c \in Delivery \ {d} : hook'[c] = hook[c]
  BY <1>1 DEF HookState
<1>3. hook' \in [Delivery -> HookState]
  BY <1>1, <1>2
<1>4. Types'
  BY <1>3 DEF Inv, Types, flusher
<1>5. Forward
  BY DEF Inv, Types, Forward, Later
<1>6. HookHolds(d)'
  BY <1>2 DEF Inv, HookHolds
<1> QED
  BY <1>2, <1>4, <1>5, <1>6, StepKeeps DEF Inv, flusher

\* POST /start.
LEMMA OpenKeeps ==
    ASSUME Inv, NEW s \in Session, NEW u \in User, OpenSession(s, u)
    PROVE  Inv' /\ ServedLater
<1>1. /\ start[s].pc = "idle"
      /\ start' = [start EXCEPT ![s] = [pc |-> "opened", user |-> u]]
      /\ UNCHANGED <<clock, memory, flushes, flusher, emitted, hook, crashes, storedAt>>
  BY DEF OpenSession, storeVars
<1>2. /\ start' \in [Session -> StartState]
      /\ start'[s].pc = "opened" /\ start'[s].user = u
      /\ \A q \in Session \ {s} : start'[q] = start[q]
  BY <1>1 DEF Inv, Types, StartState
<1>3. Types'
  BY <1>1, <1>2 DEF Inv, Types, flusher
<1>4. Forward
  BY <1>1, <1>2 DEF Inv, Types, Forward, Later
<1> QED
  BY <1>1, <1>3, <1>4, MemStays, StepKeeps DEF Inv, flusher

\* createVerification after the await, or the refusal of a full store.
LEMMA RecordKeeps ==
    ASSUME Inv, NEW s \in Session, RecordVerification(s)
    PROVE  Inv' /\ ServedLater
<1>1. /\ start[s].pc = "opened"
      /\ \E p \in {"recorded", "refused"} : start' = [start EXCEPT ![s].pc = p]
      /\ UNCHANGED <<clock, flusher, emitted, hook, crashes, storedAt>>
  BY DEF RecordVerification
<1>2. start[s].user \in User
  BY <1>1 DEF Inv, Types
<1>3. MemKept /\ flushes' \in Nat
  <2>1. CASE CanCreate /\ CreateVerification(s, start[s].user)
    <3> DEFINE v == [user |-> start[s].user, status |-> "not_started"]
    <3>1. v \in VerificationRecord /\ v.user = start[s].user
      BY <1>2 DEF VerificationRecord, Status
    <3>2. /\ verifications' = [verifications EXCEPT ![s] = v]
          /\ UNCHANGED <<claims, processed>>
          /\ SchedulePersist
      BY <2>1 DEF CreateVerification
    <3> HIDE DEF v
    <3> QED
      BY <1>1, <2>1, <3>1, <3>2, RecordKept, PersistType
  <2>2. CASE UNCHANGED <<memory, flushes>>
    BY <2>2, MemStays DEF Inv, Types
  <2> QED
    BY <2>1, <2>2 DEF RecordVerification
<1>4. /\ start' \in [Session -> StartState]
      /\ start'[s].pc # "idle" /\ start'[s].user = start[s].user
      /\ \A q \in Session \ {s} : start'[q] = start[q]
  BY <1>1 DEF Inv, Types, StartState
<1>5. Types'
  BY <1>1, <1>2, <1>3, <1>4 DEF Inv, Types, flusher
<1>6. Forward
  BY <1>1, <1>4 DEF Inv, Types, Forward, Later
<1> QED
  BY <1>1, <1>3, <1>5, <1>6, StepKeeps DEF Inv, flusher

\* The provider posts about a session it has.
LEMMA PostKeeps ==
    ASSUME Inv, NEW d \in Delivery, NEW s \in Session, NEW raw \in RawStatus,
           Post(d, s, raw)
    PROVE  Inv' /\ ServedLater
<1> DEFINE e == <<s, raw>>
<1>1. /\ start[s].pc # "idle"
      /\ emitted' = [emitted EXCEPT ![s] = @ \cup {raw}]
      /\ hook' = [hook EXCEPT ![d] = [pc |-> "received", event |-> e]]
      /\ UNCHANGED <<clock, memory, flushes, flusher, start, crashes, storedAt>>
  BY DEF Post, storeVars
<1>2. e \in DedupeKey /\ e[1] = s /\ e[2] = raw
  BY DEF DedupeKey
<1> HIDE DEF e
<1>3. /\ hook' \in [Delivery -> HookState]
      /\ hook'[d].pc = "received" /\ hook'[d].event = e
      /\ \A c \in Delivery \ {d} : hook'[c] = hook[c]
  BY <1>1, <1>2 DEF Inv, Types, HookState
<1>4. /\ emitted' \in [Session -> SUBSET RawStatus]
      /\ raw \in emitted'[s]
      /\ \A q \in Session : emitted[q] \subseteq emitted'[q]
  BY <1>1 DEF Inv, Types
<1>5. Types'
  BY <1>1, <1>3, <1>4 DEF Inv, Types, flusher
<1>6. Forward
  BY <1>1, <1>4 DEF Inv, Types, Forward, Later
<1>7. HookHolds(d)'
  BY <1>1, <1>2, <1>3, <1>4 DEF HookHolds
<1> QED
  BY <1>1, <1>3, <1>5, <1>6, <1>7, MemStays, StepKeeps DEF Inv, flusher

\* The dedupe check and updateVerificationStatus.
LEMMA ReceiveKeeps ==
    ASSUME Inv, NEW d \in Delivery, ReceiveWebhook(d)
    PROVE  Inv' /\ ServedLater
<1> DEFINE e == hook[d].event
           status == MapVerificationStatus(e[2])
           p == IF status = "approved" THEN "materialize" ELSE "mark"
<1>1. /\ hook[d].pc = "received"
      /\ UNCHANGED <<clock, flusher, start, emitted, crashes, storedAt>>
  BY DEF ReceiveWebhook
<1>2. CASE /\ hook' = [hook EXCEPT ![d].pc = "acked"]
           /\ UNCHANGED <<memory, flushes>>
  BY <1>1, <1>2, HookMoves, MemStays DEF Inv, Types
<1>3. CASE /\ verifications[e[1]] # None
           /\ UpdateStatus(e[1], status)
           /\ hook' = [hook EXCEPT ![d].pc = p]
  <2>1. /\ e \in DedupeKey /\ e[1] \in Session
        /\ start[e[1]].pc # "idle" /\ e[2] \in emitted[e[1]]
    BY <1>1 DEF Inv, HookHolds, DedupeKey
  <2>2. /\ verifications[e[1]] \in VerificationRecord
        /\ verifications[e[1]].user = start[e[1]].user
    BY <1>3, <2>1, MemTypes, MemFields DEF Inv, Now, Good, Sourced
  <2> DEFINE v == [verifications[e[1]] EXCEPT !.status = status]
  <2>3. v \in VerificationRecord /\ v.user = start[e[1]].user
    BY <2>2 DEF VerificationRecord, MapVerificationStatus, Status
  <2>4. /\ verifications' = [verifications EXCEPT ![e[1]] = v]
        /\ UNCHANGED <<claims, processed>>
        /\ SchedulePersist
    BY <1>3 DEF UpdateStatus
  <2> HIDE DEF v
  <2>5. MemKept /\ flushes' \in Nat
    BY <1>3, <2>1, <2>3, <2>4, RecordKept, PersistType
  <2>6. hook \in [Delivery -> HookState] /\ p \in {"materialize", "mark"}
    BY DEF Inv, Types
  <2>7. /\ hook' \in [Delivery -> HookState]
        /\ hook'[d].pc = p /\ hook'[d].event = e
        /\ \A c \in Delivery \ {d} : hook'[c] = hook[c]
    <3> HIDE DEF p
    <3> QED
      BY <1>3, <2>6 DEF HookState
  <2>8. Types'
    BY <1>1, <2>5, <2>7 DEF Inv, Types, flusher
  <2>9. Forward
    BY <1>1 DEF Inv, Types, Forward, Later
  <2>10. /\ p = "materialize" <=> IsApproval(e)
         /\ verifications'[e[1]] # None
    BY <1>3, <2>1, <2>5 DEF IsApproval, MemKept
  <2>11. HookHolds(d)'
    <3> HIDE DEF p
    <3> QED
      BY <1>1, <2>1, <2>6, <2>7, <2>10 DEF HookHolds
  <2> QED
    BY <1>1, <2>5, <2>7, <2>8, <2>9, <2>11, StepKeeps DEF Inv, flusher
<1> QED
  BY <1>2, <1>3 DEF ReceiveWebhook

\* materializeClaims and upsertClaims.
LEMMA StoreKeeps ==
    ASSUME Inv, NEW d \in Delivery, StoreClaims(d)
    PROVE  Inv' /\ ServedLater
<1>1. PICK e \in DedupeKey : e = hook[d].event
  BY DEF StoreClaims, Inv, HookHolds
<1> DEFINE s == e[1]
           u == verifications[s].user
<1>2. /\ hook[d].pc = "materialize"
      /\ CanUpsert(u)
      /\ UpsertClaims(u, s)
      /\ storedAt' = [storedAt EXCEPT ![s] = IF @ = None THEN clock ELSE @]
      /\ hook' = [hook EXCEPT ![d].pc = "mark"]
      /\ UNCHANGED <<clock, flusher, start, emitted, crashes>>
  BY <1>1 DEF StoreClaims
<1>3. /\ s \in Session
      /\ start[s].pc # "idle" /\ e[2] \in emitted[s]
      /\ IsApproval(e) /\ verifications[s] # None
  BY <1>1, <1>2 DEF Inv, HookHolds, DedupeKey
<1>4. u \in User /\ start[s].user = u
  <2>1. verifications[s] \in VerificationRecord
    BY <1>3, MemTypes
  <2>2. start[s].user = u
    BY <1>3, MemFields DEF Inv, Now, Good, Sourced
  <2> QED
    BY <2>1, <2>2 DEF VerificationRecord
<1> HIDE DEF u
<1>5. MemKept /\ flushes' \in Nat
  <2>1. MemKept
    BY <1>2, <1>3, <1>4, ClaimsKept DEF IsApproval
  <2>2. SchedulePersist
    BY <1>2 DEF UpsertClaims
  <2> QED
    BY <2>1, <2>2, PersistType
<1>6. /\ storedAt' \in [Session -> Nat \cup {None}]
      /\ storedAt'[s] \in Nat /\ storedAt'[s] <= clock
      /\ \A q \in Session : storedAt[q] # None => storedAt'[q] = storedAt[q]
      /\ \A q \in Session : storedAt'[q] # None => storedAt'[q] <= clock
  BY <1>2, <1>3 DEF Inv, Types
<1>7. /\ hook' \in [Delivery -> HookState]
      /\ hook'[d].pc = "mark" /\ hook'[d].event = e
      /\ \A c \in Delivery \ {d} : hook'[c] = hook[c]
  BY <1>1, <1>2 DEF Inv, Types, HookState
<1>8. Types'
  BY <1>2, <1>5, <1>6, <1>7 DEF Inv, Types, flusher
<1>9. Forward
  BY <1>2, <1>6 DEF Inv, Types, Forward, Later
<1>10. ServedBy(s, Mem, clock, storedAt)'
  <2> DEFINE r == [source |-> s, verifiedAt |-> clock]
  <2>1. /\ claims' = [claims EXCEPT ![u] = r]
        /\ verifications' = verifications
    BY <1>2 DEF UpsertClaims
  <2>2. r \in ClaimsRecord /\ r.verifiedAt = clock
    BY <1>3 DEF ClaimsRecord, Inv, Types
  <2> HIDE DEF r
  <2>3. r # None
    BY <2>2, StoreBounds DEF StoreBounds
  <2>4. claims'[u] = r
    BY <1>4, <2>1, MemTypes
  <2>5. Mem'.verifications = verifications /\ Mem'.claims = claims'
    BY <2>1 DEF Mem
  <2>6. ServedBy(s, Mem', clock', storedAt')
    BY <1>2, <1>3, <1>6, <2>2, <2>3, <2>4, <2>5, StoreBounds
       DEF ServedBy, u, StoreBounds
  <2> QED
    BY <2>6
<1>11. HookHolds(d)'
  BY <1>2, <1>3, <1>7, <1>10 DEF HookHolds
<1> QED
  BY <1>2, <1>5, <1>7, <1>8, <1>9, <1>11, StepKeeps DEF Inv, flusher

\* markWebhookProcessed.
LEMMA MarkedKeeps ==
    ASSUME Inv, NEW d \in Delivery, MarkProcessed(d)
    PROVE  Inv' /\ ServedLater
<1>1. /\ hook[d].pc = "mark"
      /\ MarkWebhookProcessed(hook[d].event)
      /\ hook' = [hook EXCEPT ![d].pc = "acked"]
      /\ UNCHANGED <<clock, flusher, start, emitted, crashes, storedAt>>
  BY DEF MarkProcessed
<1>2. MemKept /\ flushes' \in Nat
  <2>1. /\ hook[d].event \in DedupeKey
        /\ IsApproval(hook[d].event)
             => ServedBy(hook[d].event[1], Mem, clock, storedAt)
    BY <1>1 DEF Inv, HookHolds
  <2>2. SchedulePersist
    BY <1>1 DEF MarkWebhookProcessed
  <2> QED
    BY <1>1, <2>1, <2>2, MarkKept, PersistType
<1> QED
  BY <1>1, <1>2, HookMoves

\* All steps of one webhook call.
LEMMA HookKeeps ==
    ASSUME Inv, NEW d \in Delivery, HookStep(d)
    PROVE  Inv' /\ ServedLater
<1>1. CASE Repost(d)
  <2>1. /\ hook[d].pc = "failed"
        /\ hook' = [hook EXCEPT ![d].pc = "received"]
        /\ UNCHANGED <<clock, memory, flushes, flusher, start, emitted, crashes, storedAt>>
    BY <1>1 DEF Repost, storeVars
  <2>2. MemKept /\ flushes' \in Nat
    BY <2>1, MemStays DEF Inv, Types
  <2> QED
    BY <2>1, <2>2, HookMoves
<1>2. CASE RejectSignature(d) \/ MaterializeFails(d)
  <2>1. /\ hook[d].pc # "idle"
        /\ hook' = [hook EXCEPT ![d].pc = "failed"]
        /\ UNCHANGED <<clock, memory, flushes, flusher, start, emitted, crashes, storedAt>>
    BY <1>2 DEF RejectSignature, MaterializeFails, storeVars
  <2>2. MemKept /\ flushes' \in Nat
    BY <2>1, MemStays DEF Inv, Types
  <2> QED
    BY <2>1, <2>2, HookMoves
<1>3. CASE ReceiveWebhook(d)
  BY <1>3, ReceiveKeeps
<1>4. CASE StoreClaims(d)
  BY <1>4, StoreKeeps
<1>5. CASE MarkProcessed(d)
  BY <1>5, MarkedKeeps
<1> QED
  BY <1>1, <1>2, <1>3, <1>4, <1>5 DEF HookStep

\* The demo issuer and whoever reads claims.
LEMMA ReadersKeep ==
    ASSUME Inv, NEW u \in User,
           IssueDemoClaims(u) \/ IssueCredential(u) \/ GetClaimsOf(u) \/ GetProofInput(u)
    PROVE  Inv' /\ ServedLater
<1>1. UNCHANGED <<clock, flusher, handlers, crashes, storedAt>>
  BY DEF IssueDemoClaims, IssueCredential, GetClaimsOf, GetProofInput
<1>2. (CanUpsert(u) /\ UpsertClaims(u, "demo")) \/ ReadClaims(u)
  BY DEF IssueDemoClaims, IssueCredential, GetClaimsOf, GetProofInput
<1>3. MemKept
  BY <1>2, ClaimsKept, ReadKept
<1>4. flushes' \in Nat
  BY <1>2, PersistType DEF UpsertClaims, ReadClaims, Inv, Types
<1> QED
  BY <1>1, <1>3, <1>4, QuietKeeps DEF Inv, Types

\* GET status.
LEMMA StatusKeeps ==
    ASSUME Inv, NEW s \in Session, GetStatus(s)
    PROVE  Inv' /\ ServedLater
<1> DEFINE u == verifications[s].user
<1>1. /\ verifications[s] # None
      /\ ReadClaims(u)
      /\ UNCHANGED <<clock, flusher, handlers, crashes, storedAt>>
  BY DEF GetStatus
<1>2. u \in User
  BY <1>1, MemTypes DEF VerificationRecord
<1> HIDE DEF u
<1>3. MemKept
  BY <1>1, <1>2, ReadKept
<1>4. flushes' \in Nat
  BY <1>1, PersistType DEF ReadClaims, Inv, Types
<1> QED
  BY <1>1, <1>3, <1>4, QuietKeeps DEF Inv, Types

\* Time passes.
LEMMA TickKeeps ==
    ASSUME Inv, Tick
    PROVE  Inv' /\ ServedLater
<1>1. /\ clock' = clock + 1
      /\ UNCHANGED <<memory, flushes, flusher, handlers, crashes, storedAt>>
  BY DEF Tick
<1>2. MemKept /\ flushes' \in Nat /\ clock' \in Nat /\ clock <= clock'
  BY <1>1, MemStays DEF Inv, Types
<1> QED
  BY <1>1, <1>2, QuietKeeps

\* Only a job that is not finished has a snapshot to write.
Chained == flushes \in Nat /\ (writing # None => flushes > 0)

\* A step schedules a persist job unless the maps stay as they are; the rest
\* is the flusher itself, and the end of the process.
LEMMA StepsOfFlusher ==
    ASSUME [Next]_vars
    PROVE  \/ /\ UNCHANGED <<flusher, flushes, verifications, processed>>
              /\ \/ claims' = claims
                 \/ \E u : claims' = [claims EXCEPT ![u] = claims[u]]
              /\ clock' \in {clock, clock + 1}
           \/ UNCHANGED <<clock, flusher>> /\ SchedulePersist
           \/ Flush
           \/ ProcessEnds
<1>1. CASE \E s \in Session, u \in User : OpenSession(s, u)
  BY <1>1 DEF OpenSession, storeVars, memory
<1>2. CASE \E s \in Session : RecordVerification(s)
  BY <1>2 DEF RecordVerification, CreateVerification, memory
<1>3. CASE \E d \in Delivery, s \in Session, raw \in RawStatus : Post(d, s, raw)
  BY <1>3 DEF Post, storeVars, memory
<1>4. ASSUME NEW d \in Delivery, HookStep(d)
      PROVE  \/ UNCHANGED <<clock, flusher, flushes, memory>>
             \/ UNCHANGED <<clock, flusher>> /\ SchedulePersist
  BY <1>4 DEF HookStep, Repost, RejectSignature, ReceiveWebhook, MaterializeFails,
              StoreClaims, MarkProcessed, UpdateStatus, UpsertClaims,
              MarkWebhookProcessed, storeVars
<1>5. ASSUME NEW u \in User, IssueDemoClaims(u)
      PROVE  UNCHANGED <<clock, flusher>> /\ SchedulePersist
  BY <1>5 DEF IssueDemoClaims, UpsertClaims
<1>6. ASSUME NEW u, ReadClaims(u), UNCHANGED <<clock, flusher>>
      PROVE  \/ /\ UNCHANGED <<flusher, flushes, verifications, processed>>
                /\ claims' = [claims EXCEPT ![u] = claims[u]]
                /\ clock' = clock
             \/ UNCHANGED <<clock, flusher>> /\ SchedulePersist
  BY <1>6 DEF ReadClaims, GetClaims
<1>7. CASE \E u \in User : IssueDemoClaims(u) \/ IssueCredential(u)
  BY <1>5, <1>6, <1>7 DEF IssueCredential
<1>8. CASE \E u \in User : GetClaimsOf(u) \/ GetProofInput(u)
  BY <1>6, <1>8 DEF GetClaimsOf, GetProofInput
<1>9. CASE \E s \in Session : GetStatus(s)
  BY <1>6, <1>9 DEF GetStatus
<1>10. CASE Crash \/ FlushFailureEndsProcess
  BY <1>10 DEF Crash, FlushFailureEndsProcess
<1>11. CASE Tick \/ UNCHANGED vars
  BY <1>11 DEF Tick, vars, storeVars, memory
<1> QED
  BY <1>1, <1>2, <1>3, <1>4, <1>7, <1>8, <1>9, <1>10, <1>11 DEF Next, memory

\* The flusher takes a snapshot for a job that is left, and drops it with it.
LEMMA ChainedHolds == Spec => []Chained
<1>1. Init => Chained
  BY DEF Init, StoreInit, Chained
<1>2. ASSUME Chained, [Next]_vars PROVE Chained'
  <2>1. CASE UNCHANGED <<flusher, flushes>>
    BY <1>2, <2>1 DEF Chained, flusher
  <2>2. CASE UNCHANGED <<clock, flusher>> /\ SchedulePersist
    BY <1>2, <2>2 DEF Chained, flusher, SchedulePersist
  <2>3. CASE Flush
    BY <1>2, <2>3 DEF Chained, Flush, FlushStep, TakeSnapshot, CommitSnapshot, RetryFlush
  <2>4. CASE ProcessEnds
    BY <2>4 DEF Chained, ProcessEnds, Reload
  <2> QED
    BY <1>2, <2>1, <2>2, <2>3, <2>4, StepsOfFlusher
<1> QED
  BY <1>1, <1>2, PTL DEF Spec

\* A persist job moves a snapshot of the maps to the state file.
LEMMA FlushKeeps ==
    ASSUME Inv, Chained, Flush
    PROVE  Inv' /\ ServedLater
<1>1. /\ UNCHANGED <<clock, memory, start, emitted, hook, crashes, storedAt>>
      /\ flushes' \in Nat /\ attempt' \in {1, 2} /\ failures' \in Nat
      /\ \/ writing' = Mem /\ disk' = disk
         \/ writing # None /\ disk' = writing /\ writing' = None
         \/ writing' = None /\ disk' = disk
  <2>1. UNCHANGED <<start, emitted, hook, crashes, storedAt>>
    BY DEF Flush, handlers
  <2>2. CASE TakeSnapshot
    BY <2>1, <2>2 DEF TakeSnapshot, Mem, Inv, Types
  <2>3. CASE CommitSnapshot
    BY <2>1, <2>3 DEF CommitSnapshot, Inv, Types, Chained
  <2>4. CASE RetryFlush
    BY <2>1, <2>4 DEF RetryFlush, Inv, Types
  <2> QED
    BY <2>2, <2>3, <2>4 DEF Flush, FlushStep
<1>2. Types'
  BY <1>1 DEF Inv, Types
<1>3. Mem' = Mem
  BY <1>1 DEF Mem, memory
<1>4. Now(Mem)' /\ Now(disk)' /\ (writing # None => Now(writing))'
  BY <1>1, <1>3 DEF Inv, Now
<1>5. \A d \in Delivery : HookHolds(d)'
  BY <1>1, <1>3 DEF Inv, HookHolds, memory
<1> QED
  BY <1>1, <1>2, <1>3, <1>4, <1>5 DEF Inv, ServedLater

-----------------------------------------------------------------------------
(* Restarts *)

\* hydrate() makes a snapshot of a snapshot.
LEMMA HydratedType ==
    ASSUME NEW X \in Snapshot, NEW t
    PROVE  /\ HydratedAt(X, t) \in Snapshot
           /\ HydratedAt(X, t).verifications = X.verifications
           /\ HydratedAt(X, t).processed = X.processed
           /\ \A u \in User : HydratedAt(X, t).claims[u] =
                                IF Expired(X.claims[u], t) THEN None ELSE X.claims[u]
<1> DEFINE new == [u \in User |-> IF Expired(X.claims[u], t) THEN None ELSE X.claims[u]]
<1>1. X.claims \in [User -> ClaimsRecord \cup {None}]
  BY SnapshotFields
<1>2. new \in [User -> ClaimsRecord \cup {None}]
  BY <1>1
<1>3. \A u \in User : new[u] = IF Expired(X.claims[u], t) THEN None ELSE X.claims[u]
  OBVIOUS
<1>4. HydratedAt(X, t) = [X EXCEPT !.claims = new]
  BY DEF HydratedAt
<1> HIDE DEF new
<1> QED
  BY <1>2, <1>3, <1>4 DEF Snapshot

\* The next process knows what hydrate() made of the state file.
LEMMA EndReloads ==
    ASSUME disk \in Snapshot, ProcessEnds
    PROVE  Mem' = HydratedAt(disk, clock) /\ UNCHANGED <<clock, disk>>
<1> DEFINE X == HydratedAt(disk, clock)
<1>1. Hydrated(disk) = X
  BY DEF Hydrated, HydratedAt
<1>2. /\ verifications' = X.verifications
      /\ claims' = X.claims
      /\ processed' = X.processed
      /\ UNCHANGED <<clock, disk>>
  BY <1>1 DEF ProcessEnds, Reload
<1>3. X \in Snapshot
  BY HydratedType
<1> HIDE DEF X
<1>4. X = [verifications |-> X.verifications, claims |-> X.claims,
           processed |-> X.processed]
  BY <1>3 DEF Snapshot
<1> QED
  BY <1>2, <1>4 DEF Mem, X

\* The next process knows what the state file says, and every webhook call in
\* progress has failed.
LEMMA EndKeeps ==
    ASSUME Inv, ProcessEnds, crashes' \in Nat, failures' \in Nat
    PROVE  Inv'
<1> DEFINE X == HydratedAt(disk, clock)
<1>1. flushes' = 0 /\ writing' = None /\ attempt' = 1
  BY DEF ProcessEnds, Reload
<1>2. /\ start' = [s \in Session |->
                     IF start[s].pc = "opened" THEN [start[s] EXCEPT !.pc = "lost"]
                     ELSE start[s]]
      /\ hook' = [d \in Delivery |->
                    IF hook[d].pc \in {"idle", "acked"} THEN hook[d]
                    ELSE [hook[d] EXCEPT !.pc = "failed"]]
      /\ UNCHANGED <<clock, disk, emitted, storedAt>>
  BY DEF ProcessEnds
<1>3. Good(disk, clock, storedAt, start, emitted) /\ disk \in Snapshot
  BY DEF Inv, Now, Good, Fits
<1>4. /\ X \in Snapshot
      /\ X.verifications = disk.verifications
      /\ X.processed = disk.processed
      /\ \A u \in User : X.claims[u] =
                           IF Expired(disk.claims[u], clock) THEN None ELSE disk.claims[u]
  BY <1>3, HydratedType
<1> HIDE DEF X
<1>5. Good(X, clock, storedAt, start, emitted)
  <2>1. clock \in Nat /\ \A s \in Session : storedAt[s] \in Nat \cup {None}
    BY DEF Inv, Types
  <2>2. \A u \in User : \/ X.claims[u] = disk.claims[u]
                        \/ X.claims[u] = None /\ Expired(disk.claims[u], clock)
    BY <1>4
  <2> QED
    BY <1>3, <1>4, <2>1, <2>2, DropExpired
<1>6. Mem' = X
  BY <1>3, EndReloads DEF X
<1>7. /\ start' \in [Session -> StartState]
      /\ \A s \in Session : /\ start'[s].user = start[s].user
                            /\ start'[s].pc = "idle" <=> start[s].pc = "idle"
  BY <1>2 DEF Inv, Types, StartState
<1>8. /\ hook' \in [Delivery -> HookState]
      /\ \A d \in Delivery : \/ hook[d].pc \in {"idle", "acked"} /\ hook'[d] = hook[d]
                             \/ /\ hook[d].pc # "idle"
                                /\ hook'[d].event = hook[d].event
                                /\ hook'[d].pc = "failed"
  BY <1>2 DEF Inv, Types, HookState
<1>9. Types'
  BY <1>1, <1>2, <1>7, <1>8 DEF Inv, Types
<1>10. Later(clock, storedAt, start, emitted, clock', storedAt', start', emitted')
  BY <1>2, <1>7 DEF Inv, Types, Later
<1>11. Now(Mem)'
  BY <1>5, <1>6, <1>10, GoodLasts DEF Now
<1>12. Now(disk)'
  BY <1>2, <1>3, <1>10, GoodLasts DEF Now
<1>13. ASSUME NEW d \in Delivery PROVE HookHolds(d)'
  <2>1. CASE hook[d].pc = "idle"
    BY <1>8, <2>1 DEF HookHolds
  <2>2. CASE hook[d].pc # "idle"
    <3>1. hook'[d].event = hook[d].event /\ hook'[d].pc \in {"acked", "failed"}
      BY <1>8, <2>2
    <3>2. /\ hook[d].event \in DedupeKey
          /\ hook[d].event[1] \in Session
          /\ start[hook[d].event[1]].pc # "idle"
          /\ hook[d].event[2] \in emitted[hook[d].event[1]]
      BY <2>2 DEF Inv, HookHolds, DedupeKey
    <3> QED
      BY <1>2, <1>7, <3>1, <3>2 DEF HookHolds
  <2> QED
    BY <2>1, <2>2
<1> QED
  BY <1>1, <1>9, <1>11, <1>12, <1>13 DEF Inv

\* A crash, or a rejected persist job, ends the process.
LEMMA CrashKeeps ==
    ASSUME Inv, Crash \/ FlushFailureEndsProcess
    PROVE  Inv' /\ ProcessEnds
<1>1. ProcessEnds /\ crashes' \in Nat /\ failures' \in Nat
  BY DEF Crash, FlushFailureEndsProcess, FlushRejected, Inv, Types
<1> QED
  BY <1>1, EndKeeps

-----------------------------------------------------------------------------
(* The theorems *)

\* Nothing is present in empty maps.
LEMMA InitInv == Init => Inv
<1> SUFFICES ASSUME Init PROVE Inv
  OBVIOUS
<1>1. /\ Mem = Empty /\ disk = Empty
      /\ clock = 0 /\ flushes = 0 /\ writing = None /\ attempt = 1
      /\ failures = 0 /\ crashes = 0
      /\ start = [s \in Session |-> [pc |-> "idle", user |-> None]]
      /\ emitted = [s \in Session |-> {}]
      /\ hook = [d \in Delivery |-> [pc |-> "idle", event |-> None]]
      /\ storedAt = [s \in Session |-> None]
  BY DEF Init, StoreInit, Mem, Empty
<1>2. Types
  BY <1>1 DEF Types, StartState, HookState
<1>3. Good(Empty, clock, storedAt, start, emitted)
  <2>1. /\ Empty.verifications = [s \in Session |-> None]
        /\ Empty.claims = [u \in User |-> None]
        /\ Empty.processed = <<>>
    BY DEF Empty
  <2>2. Empty \in Snapshot
    BY DEF Empty, Snapshot
  <2>3. Present(Empty.verifications) = {} /\ Present(Empty.claims) = {}
    BY <2>1 DEF Present
  <2>4. IsFiniteSet({}) /\ Cardinality({}) = 0
    BY FS_EmptySet
  <2>5. Fits(Empty)
    <3>1. MaxVerifications >= 0 /\ MaxClaims >= 0 /\ MaxProcessed >= 0
      BY StoreBounds DEF StoreBounds
    <3>2. Len(Empty.processed) <= MaxProcessed
      BY <2>1, <3>1
    <3> QED
      BY <2>2, <2>3, <2>4, <3>1, <3>2 DEF Fits
  <2>6. Served(Empty, clock, storedAt)
    BY <2>1 DEF Served, Remembered
  <2>7. Sourced(Empty, start, emitted)
    BY <2>1 DEF Sourced
  <2> QED
    BY <2>5, <2>6, <2>7 DEF Good
<1> QED
  BY <1>1, <1>2, <1>3 DEF Inv, Now, HookHolds

\* One operation after the other.
LEMMA NextInv ==
    ASSUME Inv, Chained, [Next]_vars
    PROVE  Inv' /\ (ServedLater \/ Crash \/ FlushFailureEndsProcess)
<1>1. CASE UNCHANGED vars
  <2>1. MemKept /\ flushes' \in Nat /\ clock' = clock /\ clock \in Nat
    BY <1>1, MemStays DEF vars, storeVars, Inv, Types
  <2> QED
    BY <1>1, <2>1, QuietKeeps DEF vars, storeVars
<1> QED
  BY <1>1, OpenKeeps, RecordKeeps, PostKeeps, HookKeeps, ReadersKeep, StatusKeeps,
     FlushKeeps, CrashKeeps, TickKeeps DEF Next

\* The invariant of the maps, the state file and the handlers.
THEOREM InvHolds == Spec => []Inv
<1> QED
  BY InitInv, NextInv, ChainedHolds, PTL DEF Spec

(* The maps, the state file and the handlers have their types, and the maps  *)
(* stay within MAX_VERIFICATIONS, MAX_CLAIMS and MAX_PROCESSED_WEBHOOKS.     *)
THEOREM TypeCorrect == Spec => []TypeOK
<1>1. Inv => TypeOK
  <2> SUFFICES ASSUME Inv PROVE TypeOK
    OBVIOUS
  <2>1. /\ Types /\ Fits(Mem) /\ Fits(disk)
        /\ writing # None => writing \in Snapshot
    BY DEF Inv, Now, Good, Fits
  <2> QED
    BY <2>1, MemTypes, MemFields DEF Types, Fits, TypeOK, StoreTypeOK
<1> QED
  BY <1>1, InvHolds, PTL

(* An approval is remembered as processed, in memory or in the state file,   *)
(* only where the claims it stands for are: of the webhook handler and of    *)
(* the flush, for every order of the calls and every crash.                  *)
THEOREM DedupeHolds == Spec => []DedupeImpliesClaims
<1>1. ASSUME Inv, NEW X \in Snapshot, Now(X), NEW e \in Remembered(X.processed),
             IsApproval(e)
      PROVE  ClaimsServed(e[1], X.verifications, X.claims)
  <2>1. ServedBy(e[1], X, clock, storedAt)
    BY <1>1 DEF Now, Good, Served
  <2> QED
    BY <2>1 DEF ServedBy, ClaimsServed
<1>2. Inv => DedupeImpliesClaims
  <2> SUFFICES ASSUME Inv PROVE DedupeImpliesClaims
    OBVIOUS
  <2>1. Now(Mem) /\ Now(disk) /\ Mem \in Snapshot /\ disk \in Snapshot
    BY DEF Inv, Now, Good, Fits
  <2>2. \A e \in Remembered(processed) :
          IsApproval(e) => ClaimsServed(e[1], verifications, claims)
    BY <1>1, <2>1, MemFields
  <2>3. \A e \in Remembered(disk.processed) :
          IsApproval(e) => ClaimsServed(e[1], disk.verifications, disk.claims)
    BY <1>1, <2>1
  <2> QED
    BY <2>2, <2>3 DEF DedupeImpliesClaims
<1> QED
  BY <1>2, InvHolds, PTL

(* Claims that name a verification are those of the user who opened it, and  *)
(* its provider announced the approval.                                      *)
THEOREM ClaimsHold == Spec => []ClaimsComeFromApproval
<1>1. Inv => ClaimsComeFromApproval
  <2> SUFFICES ASSUME Inv PROVE ClaimsComeFromApproval
    OBVIOUS
  <2>1. Sourced(Mem, start, emitted) /\ Sourced(disk, start, emitted)
    BY DEF Inv, Now, Good
  <2> QED
    BY <2>1, MemFields DEF Sourced, ClaimsComeFromApproval
<1> QED
  BY <1>1, InvHolds, PTL

-----------------------------------------------------------------------------
(* The state file *)

\* A process that starts at t makes the same of both.
Same(X, Y, t) == HydratedAt(X, t) = HydratedAt(Y, t)

\* The state file holds what the maps do when no persist job is left, and so
\* does the snapshot that the last of them writes.
Durable ==
    /\ StateFile /\ flushes = 0 => Same(disk, Mem, clock)
    /\ StateFile /\ flushes = 1 /\ writing # None => Same(writing, Mem, clock)

\* Snapshots that differ in expired claims alone never differ in others.
LEMMA SameLasts ==
    ASSUME NEW X \in Snapshot, NEW Y \in Snapshot, NEW t \in Nat, Same(X, Y, t),
           NEW t2 \in {t, t + 1}
    PROVE  Same(X, Y, t2)
<1>1. /\ X.claims \in [User -> ClaimsRecord \cup {None}]
      /\ Y.claims \in [User -> ClaimsRecord \cup {None}]
  BY SnapshotFields
<1>2. /\ X.verifications = Y.verifications
      /\ X.processed = Y.processed
      /\ \A u \in User : (IF Expired(X.claims[u], t) THEN None ELSE X.claims[u])
                          = IF Expired(Y.claims[u], t) THEN None ELSE Y.claims[u]
  BY HydratedType DEF Same
<1>3. ASSUME NEW u \in User
      PROVE  (IF Expired(X.claims[u], t2) THEN None ELSE X.claims[u])
               = IF Expired(Y.claims[u], t2) THEN None ELSE Y.claims[u]
  <2> DEFINE a == X.claims[u]
             b == Y.claims[u]
  <2>1. /\ a # None => a.verifiedAt \in Nat
        /\ b # None => b.verifiedAt \in Nat
    BY <1>1 DEF ClaimsRecord
  <2>2. /\ Expired(a, t) => Expired(a, t2)
        /\ Expired(b, t) => Expired(b, t2)
    BY <2>1, StoreBounds DEF Expired, StoreBounds
  <2>3. ~Expired(None, t2) /\ ~Expired(None, t)
    BY DEF Expired
  <2>4. (IF Expired(a, t) THEN None ELSE a) = IF Expired(b, t) THEN None ELSE b
    BY <1>2
  <2> HIDE DEF a, b
  <2>5. (IF Expired(a, t2) THEN None ELSE a) = IF Expired(b, t2) THEN None ELSE b
    BY <2>2, <2>3, <2>4
  <2> QED
    BY <2>5 DEF a, b
<1>4. /\ HydratedAt(X, t2) \in Snapshot /\ HydratedAt(Y, t2) \in Snapshot
      /\ HydratedAt(X, t2).verifications = HydratedAt(Y, t2).verifications
      /\ HydratedAt(X, t2).processed = HydratedAt(Y, t2).processed
  BY <1>2, HydratedType
<1>5. HydratedAt(X, t2).claims = HydratedAt(Y, t2).claims
  BY <1>3, <1>4, HydratedType, SnapshotFields
<1> HIDE DEF HydratedAt
<1> QED
  BY <1>4, <1>5 DEF Snapshot, Same

\* Every step schedules, moves, commits or reloads.
LEMMA DurableStep ==
    ASSUME Inv, Inv', Chained, Durable, [Next]_vars
    PROVE  Durable'
<1>1. /\ Mem \in Snapshot /\ disk \in Snapshot /\ Mem' \in Snapshot
      /\ writing # None => writing \in Snapshot
      /\ clock \in Nat
  BY DEF Inv, Types, Now, Good, Fits
<1>2. CASE /\ UNCHANGED <<flusher, flushes, verifications, processed>>
           /\ \/ claims' = claims
              \/ \E u : claims' = [claims EXCEPT ![u] = claims[u]]
           /\ clock' \in {clock, clock + 1}
  <2>1. claims' = claims
    BY <1>2, MemTypes
  <2>2. Mem' = Mem
    BY <1>2, <2>1 DEF Mem
  <2> QED
    BY <1>1, <1>2, <2>2, SameLasts DEF Durable, flusher
<1>3. CASE UNCHANGED <<clock, flusher>> /\ SchedulePersist
  BY <1>3 DEF Durable, Chained, SchedulePersist, flusher
<1>4. CASE Flush
  <2>1. Mem' = Mem /\ clock' = clock
    BY <1>4 DEF Flush, FlushStep, TakeSnapshot, CommitSnapshot, RetryFlush, Mem, memory
  <2>2. CASE TakeSnapshot
    <3>1. flushes > 0 /\ flushes' = flushes /\ writing' = Mem
      BY <2>2 DEF TakeSnapshot, Mem
    <3> QED
      BY <2>1, <3>1 DEF Durable, Chained, Same
  <2>3. CASE CommitSnapshot
    BY <2>1, <2>3 DEF CommitSnapshot, Durable, Chained
  <2>4. CASE RetryFlush
    BY <2>1, <2>4 DEF RetryFlush, Durable, Chained
  <2> QED
    BY <1>4, <2>2, <2>3, <2>4 DEF Flush, FlushStep
<1>5. CASE ProcessEnds
  <2>1. Mem' = HydratedAt(disk, clock) /\ UNCHANGED <<clock, disk>>
    BY <1>1, <1>5, EndReloads
  <2>2. flushes' = 0 /\ writing' = None
    BY <1>5 DEF ProcessEnds, Reload
  <2>3. Same(disk, HydratedAt(disk, clock), clock)
    <3> DEFINE X == HydratedAt(disk, clock)
    <3>1. X \in Snapshot
      BY <1>1, HydratedType
    <3>2. ~Expired(None, clock)
      BY DEF Expired
    <3>3. \A u \in User : X.claims[u] = HydratedAt(X, clock).claims[u]
      BY <1>1, <3>1, <3>2, HydratedType
    <3>4. /\ HydratedAt(X, clock) \in Snapshot
          /\ HydratedAt(X, clock).verifications = X.verifications
          /\ HydratedAt(X, clock).processed = X.processed
      BY <3>1, HydratedType
    <3>5. HydratedAt(X, clock).claims = X.claims
      BY <3>1, <3>3, <3>4, SnapshotFields
    <3> HIDE DEF X
    <3>6. HydratedAt(X, clock) = X
      BY <3>1, <3>4, <3>5 DEF Snapshot
    <3> QED
      BY <3>6 DEF Same, X
  <2> QED
    BY <2>1, <2>2, <2>3 DEF Durable
<1> QED
  BY <1>2, <1>3, <1>4, <1>5, StepsOfFlusher

(* When no flush is owed the state file holds what the process knows, for    *)
(* any number of jobs in the promise chain, failing writes and crashes.      *)
THEOREM DurableHolds == Spec => []IdleMeansDurable
<1>1. Init => Durable
  BY DEF Init, StoreInit, Durable, Same, Mem, Empty
<1>2. Spec => []Durable
  BY <1>1, DurableStep, InvHolds, ChainedHolds, PTL DEF Spec
<1>3. Durable => IdleMeansDurable
  BY DEF Durable, Same, IdleMeansDurable, HydratedAt, Hydrated, Mem
<1> QED
  BY <1>2, <1>3, PTL

-----------------------------------------------------------------------------
(* Approvals that wait for their claims *)

\* A webhook call for the approval of s is not acknowledged yet.
Pending(d, s) ==
    /\ hook[d].event # None /\ hook[d].event[1] = s
    /\ IsApproval(hook[d].event)
    /\ hook[d].pc \in {"received", "materialize", "failed"}

Approved(s) == verifications[s] # None /\ verifications[s].status = "approved"

\* The process has not lost what it knew, or there is no state file to tell.
Uninterrupted == ~StateFile \/ (crashes = 0 /\ failures = 0)

Awaited(s) ==
    Approved(s) => \/ ServedBy(s, Mem, clock, storedAt)
                   \/ \E d \in Delivery : Pending(d, s)

\* Without a state file there is nothing to come back from.
Forgetful ==
    ~StateFile => flushes = 0 /\ writing = None /\ disk = Empty

\* Every step of the flusher is owed to a job, and none is.
LEMMA ForgetfulHolds == Spec => []Forgetful
<1>1. Init => Forgetful
  BY DEF Init, StoreInit, Forgetful
<1>2. ASSUME Forgetful, [Next]_vars PROVE Forgetful'
  <2>1. CASE UNCHANGED <<flusher, flushes>>
    BY <1>2, <2>1 DEF Forgetful, flusher
  <2>2. CASE UNCHANGED flusher /\ SchedulePersist
    BY <1>2, <2>2 DEF Forgetful, flusher, SchedulePersist
  <2>3. CASE Flush
    BY <1>2, <2>3 DEF Forgetful, Flush, FlushStep, TakeSnapshot, CommitSnapshot, RetryFlush
  <2>4. CASE ProcessEnds
    BY <1>2, <2>4 DEF Forgetful, ProcessEnds, Reload
  <2> QED
    BY <1>2, <2>1, <2>2, <2>3, <2>4, StepsOfFlusher
<1> QED
  BY <1>1, <1>2, PTL DEF Spec

\* Only a webhook of an approval, not acknowledged yet, approves.
LEMMA ApprovalHasCall ==
    ASSUME Inv, Inv', [Next]_vars, ~Crash, ~FlushFailureEndsProcess,
           NEW s \in Session, Approved(s)'
    PROVE  Approved(s) \/ \E d \in Delivery : Pending(d, s)'
<1>1. CASE verifications' = verifications
  BY <1>1 DEF Approved
<1>2. CASE \E q \in Session : RecordVerification(q)
  <2>1. PICK q \in Session : RecordVerification(q)
    BY <1>2
  <2>2. CASE verifications' = [verifications EXCEPT ![q] =
                                 [user |-> start[q].user, status |-> "not_started"]]
    BY <2>2, MemTypes DEF Approved
  <2> QED
    BY <1>1, <2>1, <2>2 DEF RecordVerification, CreateVerification, memory
<1>3. ASSUME NEW d \in Delivery, ReceiveWebhook(d)
      PROVE  Approved(s) \/ \E c \in Delivery : Pending(c, s)'
  <2> DEFINE e == hook[d].event
             status == MapVerificationStatus(e[2])
  <2>1. /\ hook[d].pc = "received" /\ e \in DedupeKey /\ e[1] \in Session
        /\ hook \in [Delivery -> HookState]
    BY <1>3 DEF ReceiveWebhook, Inv, HookHolds, Types, DedupeKey
  <2>2. \/ UNCHANGED memory
        \/ /\ UpdateStatus(e[1], status)
           /\ verifications[e[1]] # None
           /\ hook' = [hook EXCEPT ![d].pc =
                         IF status = "approved" THEN "materialize" ELSE "mark"]
    BY <1>3 DEF ReceiveWebhook
  <2>3. CASE UNCHANGED memory
    BY <1>1, <2>3 DEF memory
  <2>4. CASE /\ UpdateStatus(e[1], status)
             /\ verifications[e[1]] # None
             /\ hook' = [hook EXCEPT ![d].pc =
                           IF status = "approved" THEN "materialize" ELSE "mark"]
    <3>1. /\ verifications[e[1]] \in VerificationRecord
          /\ verifications' = [verifications EXCEPT ![e[1]].status = status]
      BY <2>1, <2>4, MemTypes DEF UpdateStatus
    <3>2. CASE s # e[1]
      BY <2>1, <3>1, <3>2, MemTypes DEF Approved
    <3>3. CASE s = e[1]
      <4>1. verifications'[s].status = status
        BY <2>1, <3>1, <3>3, MemTypes DEF VerificationRecord
      <4>2. status = "approved" /\ IsApproval(e)
        BY <4>1 DEF Approved, IsApproval
      <4>3. hook'[d].pc = "materialize" /\ hook'[d].event = e
        BY <2>1, <2>4, <4>2 DEF HookState
      <4>4. e # None
        BY <2>1, StoreBounds DEF StoreBounds
      <4>5. Pending(d, s)'
        BY <3>3, <4>2, <4>3, <4>4 DEF Pending
      <4> QED
        BY <4>5
    <3> QED
      BY <3>2, <3>3
  <2> QED
    BY <2>2, <2>3, <2>4
<1>4. ASSUME NEW d \in Delivery, HookStep(d)
      PROVE  ReceiveWebhook(d) \/ verifications' = verifications
  BY <1>4 DEF HookStep, Repost, RejectSignature, MaterializeFails, StoreClaims,
              MarkProcessed, UpsertClaims, MarkWebhookProcessed, storeVars, memory
<1>5. CASE \/ \E q \in Session, u \in User : OpenSession(q, u)
           \/ \E d \in Delivery, q \in Session, raw \in RawStatus : Post(d, q, raw)
           \/ Tick \/ UNCHANGED vars
  BY <1>1, <1>5 DEF OpenSession, Post, Tick, vars, storeVars, memory
<1>6. CASE Flush
  BY <1>1, <1>6 DEF Flush, FlushStep, TakeSnapshot, CommitSnapshot, RetryFlush, memory
<1>7. CASE \E u \in User : \/ IssueDemoClaims(u) \/ IssueCredential(u)
                           \/ GetClaimsOf(u) \/ GetProofInput(u)
  BY <1>1, <1>7 DEF IssueDemoClaims, IssueCredential, GetClaimsOf, GetProofInput,
                    ReadClaims, UpsertClaims
<1>8. CASE \E q \in Session : GetStatus(q)
  BY <1>1, <1>8 DEF GetStatus, ReadClaims
<1> QED
  BY <1>1, <1>2, <1>3, <1>4, <1>5, <1>6, <1>7, <1>8 DEF Next

\* A call for an approval is acknowledged where it is served, or where the
\* session has no record.
LEMMA PendingMoves ==
    ASSUME Inv, Inv', ServedLater, [Next]_vars, ~Crash, ~FlushFailureEndsProcess,
           NEW s \in Session, NEW d \in Delivery, Pending(d, s)
    PROVE  \/ Pending(d, s)'
           \/ ServedBy(s, Mem, clock, storedAt)'
           \/ verifications'[s] = None
<1> DEFINE e == hook[d].event
<1>0. /\ hook \in [Delivery -> HookState] /\ hook[d].pc # "idle"
      /\ e \in DedupeKey /\ e # None /\ e[1] = s /\ IsApproval(e)
      /\ hook[d].pc \in {"received", "materialize", "failed"}
  BY DEF Inv, Types, HookHolds, Pending
<1>1. CASE hook'[d] = hook[d]
  BY <1>1 DEF Pending
<1>2. ASSUME NEW p \in {"received", "materialize", "failed"},
             hook' = [hook EXCEPT ![d].pc = p]
      PROVE  Pending(d, s)'
  <2>1. hook'[d].pc = p /\ hook'[d].event = e
    BY <1>0, <1>2 DEF HookState
  <2> QED
    BY <1>0, <2>1 DEF Pending
<1>3. CASE ReceiveWebhook(d)
  <2>1. MapVerificationStatus(e[2]) = "approved"
    BY <1>0 DEF IsApproval
  <2>2. CASE e \in Remembered(processed)
    <3>1. ServedBy(s, Mem, clock, storedAt)
      BY <1>0, <2>2, MemFields DEF Inv, Now, Good, Served
    <3> QED
      BY <3>1 DEF ServedLater
  <2>3. CASE verifications[s] = None /\ UNCHANGED memory
    BY <2>3 DEF memory
  <2>4. CASE hook' = [hook EXCEPT ![d].pc = "materialize"]
    BY <1>2, <2>4
  <2> QED
    BY <1>0, <1>3, <2>1, <2>2, <2>3, <2>4 DEF ReceiveWebhook
<1>4. CASE StoreClaims(d)
  <2>1. hook'[d].pc = "mark" /\ hook'[d].event = e
    BY <1>0, <1>4 DEF StoreClaims, HookState
  <2> QED
    BY <1>0, <2>1 DEF Inv, HookHolds
<1>5. CASE Repost(d) \/ RejectSignature(d) \/ MaterializeFails(d)
  BY <1>2, <1>5 DEF Repost, RejectSignature, MaterializeFails
<1>6. ASSUME NEW c \in Delivery, HookStep(c), c # d
      PROVE  hook'[d] = hook[d]
  BY <1>0, <1>6 DEF HookStep, Repost, RejectSignature, ReceiveWebhook, MaterializeFails,
                    StoreClaims, MarkProcessed
<1>7. ~MarkProcessed(d)
  BY <1>0 DEF MarkProcessed
<1>8. CASE \E c \in Delivery : HookStep(c)
  BY <1>1, <1>3, <1>4, <1>5, <1>6, <1>7, <1>8 DEF HookStep
<1>9. CASE \E c \in Delivery, q \in Session, raw \in RawStatus : Post(c, q, raw)
  BY <1>0, <1>1, <1>9 DEF Post
<1>10. CASE \/ \E q \in Session, u \in User : OpenSession(q, u)
            \/ \E q \in Session : RecordVerification(q) \/ GetStatus(q)
            \/ \E u \in User : \/ IssueDemoClaims(u) \/ IssueCredential(u)
                               \/ GetClaimsOf(u) \/ GetProofInput(u)
            \/ Flush \/ Tick \/ UNCHANGED vars
  BY <1>1, <1>10 DEF OpenSession, RecordVerification, GetStatus, IssueDemoClaims,
                     IssueCredential, GetClaimsOf, GetProofInput, Flush, Tick, vars, handlers
<1> QED
  BY <1>8, <1>9, <1>10 DEF Next

(* While the process lives, or where it keeps no state file, a verification  *)
(* shown as approved has its claims stored or a webhook call for it that is  *)
(* not acknowledged yet: through duplicates, failures and full maps.         *)
THEOREM NoneStranded == Spec => [](Uninterrupted => NoStrandedApproval)
<1> DEFINE Waiting == Uninterrupted => \A s \in Session : Awaited(s)
<1>1. Init => Waiting
  BY DEF Init, StoreInit, Empty, Awaited, Approved
<1>2. ASSUME Inv, Inv', Chained, Forgetful, Waiting, [Next]_vars PROVE Waiting'
  <2> SUFFICES ASSUME Uninterrupted', NEW s \in Session, Approved(s)'
               PROVE  \/ ServedBy(s, Mem, clock, storedAt)'
                      \/ \E d \in Delivery : Pending(d, s)'
    BY DEF Awaited
  <2>1. CASE Crash \/ FlushFailureEndsProcess
    <3>1. ~StateFile
      BY <1>2, <2>1 DEF Crash, FlushFailureEndsProcess, FlushRejected, Uninterrupted, Inv, Types
    <3>2. verifications' = Empty.verifications
      BY <1>2, <2>1, <3>1 DEF Forgetful, Crash, FlushFailureEndsProcess, ProcessEnds, Reload,
                              Hydrated, Empty
    <3>3. verifications'[s] = None
      BY <3>2 DEF Empty
    <3> QED
      BY <3>3 DEF Approved
  <2>2. CASE ~Crash /\ ~FlushFailureEndsProcess
    <3>1. ServedLater
      BY <1>2, <2>2, NextInv
    <3>2. Uninterrupted
      <4>1. UNCHANGED crashes /\ (failures' = 0 => failures = 0)
        BY <1>2, <2>2 DEF Next, OpenSession, RecordVerification, Post, HookStep, Repost,
           RejectSignature, ReceiveWebhook, MaterializeFails, StoreClaims, MarkProcessed,
           IssueDemoClaims, IssueCredential, GetClaimsOf, GetProofInput, GetStatus,
           Flush, FlushStep, TakeSnapshot, CommitSnapshot, RetryFlush, Tick, vars,
           storeVars, flusher, Inv, Types
      <4> QED
        BY <4>1 DEF Uninterrupted
    <3>3. CASE Approved(s)
      <4>1. CASE ServedBy(s, Mem, clock, storedAt)
        BY <3>1, <4>1 DEF ServedLater
      <4>2. CASE \E d \in Delivery : Pending(d, s)
        BY <1>2, <2>2, <3>1, <4>2, PendingMoves DEF Approved
      <4> QED
        BY <1>2, <3>2, <3>3, <4>1, <4>2 DEF Awaited
    <3>4. CASE \E d \in Delivery : Pending(d, s)'
      BY <3>4
    <3> QED
      BY <1>2, <2>2, <3>3, <3>4, ApprovalHasCall
  <2> QED
    BY <2>1, <2>2
<1>3. Spec => []Waiting
  BY <1>1, <1>2, InvHolds, ChainedHolds, ForgetfulHolds, PTL DEF Spec
<1>4. ASSUME Inv, Waiting PROVE Uninterrupted => NoStrandedApproval
  <2> SUFFICES ASSUME Uninterrupted, NEW s \in Session, Approved(s)
               PROVE  \/ ClaimsServed(s, verifications, claims)
                      \/ \E d \in Delivery : Pending(d, s)
    BY DEF NoStrandedApproval, Approved, Pending
  <2>1. CASE ServedBy(s, Mem, clock, storedAt)
    BY <2>1, MemFields DEF ServedBy, ClaimsServed
  <2> QED
    BY <1>4, <2>1 DEF Awaited
<1> QED
  BY <1>3, <1>4, InvHolds, PTL
=============================================================================
