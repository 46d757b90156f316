-------------------------- MODULE VerificationStore --------------------------
(* services/api/src/store.ts: the maps of InMemoryStore, the operations the  *)
(* routes call on them (each runs without an await, so it is one step) and   *)
(* the state file they are flushed to behind the routes' backs.              *)
(* In this and in the modules that extend it a definition named X_Y is X     *)
(* with the plausible bug Y: no action uses it, the README says what it is   *)
(* for.                                                                      *)
EXTENDS Naturals, Sequences, FiniteSets

CONSTANTS
    Session,            \* provider session ids
    User,               \* user ids, which are wallet addresses
    RawStatus,          \* the provider's own status strings
    None,
    MaxVerifications,   \* MAX_VERIFICATIONS
    MaxClaims,          \* MAX_CLAIMS
    MaxProcessed,       \* MAX_PROCESSED_WEBHOOKS
    ClaimTtl,           \* CLAIM_TTL_MS
    StateFile,          \* whether the store has a state file
    MaxFlushes,         \* bound: persist jobs waiting at one time
    MaxFailures         \* bound: failing writes of the state file

Status == {"not_started", "pending", "approved", "rejected", "needs_review"}
DedupeKey == Session \X RawStatus

\* What is kept of a ClaimsRecord: where its claims come from, a verification
\* session or the demo issuer, and when they were stored.
ClaimsRecord == [source : Session \cup {"demo"}, verifiedAt : Nat]
VerificationRecord == [user : User, status : Status]

Snapshot ==
    [verifications : [Session -> VerificationRecord \cup {None}],
     claims : [User -> ClaimsRecord \cup {None}],
     processed : Seq(DedupeKey)]

ASSUME StoreBounds ==
    /\ None \notin User \cup DedupeKey \cup Nat
    /\ None \notin VerificationRecord \cup ClaimsRecord \cup Snapshot
    /\ MaxVerifications \in Nat
    /\ MaxClaims \in Nat
    /\ MaxProcessed \in Nat \ {0}
    /\ ClaimTtl \in Nat
    /\ StateFile \in BOOLEAN
    /\ MaxFlushes \in Nat
    /\ MaxFailures \in Nat

VARIABLES
    clock,          \* Date.now()
    verifications,  \* verifications and byProviderRef: Session -> record or None
    claims,         \* User -> claims record or None
    processed,      \* processedWebhooks, oldest first
    disk,           \* the state file
    flushes,        \* persist jobs chained on flushPromise and not finished
    writing,        \* the snapshot the running job writes, or None
    attempt,        \* 1 in the .then of the running job, 2 in its .catch
    failures        \* failed writes so far

memory == <<verifications, claims, processed>>
flusher == <<disk, writing, attempt, failures>>
storeVars == <<clock, memory, flushes, flusher>>

Present(map) == {x \in DOMAIN map : map[x] # None}

\* The maps stay within their capacities, through evictions and reloads.
StoreTypeOK ==
    /\ clock \in Nat
    /\ verifications \in [Session -> VerificationRecord \cup {None}]
    /\ claims \in [User -> ClaimsRecord \cup {None}]
    /\ processed \in Seq(DedupeKey)
    /\ Cardinality(Present(verifications)) <= MaxVerifications
    /\ Cardinality(Present(claims)) <= MaxClaims
    /\ Len(processed) <= MaxProcessed
    /\ disk \in Snapshot
    /\ flushes \in Nat
    /\ writing \in Snapshot \cup {None}
    /\ attempt \in {1, 2}
    /\ failures \in Nat

Empty == [verifications |-> [s \in Session |-> None],
          claims |-> [u \in User |-> None],
          processed |-> <<>>]

StoreInit ==
    /\ clock = 0
    /\ verifications = Empty.verifications
    /\ claims = Empty.claims
    /\ processed = Empty.processed
    /\ disk = Empty
    /\ flushes = 0
    /\ writing = None
    /\ attempt = 1
    /\ failures = 0
Remembered(keys) == {keys[i] : i \in DOMAIN keys}

-----------------------------------------------------------------------------
(* The operations                                                            *)

\* schedulePersist: one more job on flushPromise, never merged with the others.
SchedulePersist ==
    IF StateFile THEN flushes < MaxFlushes /\ flushes' = flushes + 1
    ELSE UNCHANGED flushes

\* createVerification; it throws when the map is full.
CanCreate == Cardinality(Present(verifications)) < MaxVerifications

CreateVerification(s, user) ==
    /\ verifications' = [verifications EXCEPT ![s] =
                           [user |-> user, status |-> "not_started"]]
    /\ SchedulePersist
    /\ UNCHANGED <<claims, processed>>

\* Bug: the new status is not scheduled for persistence.
UpdateStatus_MemoryOnly(s, status) ==
    /\ verifications' = [verifications EXCEPT ![s].status = status]
    /\ UNCHANGED <<claims, processed, flushes>>

\* updateVerificationStatus of a session that has a record.
UpdateStatus(s, status) ==
    /\ verifications' = [verifications EXCEPT ![s].status = status]
    /\ SchedulePersist
    /\ UNCHANGED <<claims, processed>>

\* upsertClaims; it throws for a new user when the map is full.
CanUpsert(user) ==
    claims[user] # None \/ Cardinality(Present(claims)) < MaxClaims

UpsertClaims(user, source) ==
    /\ claims' = [claims EXCEPT ![user] =
                    [source |-> source, verifiedAt |-> clock]]
    /\ SchedulePersist
    /\ UNCHANGED <<verifications, processed>>

\* isClaimExpired
Expired(record, now) == record # None /\ now - record.verifiedAt > ClaimTtl

\* getClaims: an expired record is deleted by whoever reads it.
GetClaims(user) ==
    IF Expired(claims[user], clock) THEN None ELSE claims[user]

ReadClaims(user) ==
    /\ claims' = [claims EXCEPT ![user] = GetClaims(user)]
    /\ IF Expired(claims[user], clock) THEN SchedulePersist
       ELSE UNCHANGED flushes
    /\ UNCHANGED <<verifications, processed>>

\* How many of the oldest keys a full set gives up: a tenth, and the loop
\* deletes one before it counts.
EvictCount == IF MaxProcessed < 20 THEN 1 ELSE MaxProcessed \div 10

\* Bug: only a set already over its limit makes room.
Mark_OneTooMany(keys, key) ==
    LET kept == IF Len(keys) > MaxProcessed
                THEN SubSeq(keys, EvictCount + 1, Len(keys)) ELSE keys
    IN IF key \in Remembered(kept) THEN kept ELSE Append(kept, key)

\* markWebhookProcessed: make room, then add to the end of the ordered set.
Mark(keys, key) ==
    LET kept == IF Len(keys) >= MaxProcessed
                THEN SubSeq(keys, EvictCount + 1, Len(keys)) ELSE keys
    IN IF key \in Remembered(kept) THEN kept ELSE Append(kept, key)

MarkWebhookProcessed(key) ==
    /\ processed' = Mark(processed, key)
    /\ SchedulePersist
    /\ UNCHANGED <<verifications, claims>>

-----------------------------------------------------------------------------
(* The state file                                                            *)

\* What hydrate() makes of a state file at the present instant.
Hydrated(file) ==
    [file EXCEPT !.claims =
        [u \in User |-> IF Expired(file.claims[u], clock) THEN None
                        ELSE file.claims[u]]]

\* The process stops, whatever it was writing (the rename is atomic and the
\* temporary file is never read), and the next one runs hydrate().
Reload ==
    LET file == Hydrated(disk) IN
    /\ verifications' = file.verifications
    /\ claims' = file.claims
    /\ processed' = file.processed
    /\ flushes' = 0
    /\ writing' = None
    /\ attempt' = 1

\* persist, once mkdir has answered: all three maps of one instant.
TakeSnapshot ==
    /\ flushes > 0
    /\ writing = None
    /\ writing' = [verifications |-> verifications, claims |-> claims,
                   processed |-> processed]
    /\ UNCHANGED <<clock, memory, flushes, disk, attempt, failures>>

\* persist: the temporary file is written and renamed.
CommitSnapshot ==
    /\ writing # None
    /\ disk' = writing
    /\ writing' = None
    /\ flushes' = flushes - 1
    /\ attempt' = 1
    /\ UNCHANGED <<clock, memory, failures>>

\* persist fails. The .catch of the job runs it a second time; if that fails
\* too the promise is rejected, and the next job starts at its .catch.
RetryFlush ==
    /\ flushes > 0
    /\ failures < MaxFailures
    /\ failures' = failures + 1
    /\ \/ /\ attempt = 1
          /\ UNCHANGED flushes
       \/ /\ attempt = 2
          /\ flushes > 1
          /\ flushes' = flushes - 1
    /\ attempt' = 2
    /\ writing' = None
    /\ UNCHANGED <<clock, memory, disk>>

\* The second failure of the last job in the chain: nothing handles the
\* rejection, and Node ends the process.
FlushRejected ==
    /\ flushes = 1
    /\ attempt = 2
    /\ failures < MaxFailures
    /\ failures' = failures + 1

FlushStep == TakeSnapshot \/ CommitSnapshot
=============================================================================
