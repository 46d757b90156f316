--------------------------- MODULE VerificationApi ---------------------------
(* The routes of services/api that move a user's verification forward        *)
(* (routes/verifications.ts, webhooks.ts, demo.ts, mina.ts, claims.ts) over  *)
(* VerificationStore, with the provider that opens sessions and posts        *)
(* webhooks: at least once, in any order, several at a time.  An action is   *)
(* the code of a handler between two awaits.                                 *)
EXTENDS VerificationStore

CONSTANTS
    Delivery,       \* webhook calls; the provider posts one until it gets a 200
    MaxClock,       \* bound: the last instant of the clock
    MaxCrashes,     \* bound: ends of the API process
    DemoIssuer      \* whether the demo routes are enabled

ASSUME ApiBounds ==
    /\ MaxClock \in Nat
    /\ MaxCrashes \in Nat
    /\ DemoIssuer \in BOOLEAN

VARIABLES
    start,          \* Session -> how far POST /start got, and for whom
    emitted,        \* Session -> the raw statuses the provider announced
    hook,           \* Delivery -> the state of its webhook handler
    crashes,
    storedAt        \* history: Session -> when its claims were first stored

handlers == <<start, emitted, hook>>
vars == <<storeVars, handlers, crashes, storedAt>>

\* opened: the provider has the session, the
\* API not yet its record; the other three: /start has answered.
StartState == [pc : {"idle", "opened", "recorded", "refused", "lost"},
               user : User \cup {None}]

\* One webhook call. A 200 ends it; on anything else the provider tries again.
HookState == [pc : {"idle", "received", "materialize", "mark", "acked", "failed"},
              event : DedupeKey \cup {None}]

(* The maps stay within their capacities, and the statuses stored are those  *)
(* of the store, whatever the provider calls them.                           *)
TypeOK ==
    /\ StoreTypeOK
    /\ start \in [Session -> StartState]
    /\ emitted \in [Session -> SUBSET RawStatus]
    /\ hook \in [Delivery -> HookState]
    /\ crashes \in Nat
    /\ storedAt \in [Session -> Nat \cup {None}]

Init ==
    /\ StoreInit
    /\ start = [s \in Session |-> [pc |-> "idle", user |-> None]]
    /\ emitted = [s \in Session |-> {}]
    /\ hook = [d \in Delivery |-> [pc |-> "idle", event |-> None]]
    /\ crashes = 0
    /\ storedAt = [s \in Session |-> None]

\* Bug: a status the map has no approval for is stored as it came.
MapVerificationStatus_Raw(raw) == IF raw = "Approved" THEN "approved" ELSE raw

\* DIDIT_STATUS_MAP and the fallback of mapVerificationStatus.
MapVerificationStatus(raw) ==
    IF raw = "Approved" THEN "approved"
    ELSE IF raw \in {"Declined", "Abandoned"} THEN "rejected"
    ELSE IF raw = "In Review" THEN "needs_review"
    ELSE "pending"

-----------------------------------------------------------------------------
(* POST /api/verifications/start and the provider                            *)

\* provider.createSession: from here on the provider may post webhooks.
OpenSession(s, user) ==
    /\ start[s].pc = "idle"
    /\ start' = [start EXCEPT ![s] = [pc |-> "opened", user |-> user]]
    /\ UNCHANGED <<storeVars, emitted, hook, crashes, storedAt>>

\* store.createVerification after the await; a full store fails the request
\* and leaves the provider with a session nobody here knows.
RecordVerification(s) ==
    /\ start[s].pc = "opened"
    /\ \/ /\ CanCreate
          /\ CreateVerification(s, start[s].user)
          /\ start' = [start EXCEPT ![s].pc = "recorded"]
       \/ /\ ~CanCreate
          /\ start' = [start EXCEPT ![s].pc = "refused"]
          /\ UNCHANGED <<memory, flushes>>
    /\ UNCHANGED <<clock, flusher, emitted, hook, crashes, storedAt>>

-----------------------------------------------------------------------------
(* POST /api/providers/<id>/webhook                                          *)

\* The provider announces a status of a session it has, or announces it again.
Post(d, s, raw) ==
    /\ start[s].pc # "idle"
    /\ hook[d].pc = "idle"
    /\ emitted' = [emitted EXCEPT ![s] = @ \cup {raw}]
    /\ hook' = [hook EXCEPT ![d] = [pc |-> "received", event |-> <<s, raw>>]]
    /\ UNCHANGED <<storeVars, start, crashes, storedAt>>

Repost(d) ==
    /\ hook[d].pc = "failed"
    /\ hook' = [hook EXCEPT ![d].pc = "received"]
    /\ UNCHANGED <<storeVars, start, emitted, crashes, storedAt>>

\* parseWebhook refuses it (a signature or a stale timestamp): 401.
RejectSignature(d) ==
    /\ hook[d].pc = "received"
    /\ hook' = [hook EXCEPT ![d].pc = "failed"]
    /\ UNCHANGED <<storeVars, start, emitted, crashes, storedAt>>

\* Bug: one processed webhook of a session silences all its others.
ReceiveWebhook_SessionDedupe(d) ==
    LET event == hook[d].event
        status == MapVerificationStatus(event[2])
        known == \E key \in Remembered(processed) : key[1] = event[1]
    IN
    /\ hook[d].pc = "received"
    /\ \/ /\ known \/ verifications[event[1]] = None
          /\ hook' = [hook EXCEPT ![d].pc = "acked"]
          /\ UNCHANGED <<memory, flushes>>
       \/ /\ ~known
          /\ verifications[event[1]] # None
          /\ UpdateStatus(event[1], status)
          /\ hook' = [hook EXCEPT ![d].pc =
                        IF status = "approved" THEN "materialize" ELSE "mark"]
    /\ UNCHANGED <<clock, flusher, start, emitted, crashes, storedAt>>

\* Bug: claims are materialized for every decision.
ReceiveWebhook_AnyDecision(d) ==
    LET event == hook[d].event
        status == MapVerificationStatus(event[2])
    IN
    /\ hook[d].pc = "received"
    /\ event \notin Remembered(processed)
    /\ verifications[event[1]] # None
    /\ UpdateStatus(event[1], status)
    /\ hook' = [hook EXCEPT ![d].pc = "materialize"]
    /\ UNCHANGED <<clock, flusher, start, emitted, crashes, storedAt>>

\* The handler after parseWebhook: dedupe check and updateVerificationStatus.
\* A key already processed and a session without a record are acknowledged.
ReceiveWebhook(d) ==
    LET event == hook[d].event
        status == MapVerificationStatus(event[2])
    IN
    /\ hook[d].pc = "received"
    /\ \/ /\ event \in Remembered(processed) \/ verifications[event[1]] = None
          /\ hook' = [hook EXCEPT ![d].pc = "acked"]
          /\ UNCHANGED <<memory, flushes>>
       \/ /\ event \notin Remembered(processed)
          /\ verifications[event[1]] # None
          /\ UpdateStatus(event[1], status)
          /\ hook' = [hook EXCEPT ![d].pc =
                        IF status = "approved" THEN "materialize" ELSE "mark"]
    /\ UNCHANGED <<clock, flusher, start, emitted, crashes, storedAt>>

\* Bug: the failure is swallowed and the webhook goes on to be marked.
MaterializeFails_Swallowed(d) ==
    /\ hook[d].pc = "materialize"
    /\ hook' = [hook EXCEPT ![d].pc = "mark"]
    /\ UNCHANGED <<storeVars, start, emitted, crashes, storedAt>>

\* materializeClaims fails (idnorm fetches the result over the network) or
\* upsertClaims throws: the request ends with a 500.
MaterializeFails(d) ==
    /\ hook[d].pc = "materialize"
    /\ hook' = [hook EXCEPT ![d].pc = "failed"]
    /\ UNCHANGED <<storeVars, start, emitted, crashes, storedAt>>

\* materializeClaims answers and upsertClaims replaces the user's claims.
StoreClaims(d) ==
    LET s == hook[d].event[1]
        user == verifications[s].user
    IN
    /\ hook[d].pc = "materialize"
    /\ CanUpsert(user)
    /\ UpsertClaims(user, s)
    /\ storedAt' = [storedAt EXCEPT ![s] = IF @ = None THEN clock ELSE @]
    /\ hook' = [hook EXCEPT ![d].pc = "mark"]
    /\ UNCHANGED <<clock, flusher, start, emitted, crashes>>

\* markWebhookProcessed, then the 200.
MarkProcessed(d) ==
    /\ hook[d].pc = "mark"
    /\ MarkWebhookProcessed(hook[d].event)
    /\ hook' = [hook EXCEPT ![d].pc = "acked"]
    /\ UNCHANGED <<clock, flusher, start, emitted, crashes, storedAt>>

-----------------------------------------------------------------------------
(* Demo issuer, credential issuance, status and claims reads                 *)

\* POST /api/demo/issue-claims for the authenticated user.
IssueDemoClaims(user) ==
    /\ DemoIssuer
    /\ CanUpsert(user)
    /\ UpsertClaims(user, "demo")
    /\ UNCHANGED <<clock, flusher, handlers, crashes, storedAt>>

\* POST /api/mina/issue-credential: whatever getClaims returns is signed.
IssueCredential(user) ==
    /\ claims[user] # None
    /\ ReadClaims(user)
    /\ UNCHANGED <<clock, flusher, handlers, crashes, storedAt>>

\* GET /api/claims/<user> and GET /api/mina/zk-age-proof-input/<user>, each
\* for the wallet of the session only.
GetClaimsOf(user) ==
    /\ ReadClaims(user)
    /\ UNCHANGED <<clock, flusher, handlers, crashes, storedAt>>

GetProofInput(user) ==
    /\ ReadClaims(user)
    /\ UNCHANGED <<clock, flusher, handlers, crashes, storedAt>>

\* GET /api/verifications/<id>/status: the claims are looked up for an approved
\* verification alone.
GetStatus(s) ==
    /\ verifications[s] # None
    /\ verifications[s].status = "approved"
    /\ ReadClaims(verifications[s].user)
    /\ UNCHANGED <<clock, flusher, handlers, crashes, storedAt>>

-----------------------------------------------------------------------------
(* Time and failures                                                         *)

Tick ==
    /\ clock < MaxClock
    /\ clock' = clock + 1
    /\ UNCHANGED <<memory, flushes, flusher, handlers, crashes, storedAt>>

\* The handlers in progress are gone; the provider sees no 200 and retries.
ProcessEnds ==
    /\ Reload
    /\ start' = [s \in Session |->
                   IF start[s].pc = "opened" THEN [start[s] EXCEPT !.pc = "lost"]
                   ELSE start[s]]
    /\ hook' = [d \in Delivery |->
                  IF hook[d].pc \in {"idle", "acked"} THEN hook[d]
                  ELSE [hook[d] EXCEPT !.pc = "failed"]]
    /\ UNCHANGED <<clock, disk, emitted, storedAt>>

Crash ==
    /\ crashes < MaxCrashes
    /\ crashes' = crashes + 1
    /\ ProcessEnds
    /\ UNCHANGED failures

FlushFailureEndsProcess ==
    /\ FlushRejected
    /\ ProcessEnds
    /\ UNCHANGED crashes

Flush ==
    /\ FlushStep \/ RetryFlush
    /\ UNCHANGED <<handlers, crashes, storedAt>>

HookStep(d) ==
    \/ Repost(d)
    \/ RejectSignature(d)
    \/ ReceiveWebhook(d)
    \/ MaterializeFails(d)
    \/ StoreClaims(d)
    \/ MarkProcessed(d)

Next ==
    \/ \E s \in Session, u \in User : OpenSession(s, u)
    \/ \E s \in Session : RecordVerification(s)
    \/ \E d \in Delivery, s \in Session, raw \in RawStatus : Post(d, s, raw)
    \/ \E d \in Delivery : HookStep(d)
    \/ \E u \in User : IssueDemoClaims(u) \/ IssueCredential(u)
    \/ \E u \in User : GetClaimsOf(u) \/ GetProofInput(u)
    \/ \E s \in Session : GetStatus(s)
    \/ Flush
    \/ Crash
    \/ FlushFailureEndsProcess
    \/ Tick

Spec == Init /\ [][Next]_vars

\* A provider that posts until it is told 200, a network that lets one of its
\* posts and one of the result fetches through in the end.
FairSpec ==
    /\ Spec
    /\ \A d \in Delivery :
          /\ WF_vars(Repost(d))
          /\ SF_vars(ReceiveWebhook(d))
          /\ SF_vars(StoreClaims(d))

-----------------------------------------------------------------------------
(* Correctness                                                               *)

IsApproval(event) == MapVerificationStatus(event[2]) = "approved"

\* The claims of session s are on the user's record, were replaced by newer
\* ones there, or have outlived CLAIM_TTL_MS.
ClaimsServed(s, records, known) ==
    /\ storedAt[s] # None
    /\ \/ known[records[s].user] # None
       \/ clock - storedAt[s] > ClaimTtl

(* An approval is remembered as processed, in memory or in the state file,   *)
(* only where the claims it stands for are: whenever a crash or a duplicate  *)
(* strikes, the dedupe key never outruns the claims it suppresses.           *)
DedupeImpliesClaims ==
    /\ \A e \in Remembered(processed) :
          IsApproval(e) => ClaimsServed(e[1], verifications, claims)
    /\ \A e \in Remembered(disk.processed) :
          IsApproval(e) => ClaimsServed(e[1], disk.verifications, disk.claims)

(* Claims that name a verification are the claims of its own user, and the   *)
(* provider did announce its approval; in memory and in the state file.      *)
ClaimsComeFromApproval ==
    \A u \in User : \A record \in {claims[u], disk.claims[u]} \ {None} :
        record.source # "demo" =>
            /\ start[record.source].user = u
            /\ \E raw \in emitted[record.source] :
                  MapVerificationStatus(raw) = "approved"

(* When no flush is owed the state file holds what the process knows: no     *)
(* operation forgets to schedule one, none is lost in the promise chain, and *)
(* a failing disk never leaves the two apart for good.                       *)
IdleMeansDurable ==
    StateFile /\ flushes = 0 =>
        Hydrated(disk) = Hydrated([verifications |-> verifications,
                                   claims |-> claims, processed |-> processed])

(* While the process lives, a verification shown as approved has its claims  *)
(* stored or a webhook call for it that is not acknowledged yet.             *)
NoStrandedApproval ==
    \A s \in Session :
        verifications[s] # None /\ verifications[s].status = "approved" =>
            \/ ClaimsServed(s, verifications, claims)
            \/ \E d \in Delivery :
                  /\ hook[d].event # None /\ hook[d].event[1] = s
                  /\ IsApproval(hook[d].event)
                  /\ hook[d].pc \in {"received", "materialize", "failed"}

(* An approval posted for a recorded verification ends in stored claims,     *)
(* through refused posts, failed fetches and concurrent duplicates.          *)
ApprovalIsServed ==
    \A d \in Delivery, s \in Session :
        /\ hook[d].pc = "received"
        /\ hook[d].event[1] = s
        /\ IsApproval(hook[d].event)
        /\ verifications[s] # None
        ~> storedAt[s] # None
=============================================================================
