--------------------------- MODULE MemoryVerifier ---------------------------
(* One verifier process over MemoryPresentationChallengeStore, the default   *)
(* when REDIS_URL is unset: POST /api/presentation-request, POST             *)
(* /api/verify-presentation and POST /api/passkeys/assertion/options.        *)
(*                                                                           *)
(* JavaScript runs a handler without interruption from one await to the      *)
(* next, so an action here is the code between two awaits; the store's async *)
(* methods run synchronously inside it, and requests interleave in between.  *)
EXTENDS ChallengeRules

CONSTANTS
    Request,        \* calls of verify-presentation
    Lifetimes,      \* what may be left of expiresInSeconds when issue() runs
    MaxClock,       \* bound: the last instant of the clock
    MaxRestarts     \* bound: restarts of the process

ASSUME MemoryBounds ==
    /\ Lifetimes \subseteq Nat
    /\ MaxClock \in Nat
    /\ MaxRestarts \in Nat

VARIABLES
    clock,          \* Date.now()
    issued,         \* the map issued: Challenge -> record or None
    consumed,       \* the map consumed
    handed,         \* what the site holds of each challenge, or None
    lost,           \* challenges handed out before the last restart
    restarts,
    req,            \* Request -> the state of its handler
    opt,            \* Updater -> the state of its assertion-options handler
    granted         \* history: the requests whose consume() said ok

store == <<issued, consumed>>
vars == <<clock, issued, consumed, handed, lost, restarts, req, opt, granted>>

\* Control points of the two handlers; the rest is their local variables.
ReqState == [pc : {"idle", "read", "proving", "done"},
             env : Envelope \cup {None}, origin : Audience \cup {None},
             rec : ChallengeRecord \cup {None},
             answer : Refusal \cup {None, "verified", "proof_failed", "lost"}]

OptState == [pc : {"idle", "building", "done"},
             challenge : Challenge \cup {None},
             answer : {None, "sent", "not_found", "not_registered",
                       "audience_mismatch", "lost"}]

IdleReq == [pc |-> "idle", env |-> None, origin |-> None, rec |-> None,
            answer |-> None]
IdleOpt == [pc |-> "idle", challenge |-> None, answer |-> None]

TypeOK ==
    /\ clock \in Nat
    /\ issued \in [Challenge -> ChallengeRecord \cup {None}]
    /\ consumed \in [Challenge -> ChallengeRecord \cup {None}]
    /\ handed \in [Challenge -> Handout \cup {None}]
    /\ lost \subseteq Challenge
    /\ restarts \in Nat
    /\ req \in [Request -> ReqState]
    /\ opt \in [Updater -> OptState]
    /\ granted \in [Challenge -> SUBSET Request]

Init ==
    /\ clock = 0
    /\ issued = [c \in Challenge |-> None]
    /\ consumed = [c \in Challenge |-> None]
    /\ handed = [c \in Challenge |-> None]
    /\ lost = {}
    /\ restarts = 0
    /\ req = [r \in Request |-> IdleReq]
    /\ opt = [u \in Updater |-> IdleOpt]
    /\ granted = [c \in Challenge |-> {}]

-----------------------------------------------------------------------------
(* MemoryPresentationChallengeStore                                          *)

\* Bug: a record is kept through the instant it expires.
Evict_KeepsLastInstant(map, t) ==
    [c \in Challenge |->
        IF map[c] # None /\ map[c].expiresAt < t THEN None ELSE map[c]]

\* evictExpired on one of the maps, at time t.
Evict(map, t) ==
    [c \in Challenge |->
        IF map[c] # None /\ map[c].expiresAt <= t THEN None ELSE map[c]]

\* get, on maps already evicted.
Get(issuedMap, consumedMap, c) ==
    IF issuedMap[c] # None THEN issuedMap[c] ELSE consumedMap[c]

EvictBoth(t) ==
    /\ issued' = Evict(issued, t)
    /\ consumed' = Evict(consumed, t)

\* Bug: the issued record is not deleted.
Consume_KeepsIssued(r, c, t) ==
    LET evicted == Evict(issued, t) IN
    /\ issued' = evicted
    /\ consumed' = [Evict(consumed, t) EXCEPT ![c] =
                       [evicted[c] EXCEPT !.status = "consumed"]]
    /\ granted' = [granted EXCEPT ![c] = @ \cup {r}]

\* Bug: consumption is a plain delete.
Consume_NoTombstone(r, c, t) ==
    /\ issued' = [Evict(issued, t) EXCEPT ![c] = None]
    /\ consumed' = Evict(consumed, t)
    /\ granted' = [granted EXCEPT ![c] = @ \cup {r}]

\* consume at time t for request r: the record moves from issued to consumed.
Consume(r, c, t) ==
    LET evicted == Evict(issued, t) IN
    /\ issued' = [evicted EXCEPT ![c] = None]
    /\ consumed' = [Evict(consumed, t) EXCEPT ![c] =
                       [evicted[c] EXCEPT !.status = "consumed"]]
    /\ granted' = [granted EXCEPT ![c] = @ \cup {r}]

Answer(r, answer) ==
    req' = [req EXCEPT ![r].pc = "done", ![r].rec = None, ![r].answer = answer]

\* Bug: whatever consume() did not find counts as replayed.
NotConsumed_AlwaysReplay(r, found) == "challenge_replay"

\* What validateForPresentation makes of a failed consume() and of the
\* tombstone it found or not.
NotConsumed(r, found) ==
    IF found # None THEN "challenge_replay" ELSE InferMissing(req[r].env, clock)

\* Bug: the record is looked up in both maps, as get() does.
Attach_AnyRecord(map, c, u) ==
    IF Get(map, consumed, c) = None THEN map
    ELSE [map EXCEPT ![c] = [Get(map, consumed, c) EXCEPT !.auth = u,
                                                        !.status = "issued"]]

\* updatePasskeyAuthentication on an evicted issued map.
Attach(map, c, u) ==
    IF map[c] = None THEN map ELSE [map EXCEPT ![c].auth = u]

AnswerOpt(u, answer) ==
    opt' = [opt EXCEPT ![u].pc = "done", ![u].answer = answer]

-----------------------------------------------------------------------------
(* The handlers                                                              *)

Tick ==
    /\ clock < MaxClock
    /\ clock' = clock + 1
    /\ UNCHANGED <<issued, consumed, handed, lost, restarts, req, opt, granted>>

\* presentation-request: PresentationChallengeService.issue, store.issue.
IssueChallenge(c, handout) ==
    /\ handed[c] = None
    /\ handed' = [handed EXCEPT ![c] = handout]
    /\ issued' = [Evict(issued, clock) EXCEPT ![c] = ToChallengeRecord(handout)]
    /\ consumed' = Evict(consumed, clock)
    /\ UNCHANGED <<clock, lost, restarts, req, opt, granted>>

\* verify-presentation up to the first await: store.get.
ReadChallenge(r, env, origin) ==
    /\ req[r].pc = "idle"
    /\ EvictBoth(clock)
    /\ req' = [req EXCEPT ![r] =
                 [pc |-> "read", env |-> env, origin |-> origin,
                  rec |-> Get(issued', consumed', env.challenge),
                  answer |-> None]]
    /\ UNCHANGED <<clock, handed, lost, restarts, opt, granted>>

\* The rest of validateForPresentation. Its `now` is read first and the clock
\* of consume() later in the same run, possibly one instant on.
ValidateAndConsume(r, later) ==
    LET c == req[r].env.challenge
        verdict == Validate(req[r].rec, req[r].env, req[r].origin, clock)
        active == Evict(issued, later)
    IN
    /\ req[r].pc = "read"
    /\ \/ /\ verdict # "ok"
          /\ later = clock
          /\ Answer(r, verdict)
          /\ UNCHANGED <<store, granted>>
       \/ /\ verdict = "ok"
          /\ active[c] # None
          /\ Consume(r, c, later)
          /\ req' = [req EXCEPT ![r].pc = "proving", ![r].rec = consumed'[c]]
       \/ /\ verdict = "ok"
          /\ active[c] = None
          /\ EvictBoth(later)
          /\ Answer(r, NotConsumed(r, consumed'[c]))
          /\ UNCHANGED granted
    /\ clock' = later
    /\ UNCHANGED <<handed, lost, restarts, opt>>

\* verifyPresentation, after the challenge is gone whatever it answers.
VerifyProof(r) ==
    /\ req[r].pc = "proving"
    /\ \E v \in ProofVerdicts(req[r].rec, req[r].env) : Answer(r, v)
    /\ UNCHANGED <<clock, store, handed, lost, restarts, opt, granted>>

\* assertion/options: challengeService.get and the audience check.
BeginOptions(u, c, origin) ==
    /\ opt[u].pc = "idle"
    /\ EvictBoth(clock)
    /\ LET rec == Get(issued', consumed', c) IN
       \/ /\ rec = None
          /\ opt' = [opt EXCEPT ![u] = [pc |-> "done", challenge |-> c,
                                        answer |-> "not_found"]]
       \/ /\ rec # None
          /\ rec.audience # origin
          /\ opt' = [opt EXCEPT ![u] = [pc |-> "done", challenge |-> c,
                                        answer |-> "audience_mismatch"]]
       \/ /\ rec # None
          /\ rec.audience = origin
          /\ opt' = [opt EXCEPT ![u] = [pc |-> "building", challenge |-> c,
                                        answer |-> None]]
    /\ UNCHANGED <<clock, handed, lost, restarts, req, granted>>

\* assertion/options after buildAuthenticationRequest: no binding for the
\* wallet, or setPasskeyAuthentication, whose result the handler ignores.
FinishOptions(u) ==
    LET c == opt[u].challenge IN
    /\ opt[u].pc = "building"
    /\ \/ /\ AnswerOpt(u, "not_registered")
          /\ UNCHANGED store
       \/ /\ AnswerOpt(u, "sent")
          /\ issued' = Attach(Evict(issued, clock), c, u)
          /\ consumed' = Evict(consumed, clock)
    /\ UNCHANGED <<clock, handed, lost, restarts, req, granted>>

\* The process restarts: both maps and every handler in progress are gone.
Restart ==
    /\ restarts < MaxRestarts
    /\ restarts' = restarts + 1
    /\ issued' = [c \in Challenge |-> None]
    /\ consumed' = [c \in Challenge |-> None]
    /\ lost' = {c \in Challenge : handed[c] # None}
    /\ req' = [r \in Request |->
                 IF req[r].pc \in {"idle", "done"} THEN req[r]
                 ELSE [req[r] EXCEPT !.pc = "done", !.rec = None,
                                     !.answer = "lost"]]
    /\ opt' = [u \in Updater |->
                 IF opt[u].pc \in {"idle", "done"} THEN opt[u]
                 ELSE [opt[u] EXCEPT !.pc = "done", !.answer = "lost"]]
    /\ UNCHANGED <<clock, handed, granted>>

\* The assertions a wallet can hold for c: those whose options it was sent.
Assertions(c) ==
    {None} \cup
    {u \in Updater : opt[u].challenge = c /\ opt[u].answer = "sent"}

Arrive(r) ==
    \E c \in Challenge, origin \in Audience,
       match \in {"same", "nonce", "request"} :
        /\ handed[c] # None
        /\ \E a \in Assertions(c) :
              ReadChallenge(r, Present(c, handed[c], match, a), origin)

HandlerStep(r) ==
    \/ \E later \in {clock, clock + 1} :
          later <= MaxClock /\ ValidateAndConsume(r, later)
    \/ VerifyProof(r)

Next ==
    \/ Tick
    \/ \E c \in Challenge, a \in Audience, l \in Lifetimes, p \in BOOLEAN :
          IssueChallenge(c, [audience |-> a, expiresAt |-> clock + l,
                             passkey |-> p])
    \/ \E r \in Request : Arrive(r)
    \/ \E r \in Request : HandlerStep(r)
    \/ \E u \in Updater, c \in Challenge, origin \in Audience :
          handed[c] # None /\ BeginOptions(u, c, origin)
    \/ \E u \in Updater : FinishOptions(u)
    \/ Restart

Spec == Init /\ [][Next]_vars

-----------------------------------------------------------------------------
(* Correctness                                                               *)

\* What the verifier still accepts, in the terms of ChallengeRegister.
PhaseOf(c) ==
    IF granted[c] # {} THEN "spent"
    ELSE IF handed[c] = None THEN "fresh"
    ELSE IF c \in lost \/ handed[c].expiresAt <= clock THEN "lapsed"
    ELSE "open"

Register == INSTANCE ChallengeRegister
                WITH phase <- [c \in Challenge |-> PhaseOf(c)]

(* The memory verifier keeps the promise of a challenge register, restarts   *)
(* and passkey updates included.                                             *)
ImplementsRegister == Register!Spec

(* At most one verify-presentation call gets past consume() for a challenge  *)
(* (docs/replay-protection-and-audience-binding.md, "Replay Protection").    *)
SingleUse == Register!SingleUse

(* A presentation is told "already consumed" only if another one really was  *)
(* let through: no challenge is burned without a winner by two calls racing  *)
(* between get() and consume().                                              *)
ReplayHasWinner ==
    \A r \in Request :
        req[r].answer = "challenge_replay" =>
            granted[req[r].env.challenge] \ {r} # {}

(* "not issued by this verifier" is never said of a challenge the running    *)
(* process issued and whose time is not up, however get() and consume()      *)
(* interleave with the other requests (the two maps are never both missing). *)
NoFalseUnknown ==
    [][\A r \in Request :
          LET c == req'[r].env.challenge IN
          /\ req[r].answer # "unknown_challenge"
          /\ req'[r].answer = "unknown_challenge"
          => c \in lost \/ handed[c].expiresAt <= clock']_vars

(* A challenge is only ever granted before its expiry, although the handler  *)
(* reads the record, the time and the map at three different moments.        *)
GrantInTime ==
    [][\A c \in Challenge :
          granted'[c] # granted[c] => clock' < handed[c].expiresAt]_vars

(* While a spent challenge is within its time its tombstone stays, and no    *)
(* passkey update brings it back into the issued map.                        *)
SpentStaysSpent ==
    \A c \in Challenge :
        granted[c] # {} /\ c \notin lost /\ clock < handed[c].expiresAt =>
            issued[c] = None /\ consumed[c] # None
=============================================================================
