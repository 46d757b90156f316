--------------------------- MODULE RedisVerifier ---------------------------
(* Verifier processes that share their challenges through Redis:             *)
(* RedisPresentationChallengeStore under the same three handlers as          *)
(* MemoryVerifier.  Every Redis command is awaited, so every command is an   *)
(* action: other requests, other processes and the clock move in between.    *)
(* A TTL is computed in the process and begins when Redis runs the command;  *)
(* `sent` is the instant of the first, `clock` that of the second.           *)
(*                                                                           *)
(* A process opens ONE connection (factory.ts) and all its requests use it,  *)
(* so WATCH, UNWATCH and EXEC, which act on the connection, are shared by    *)
(* whatever requests are in flight on it.  A deployment says which of them   *)
(* share one, which updates may run and whether connections drop.            *)
EXTENDS ChallengeRules

CONSTANTS
    Request,            \* calls of verify-presentation
    Conn,               \* Redis connections, one per verifier process
    Deployments,        \* the deployments: [connOf, updaters, reconnects]
    Second,             \* instants per second: Redis TTLs are whole seconds
    MinReplaySeconds,   \* 60 in replayTtlSecondsUntil
    WatchRetryLimit,    \* WATCH_RETRY_LIMIT
    Lifetimes,          \* what may be left of expiresInSeconds at issue()
    PasskeyPolicies,    \* whether what a site asks for includes a passkey
    MaxDelay,           \* bound: how long the SET of issue() is under way
    MaxClock,           \* bound: the last instant of the clock
    MaxCrashes          \* bound: crashes of verifier processes

\* A Redis string key with its expiry.
Entry == [rec : ChallengeRecord, until : Nat]

\* What the site is handed back, with a history: how long after the process
\* had read the clock for it Redis ran the SET of issue().
Issued == [audience : Audience, expiresAt : Nat, passkey : BOOLEAN, delay : Nat]

ASSUME RedisBounds ==
    /\ None \notin Nat \cup Entry \cup Issued
    /\ Deployments \subseteq [connOf : [Request -> Conn],
                              updaters : SUBSET Updater, reconnects : BOOLEAN]
    /\ Second \in Nat \ {0}
    /\ MinReplaySeconds \in Nat \ {0}
    /\ WatchRetryLimit \in Nat \ {0}
    /\ Lifetimes \subseteq Nat
    /\ PasskeyPolicies \subseteq BOOLEAN
    /\ MaxDelay \in Nat
    /\ MaxClock \in Nat
    /\ MaxCrashes \in Nat

VARIABLES
    deployment,     \* the one of Deployments that runs
    clock,          \* the time, of Redis and of the processes
    active,         \* keys ...:active:<id>, entry or None
    tombs,          \* keys ...:consumed:<id>, entry or None
    watched,        \* Conn -> active keys the connection watches
    dirty,          \* Conn -> whether one of them was touched (CLIENT_DIRTY_CAS)
    handed,         \* what the site holds of each challenge, or None
    crashes,
    req, opt,       \* the handlers, as in MemoryVerifier
    granted         \* history: the requests whose consume() said ok

keys == <<active, tombs>>
conns == <<watched, dirty>>
vars == <<deployment, clock, active, tombs, watched, dirty, handed, crashes,
          req, opt, granted>>

\* The connection of the process that serves r.
ConnOf(r) == deployment.connOf[r]

\* The connections of the processes that run.
Opened == {ConnOf(r) : r \in Request}

\* pc names the next command, or what is waited for; since is the instant of
\* the read that the command to be sent rests on.
ReqState ==
    [pc : {"idle", "get_consumed", "validate", "watch", "mget", "unwatch",
           "exec", "fallback", "proving", "done"},
     env : Envelope \cup {None}, origin : Audience \cup {None},
     rec : ChallengeRecord \cup {None}, now : Nat, since : Nat, tries : Nat,
     answer : Refusal \cup {None, "verified", "proof_failed", "lost"}]

OptState ==
    [pc : {"idle", "get_consumed", "building", "store_get",
           "store_get_consumed", "set", "done"},
     challenge : Challenge \cup {None}, origin : Audience \cup {None},
     rec : ChallengeRecord \cup {None}, since : Nat,
     answer : {None, "sent", "not_found", "not_registered", "audience_mismatch"}]

IdleReq == [pc |-> "idle", env |-> None, origin |-> None, rec |-> None,
            now |-> 0, since |-> 0, tries |-> 0, answer |-> None]
IdleOpt == [pc |-> "idle", challenge |-> None, origin |-> None,
            rec |-> None, since |-> 0, answer |-> None]

TypeOK ==
    /\ deployment \in Deployments
    /\ clock \in Nat
    /\ active \in [Challenge -> Entry \cup {None}]
    /\ tombs \in [Challenge -> Entry \cup {None}]
    /\ watched \in [Conn -> SUBSET Challenge]
    /\ dirty \in [Conn -> BOOLEAN]
    /\ handed \in [Challenge -> Issued \cup {None}]
    /\ crashes \in Nat
    /\ req \in [Request -> ReqState]
    /\ opt \in [Updater -> OptState]
    /\ granted \in [Challenge -> SUBSET Request]

Init ==
    /\ deployment \in Deployments
    /\ clock = 0
    /\ active = [c \in Challenge |-> None]
    /\ tombs = [c \in Challenge |-> None]
    /\ watched = [k \in Conn |-> {}]
    /\ dirty = [k \in Conn |-> FALSE]
    /\ handed = [c \in Challenge |-> None]
    /\ crashes = 0
    /\ req = [r \in Request |-> IdleReq]
    /\ opt = [u \in Updater |-> IdleOpt]
    /\ granted = [c \in Challenge |-> {}]

-----------------------------------------------------------------------------
(* Redis and the TTLs                                                        *)

CeilDiv(a, b) == (a + b - 1) \div b

\* Bug: a second of slack on top of the rounding.
TtlSecondsUntil_Slack(expiresAt, now) ==
    IF expiresAt <= now THEN None ELSE CeilDiv(expiresAt - now, Second) + 1

\* ttlSecondsUntil: whole seconds, rounded up, or null once it is too late.
TtlSecondsUntil(expiresAt, now) ==
    IF expiresAt <= now THEN None ELSE CeilDiv(expiresAt - now, Second)

\* Bug: the tombstone lives its minimum, whatever is left of the challenge.
ReplayTtlSeconds_MinimumOnly(expiresAt, now) == MinReplaySeconds

\* replayTtlSecondsUntil
ReplayTtlSeconds(expiresAt, now) ==
    IF expiresAt <= now \/ CeilDiv(expiresAt - now, Second) < MinReplaySeconds
    THEN MinReplaySeconds
    ELSE CeilDiv(expiresAt - now, Second)

\* A key set with EX seconds by a command that runs at the present instant.
KeyFor(rec, seconds) == [rec |-> rec, until |-> clock + seconds * Second]

Unexpired(map, t) ==
    [c \in Challenge |->
        IF map[c] # None /\ map[c].until <= t THEN None ELSE map[c]]

\* The connections that watch one of the keys in touched see it modified.
Touch(touched) ==
    [k \in Conn |-> dirty[k] \/ watched[k] \cap touched # {}]

\* EXEC and UNWATCH forget what the connection watches; so does losing it.
Unwatched(k) == [watched EXCEPT ![k] = {}]

Val(entry) == IF entry = None THEN None ELSE entry.rec

\* Where the loop of consume() goes after its tries-th aborted EXEC.
RetryAt(tries) == IF tries < WatchRetryLimit THEN "watch" ELSE "fallback"

\* Keys expire as time passes, and an expired watched key fails its EXEC.
Tick ==
    /\ clock < MaxClock
    /\ clock' = clock + 1
    /\ active' = Unexpired(active, clock')
    /\ tombs' = Unexpired(tombs, clock')
    /\ dirty' = Touch({c \in Challenge : active'[c] # active[c]})
    /\ UNCHANGED <<watched, handed, crashes, req, opt, granted>>

\* The connection drops and ioredis reopens it: commands not yet answered are
\* sent again, watches are not.
Reconnect(k) ==
    /\ deployment.reconnects
    /\ watched' = Unwatched(k)
    /\ dirty' = [dirty EXCEPT ![k] = FALSE]
    /\ UNCHANGED <<clock, keys, handed, crashes, req, opt, granted>>

\* A verifier process dies with the requests it was serving.
Crash(k) ==
    /\ crashes < MaxCrashes
    /\ crashes' = crashes + 1
    /\ watched' = Unwatched(k)
    /\ dirty' = [dirty EXCEPT ![k] = FALSE]
    /\ req' = [r \in Request |->
                 IF ConnOf(r) # k \/ req[r].pc \in {"idle", "done"} THEN req[r]
                 ELSE [req[r] EXCEPT !.pc = "done", !.rec = None,
                                     !.answer = "lost"]]
    /\ UNCHANGED <<clock, keys, handed, opt, granted>>

-----------------------------------------------------------------------------
(* issue and get                                                             *)

\* PresentationChallengeService.issue, when its SET active EX ttl runs, or
\* nothing at all where the record is late; the site gets its request envelope
\* either way. Nobody knows the id of c while the command is under way.
IssueChallenge(c, handout) ==
    LET sent == clock - handout.delay
        ttl == TtlSecondsUntil(handout.expiresAt, sent)
    IN
    /\ handed[c] = None
    /\ handed' = [handed EXCEPT ![c] = handout]
    /\ \/ /\ ttl = None
          /\ UNCHANGED <<active, dirty>>
       \/ /\ ttl # None
          /\ active' = [active EXCEPT ![c] =
                           KeyFor(ToChallengeRecord(handout), ttl)]
          /\ dirty' = Touch({c})
    /\ UNCHANGED <<clock, tombs, watched, crashes, req, opt, granted>>

\* The request moves on to pc; nothing else of the verifier changes.
OnlyReq(r, state) ==
    /\ req' = [req EXCEPT ![r] = state]
    /\ UNCHANGED <<clock, keys, conns, handed, crashes, opt, granted>>

Answered(r, answer) ==
    [req[r] EXCEPT !.pc = "done", !.rec = None, !.now = 0, !.since = 0,
                   !.tries = 0, !.answer = answer]

\* verify-presentation: store.get, its GET of the active key.
GetActive(r, env, origin) ==
    /\ req[r].pc = "idle"
    /\ LET hit == Val(active[env.challenge]) IN
       OnlyReq(r, [pc |-> IF hit = None THEN "get_consumed" ELSE "validate",
                   env |-> env, origin |-> origin, rec |-> hit,
                   now |-> 0, since |-> 0, tries |-> 0, answer |-> None])

\* store.get: its GET of the consumed key.
GetConsumed(r) ==
    /\ req[r].pc = "get_consumed"
    /\ OnlyReq(r, [req[r] EXCEPT !.pc = "validate",
                                 !.rec = Val(tombs[req[r].env.challenge])])

\* validateForPresentation once get() has answered: reads the time and judges.
ValidateRecord(r) ==
    LET verdict == Validate(req[r].rec, req[r].env, req[r].origin, clock) IN
    /\ req[r].pc = "validate"
    /\ OnlyReq(r, IF verdict = "ok"
                  THEN [req[r] EXCEPT !.pc = "watch", !.now = clock, !.rec = None]
                  ELSE Answered(r, verdict))

-----------------------------------------------------------------------------
(* consume                                                                   *)

Watch(r) ==
    /\ req[r].pc = "watch"
    /\ req' = [req EXCEPT ![r].pc = "mget"]
    /\ watched' = [watched EXCEPT ![ConnOf(r)] = @ \cup {req[r].env.challenge}]
    /\ UNCHANGED <<clock, keys, dirty, handed, crashes, opt, granted>>

\* Bug: only the active key is read, the tombstone is never found.
Mget_ActiveOnly(r) ==
    LET c == req[r].env.challenge IN
    /\ req[r].pc = "mget"
    /\ OnlyReq(r, IF active[c] # None
                  THEN [req[r] EXCEPT !.pc = "exec", !.rec = active[c].rec,
                                      !.since = clock]
                  ELSE [req[r] EXCEPT !.pc = "unwatch", !.rec = None])

\* Bug: a missing active key is taken for a lost race and retried.
Mget_RetriesMissing(r) ==
    LET c == req[r].env.challenge IN
    /\ req[r].pc = "mget"
    /\ OnlyReq(r, IF active[c] # None
                  THEN [req[r] EXCEPT !.pc = "exec", !.rec = active[c].rec,
                                      !.since = clock]
                  ELSE [req[r] EXCEPT !.pc = "watch", !.rec = None])

\* MGET active consumed: both keys of one instant.
Mget(r) ==
    LET c == req[r].env.challenge IN
    /\ req[r].pc = "mget"
    /\ OnlyReq(r, IF active[c] # None
                  THEN [req[r] EXCEPT !.pc = "exec", !.rec = active[c].rec,
                                      !.since = clock]
                  ELSE [req[r] EXCEPT !.pc = "unwatch", !.rec = Val(tombs[c])])

\* Bug: whatever consume() did not find counts as replayed.
NotConsumed_AlwaysReplay(r, found) == Answered(r, "challenge_replay")

\* What a failed consume() makes of the record it found or not.
NotConsumed(r, found) ==
    Answered(r, IF found # None THEN "challenge_replay"
                ELSE InferMissing(req[r].env, req[r].now))

Unwatch(r) ==
    /\ req[r].pc = "unwatch"
    /\ watched' = Unwatched(ConnOf(r))
    /\ dirty' = [dirty EXCEPT ![ConnOf(r)] = FALSE]
    /\ req' = [req EXCEPT ![r] = NotConsumed(r, req[r].rec)]
    /\ UNCHANGED <<clock, keys, handed, crashes, opt, granted>>

\* EXEC on a touched connection returns null: retry, or give up.
ExecAborted(r) ==
    /\ req[r].pc = "exec"
    /\ dirty[ConnOf(r)]
    /\ watched' = Unwatched(ConnOf(r))
    /\ dirty' = [dirty EXCEPT ![ConnOf(r)] = FALSE]
    /\ req' = [req EXCEPT ![r].tries = @ + 1, ![r].rec = None, ![r].since = 0,
                          ![r].pc = RetryAt(req[r].tries + 1)]
    /\ UNCHANGED <<clock, keys, handed, crashes, opt, granted>>

\* Bug: the transaction leaves the active key in place.
ExecConsume_KeepsActive(r) ==
    LET c == req[r].env.challenge
        spent == [req[r].rec EXCEPT !.status = "consumed"]
    IN
    /\ req[r].pc = "exec"
    /\ ~dirty[ConnOf(r)]
    /\ \E sent \in req[r].since..clock :
          tombs' = [tombs EXCEPT ![c] =
                       KeyFor(spent, ReplayTtlSeconds(spent.expiresAt, sent))]
    /\ watched' = Unwatched(ConnOf(r))
    /\ req' = [req EXCEPT ![r].pc = "proving", ![r].rec = spent,
                          ![r].since = 0]
    /\ granted' = [granted EXCEPT ![c] = @ \cup {r}]
    /\ UNCHANGED <<clock, active, dirty, handed, crashes, opt>>

\* EXEC goes through: DEL active, SET consumed EX replay-ttl, in one step; the
\* TTL was computed after the MGET was answered and before the EXEC was sent.
ExecConsume(r) ==
    LET c == req[r].env.challenge
        k == ConnOf(r)
        spent == [req[r].rec EXCEPT !.status = "consumed"]
        touched == IF active[c] = None THEN {} ELSE {c}
    IN
    /\ req[r].pc = "exec"
    /\ ~dirty[k]
    /\ active' = [active EXCEPT ![c] = None]
    /\ \E sent \in req[r].since..clock :
          tombs' = [tombs EXCEPT ![c] =
                       KeyFor(spent, ReplayTtlSeconds(spent.expiresAt, sent))]
    /\ watched' = Unwatched(k)
    /\ dirty' = [Touch(touched) EXCEPT ![k] = FALSE]
    /\ req' = [req EXCEPT ![r].pc = "proving", ![r].rec = spent,
                          ![r].since = 0]
    /\ granted' = [granted EXCEPT ![c] = @ \cup {r}]
    /\ UNCHANGED <<clock, handed, crashes, opt>>

\* consume() after WATCH_RETRY_LIMIT failures: GET consumed.
Fallback(r) ==
    /\ req[r].pc = "fallback"
    /\ OnlyReq(r, NotConsumed(r, tombs[req[r].env.challenge]))

VerifyProof(r) ==
    /\ req[r].pc = "proving"
    /\ \E v \in ProofVerdicts(req[r].rec, req[r].env) : OnlyReq(r, Answered(r, v))

-----------------------------------------------------------------------------
(* passkeys/assertion/options                                                *)

OnlyOpt(u, state) ==
    /\ opt' = [opt EXCEPT ![u] = state]
    /\ UNCHANGED <<clock, keys, conns, handed, crashes, req, granted>>

AnsweredOpt(u, answer) ==
    [opt[u] EXCEPT !.pc = "done", !.rec = None, !.origin = None, !.since = 0,
                   !.answer = answer]

\* The handler's own get(): GET active, GET consumed, the audience check.
BeginOptions(u, c, origin) ==
    /\ opt[u].pc = "idle"
    /\ OnlyOpt(u, [pc |-> IF active[c] = None THEN "get_consumed" ELSE "building",
                   challenge |-> c, origin |-> origin, rec |-> Val(active[c]),
                   since |-> 0, answer |-> None])

OptionsGetConsumed(u) ==
    /\ opt[u].pc = "get_consumed"
    /\ LET rec == Val(tombs[opt[u].challenge]) IN
       OnlyOpt(u, IF rec = None THEN AnsweredOpt(u, "not_found")
                  ELSE [opt[u] EXCEPT !.pc = "building", !.rec = rec])

\* Audience check and buildAuthenticationRequest, then setPasskeyAuthentication.
BuildOptions(u) ==
    /\ opt[u].pc = "building"
    /\ \/ /\ opt[u].rec.audience # opt[u].origin
          /\ OnlyOpt(u, AnsweredOpt(u, "audience_mismatch"))
       \/ /\ opt[u].rec.audience = opt[u].origin
          /\ OnlyOpt(u, AnsweredOpt(u, "not_registered"))
       \/ /\ opt[u].rec.audience = opt[u].origin
          /\ OnlyOpt(u, [opt[u] EXCEPT !.pc = "store_get", !.rec = None])

\* What updatePasskeyAuthentication does with the record get() found: one that
\* is missing or spent ends the update; the handler sends its options anyway.
Updating(u, rec) ==
    IF rec # None /\ rec.status = "issued"
    THEN [opt[u] EXCEPT !.pc = "set", !.rec = rec, !.since = clock]
    ELSE AnsweredOpt(u, "sent")

StoreGet(u) ==
    LET hit == Val(active[opt[u].challenge]) IN
    /\ opt[u].pc = "store_get"
    /\ OnlyOpt(u, IF hit = None THEN [opt[u] EXCEPT !.pc = "store_get_consumed"]
                  ELSE Updating(u, hit))

StoreGetConsumed(u) ==
    /\ opt[u].pc = "store_get_consumed"
    /\ OnlyOpt(u, Updating(u, Val(tombs[opt[u].challenge])))

\* SET active with the updated record, whatever became of the key meanwhile;
\* its TTL was computed once the GET was answered.
SetActive(u) ==
    \E sent \in opt[u].since..clock :
    LET c == opt[u].challenge
        ttl == TtlSecondsUntil(opt[u].rec.expiresAt, sent)
    IN
    /\ opt[u].pc = "set"
    /\ opt' = [opt EXCEPT ![u] = AnsweredOpt(u, "sent")]
    /\ \/ /\ ttl = None
          /\ UNCHANGED <<active, dirty>>
       \/ /\ ttl # None
          /\ active' = [active EXCEPT ![c] =
                           KeyFor([opt[u].rec EXCEPT !.auth = u], ttl)]
          /\ dirty' = Touch({c})
    /\ UNCHANGED <<clock, tombs, watched, handed, crashes, req, granted>>

-----------------------------------------------------------------------------
(* The whole                                                                 *)

\* The assertions a wallet can hold for c: those whose options it was sent.
Assertions(c) ==
    {None} \cup
    {u \in Updater : opt[u].challenge = c /\ opt[u].answer = "sent"}

Arrive(r) ==
    \E c \in Challenge, origin \in Audience,
       match \in {"same", "nonce", "request"} :
        /\ handed[c] # None
        /\ \E a \in Assertions(c) :
              GetActive(r, Present(c, handed[c], match, a), origin)

HandlerStep(r) ==
    \/ GetConsumed(r)
    \/ ValidateRecord(r)
    \/ Watch(r)
    \/ Mget(r)
    \/ Unwatch(r)
    \/ ExecAborted(r)
    \/ ExecConsume(r)
    \/ Fallback(r)
    \/ VerifyProof(r)

OptionsStep(u) ==
    \/ OptionsGetConsumed(u)
    \/ BuildOptions(u)
    \/ StoreGet(u)
    \/ StoreGetConsumed(u)
    \/ SetActive(u)

Step ==
    \/ Tick
    \/ \E k \in Opened : Reconnect(k)
    \/ \E k \in Opened : Crash(k)
    \/ \E c \in Challenge, a \in Audience, l \in Lifetimes,
          p \in PasskeyPolicies, delay \in 0..MaxDelay :
          /\ delay <= clock
          /\ IssueChallenge(c, [audience |-> a, expiresAt |-> clock - delay + l,
                                passkey |-> p, delay |-> delay])
    \/ \E r \in Request : Arrive(r)
    \/ \E r \in Request : HandlerStep(r)
    \/ \E u \in deployment.updaters, c \in Challenge, origin \in Audience :
          handed[c] # None /\ BeginOptions(u, c, origin)
    \/ \E u \in Updater : OptionsStep(u)

Next == Step /\ UNCHANGED deployment

Spec == Init /\ [][Next]_vars

\* Redis answers every command (or its connection is reopened and it is sent
\* again), and the event loop runs the handler on.
FairSpec ==
    Spec /\ \A r \in Request : WF_vars(HandlerStep(r) /\ UNCHANGED deployment)

-----------------------------------------------------------------------------
(* Correctness                                                               *)

\* Of what is left of a challenge, in the terms of ChallengeRegister.
PhaseOf(c) ==
    IF granted[c] # {} THEN "spent"
    ELSE IF active[c] # None THEN "open"
    ELSE IF handed[c] = None THEN "fresh"
    ELSE "lapsed"

\* No two requests share a connection, no connection drops and no record is
\* written back by assertion-options: where WATCH guards consume() alone.
Isolated ==
    /\ \A r, s \in Request : r # s => ConnOf(r) # ConnOf(s)
    /\ ~deployment.reconnects
    /\ deployment.updaters = {}

Register ==
    INSTANCE ChallengeRegister
        WITH phase <- [c \in Challenge |-> IF Isolated THEN PhaseOf(c) ELSE "fresh"],
             granted <- [c \in Challenge |-> IF Isolated THEN granted[c] ELSE {}]

(* Isolated Redis verifiers keep the promise of a challenge register; of any *)
(* other deployment the mapping says nothing.                                *)
ImplementsRegister == Register!Spec

(* At most one verify-presentation call, on whichever process, gets past     *)
(* consume() for a challenge (README.md, "single-use challenge consumption   *)
(* is replay-safe across replicas").                                         *)
SingleUse == \A c \in Challenge : \A r, s \in granted[c] : r = s

(* A presentation is told "already consumed" only if another one was let     *)
(* through, aborted transactions, retries and crashes included.              *)
ReplayHasWinner ==
    \A r \in Request :
        req[r].answer = "challenge_replay" =>
            granted[req[r].env.challenge] \ {r} # {}

(* "not issued by this verifier" is never said of a challenge that was       *)
(* issued and is still within its time, but by a consume() that gave up while*)
(* the record was there: its loop ends after WATCH_RETRY_LIMIT aborts, and   *)
(* then it looks at the tombstone alone.                                     *)
NoFalseUnknown ==
    [][\A r \in Request :
          /\ req[r].answer # "unknown_challenge"
          /\ req'[r].answer = "unknown_challenge"
          => LET c == req'[r].env.challenge IN
             \/ handed[c].expiresAt <= clock'
             \/ req[r].pc = "fallback" /\ active[c] # None]_vars

(* consume() does not look at the expiry again, so it may commit a request   *)
(* that validateForPresentation checked in time when the challenge has       *)
(* expired since, which README.md:382 ("the challenge is not expired") does  *)
(* not foresee.  Only the key bounds how late: isolated verifiers let nobody *)
(* in once its TTL is over, which ends less than a second, the rounding,     *)
(* after the expiry plus the time the SET of issue() took to reach Redis.    *)
GrantWithinTtl ==
    [][\A c \in Challenge :
          Isolated /\ granted'[c] # granted[c] =>
              clock < handed[c].expiresAt + Second + handed[c].delay]_vars

(* Every verify-presentation call that starts is answered: the WATCH loop    *)
(* gives up after WATCH_RETRY_LIMIT rounds.                                  *)
EventuallyAnswered ==
    \A r \in Request : req[r].pc # "idle" ~> req[r].pc = "done"
=============================================================================
