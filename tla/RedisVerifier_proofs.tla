------------------------ MODULE RedisVerifier_proofs ------------------------
(* Theorems about RedisVerifier, for any number of challenges, requests,     *)
(* assertion-options calls and connections, any deployments, crashes and     *)
(* reconnects.                                                               *)
EXTENDS RedisVerifier, TLAPS

(* The record a handout is stored as is one, issued and not yet updated.     *)
LEMMA StoredType ==
    ASSUME NEW handout \in Issued
    PROVE  /\ ToChallengeRecord(handout) \in ChallengeRecord
           /\ ToChallengeRecord(handout).status = "issued"
           /\ ToChallengeRecord(handout).expiresAt = handout.expiresAt
BY DEF ToChallengeRecord, ChallengeRecord, Issued

\* What issue() hands out, whatever its SET took.
LEMMA IssuedType ==
    ASSUME clock \in Nat, NEW a \in Audience, NEW l \in Lifetimes,
           NEW p \in PasskeyPolicies, NEW delay \in 0..MaxDelay, delay <= clock
    PROVE  LET h == [audience |-> a, expiresAt |-> clock - delay + l,
                     passkey |-> p, delay |-> delay]
           IN h \in Issued /\ clock - h.delay \in 0..clock
<1>1. l \in Nat /\ p \in BOOLEAN /\ MaxDelay \in Nat
  BY RedisBounds DEF RedisBounds
<1>2. delay \in Nat /\ clock - delay \in 0..clock /\ clock - delay + l \in Nat
  BY <1>1
<1> QED
  BY <1>1, <1>2 DEF Issued

(* The envelope a wallet can present is one.                                 *)
LEMMA PresentType ==
    ASSUME NEW c \in Challenge, NEW handout \in Issued,
           NEW match \in {"same", "nonce", "request"}, NEW a \in Updater \cup {None}
    PROVE  /\ Present(c, handout, match, a) \in Envelope
           /\ Present(c, handout, match, a).challenge = c
           /\ Present(c, handout, match, a).expiresAt = handout.expiresAt
BY DEF Present, Issued, Envelope

(* What the checks before consume() answer is "ok" or a refusal.             *)
LEMMA ValidateType ==
    ASSUME NEW rec, NEW env, NEW origin, NEW now
    PROVE  /\ Validate(rec, env, origin, now) \in Refusal \cup {"ok"}
           /\ InferMissing(env, now) \in Refusal
BY DEF Validate, InferMissing, Refusal

-----------------------------------------------------------------------------
(* TTLs and keys *)

\* Whole seconds, rounded up, reach the expiry and less than a second past it.
LEMMA CeilDivBounds ==
    ASSUME NEW a \in Nat, NEW b \in Nat \ {0}
    PROVE  /\ CeilDiv(a, b) \in Nat
           /\ a <= CeilDiv(a, b) * b
           /\ CeilDiv(a, b) * b < a + b
<1> DEFINE n == a + b - 1
           q == n \div b
<1>1. n \in Nat
  OBVIOUS
<1>2. q \in Nat
  BY <1>1
<1>3. n % b \in 0 .. b - 1
  BY <1>1
<1>4. n = b * q + (n % b)
  BY <1>1
<1>5. CeilDiv(a, b) = q
  BY DEF CeilDiv
<1>6. PICK m \in 0 .. b - 1 : n = b * q + m
  BY <1>3, <1>4
<1> HIDE DEF q
<1>7. q * b = b * q /\ q * b \in Nat
  BY <1>2
<1> QED
  BY <1>2, <1>5, <1>6, <1>7

\* ttlSecondsUntil and replayTtlSecondsUntil, from the instant they are computed:
\* both reach the expiry of the challenge, the first less than a second past it.
LEMMA TtlBounds ==
    ASSUME NEW expiresAt \in Nat, NEW now \in Nat
    PROVE  /\ expiresAt <= now => TtlSecondsUntil(expiresAt, now) = None
           /\ ~(expiresAt <= now) =>
                /\ TtlSecondsUntil(expiresAt, now) \in Nat
                /\ expiresAt <= now + TtlSecondsUntil(expiresAt, now) * Second
                /\ now < now + TtlSecondsUntil(expiresAt, now) * Second
                /\ now + TtlSecondsUntil(expiresAt, now) * Second
                     < expiresAt + Second
           /\ ReplayTtlSeconds(expiresAt, now) \in Nat
           /\ expiresAt <= now + ReplayTtlSeconds(expiresAt, now) * Second
<1>1. CASE expiresAt <= now
  <2>1. /\ TtlSecondsUntil(expiresAt, now) = None
        /\ ReplayTtlSeconds(expiresAt, now) = MinReplaySeconds
    BY <1>1 DEF TtlSecondsUntil, ReplayTtlSeconds
  <2>2. MinReplaySeconds * Second \in Nat /\ MinReplaySeconds \in Nat
    BY RedisBounds DEF RedisBounds
  <2> QED
    BY <1>1, <2>1, <2>2
<1>2. CASE ~(expiresAt <= now)
  <2> DEFINE q == CeilDiv(expiresAt - now, Second)
  <2>1. expiresAt - now \in Nat /\ Second \in Nat \ {0}
    BY <1>2, RedisBounds DEF RedisBounds
  <2>2. /\ q \in Nat
        /\ expiresAt - now <= q * Second
        /\ q * Second < (expiresAt - now) + Second
    BY <2>1, CeilDivBounds
  <2>3. TtlSecondsUntil(expiresAt, now) = q
    BY <1>2 DEF TtlSecondsUntil
  <2>4. ReplayTtlSeconds(expiresAt, now)
          = IF q < MinReplaySeconds THEN MinReplaySeconds ELSE q
    BY <1>2 DEF ReplayTtlSeconds
  <2> HIDE DEF q
  <2>5. MinReplaySeconds \in Nat
    BY RedisBounds DEF RedisBounds
  <2>6. q * Second \in Nat /\ MinReplaySeconds * Second \in Nat
    BY <2>1, <2>2, <2>5
  <2>7. q < MinReplaySeconds => q * Second <= MinReplaySeconds * Second
    <3>1. SUFFICES ASSUME q < MinReplaySeconds
                   PROVE  q * Second <= MinReplaySeconds * Second
      OBVIOUS
    <3>2. PICK d \in Nat : MinReplaySeconds = q + d
      <4>1. MinReplaySeconds - q \in Nat /\ MinReplaySeconds = q + (MinReplaySeconds - q)
        BY <2>2, <2>5, <3>1
      <4> QED
        BY <4>1
    <3>3. MinReplaySeconds * Second = q * Second + d * Second /\ d * Second \in Nat
      BY <2>1, <2>2, <3>2
    <3> QED
      BY <2>6, <3>3
  <2> QED
    BY <1>2, <2>1, <2>2, <2>3, <2>4, <2>5, <2>6, <2>7
<1> QED
  BY <1>1, <1>2

-----------------------------------------------------------------------------
(* Types *)

\* What a handler holds while it waits.
ReqHeld(st) ==
    /\ st.pc # "idle" => st.env \in Envelope
    /\ st.pc \in {"exec", "proving"} => st.rec \in ChallengeRecord

OptHeld(st) ==
    /\ st.pc \notin {"idle", "done"} => st.challenge \in Challenge
    /\ st.pc \in {"building", "set"} => st.rec \in ChallengeRecord

TypeInv ==
    /\ TypeOK
    /\ \A r \in Request : ReqHeld(req[r])
    /\ \A u \in Updater : OptHeld(opt[u])

\* What a key holds is a record, or there is no key.
LEMMA ValType ==
    ASSUME TypeOK, NEW c \in Challenge
    PROVE  /\ Val(active[c]) \in ChallengeRecord \cup {None}
           /\ Val(tombs[c]) \in ChallengeRecord \cup {None}
           /\ active[c] # None => active[c].rec \in ChallengeRecord
BY DEF Val, TypeOK, Entry

\* What a key is set to is an entry.
LEMMA KeyType ==
    ASSUME TypeOK, NEW rec \in ChallengeRecord, NEW seconds \in Nat
    PROVE  KeyFor(rec, seconds) \in Entry
<1>1. clock \in Nat /\ Second \in Nat /\ seconds * Second \in Nat
  BY RedisBounds DEF TypeOK, RedisBounds
<1>2. clock + seconds * Second \in Nat
  BY <1>1
<1> QED
  BY <1>2 DEF KeyFor, Entry

\* Who watches what is recorded per connection.
LEMMA ConnType ==
    ASSUME TypeOK, NEW touched, NEW k
    PROVE  /\ Touch(touched) \in [Conn -> BOOLEAN]
           /\ Unwatched(k) \in [Conn -> SUBSET Challenge]
           /\ [dirty EXCEPT ![k] = FALSE] \in [Conn -> BOOLEAN]
           /\ \A r \in Request : ConnOf(r) \in Conn
<1>1. Touch(touched) \in [Conn -> BOOLEAN]
  BY Zenon DEF Touch, TypeOK
<1>2. \A r \in Request : ConnOf(r) \in Conn
  BY RedisBounds DEF ConnOf, TypeOK, RedisBounds
<1> QED
  BY <1>1, <1>2 DEF Unwatched, TypeOK

\* Expiry only ever drops keys.
LEMMA UnexpiredType ==
    ASSUME NEW map \in [Challenge -> Entry \cup {None}], NEW t
    PROVE  /\ Unexpired(map, t) \in [Challenge -> Entry \cup {None}]
           /\ \A c \in Challenge :
                /\ Unexpired(map, t)[c] # None =>
                     Unexpired(map, t)[c] = map[c] /\ ~(map[c].until <= t)
                /\ map[c] # None /\ ~(map[c].until <= t) =>
                     Unexpired(map, t)[c] = map[c]
BY DEF Unexpired

\* An answered handler is done and keeps its envelope.
LEMMA AnsweredType ==
    ASSUME TypeInv, NEW r \in Request, req[r].pc # "idle",
           NEW a \in Refusal \cup {"verified", "proof_failed"}
    PROVE  /\ Answered(r, a) \in ReqState
           /\ ReqHeld(Answered(r, a))
           /\ Answered(r, a).pc = "done"
           /\ Answered(r, a).answer = a
           /\ Answered(r, a).env = req[r].env
<1>1. req[r] \in ReqState /\ req[r].env \in Envelope
  BY DEF TypeInv, TypeOK, ReqHeld
<1> DEFINE st == req[r]
<1>2. [st EXCEPT !.pc = "done", !.rec = None, !.now = 0, !.since = 0,
                 !.tries = 0, !.answer = a] \in ReqState
  BY <1>1 DEF ReqState
<1> QED
  BY <1>1, <1>2 DEF Answered, ReqHeld, ReqState

\* The same for assertion-options.
LEMMA AnsweredOptType ==
    ASSUME TypeInv, NEW u \in Updater,
           NEW a \in {"sent", "not_found", "not_registered", "audience_mismatch"}
    PROVE  /\ AnsweredOpt(u, a) \in OptState
           /\ OptHeld(AnsweredOpt(u, a))
           /\ AnsweredOpt(u, a).pc = "done"
           /\ AnsweredOpt(u, a).rec = None
BY DEF TypeInv, TypeOK, AnsweredOpt, OptState, OptHeld

\* What a request that moves is left in.
ReqMoves(r, state) ==
    /\ req' = [req EXCEPT ![r] = state]
    /\ state \in ReqState
    /\ ReqHeld(state)

OptMoves(u, state) ==
    /\ opt' = [opt EXCEPT ![u] = state]
    /\ state \in OptState
    /\ OptHeld(state)

\* A handler that moves keeps everybody's types.
LEMMA MovesType ==
    ASSUME TypeInv
    PROVE  /\ \A r \in Request : \A state :
                ReqMoves(r, state) =>
                  /\ req' \in [Request -> ReqState]
                  /\ \A s \in Request : ReqHeld(req'[s])
           /\ \A u \in Updater : \A state :
                OptMoves(u, state) =>
                  /\ opt' \in [Updater -> OptState]
                  /\ \A v \in Updater : OptHeld(opt'[v])
<1> USE DEF TypeInv, TypeOK
<1>1. ASSUME NEW r \in Request, NEW state, ReqMoves(r, state)
      PROVE  /\ req' \in [Request -> ReqState]
             /\ \A s \in Request : ReqHeld(req'[s])
  BY <1>1 DEF ReqMoves
<1>2. ASSUME NEW u \in Updater, NEW state, OptMoves(u, state)
      PROVE  /\ opt' \in [Updater -> OptState]
             /\ \A v \in Updater : OptHeld(opt'[v])
  BY <1>2 DEF OptMoves
<1> QED
  BY <1>1, <1>2

\* A presentation arrives with the envelope of a handout.
LEMMA ArriveMoves ==
    ASSUME TypeInv, NEW r \in Request, Arrive(r)
    PROVE  \E c \in Challenge, env \in Envelope, origin \in Audience :
             /\ req[r].pc = "idle"
             /\ handed[c] # None
             /\ env.challenge = c
             /\ env.expiresAt = handed[c].expiresAt
             /\ GetActive(r, env, origin)
             /\ ReqMoves(r, [pc |-> IF Val(active[c]) = None THEN "get_consumed"
                                    ELSE "validate",
                             env |-> env, origin |-> origin,
                             rec |-> Val(active[c]), now |-> 0, since |-> 0, tries |-> 0,
                             answer |-> None])
<1>1. PICK c \in Challenge, origin \in Audience,
           match \in {"same", "nonce", "request"}, a \in Updater \cup {None} :
         /\ handed[c] # None
         /\ GetActive(r, Present(c, handed[c], match, a), origin)
  BY DEF Arrive, Assertions
<1> DEFINE env == Present(c, handed[c], match, a)
<1>2. /\ env \in Envelope
      /\ env.challenge = c
      /\ env.expiresAt = handed[c].expiresAt
  BY <1>1, PresentType DEF TypeInv, TypeOK
<1> HIDE DEF env
<1> DEFINE state == [pc |-> IF Val(active[c]) = None THEN "get_consumed"
                            ELSE "validate",
                     env |-> env, origin |-> origin,
                     rec |-> Val(active[c]), now |-> 0, since |-> 0, tries |-> 0,
                     answer |-> None]
<1>3. state \in ReqState
  BY <1>2, ValType DEF ReqState, TypeInv
<1>4. ReqHeld(state)
  BY <1>2 DEF ReqHeld
<1>5. req[r].pc = "idle" /\ req' = [req EXCEPT ![r] = state]
  BY <1>1, <1>2 DEF GetActive, OnlyReq, env
<1>6. ReqMoves(r, state)
  BY <1>3, <1>4, <1>5 DEF ReqMoves
<1> QED
  BY <1>1, <1>2, <1>5, <1>6 DEF env

\* Each step of a handler that has started leaves it in a state of its type,
\* with the envelope it had.
LEMMA HandlerMoves ==
    ASSUME TypeInv, NEW r \in Request, HandlerStep(r)
    PROVE  /\ req[r].pc \notin {"idle", "done"}
           /\ \E state : /\ ReqMoves(r, state)
                         /\ state.env = req[r].env
                         /\ state.pc # "idle"
<1> DEFINE st == req[r]
           c == st.env.challenge
<1>1. st \in ReqState /\ ReqHeld(st)
  BY DEF TypeInv, TypeOK
<1>2. st.pc \notin {"idle", "done"}
  BY DEF HandlerStep, GetConsumed, ValidateRecord, Watch, Mget, Unwatch,
         ExecAborted, ExecConsume, Fallback, VerifyProof
<1>3. st.env \in Envelope /\ c \in Challenge
  BY <1>1, <1>2 DEF ReqHeld, Envelope
<1> SUFFICES \E state : /\ ReqMoves(r, state)
                        /\ state.env = st.env
                        /\ state.pc # "idle"
  BY <1>2
<1>4. ASSUME NEW a \in Refusal \cup {"verified", "proof_failed"},
             req' = [req EXCEPT ![r] = Answered(r, a)]
      PROVE  \E state : /\ ReqMoves(r, state)
                        /\ state.env = st.env
                        /\ state.pc # "idle"
  <2>1. ReqMoves(r, Answered(r, a))
    BY <1>2, <1>4, AnsweredType DEF ReqMoves
  <2> QED
    BY <1>2, <2>1, AnsweredType
<1>5. /\ Val(tombs[c]) \in ChallengeRecord \cup {None}
      /\ active[c] # None => active[c].rec \in ChallengeRecord
  BY <1>3, ValType DEF TypeInv
<1>6. CASE GetConsumed(r)
  <2> DEFINE state == [st EXCEPT !.pc = "validate", !.rec = Val(tombs[c])]
  <2>1. state \in ReqState /\ ReqHeld(state) /\ state.env = st.env /\ state.pc # "idle"
    BY <1>1, <1>3, <1>5 DEF ReqState, ReqHeld
  <2>2. req' = [req EXCEPT ![r] = state]
    BY <1>6 DEF GetConsumed, OnlyReq
  <2> QED
    BY <2>1, <2>2 DEF ReqMoves
<1>7. CASE ValidateRecord(r)
  <2> DEFINE verdict == Validate(st.rec, st.env, st.origin, clock)
             state == [st EXCEPT !.pc = "watch", !.now = clock, !.rec = None]
  <2>1. CASE verdict = "ok"
    <3>1. state \in ReqState /\ ReqHeld(state) /\ state.env = st.env /\ state.pc # "idle"
      BY <1>1, <1>3 DEF ReqState, ReqHeld, TypeInv, TypeOK
    <3>2. req' = [req EXCEPT ![r] = state]
      BY <1>7, <2>1 DEF ValidateRecord, OnlyReq
    <3> QED
      BY <3>1, <3>2 DEF ReqMoves
  <2>2. CASE verdict # "ok"
    <3>1. verdict \in Refusal /\ req' = [req EXCEPT ![r] = Answered(r, verdict)]
      BY <1>7, <2>2, ValidateType DEF ValidateRecord, OnlyReq
    <3> QED
      BY <1>4, <3>1
  <2> QED
    BY <2>1, <2>2
<1>8. CASE Watch(r)
  <2> DEFINE state == [st EXCEPT !.pc = "mget"]
  <2>1. state \in ReqState /\ ReqHeld(state) /\ state.env = st.env /\ state.pc # "idle"
    BY <1>1, <1>3 DEF ReqState, ReqHeld
  <2>2. req' = [req EXCEPT ![r] = state]
    BY <1>8 DEF Watch, TypeInv, TypeOK
  <2> QED
    BY <2>1, <2>2 DEF ReqMoves
<1>9. CASE Mget(r)
  <2>1. CASE active[c] # None
    <3> DEFINE state == [st EXCEPT !.pc = "exec", !.rec = active[c].rec,
                                 !.since = clock]
    <3>1. state \in ReqState /\ ReqHeld(state) /\ state.env = st.env /\ state.pc # "idle"
      BY <1>1, <1>3, <1>5, <2>1 DEF ReqState, ReqHeld, TypeInv, TypeOK
    <3>2. req' = [req EXCEPT ![r] = state]
      BY <1>9, <2>1 DEF Mget, OnlyReq
    <3> QED
      BY <3>1, <3>2 DEF ReqMoves
  <2>2. CASE active[c] = None
    <3> DEFINE state == [st EXCEPT !.pc = "unwatch", !.rec = Val(tombs[c])]
    <3>1. state \in ReqState /\ ReqHeld(state) /\ state.env = st.env /\ state.pc # "idle"
      BY <1>1, <1>3, <1>5 DEF ReqState, ReqHeld
    <3>2. req' = [req EXCEPT ![r] = state]
      BY <1>9, <2>2 DEF Mget, OnlyReq
    <3> QED
      BY <3>1, <3>2 DEF ReqMoves
  <2> QED
    BY <2>1, <2>2
<1>10. ASSUME NEW found, req' = [req EXCEPT ![r] = NotConsumed(r, found)]
       PROVE  \E state : /\ ReqMoves(r, state)
                         /\ state.env = st.env
                         /\ state.pc # "idle"
  <2> DEFINE a == IF found # None THEN "challenge_replay"
                  ELSE InferMissing(st.env, st.now)
  <2>1. a \in Refusal
    BY ValidateType DEF Refusal
  <2>2. req' = [req EXCEPT ![r] = Answered(r, a)]
    BY <1>10 DEF NotConsumed
  <2> QED
    BY <1>4, <2>1, <2>2
<1>11. CASE Unwatch(r)
  BY <1>10, <1>11 DEF Unwatch
<1>12. CASE ExecAborted(r)
  <2> DEFINE state == [st EXCEPT !.tries = @ + 1, !.rec = None, !.since = 0,
                                 !.pc = RetryAt(st.tries + 1)]
  <2>1. RetryAt(st.tries + 1) \in {"watch", "fallback"}
    BY DEF RetryAt
  <2>2. state \in ReqState /\ ReqHeld(state) /\ state.env = st.env /\ state.pc # "idle"
    <3> DEFINE next == RetryAt(st.tries + 1)
               more == st.tries + 1
    <3>1. next \in {"watch", "fallback"} /\ more \in Nat
      BY <1>1, <2>1 DEF ReqState
    <3>2. state = [st EXCEPT !.tries = more, !.rec = None, !.since = 0,
                      !.pc = next]
      OBVIOUS
    <3> HIDE DEF next, more, state
    <3> QED
      BY <1>1, <1>3, <3>1, <3>2 DEF ReqState, ReqHeld
  <2>3. req' = [req EXCEPT ![r] = state]
    BY <1>12 DEF ExecAborted, TypeInv, TypeOK
  <2> QED
    BY <2>2, <2>3 DEF ReqMoves
<1>13. CASE ExecConsume(r)
  <2> DEFINE spent == [st.rec EXCEPT !.status = "consumed"]
             state == [st EXCEPT !.pc = "proving", !.rec = spent, !.since = 0]
  <2>1. st.rec \in ChallengeRecord
    BY <1>1, <1>13 DEF ExecConsume, ReqHeld
  <2>2. spent \in ChallengeRecord
    BY <2>1 DEF ChallengeRecord
  <2>3. req' = [req EXCEPT ![r] = state]
    BY <1>13 DEF ExecConsume, TypeInv, TypeOK
  <2> HIDE DEF spent
  <2>4. state \in ReqState /\ ReqHeld(state) /\ state.env = st.env /\ state.pc # "idle"
    BY <1>1, <1>3, <2>2 DEF ReqState, ReqHeld
  <2> QED
    BY <2>3, <2>4 DEF ReqMoves
<1>14. CASE Fallback(r)
  BY <1>10, <1>14 DEF Fallback, OnlyReq
<1>15. CASE VerifyProof(r)
  <2>1. PICK v \in ProofVerdicts(st.rec, st.env) :
          req' = [req EXCEPT ![r] = Answered(r, v)]
    BY <1>15 DEF VerifyProof, OnlyReq
  <2>2. v \in {"verified", "proof_failed"}
    BY DEF ProofVerdicts
  <2> QED
    BY <1>4, <2>1, <2>2
<1> QED
  BY <1>6, <1>7, <1>8, <1>9, <1>11, <1>12, <1>13, <1>14, <1>15 DEF HandlerStep

\* The same for assertion-options; a record to be written back was issued.
LEMMA OptionsMoves ==
    ASSUME TypeInv, NEW u \in Updater,
           \/ OptionsStep(u)
           \/ \E c \in Challenge, origin \in Audience : BeginOptions(u, c, origin)
    PROVE  \E state : /\ OptMoves(u, state)
                      /\ state.pc # "idle"
                      /\ state.pc = "set" => state.rec.status = "issued"
<1> DEFINE st == opt[u]
           c == st.challenge
           Goal == \E state : /\ OptMoves(u, state)
                              /\ state.pc # "idle"
                              /\ state.pc = "set" => state.rec.status = "issued"
<1>1. st \in OptState /\ OptHeld(st)
  BY DEF TypeInv, TypeOK
<1>2. ASSUME NEW a \in {"sent", "not_found", "not_registered",
                        "audience_mismatch"},
             opt' = [opt EXCEPT ![u] = AnsweredOpt(u, a)]
      PROVE  Goal
  <2>1. OptMoves(u, AnsweredOpt(u, a)) /\ AnsweredOpt(u, a).pc = "done"
    BY <1>2, AnsweredOptType DEF OptMoves
  <2> QED
    BY <2>1
<1>3. ASSUME NEW d \in Challenge, NEW origin \in Audience,
             BeginOptions(u, d, origin)
      PROVE  Goal
  <2> DEFINE state == [pc |-> IF active[d] = None THEN "get_consumed" ELSE "building",
                       challenge |-> d, origin |-> origin, rec |-> Val(active[d]),
                       since |-> 0, answer |-> None]
  <2>1. Val(active[d]) \in ChallengeRecord \cup {None}
        /\ (active[d] # None => Val(active[d]) \in ChallengeRecord)
    BY ValType DEF TypeInv, Val
  <2>2. state \in OptState /\ OptHeld(state) /\ state.pc \notin {"idle", "set"}
    BY <2>1 DEF OptState, OptHeld
  <2>3. opt' = [opt EXCEPT ![u] = state]
    BY <1>3 DEF BeginOptions, OnlyOpt
  <2> QED
    BY <2>2, <2>3 DEF OptMoves
<1>4. ASSUME c \in Challenge
      PROVE  /\ Val(tombs[c]) \in ChallengeRecord \cup {None}
             /\ Val(active[c]) \in ChallengeRecord \cup {None}
  BY <1>4, ValType DEF TypeInv
<1>5. ASSUME NEW rec \in ChallengeRecord \cup {None}, c \in Challenge,
             opt' = [opt EXCEPT ![u] = Updating(u, rec)]
      PROVE  Goal
  <2> DEFINE state == [st EXCEPT !.pc = "set", !.rec = rec, !.since = clock]
  <2>1. CASE rec # None /\ rec.status = "issued"
    <3>1. state \in OptState /\ OptHeld(state) /\ state.pc = "set" /\ state.rec = rec
      BY <1>1, <1>5, <2>1 DEF OptState, OptHeld, TypeInv, TypeOK
    <3>2. opt' = [opt EXCEPT ![u] = state]
      BY <1>5, <2>1 DEF Updating
    <3> QED
      BY <2>1, <3>1, <3>2 DEF OptMoves
  <2>2. CASE ~(rec # None /\ rec.status = "issued")
    BY <1>2, <1>5, <2>2 DEF Updating
  <2> QED
    BY <2>1, <2>2
<1>6. CASE OptionsGetConsumed(u)
  <2> DEFINE rec == Val(tombs[c])
             state == [st EXCEPT !.pc = "building", !.rec = rec]
  <2>1. c \in Challenge /\ rec \in ChallengeRecord \cup {None}
    BY <1>1, <1>4, <1>6 DEF OptionsGetConsumed, OptHeld
  <2>2. CASE rec = None
    BY <1>2, <1>6, <2>2 DEF OptionsGetConsumed, OnlyOpt
  <2>3. CASE rec # None
    <3> HIDE DEF rec
    <3>1. state \in OptState /\ OptHeld(state) /\ state.pc \notin {"idle", "set"}
      BY <1>1, <2>1, <2>3 DEF OptState, OptHeld
    <3>2. opt' = [opt EXCEPT ![u] = state]
      BY <1>6, <2>3 DEF OptionsGetConsumed, OnlyOpt, rec
    <3> QED
      BY <3>1, <3>2 DEF OptMoves
  <2> QED
    BY <2>2, <2>3
<1>7. CASE BuildOptions(u)
  <2> DEFINE state == [st EXCEPT !.pc = "store_get", !.rec = None]
  <2>1. \/ opt' = [opt EXCEPT ![u] = AnsweredOpt(u, "audience_mismatch")]
        \/ opt' = [opt EXCEPT ![u] = AnsweredOpt(u, "not_registered")]
        \/ opt' = [opt EXCEPT ![u] = state]
    BY <1>7 DEF BuildOptions, OnlyOpt
  <2>2. state \in OptState /\ OptHeld(state) /\ state.pc \notin {"idle", "set"}
    BY <1>1, <1>7 DEF OptState, OptHeld, BuildOptions
  <2> QED
    BY <1>2, <2>1, <2>2 DEF OptMoves
<1>8. CASE StoreGet(u)
  <2>1. c \in Challenge
    BY <1>1, <1>8 DEF StoreGet, OptHeld
  <2>2. CASE Val(active[c]) = None
    <3> DEFINE state == [st EXCEPT !.pc = "store_get_consumed"]
    <3>1. state \in OptState /\ OptHeld(state) /\ state.pc \notin {"idle", "set"}
      BY <1>1, <2>1 DEF OptState, OptHeld
    <3>2. opt' = [opt EXCEPT ![u] = state]
      BY <1>8, <2>2 DEF StoreGet, OnlyOpt
    <3> QED
      BY <3>1, <3>2 DEF OptMoves
  <2>3. CASE Val(active[c]) # None
    BY <1>4, <1>5, <1>8, <2>1, <2>3 DEF StoreGet, OnlyOpt
  <2> QED
    BY <2>2, <2>3
<1>9. CASE StoreGetConsumed(u)
  <2>1. c \in Challenge
    BY <1>1, <1>9 DEF StoreGetConsumed, OptHeld
  <2> QED
    BY <1>4, <1>5, <1>9, <2>1 DEF StoreGetConsumed, OnlyOpt
<1>10. CASE SetActive(u)
  BY <1>2, <1>10 DEF SetActive
<1> QED
  BY <1>3, <1>6, <1>7, <1>8, <1>9, <1>10 DEF OptionsStep

\* What a handler's step leaves of the keys and the connections.
LEMMA HandlerKeepsStores ==
    ASSUME TypeInv, NEW r \in Request, HandlerStep(r)
    PROVE  /\ active' \in [Challenge -> Entry \cup {None}]
           /\ tombs' \in [Challenge -> Entry \cup {None}]
           /\ watched' \in [Conn -> SUBSET Challenge]
           /\ dirty' \in [Conn -> BOOLEAN]
           /\ granted' \in [Challenge -> SUBSET Request]
           /\ UNCHANGED <<clock, handed, crashes, opt>>
<1> USE DEF TypeInv
<1> DEFINE st == req[r]
           c == st.env.challenge
           k == ConnOf(r)
<1>1. req[r].pc # "idle" /\ c \in Challenge
  BY HandlerMoves DEF ReqHeld, Envelope
<1>2. CASE UNCHANGED <<clock, keys, conns, handed, crashes, opt, granted>>
  BY <1>2 DEF TypeOK, keys, conns
<1>3. CASE Watch(r)
  BY <1>1, <1>3 DEF Watch, keys, TypeOK
<1>4. CASE Unwatch(r) \/ ExecAborted(r)
  <2>1. /\ watched' = Unwatched(k)
        /\ dirty' = [dirty EXCEPT ![k] = FALSE]
        /\ UNCHANGED <<clock, keys, handed, crashes, opt, granted>>
    BY <1>4 DEF Unwatch, ExecAborted
  <2> QED
    BY <2>1, ConnType DEF TypeOK, keys
<1>5. CASE ExecConsume(r)
  <2> DEFINE spent == [st.rec EXCEPT !.status = "consumed"]
             touched == IF active[c] = None THEN {} ELSE {c}
  <2>1. st.rec \in ChallengeRecord
    BY <1>5 DEF ExecConsume, ReqHeld
  <2>2. spent \in ChallengeRecord /\ spent.expiresAt \in Nat
    BY <2>1 DEF ChallengeRecord
  <2>0. PICK sent \in st.since..clock :
           tombs' = [tombs EXCEPT ![c] =
                        KeyFor(spent, ReplayTtlSeconds(spent.expiresAt, sent))]
    BY <1>5 DEF ExecConsume
  <2>3. sent \in Nat
    BY <2>0 DEF TypeOK, ReqState
  <2>4. KeyFor(spent, ReplayTtlSeconds(spent.expiresAt, sent)) \in Entry
    BY <2>2, <2>3, TtlBounds, KeyType
  <2>5. /\ active' = [active EXCEPT ![c] = None]
        /\ tombs' = [tombs EXCEPT ![c] =
                        KeyFor(spent, ReplayTtlSeconds(spent.expiresAt, sent))]
        /\ watched' = Unwatched(k)
        /\ dirty' = [Touch(touched) EXCEPT ![k] = FALSE]
        /\ granted' = [granted EXCEPT ![c] = @ \cup {r}]
        /\ UNCHANGED <<clock, handed, crashes, opt>>
    BY <1>5, <2>0 DEF ExecConsume
  <2> HIDE DEF spent, touched
  <2>6. /\ active' \in [Challenge -> Entry \cup {None}]
        /\ tombs' \in [Challenge -> Entry \cup {None}]
    BY <2>4, <2>5 DEF TypeOK
  <2>7. watched' \in [Conn -> SUBSET Challenge] /\ dirty' \in [Conn -> BOOLEAN]
    <3>1. Touch(touched) \in [Conn -> BOOLEAN]
      BY ConnType
    <3> QED
      BY <2>5, <3>1, ConnType
  <2>8. granted' \in [Challenge -> SUBSET Request]
    BY <2>5 DEF TypeOK
  <2> QED
    BY <2>5, <2>6, <2>7, <2>8
<1> QED
  BY <1>2, <1>3, <1>4, <1>5
     DEF HandlerStep, GetConsumed, ValidateRecord, Mget, Fallback, VerifyProof,
         OnlyReq

\* What SetActive and IssueChallenge leave: nothing new, or a key that lives
\* until the expiry of its record and longer by less than a second and the time
\* its command was under way.
KeySet(c, rec, delay) ==
    \/ UNCHANGED <<active, dirty>> /\ rec.expiresAt <= clock
    \/ \E until \in Nat :
          /\ active' = [active EXCEPT ![c] = [rec |-> rec, until |-> until]]
          /\ dirty' = Touch({c})
          /\ clock < until
          /\ rec.expiresAt <= until
          /\ until < rec.expiresAt + Second + delay

(* A key that is set is there until its TTL is over, and not longer.         *)
LEMMA SettingKey ==
    ASSUME TypeInv, NEW c \in Challenge, NEW rec \in ChallengeRecord,
           NEW sent \in 0..clock, NEW ttl,
           ttl = TtlSecondsUntil(rec.expiresAt, sent),
           \/ ttl = None /\ UNCHANGED <<active, dirty>>
           \/ /\ ttl # None
              /\ active' = [active EXCEPT ![c] = KeyFor(rec, ttl)]
              /\ dirty' = Touch({c})
    PROVE  /\ KeySet(c, rec, clock - sent)
           /\ active' \in [Challenge -> Entry \cup {None}]
           /\ dirty' \in [Conn -> BOOLEAN]
<1> USE DEF TypeInv, TypeOK
<1>1. rec.expiresAt \in Nat /\ clock \in Nat /\ Second \in Nat /\ sent \in Nat
  BY RedisBounds DEF ChallengeRecord, RedisBounds
<1> DEFINE delay == clock - sent
<1>4. delay \in Nat /\ clock = sent + delay
  BY <1>1
<1> HIDE DEF delay
<1>2. CASE rec.expiresAt <= sent
  <2>1. rec.expiresAt <= clock
    BY <1>1, <1>2, <1>4
  <2>2. ttl = None
    BY <1>2 DEF TtlSecondsUntil
  <2>3. UNCHANGED <<active, dirty>>
    BY <2>2
  <2> QED
    BY <2>1, <2>3 DEF KeySet
<1>3. CASE ~(rec.expiresAt <= sent)
  <2>1. /\ ttl \in Nat
        /\ rec.expiresAt <= sent + ttl * Second
        /\ sent < sent + ttl * Second
        /\ sent + ttl * Second < rec.expiresAt + Second
    BY <1>1, <1>3, TtlBounds
  <2>2. ttl * Second \in Nat
    BY <1>1, <2>1
  <2> DEFINE length == ttl * Second
             until == clock + length
  <2>4. KeyFor(rec, ttl) = [rec |-> rec, until |-> until]
    BY DEF KeyFor
  <2> HIDE DEF length
  <2>3. until \in Nat
    BY <1>1, <2>2 DEF length
  <2>5. /\ clock < until
        /\ rec.expiresAt <= until
        /\ until < rec.expiresAt + Second + delay
    <3>1. /\ length \in Nat
          /\ rec.expiresAt <= sent + length
          /\ sent < sent + length
          /\ sent + length < rec.expiresAt + Second
      BY <2>1, <2>2 DEF length
    <3> QED
      BY <1>1, <1>4, <3>1
  <2> HIDE DEF until
  <2>6. [rec |-> rec, until |-> until] \in Entry
    BY <2>3 DEF Entry
  <2>7. CASE ttl = None /\ UNCHANGED <<active, dirty>>
    BY <2>1, <2>7, RedisBounds DEF RedisBounds
  <2>8. CASE /\ active' = [active EXCEPT ![c] = KeyFor(rec, ttl)]
             /\ dirty' = Touch({c})
    <3>1. KeySet(c, rec, delay)
      BY <2>3, <2>4, <2>5, <2>8 DEF KeySet
    <3>2. dirty' \in [Conn -> BOOLEAN]
      BY <2>8, ConnType
    <3> QED
      BY <2>4, <2>6, <2>8, <3>1, <3>2 DEF delay
  <2> QED
    BY <2>7, <2>8
<1> QED
  BY <1>2, <1>3

\* At the start every variable is in its type.
LEMMA TypeInit == Init => TypeInv
BY DEF Init, TypeInv, TypeOK, IdleReq, IdleOpt, ReqState, OptState, ReqHeld,
       OptHeld

\* Every step of every process keeps every variable in its type.
LEMMA TypeStep == TypeInv /\ [Next]_vars => TypeInv'
<1> SUFFICES ASSUME TypeInv, [Next]_vars PROVE TypeInv'
  OBVIOUS
<1>1. ASSUME UNCHANGED deployment,
             clock' \in Nat, crashes' \in Nat,
             active' \in [Challenge -> Entry \cup {None}],
             tombs' \in [Challenge -> Entry \cup {None}],
             watched' \in [Conn -> SUBSET Challenge],
             dirty' \in [Conn -> BOOLEAN],
             handed' \in [Challenge -> Issued \cup {None}],
             granted' \in [Challenge -> SUBSET Request],
             \/ UNCHANGED req
             \/ \E r \in Request : \E state : ReqMoves(r, state)
             \/ /\ req' \in [Request -> ReqState]
                /\ \A r \in Request : ReqHeld(req'[r]),
             UNCHANGED opt \/ \E u \in Updater : \E state : OptMoves(u, state)
      PROVE  TypeInv'
  <2>1. req' \in [Request -> ReqState] /\ \A r \in Request : ReqHeld(req'[r])
    <3>1. CASE UNCHANGED req
      BY <3>1 DEF TypeInv, TypeOK
    <3> QED
      BY <1>1, <3>1, MovesType
  <2>2. opt' \in [Updater -> OptState] /\ \A u \in Updater : OptHeld(opt'[u])
    <3>1. CASE UNCHANGED opt
      BY <3>1 DEF TypeInv, TypeOK
    <3> QED
      BY <1>1, <3>1, MovesType
  <2>3. deployment' \in Deployments
    BY <1>1 DEF TypeInv, TypeOK
  <2>4. /\ (\A r \in Request : ReqHeld(req[r]))' <=> \A r \in Request : ReqHeld(req'[r])
        /\ (\A u \in Updater : OptHeld(opt[u]))' <=> \A u \in Updater : OptHeld(opt'[u])
    BY DEF ReqHeld, OptHeld
  <2> QED
    BY <1>1, <2>1, <2>2, <2>3, <2>4 DEF TypeInv, TypeOK
<1>2. TypeOK
  BY DEF TypeInv
<1>3. ASSUME Tick, UNCHANGED deployment PROVE TypeInv'
  <2>1. /\ clock' \in Nat
        /\ active' \in [Challenge -> Entry \cup {None}]
        /\ tombs' \in [Challenge -> Entry \cup {None}]
        /\ dirty' \in [Conn -> BOOLEAN]
        /\ UNCHANGED <<watched, handed, crashes, req, opt, granted>>
    <3>1. /\ clock' = clock + 1
          /\ active' = Unexpired(active, clock')
          /\ tombs' = Unexpired(tombs, clock')
          /\ \E touched : dirty' = Touch(touched)
          /\ UNCHANGED <<watched, handed, crashes, req, opt, granted>>
      BY <1>3, Zenon DEF Tick
    <3>2. /\ active' \in [Challenge -> Entry \cup {None}]
          /\ tombs' \in [Challenge -> Entry \cup {None}]
      BY <1>2, <3>1, UnexpiredType DEF TypeOK
    <3>3. clock' \in Nat
      BY <1>2, <3>1 DEF TypeOK
    <3> QED
      BY <1>2, <3>1, <3>2, <3>3, ConnType
  <2> QED
    BY <1>1, <1>2, <1>3, <2>1 DEF TypeOK
<1>4. ASSUME NEW k \in Opened, Reconnect(k), UNCHANGED deployment PROVE TypeInv'
  <2>1. /\ watched' \in [Conn -> SUBSET Challenge]
        /\ dirty' \in [Conn -> BOOLEAN]
        /\ UNCHANGED <<clock, active, tombs, handed, crashes, req, opt, granted>>
    BY <1>2, <1>4, ConnType DEF Reconnect, keys
  <2> QED
    BY <1>1, <1>2, <1>4, <2>1 DEF TypeOK
<1>5. ASSUME NEW k \in Opened, Crash(k), UNCHANGED deployment PROVE TypeInv'
  <2>1. /\ watched' \in [Conn -> SUBSET Challenge]
        /\ dirty' \in [Conn -> BOOLEAN]
        /\ crashes' \in Nat
        /\ UNCHANGED <<clock, active, tombs, handed, opt, granted>>
    <3>1. /\ watched' = Unwatched(k)
          /\ dirty' = [dirty EXCEPT ![k] = FALSE]
          /\ crashes' = crashes + 1
          /\ UNCHANGED <<clock, active, tombs, handed, opt, granted>>
      BY <1>5, Zenon DEF Crash, keys
    <3>2. crashes' \in Nat
      BY <1>2, <3>1 DEF TypeOK
    <3> QED
      BY <1>2, <3>1, <3>2, ConnType
  <2>2. req' = [r \in Request |->
                 IF ConnOf(r) # k \/ req[r].pc \in {"idle", "done"} THEN req[r]
                 ELSE [req[r] EXCEPT !.pc = "done", !.rec = None,
                                     !.answer = "lost"]]
    BY <1>5, Zenon DEF Crash
  <2>3. \A r \in Request : req'[r] \in ReqState /\ ReqHeld(req'[r])
    <3>1. SUFFICES ASSUME NEW r \in Request
                   PROVE  req'[r] \in ReqState /\ ReqHeld(req'[r])
      OBVIOUS
    <3>2. req[r] \in ReqState /\ ReqHeld(req[r])
      BY DEF TypeInv, TypeOK
    <3>3. CASE ConnOf(r) # k \/ req[r].pc \in {"idle", "done"}
      BY <2>2, <3>2, <3>3
    <3>4. CASE ~(ConnOf(r) # k \/ req[r].pc \in {"idle", "done"})
      <4>1. req'[r] = [req[r] EXCEPT !.pc = "done", !.rec = None, !.answer = "lost"]
        BY <2>2, <3>4
      <4>2. [req[r] EXCEPT !.pc = "done", !.rec = None, !.answer = "lost"] \in ReqState
        BY <3>2 DEF ReqState
      <4>3. /\ req'[r].pc = "done"
            /\ req'[r].env = req[r].env
        BY <3>2, <4>1 DEF ReqState
      <4> QED
        BY <3>2, <3>4, <4>1, <4>2, <4>3 DEF ReqHeld
    <3> QED
      BY <3>3, <3>4
  <2>4. req' \in [Request -> ReqState]
    BY <2>2, <2>3
  <2> QED
    BY <1>1, <1>2, <1>5, <2>1, <2>3, <2>4 DEF TypeOK
<1>6. ASSUME NEW c \in Challenge, NEW a \in Audience, NEW l \in Lifetimes,
             NEW p \in PasskeyPolicies, NEW delay \in 0..MaxDelay,
             delay <= clock, UNCHANGED deployment,
             IssueChallenge(c, [audience |-> a, expiresAt |-> clock - delay + l,
                                passkey |-> p, delay |-> delay])
      PROVE  TypeInv'
  <2> DEFINE h == [audience |-> a, expiresAt |-> clock - delay + l,
                   passkey |-> p, delay |-> delay]
  <2>1. h \in Issued /\ clock - h.delay \in 0..clock
    BY <1>2, <1>6, IssuedType DEF TypeOK
  <2> HIDE DEF h
  <2>2. IssueChallenge(c, h)
    BY <1>6 DEF h
  <2>3. /\ active' \in [Challenge -> Entry \cup {None}]
        /\ dirty' \in [Conn -> BOOLEAN]
    <3> DEFINE rec == ToChallengeRecord(h)
               ttl == TtlSecondsUntil(h.expiresAt, clock - h.delay)
    <3>1. rec \in ChallengeRecord /\ rec.expiresAt = h.expiresAt
      BY <2>1, StoredType
    <3>2. \/ ttl = None /\ UNCHANGED <<active, dirty>>
          \/ /\ ttl # None
             /\ active' = [active EXCEPT ![c] = KeyFor(rec, ttl)]
             /\ dirty' = Touch({c})
      BY <2>2, Zenon DEF IssueChallenge
    <3>3. ttl = TtlSecondsUntil(rec.expiresAt, clock - h.delay)
      BY <3>1
    <3> HIDE DEF rec, ttl
    <3> QED
      BY <2>1, <3>1, <3>2, <3>3, SettingKey
  <2>4. /\ handed' = [handed EXCEPT ![c] = h]
        /\ UNCHANGED <<clock, tombs, watched, crashes, req, opt, granted>>
    BY <2>2, Zenon DEF IssueChallenge
  <2> QED
    BY <1>1, <1>2, <1>6, <2>1, <2>3, <2>4 DEF TypeOK
<1>7. ASSUME NEW r \in Request, Arrive(r), UNCHANGED deployment PROVE TypeInv'
  <2>1. /\ \E state : ReqMoves(r, state)
        /\ UNCHANGED <<clock, keys, conns, handed, crashes, opt, granted>>
    BY <1>7, ArriveMoves DEF GetActive, OnlyReq
  <2> QED
    BY <1>1, <1>2, <1>7, <2>1 DEF TypeOK, keys, conns
<1>8. ASSUME NEW r \in Request, HandlerStep(r), UNCHANGED deployment PROVE TypeInv'
  BY <1>1, <1>2, <1>8, HandlerMoves, HandlerKeepsStores DEF TypeOK
<1>9. ASSUME NEW u \in Updater, UNCHANGED deployment,
             \/ OptionsStep(u)
             \/ \E c \in Challenge, origin \in Audience : BeginOptions(u, c, origin)
      PROVE  TypeInv'
  <2>1. \E state : OptMoves(u, state)
    BY <1>9, OptionsMoves
  <2>2. CASE SetActive(u)
    <3>0. PICK sent \in opt[u].since..clock :
             LET c == opt[u].challenge
                 rec == [opt[u].rec EXCEPT !.auth = u]
                 ttl == TtlSecondsUntil(opt[u].rec.expiresAt, sent)
             IN
             /\ \/ ttl = None /\ UNCHANGED <<active, dirty>>
                \/ /\ ttl # None
                   /\ active' = [active EXCEPT ![c] = KeyFor(rec, ttl)]
                   /\ dirty' = Touch({c})
             /\ UNCHANGED <<clock, tombs, watched, handed, crashes, req, granted>>
      BY <2>2 DEF SetActive
    <3>6. sent \in 0..clock
      BY <3>0 DEF TypeInv, TypeOK, OptState
    <3> DEFINE c == opt[u].challenge
               rec == [opt[u].rec EXCEPT !.auth = u]
               ttl == TtlSecondsUntil(opt[u].rec.expiresAt, sent)
    <3>1. c \in Challenge /\ opt[u].rec \in ChallengeRecord
      BY <2>2 DEF SetActive, TypeInv, OptHeld
    <3>2. rec \in ChallengeRecord /\ rec.expiresAt = opt[u].rec.expiresAt
      BY <3>1 DEF ChallengeRecord
    <3>3. /\ \/ ttl = None /\ UNCHANGED <<active, dirty>>
             \/ /\ ttl # None
                /\ active' = [active EXCEPT ![c] = KeyFor(rec, ttl)]
                /\ dirty' = Touch({c})
          /\ UNCHANGED <<clock, tombs, watched, handed, crashes, req, granted>>
      BY <3>0
    <3>4. ttl = TtlSecondsUntil(rec.expiresAt, sent)
      BY <3>2
    <3> HIDE DEF c, rec, ttl
    <3>5. /\ active' \in [Challenge -> Entry \cup {None}]
          /\ dirty' \in [Conn -> BOOLEAN]
      BY <3>1, <3>2, <3>3, <3>4, <3>6, SettingKey
    <3> QED
      BY <1>1, <1>2, <1>9, <2>1, <3>3, <3>5 DEF TypeOK
  <2>3. CASE UNCHANGED <<clock, keys, conns, handed, crashes, req, granted>>
    BY <1>1, <1>2, <1>9, <2>1, <2>3 DEF TypeOK, keys, conns
  <2> QED
    BY <1>9, <2>2, <2>3
       DEF OptionsStep, OptionsGetConsumed, BuildOptions, StoreGet,
           StoreGetConsumed, BeginOptions, OnlyOpt
<1>10. CASE UNCHANGED vars
  BY <1>1, <1>2, <1>10 DEF vars, keys, TypeOK
<1>11. deployment.updaters \subseteq Updater
  BY <1>2, RedisBounds DEF TypeOK, RedisBounds
<1> QED
  BY <1>3, <1>4, <1>5, <1>6, <1>7, <1>8, <1>9, <1>10, <1>11 DEF Next, Step

\* Whatever crashes, reconnects and expiries come between, keys, connections
\* and handlers keep their shapes.
THEOREM TypeHolds == Spec => []TypeInv
<1> QED
  BY TypeInit, TypeStep, PTL DEF Spec

\* So every variable keeps its type.
THEOREM TypeCorrect == Spec => []TypeOK
<1>1. TypeInv => TypeOK
  BY DEF TypeInv
<1> QED
  BY <1>1, TypeHolds, PTL

-----------------------------------------------------------------------------
(* What the keys say of the history *)

\* An active key holds a record as it was issued, until its expiry and not
\* beyond the present; a tombstone stands for a grant; and a challenge that has
\* neither is past its expiry.
ActiveHolds(c) ==
    active[c] # None =>
        /\ handed[c] # None
        /\ active[c].rec.status = "issued"
        /\ active[c].rec.expiresAt = handed[c].expiresAt
        /\ handed[c].expiresAt <= active[c].until
        /\ clock < active[c].until

TombHolds(c) ==
    tombs[c] # None =>
        /\ handed[c] # None
        /\ granted[c] # {}
        /\ tombs[c].rec.expiresAt = handed[c].expiresAt
        /\ handed[c].expiresAt <= tombs[c].until

LateWithoutKeys(c) ==
    (handed[c] # None /\ active[c] = None /\ tombs[c] = None) =>
        handed[c].expiresAt <= clock

KeyInv ==
    \A c \in Challenge :
        ActiveHolds(c) /\ TombHolds(c) /\ LateWithoutKeys(c)

\* What assertion-options is about to write back is an issued record.
OptHolds(u) ==
    LET c == opt[u].challenge IN
    /\ opt[u].pc \in {"building", "set"} => opt[u].rec.expiresAt = handed[c].expiresAt
    /\ opt[u].pc \notin {"idle", "done"} => handed[c] # None
    /\ opt[u].pc = "set" => opt[u].rec.status = "issued"

\* What a handler has read of its challenge: a consumed record or a tombstone
\* stands for a grant, no record for a challenge that is past its expiry.
ReadHolds(st) ==
    LET c == st.env.challenge IN
    st.pc # "idle" =>
        /\ handed[c] # None
        /\ st.env.expiresAt = handed[c].expiresAt
        /\ st.pc = "get_consumed" =>
             tombs[c] # None \/ handed[c].expiresAt <= clock
        /\ st.pc \in {"validate", "unwatch"} =>
             (st.rec = None => handed[c].expiresAt <= clock)
        /\ (st.pc = "validate" /\ st.rec # None) =>
             (st.rec.status = "consumed" => granted[c] # {})
        /\ (st.pc = "unwatch" /\ st.rec # None) => granted[c] # {}
        /\ st.pc = "exec" => st.rec.expiresAt = handed[c].expiresAt

\* A request is granted the challenge of its envelope, once it has consumed
\* it and before it is told anything else.
GrantHolds(r) ==
    \A c \in Challenge :
        r \in granted[c] =>
            /\ req[r].pc \in {"proving", "done"}
            /\ req[r].env.challenge = c
            /\ req[r].answer # "challenge_replay"

ReplyHolds(r) ==
    /\ ReadHolds(req[r])
    /\ GrantHolds(r)
    /\ req[r].pc # "done" => req[r].answer = None
    /\ req[r].answer = "challenge_replay" =>
         granted[req[r].env.challenge] \ {r} # {}

Inv ==
    /\ TypeInv
    /\ KeyInv
    /\ \A u \in Updater : OptHolds(u)
    /\ \A r \in Request : ReplyHolds(r)

\* What no step undoes: a handout, the time, a grant; and a tombstone only
\* goes when its challenge is past its expiry.
Grows ==
    /\ clock <= clock' /\ clock' \in Nat
    /\ \A c \in Challenge :
         /\ handed[c] # None => handed'[c] = handed[c]
         /\ granted[c] \subseteq granted'[c]
         /\ (tombs[c] # None /\ tombs'[c] = None) => handed[c].expiresAt <= clock'

\* A handler that does not move keeps what it knows.
LEMMA ReadKeeps ==
    ASSUME TypeInv, Grows, NEW st \in ReqState, ReqHeld(st), ReadHolds(st)
    PROVE  ReadHolds(st)'
<1> DEFINE c == st.env.challenge
<1>1. CASE st.pc = "idle"
  BY <1>1 DEF ReadHolds
<1>2. CASE st.pc # "idle"
  <2>1. c \in Challenge
    BY <1>2 DEF ReqHeld, Envelope
  <2>2. handed[c] # None /\ handed[c].expiresAt \in Nat /\ clock \in Nat
    BY <1>2, <2>1 DEF ReadHolds, TypeInv, TypeOK, Issued
  <2>3. /\ handed'[c] = handed[c]
        /\ granted[c] # {} => granted'[c] # {}
        /\ handed[c].expiresAt <= clock => handed[c].expiresAt <= clock'
        /\ tombs[c] # None => tombs'[c] # None \/ handed[c].expiresAt <= clock'
    BY <2>1, <2>2 DEF Grows
  <2> QED
    BY <1>2, <2>2, <2>3 DEF ReadHolds
<1> QED
  BY <1>1, <1>2

\* So do its grants and its answer.
LEMMA ReplyKeeps ==
    ASSUME Inv, Grows, NEW r \in Request, req'[r] = req[r],
           \A c \in Challenge : r \in granted'[c] => r \in granted[c]
    PROVE  ReplyHolds(r)'
<1> USE DEF Inv
<1>1. ReadHolds(req[r])'
  BY ReadKeeps DEF TypeInv, TypeOK, ReplyHolds
<1>2. GrantHolds(r)'
  BY DEF GrantHolds, ReplyHolds
<1>3. req[r].answer = "challenge_replay" =>
         granted'[req[r].env.challenge] \ {r} # {}
  <2>1. SUFFICES ASSUME req[r].answer = "challenge_replay"
                 PROVE  granted'[req[r].env.challenge] \ {r} # {}
    OBVIOUS
  <2>2. req[r].pc = "done" /\ req[r].env.challenge \in Challenge
    BY <2>1, NoneIsOutside
       DEF ReplyHolds, TypeInv, ReqHeld, Envelope, Refusal
  <2> QED
    BY <2>1, <2>2 DEF ReplyHolds, Grows
<1> QED
  BY <1>1, <1>2, <1>3 DEF ReplyHolds

\* And so does assertion-options.
LEMMA OptKeeps ==
    ASSUME Inv, Grows, NEW u \in Updater, opt'[u] = opt[u]
    PROVE  OptHolds(u)'
BY DEF Inv, TypeInv, OptHeld, OptHolds, Grows

-----------------------------------------------------------------------------
(* The steps of a presentation *)

\* A step that leaves keys, handouts, grants and the clock alone undoes
\* nothing.
LEMMA QuietStep ==
    ASSUME Inv, UNCHANGED <<clock, keys, handed, granted>>
    PROVE  KeyInv' /\ Grows
<1>1. UNCHANGED <<clock, active, tombs, handed, granted>>
  BY DEF keys
<1>2. KeyInv'
  BY <1>1 DEF Inv, KeyInv, ActiveHolds, TombHolds, LateWithoutKeys
<1>3. clock \in Nat
  BY DEF Inv, TypeInv, TypeOK
<1>4. \A c \in Challenge : ~(tombs[c] # None /\ tombs'[c] = None)
  BY <1>1
<1> QED
  BY <1>1, <1>2, <1>3, <1>4 DEF Grows

\* EXEC turns the active key into a tombstone that outlives the challenge.
LEMMA ExecKeeps ==
    ASSUME Inv, NEW r \in Request, ExecConsume(r)
    PROVE  KeyInv' /\ Grows
<1>0. PICK sent \in req[r].since..clock :
         LET c == req[r].env.challenge
             spent == [req[r].rec EXCEPT !.status = "consumed"]
         IN tombs' = [tombs EXCEPT ![c] =
                         KeyFor(spent, ReplayTtlSeconds(spent.expiresAt, sent))]
  BY DEF ExecConsume
<1>11. sent \in Nat /\ sent <= clock /\ Second \in Nat
  BY <1>0, RedisBounds DEF Inv, TypeInv, TypeOK, ReqState, RedisBounds
<1> DEFINE c == req[r].env.challenge
           spent == [req[r].rec EXCEPT !.status = "consumed"]
           seconds == ReplayTtlSeconds(spent.expiresAt, sent)
           until == clock + seconds * Second
<1>1. /\ req[r].pc = "exec"
      /\ active' = [active EXCEPT ![c] = None]
      /\ tombs' = [tombs EXCEPT ![c] = KeyFor(spent, seconds)]
      /\ granted' = [granted EXCEPT ![c] = @ \cup {r}]
      /\ UNCHANGED <<clock, handed>>
  BY <1>0 DEF ExecConsume
<1>2. /\ c \in Challenge
      /\ req[r].rec \in ChallengeRecord
      /\ handed[c] # None
      /\ req[r].rec.expiresAt = handed[c].expiresAt
      /\ clock \in Nat
  BY <1>1 DEF Inv, TypeInv, TypeOK, ReqHeld, ReplyHolds, ReadHolds, Envelope
<1>3. spent.expiresAt = handed[c].expiresAt /\ handed[c].expiresAt \in Nat
  BY <1>2 DEF ChallengeRecord
<1>4. seconds \in Nat /\ handed[c].expiresAt <= until
  <2>1. seconds \in Nat /\ handed[c].expiresAt <= sent + seconds * Second
    BY <1>3, <1>11, TtlBounds
  <2> HIDE DEF seconds
  <2>2. seconds * Second \in Nat
    BY <1>11, <2>1
  <2> QED
    BY <1>2, <1>3, <1>11, <2>1, <2>2
<1>5. KeyFor(spent, seconds).rec.expiresAt = handed[c].expiresAt
      /\ KeyFor(spent, seconds).until = until
  BY <1>3 DEF KeyFor
<1> HIDE DEF spent, seconds, until
<1>6. KeyFor(spent, seconds) # None
  <2>1. KeyFor(spent, seconds) \in Entry
    <3>1. spent \in ChallengeRecord
      BY <1>2 DEF spent, ChallengeRecord
    <3> QED
      BY <1>4, <3>1, KeyType DEF Inv, TypeInv
  <2> QED
    BY <2>1, RedisBounds DEF RedisBounds
<1>7. ASSUME NEW d \in Challenge
      PROVE  ActiveHolds(d)' /\ TombHolds(d)' /\ LateWithoutKeys(d)'
  <2>0. ActiveHolds(d) /\ TombHolds(d) /\ LateWithoutKeys(d)
    BY DEF Inv, KeyInv
  <2>1. CASE d = c
    <3>1. active'[d] = None /\ tombs'[d] = KeyFor(spent, seconds)
          /\ granted'[d] # {} /\ handed'[d] = handed[c]
      BY <1>1, <2>1 DEF Inv, TypeInv, TypeOK
    <3> QED
      BY <1>2, <1>4, <1>5, <1>6, <2>1, <3>1
         DEF ActiveHolds, TombHolds, LateWithoutKeys
  <2>2. CASE d # c
    <3>1. active'[d] = active[d] /\ tombs'[d] = tombs[d]
          /\ granted'[d] = granted[d] /\ handed'[d] = handed[d]
      BY <1>1, <2>2 DEF Inv, TypeInv, TypeOK
    <3> QED
      BY <1>1, <2>0, <3>1 DEF ActiveHolds, TombHolds, LateWithoutKeys
  <2> QED
    BY <2>1, <2>2
<1>8. \A d \in Challenge : granted[d] \subseteq granted'[d]
  BY <1>1 DEF Inv, TypeInv, TypeOK
<1>9. \A d \in Challenge : tombs[d] # None => tombs'[d] # None
  BY <1>1, <1>6 DEF Inv, TypeInv, TypeOK
<1> QED
  BY <1>1, <1>2, <1>7, <1>8, <1>9 DEF KeyInv, Grows

\* A presentation that has arrived and is not yet answered has been granted
\* nothing before its EXEC; so an answer of its own says what it has read.
LEMMA AnsweringKeeps ==
    ASSUME Inv, NEW r \in Request, req[r].pc \notin {"idle", "done"},
           UNCHANGED <<clock, keys, handed, granted>>,
           NEW a \in Refusal \cup {"verified", "proof_failed"},
           req' = [req EXCEPT ![r] = Answered(r, a)],
           a = "challenge_replay" =>
             /\ req[r].pc # "proving"
             /\ granted[req[r].env.challenge] # {}
    PROVE  ReplyHolds(r)'
<1> DEFINE c == req[r].env.challenge
<1>1. /\ req'[r].pc = "done"
      /\ req'[r].env = req[r].env
      /\ req'[r].answer = a
      /\ req[r].env \in Envelope
      /\ c \in Challenge
  <2>1. req'[r] = Answered(r, a)
    BY DEF Inv, TypeInv, TypeOK
  <2> QED
    BY <2>1, AnsweredType DEF Inv, TypeInv, ReqHeld, Envelope
<1>2. ReplyHolds(r)
  BY DEF Inv
<1>3. ReadHolds(req[r])'
  BY <1>1, <1>2 DEF ReplyHolds, ReadHolds
<1>4. ASSUME NEW d \in Challenge, r \in granted'[d]
      PROVE  c = d /\ a # "challenge_replay"
  <2>1. r \in granted[d] /\ c = d /\ req[r].pc = "proving"
    BY <1>2, <1>4 DEF ReplyHolds, GrantHolds
  <2> QED
    BY <2>1
<1>5. GrantHolds(r)'
  BY <1>1, <1>4 DEF GrantHolds
<1>6. a = "challenge_replay" => granted'[c] \ {r} # {}
  BY <1>1, <1>4
<1> QED
  BY <1>1, <1>3, <1>5, <1>6 DEF ReplyHolds

\* A handler that moves on to read or write knows what it has read.
LEMMA ReadingKeeps ==
    ASSUME Inv, NEW r \in Request,
           req[r].pc \notin {"idle", "proving", "done"},
           req'[r].pc \notin {"idle", "proving", "done"},
           req'[r].env = req[r].env, req'[r].answer = req[r].answer,
           UNCHANGED <<handed, granted>>,
           ReadHolds(req[r])'
    PROVE  ReplyHolds(r)'
<1>1. ReplyHolds(r)
  BY DEF Inv
<1>2. \A c \in Challenge : r \notin granted'[c]
  BY <1>1 DEF ReplyHolds, GrantHolds
<1>3. req'[r].answer = None /\ None # "challenge_replay"
  BY <1>1, NoneIsOutside DEF ReplyHolds, Refusal
<1> QED
  BY <1>2, <1>3 DEF ReplyHolds, GrantHolds

\* Each step of a handler leaves it with what it may say.
LEMMA HandlerReplies ==
    ASSUME Inv, NEW r \in Request, HandlerStep(r)
    PROVE  ReplyHolds(r)'
<1> DEFINE st == req[r]
           c == st.env.challenge
<1>1. /\ st \in ReqState /\ ReqHeld(st)
      /\ st.pc \notin {"idle", "done"}
      /\ st.env \in Envelope /\ c \in Challenge
      /\ ReplyHolds(r) /\ ReadHolds(st)
  BY HandlerMoves DEF Inv, TypeInv, TypeOK, ReqHeld, Envelope, ReplyHolds
<1>2. /\ handed[c] # None /\ handed[c].expiresAt \in Nat
      /\ st.env.expiresAt = handed[c].expiresAt
      /\ clock \in Nat
  BY <1>1 DEF ReadHolds, Inv, TypeInv, TypeOK, Issued
<1>3. ActiveHolds(c) /\ TombHolds(c) /\ LateWithoutKeys(c)
  BY <1>1 DEF Inv, KeyInv
<1>4. /\ active[c] # None => active[c].rec \in ChallengeRecord
      /\ Val(tombs[c]) = None => tombs[c] = None
      /\ Val(tombs[c]) # None => tombs[c] # None
  BY <1>1, NoneIsOutside DEF Inv, TypeInv, TypeOK, Entry, Val
<1>5. CASE GetConsumed(r)
  <2> DEFINE state == [st EXCEPT !.pc = "validate", !.rec = Val(tombs[c])]
  <2>1. /\ req' = [req EXCEPT ![r] = state]
        /\ UNCHANGED <<clock, keys, handed, granted>>
        /\ st.pc = "get_consumed"
    BY <1>5 DEF GetConsumed, OnlyReq
  <2>2. /\ state.pc = "validate" /\ state.env = st.env
        /\ state.answer = st.answer /\ state.rec = Val(tombs[c])
    BY <1>1 DEF ReqState
  <2>0. req'[r] = state
    BY <2>1 DEF Inv, TypeInv, TypeOK
  <2> HIDE DEF state
  <2>3. ReadHolds(req[r])'
    BY <2>0, <1>1, <1>2, <1>3, <1>4, <2>1, <2>2 DEF ReadHolds, TombHolds
  <2> QED
    BY <1>1, <2>0, <2>1, <2>2, <2>3, ReadingKeeps
<1>6. CASE ValidateRecord(r)
  <2> DEFINE verdict == Validate(st.rec, st.env, st.origin, clock)
             state == [st EXCEPT !.pc = "watch", !.now = clock, !.rec = None]
  <2>1. UNCHANGED <<clock, keys, handed, granted>> /\ st.pc = "validate"
    BY <1>6 DEF ValidateRecord, OnlyReq
  <2>2. CASE verdict = "ok"
    <3>1. req' = [req EXCEPT ![r] = state]
      BY <1>6, <2>2 DEF ValidateRecord, OnlyReq
    <3>2. state.pc = "watch" /\ state.env = st.env /\ state.answer = st.answer
      BY <1>1 DEF ReqState
    <3>0. req'[r] = state
      BY <3>1 DEF Inv, TypeInv, TypeOK
    <3> HIDE DEF state
    <3>3. ReadHolds(req[r])'
      BY <3>0, <1>2, <2>1, <3>2 DEF ReadHolds
    <3> QED
      BY <1>1, <3>0, <2>1, <3>1, <3>2, <3>3, ReadingKeeps
  <2>3. CASE verdict # "ok"
    <3>1. verdict \in Refusal /\ req' = [req EXCEPT ![r] = Answered(r, verdict)]
      BY <1>6, <2>3, ValidateType DEF ValidateRecord, OnlyReq
    <3>2. verdict = "challenge_replay" => st.rec # None /\ st.rec.status = "consumed"
      BY DEF Validate, InferMissing
    <3>3. verdict = "challenge_replay" => granted[c] # {}
      BY <1>1, <2>1, <3>2 DEF ReadHolds
    <3> HIDE DEF verdict
    <3> QED
      BY <1>1, <2>1, <3>1, <3>3, AnsweringKeeps
  <2> QED
    BY <2>2, <2>3
<1>7. CASE Watch(r)
  <2> DEFINE state == [st EXCEPT !.pc = "mget"]
  <2>1. /\ req' = [req EXCEPT ![r] = state]
        /\ UNCHANGED <<clock, keys, handed, granted>>
        /\ st.pc = "watch"
    BY <1>7 DEF Watch, Inv, TypeInv, TypeOK
  <2>2. state.pc = "mget" /\ state.env = st.env /\ state.answer = st.answer
    BY <1>1 DEF ReqState
  <2>0. req'[r] = state
    BY <2>1 DEF Inv, TypeInv, TypeOK
  <2> HIDE DEF state
  <2>3. ReadHolds(req[r])'
    BY <2>0, <1>2, <2>1, <2>2 DEF ReadHolds
  <2> QED
    BY <1>1, <2>0, <2>1, <2>2, <2>3, ReadingKeeps
<1>8. CASE Mget(r)
  <2>1. UNCHANGED <<clock, keys, handed, granted>> /\ st.pc = "mget"
    BY <1>8 DEF Mget, OnlyReq
  <2>2. CASE active[c] # None
    <3> DEFINE state == [st EXCEPT !.pc = "exec", !.rec = active[c].rec,
                                 !.since = clock]
    <3>1. req' = [req EXCEPT ![r] = state]
      BY <1>8, <2>2 DEF Mget, OnlyReq
    <3>2. /\ state.pc = "exec" /\ state.env = st.env
          /\ state.answer = st.answer /\ state.rec = active[c].rec
      BY <1>1 DEF ReqState
    <3>0. req'[r] = state
      BY <3>1 DEF Inv, TypeInv, TypeOK
    <3> HIDE DEF state
    <3>3. ReadHolds(req[r])'
      BY <3>0, <1>2, <1>3, <2>1, <2>2, <3>2 DEF ReadHolds, ActiveHolds
    <3> QED
      BY <1>1, <3>0, <2>1, <3>1, <3>2, <3>3, ReadingKeeps
  <2>3. CASE active[c] = None
    <3> DEFINE state == [st EXCEPT !.pc = "unwatch", !.rec = Val(tombs[c])]
    <3>1. req' = [req EXCEPT ![r] = state]
      BY <1>8, <2>3 DEF Mget, OnlyReq
    <3>2. /\ state.pc = "unwatch" /\ state.env = st.env
          /\ state.answer = st.answer /\ state.rec = Val(tombs[c])
      BY <1>1 DEF ReqState
    <3>0. req'[r] = state
      BY <3>1 DEF Inv, TypeInv, TypeOK
    <3> HIDE DEF state
    <3>3. ReadHolds(req[r])'
      BY <3>0, <1>2, <1>3, <1>4, <2>1, <2>3, <3>2
         DEF ReadHolds, TombHolds, LateWithoutKeys
    <3> QED
      BY <1>1, <3>0, <2>1, <3>1, <3>2, <3>3, ReadingKeeps
  <2> QED
    BY <2>2, <2>3
<1>9. ASSUME NEW found, req' = [req EXCEPT ![r] = NotConsumed(r, found)],
             UNCHANGED <<clock, keys, handed, granted>>,
             st.pc # "proving",
             found # None => granted[c] # {}
      PROVE  ReplyHolds(r)'
  <2> DEFINE a == IF found # None THEN "challenge_replay"
                  ELSE InferMissing(st.env, st.now)
  <2>1. a \in Refusal /\ (a = "challenge_replay" => found # None)
    BY ValidateType DEF Refusal, InferMissing
  <2>2. req' = [req EXCEPT ![r] = Answered(r, a)]
    BY <1>9 DEF NotConsumed
  <2> HIDE DEF a
  <2> QED
    BY <1>1, <1>9, <2>1, <2>2, AnsweringKeeps
<1>10. CASE Unwatch(r)
  <2>1. /\ req' = [req EXCEPT ![r] = NotConsumed(r, st.rec)]
        /\ UNCHANGED <<clock, keys, handed, granted>>
        /\ st.pc = "unwatch"
    BY <1>10 DEF Unwatch
  <2>2. st.rec # None => granted[c] # {}
    BY <1>1, <2>1 DEF ReadHolds
  <2> QED
    BY <1>9, <2>1, <2>2
<1>11. CASE Fallback(r)
  <2>1. /\ req' = [req EXCEPT ![r] = NotConsumed(r, tombs[c])]
        /\ UNCHANGED <<clock, keys, handed, granted>>
        /\ st.pc = "fallback"
    BY <1>11 DEF Fallback, OnlyReq
  <2> QED
    BY <1>3, <1>9, <2>1 DEF TombHolds
<1>12. CASE ExecAborted(r)
  <2> DEFINE next == RetryAt(st.tries + 1)
             more == st.tries + 1
             state == [st EXCEPT !.tries = more, !.rec = None, !.since = 0,
                      !.pc = next]
  <2>1. next \in {"watch", "fallback"}
    BY DEF RetryAt
  <2>2. /\ req' = [req EXCEPT ![r] = state]
        /\ UNCHANGED <<clock, keys, handed, granted>>
        /\ st.pc = "exec"
    BY <1>12 DEF ExecAborted, Inv, TypeInv, TypeOK
  <2> HIDE DEF next, more
  <2>3. state.pc = next /\ state.env = st.env /\ state.answer = st.answer
    BY <1>1 DEF ReqState
  <2>0. req'[r] = state
    BY <2>2 DEF Inv, TypeInv, TypeOK
  <2> HIDE DEF state
  <2>4. ReadHolds(req[r])'
    BY <2>0, <1>2, <2>1, <2>2, <2>3 DEF ReadHolds
  <2> QED
    BY <1>1, <2>0, <2>1, <2>2, <2>3, <2>4, ReadingKeeps
<1>13. CASE ExecConsume(r)
  <2> DEFINE spent == [st.rec EXCEPT !.status = "consumed"]
             state == [st EXCEPT !.pc = "proving", !.rec = spent, !.since = 0]
  <2>1. /\ req' = [req EXCEPT ![r] = state]
        /\ granted' = [granted EXCEPT ![c] = @ \cup {r}]
        /\ UNCHANGED <<clock, handed>>
        /\ st.pc = "exec"
    BY <1>13 DEF ExecConsume, Inv, TypeInv, TypeOK
  <2> HIDE DEF spent
  <2>2. state.pc = "proving" /\ state.env = st.env /\ state.answer = st.answer
    BY <1>1 DEF ReqState
  <2> HIDE DEF state
  <2>3. req'[r] = state
    BY <2>1 DEF Inv, TypeInv, TypeOK
  <2>4. st.answer = None /\ None # "challenge_replay"
    BY <1>1, NoneIsOutside DEF ReplyHolds, Refusal
  <2>5. \A d \in Challenge : r \in granted'[d] => d = c
    BY <1>1, <2>1 DEF ReplyHolds, GrantHolds, Inv, TypeInv, TypeOK
  <2>6. ReadHolds(req[r])'
    BY <1>2, <2>1, <2>2, <2>3 DEF ReadHolds
  <2> QED
    BY <2>2, <2>3, <2>4, <2>5, <2>6 DEF ReplyHolds, GrantHolds
<1>14. CASE VerifyProof(r)
  <2>1. PICK v \in ProofVerdicts(st.rec, st.env) :
          /\ req' = [req EXCEPT ![r] = Answered(r, v)]
          /\ UNCHANGED <<clock, keys, handed, granted>>
    BY <1>14 DEF VerifyProof, OnlyReq
  <2>2. v \in {"verified", "proof_failed"}
    BY DEF ProofVerdicts
  <2> QED
    BY <1>1, <2>1, <2>2, AnsweringKeeps
<1> QED
  BY <1>5, <1>6, <1>7, <1>8, <1>10, <1>11, <1>12, <1>13, <1>14 DEF HandlerStep

-----------------------------------------------------------------------------
(* The invariant *)

\* A step that undoes nothing and moves one handler at most keeps what the
\* others know.
LEMMA OthersKeep ==
    ASSUME Inv, Grows
    PROVE  /\ \A r \in Request :
                (/\ req'[r] = req[r]
                 /\ \A c \in Challenge : r \in granted'[c] => r \in granted[c])
                   => ReplyHolds(r)'
           /\ \A u \in Updater : opt'[u] = opt[u] => OptHolds(u)'
BY ReplyKeeps, OptKeeps

\* A handout is stored for as long as it is in time, or not at all.
LEMMA IssueKeeps ==
    ASSUME Inv, NEW c \in Challenge, NEW h \in Issued, IssueChallenge(c, h),
           clock - h.delay \in 0..clock
    PROVE  KeyInv' /\ Grows
<1> DEFINE rec == ToChallengeRecord(h)
<1>1. /\ rec \in ChallengeRecord
      /\ rec.status = "issued"
      /\ rec.expiresAt = h.expiresAt
      /\ h.expiresAt \in Nat
      /\ h # None
  BY StoredType, RedisBounds DEF Issued, RedisBounds
<1>2. /\ handed[c] = None
      /\ handed' = [handed EXCEPT ![c] = h]
      /\ UNCHANGED <<clock, tombs, granted>>
      /\ LET ttl == TtlSecondsUntil(h.expiresAt, clock - h.delay) IN
           \/ ttl = None /\ UNCHANGED <<active, dirty>>
           \/ /\ ttl # None
              /\ active' = [active EXCEPT ![c] = KeyFor(rec, ttl)]
              /\ dirty' = Touch({c})
  BY DEF IssueChallenge
<1> HIDE DEF rec
<1>3. KeySet(c, rec, clock - (clock - h.delay))
  BY <1>1, <1>2, SettingKey DEF Inv
<1>4. active[c] = None /\ tombs[c] = None
  BY <1>2 DEF Inv, KeyInv, ActiveHolds, TombHolds
<1>5. handed'[c] = h /\ \A d \in Challenge \ {c} : handed'[d] = handed[d]
  BY <1>2 DEF Inv, TypeInv, TypeOK
<1>6. /\ \A d \in Challenge \ {c} : active'[d] = active[d]
      /\ \/ active'[c] = None /\ rec.expiresAt <= clock
         \/ \E until \in Nat :
              /\ active'[c] = [rec |-> rec, until |-> until]
              /\ clock < until
              /\ rec.expiresAt <= until
  BY <1>3, <1>4 DEF KeySet, Inv, TypeInv, TypeOK
<1>7. ASSUME NEW d \in Challenge
      PROVE  ActiveHolds(d)' /\ TombHolds(d)' /\ LateWithoutKeys(d)'
  <2>1. ActiveHolds(d) /\ TombHolds(d) /\ LateWithoutKeys(d)
    BY DEF Inv, KeyInv
  <2>2. CASE d = c
    <3>1. ActiveHolds(d)'
      <4>1. CASE active'[c] = None
        BY <2>2, <4>1 DEF ActiveHolds
      <4>2. CASE \E until \in Nat : /\ active'[c] = [rec |-> rec, until |-> until]
                                    /\ clock < until
                                    /\ rec.expiresAt <= until
        <5>1. PICK until \in Nat : /\ active'[c] = [rec |-> rec, until |-> until]
                                   /\ clock < until
                                   /\ rec.expiresAt <= until
          BY <4>2
        <5>2. active'[c].rec = rec /\ active'[c].until = until
          BY <5>1
        <5> QED
          BY <1>1, <1>2, <1>5, <2>2, <5>1, <5>2 DEF ActiveHolds
      <4> QED
        BY <1>6, <4>1, <4>2
    <3>2. TombHolds(d)'
      BY <1>2, <1>4, <2>2 DEF TombHolds
    <3>3. LateWithoutKeys(d)'
      <4>1. CASE active'[c] = None /\ rec.expiresAt <= clock
        BY <1>1, <1>2, <1>5, <2>2, <4>1 DEF LateWithoutKeys
      <4>2. CASE \E until \in Nat : active'[c] = [rec |-> rec, until |-> until]
        <5>1. PICK until \in Nat : active'[c] = [rec |-> rec, until |-> until]
          BY <4>2
        <5>2. active'[c] # None
          BY <1>1, <5>1, RedisBounds DEF RedisBounds, Entry
        <5> QED
          BY <2>2, <5>2 DEF LateWithoutKeys
      <4> QED
        BY <1>6, <4>1, <4>2
    <3> QED
      BY <3>1, <3>2, <3>3
  <2>3. CASE d # c
    BY <1>2, <1>5, <1>6, <2>1, <2>3 DEF ActiveHolds, TombHolds, LateWithoutKeys
  <2> QED
    BY <2>2, <2>3
<1>8. Grows
  BY <1>2, <1>5 DEF Grows, Inv, TypeInv, TypeOK
<1> QED
  BY <1>7, <1>8 DEF KeyInv

\* What assertion-options writes back is an issued record with the expiry of
\* its challenge.
LEMMA SetKeeps ==
    ASSUME Inv, NEW u \in Updater, SetActive(u)
    PROVE  KeyInv' /\ Grows
<1>0. PICK sent \in opt[u].since..clock :
         LET c == opt[u].challenge
             rec == [opt[u].rec EXCEPT !.auth = u]
             ttl == TtlSecondsUntil(opt[u].rec.expiresAt, sent)
         IN
         /\ \/ ttl = None /\ UNCHANGED <<active, dirty>>
            \/ /\ ttl # None
               /\ active' = [active EXCEPT ![c] = KeyFor(rec, ttl)]
               /\ dirty' = Touch({c})
         /\ UNCHANGED <<clock, tombs, handed, granted>>
  BY DEF SetActive
<1>10. sent \in 0..clock
  BY <1>0 DEF Inv, TypeInv, TypeOK, OptState
<1> DEFINE c == opt[u].challenge
           rec == [opt[u].rec EXCEPT !.auth = u]
           ttl == TtlSecondsUntil(opt[u].rec.expiresAt, sent)
<1>1. opt[u].pc = "set" /\ c \in Challenge /\ opt[u].rec \in ChallengeRecord
  BY DEF SetActive, Inv, TypeInv, OptHeld
<1>2. /\ rec \in ChallengeRecord
      /\ rec.expiresAt = opt[u].rec.expiresAt
      /\ rec.status = opt[u].rec.status
  BY <1>1 DEF ChallengeRecord
<1>3. /\ rec.status = "issued"
      /\ rec.expiresAt = handed[c].expiresAt
      /\ handed[c] # None
  BY <1>1, <1>2 DEF Inv, OptHolds
<1>4. /\ \/ ttl = None /\ UNCHANGED <<active, dirty>>
         \/ /\ ttl # None
            /\ active' = [active EXCEPT ![c] = KeyFor(rec, ttl)]
            /\ dirty' = Touch({c})
      /\ UNCHANGED <<clock, tombs, handed, granted>>
  BY <1>0
<1>5. ttl = TtlSecondsUntil(rec.expiresAt, sent)
  BY <1>2
<1> HIDE DEF c, rec, ttl
<1>6. KeySet(c, rec, clock - sent)
  BY <1>1, <1>2, <1>4, <1>5, <1>10, SettingKey DEF Inv
<1>7. \/ UNCHANGED active
      \/ /\ \A d \in Challenge \ {c} : active'[d] = active[d]
         /\ \E until \in Nat :
              /\ active'[c] = [rec |-> rec, until |-> until]
              /\ clock < until
              /\ rec.expiresAt <= until
  BY <1>1, <1>6 DEF KeySet, Inv, TypeInv, TypeOK
<1>8. ASSUME NEW d \in Challenge
      PROVE  ActiveHolds(d)' /\ TombHolds(d)' /\ LateWithoutKeys(d)'
  <2>1. ActiveHolds(d) /\ TombHolds(d) /\ LateWithoutKeys(d)
    BY DEF Inv, KeyInv
  <2>2. CASE UNCHANGED active \/ d # c
    <3>1. active'[d] = active[d]
      BY <1>7, <2>2
    <3> QED
      BY <1>4, <2>1, <3>1 DEF ActiveHolds, TombHolds, LateWithoutKeys
  <2>3. CASE d = c /\ ~UNCHANGED active
    <3>1. PICK until \in Nat : /\ active'[d] = [rec |-> rec, until |-> until]
                               /\ clock < until
                               /\ rec.expiresAt <= until
      BY <1>7, <2>3
    <3>2. active'[d] # None
      BY <1>2, <3>1, RedisBounds DEF RedisBounds, Entry
    <3>3. ActiveHolds(d)'
      BY <1>3, <1>4, <2>3, <3>1 DEF ActiveHolds
    <3> QED
      BY <1>4, <2>1, <3>2, <3>3 DEF TombHolds, LateWithoutKeys
  <2> QED
    BY <2>2, <2>3
<1>9. Grows
  BY <1>4 DEF Grows, Inv, TypeInv, TypeOK
<1> QED
  BY <1>8, <1>9 DEF KeyInv

\* Keys go when their time is up, and that is after the challenge's.
LEMMA TickKeeps ==
    ASSUME Inv, Tick
    PROVE  KeyInv' /\ Grows
<1>1. /\ clock' = clock + 1
      /\ active' = Unexpired(active, clock')
      /\ tombs' = Unexpired(tombs, clock')
      /\ UNCHANGED <<handed, granted>>
  BY DEF Tick
<1>2. clock \in Nat /\ clock' \in Nat
  BY <1>1 DEF Inv, TypeInv, TypeOK
<1>3. ASSUME NEW c \in Challenge
      PROVE  /\ active'[c] # None => active'[c] = active[c] /\ ~(active[c].until <= clock')
             /\ active[c] # None /\ ~(active[c].until <= clock') => active'[c] = active[c]
             /\ tombs'[c] # None => tombs'[c] = tombs[c]
             /\ tombs[c] # None /\ ~(tombs[c].until <= clock') => tombs'[c] = tombs[c]
  BY <1>1, UnexpiredType DEF Inv, TypeInv, TypeOK
<1>4. ASSUME NEW c \in Challenge
      PROVE  /\ active[c] # None => active[c].until \in Nat
             /\ tombs[c] # None => tombs[c].until \in Nat
             /\ handed[c] # None => handed[c].expiresAt \in Nat
             /\ handed'[c] = handed[c] /\ granted'[c] = granted[c]
  BY <1>1 DEF Inv, TypeInv, TypeOK, Entry, Issued
<1>5. ASSUME NEW c \in Challenge
      PROVE  /\ ActiveHolds(c)' /\ TombHolds(c)' /\ LateWithoutKeys(c)'
             /\ (tombs[c] # None /\ tombs'[c] = None) =>
                  handed[c].expiresAt <= clock'
  <2>1. ActiveHolds(c) /\ TombHolds(c) /\ LateWithoutKeys(c)
    BY DEF Inv, KeyInv
  <2>2. (tombs[c] # None /\ tombs'[c] = None) => handed[c].expiresAt <= clock'
    BY <1>2, <1>3, <1>4, <2>1 DEF TombHolds
  <2>3. (active[c] # None /\ active'[c] = None) => handed[c].expiresAt <= clock'
    BY <1>2, <1>3, <1>4, <2>1 DEF ActiveHolds
  <2>4. LateWithoutKeys(c)'
    BY <1>1, <1>2, <1>3, <1>4, <2>1, <2>2, <2>3 DEF LateWithoutKeys
  <2>5. ActiveHolds(c)'
    BY <1>2, <1>3, <1>4, <2>1 DEF ActiveHolds
  <2>6. TombHolds(c)'
    BY <1>2, <1>3, <1>4, <2>1 DEF TombHolds
  <2> QED
    BY <2>2, <2>4, <2>5, <2>6
<1> QED
  BY <1>1, <1>2, <1>4, <1>5 DEF KeyInv, Grows

\* At the start nothing has been issued, read or granted.
LEMMA InitInv == Init => Inv
<1> SUFFICES ASSUME Init PROVE Inv
  OBVIOUS
<1>1. TypeInv
  BY TypeInit
<1>2. \A r \in Request : req[r].pc = "idle" /\ req[r].answer = None
  BY DEF Init, IdleReq
<1>3. \A u \in Updater : opt[u].pc = "idle"
  BY DEF Init, IdleOpt
<1>4. None # "challenge_replay"
  BY NoneIsOutside DEF Refusal
<1>5. KeyInv
  BY DEF Init, KeyInv, ActiveHolds, TombHolds, LateWithoutKeys
<1>6. \A c \in Challenge : granted[c] = {}
  BY DEF Init
<1> QED
  BY <1>1, <1>2, <1>3, <1>4, <1>5, <1>6
     DEF Inv, OptHolds, ReplyHolds, ReadHolds, GrantHolds

\* A presentation that arrives has read nothing that is not so.
LEMMA ArriveReplies ==
    ASSUME Inv, NEW r \in Request, Arrive(r)
    PROVE  /\ UNCHANGED <<clock, keys, conns, handed, crashes, opt, granted>>
           /\ \A s \in Request \ {r} : req'[s] = req[s]
           /\ req'[r].answer = None
           /\ ReplyHolds(r)'
<1>1. PICK c \in Challenge, env \in Envelope, origin \in Audience :
         /\ req[r].pc = "idle"
         /\ handed[c] # None
         /\ env.challenge = c
         /\ env.expiresAt = handed[c].expiresAt
         /\ GetActive(r, env, origin)
         /\ ReqMoves(r, [pc |-> IF Val(active[c]) = None THEN "get_consumed"
                                ELSE "validate",
                         env |-> env, origin |-> origin,
                         rec |-> Val(active[c]), now |-> 0, since |-> 0, tries |-> 0,
                         answer |-> None])
  BY ArriveMoves DEF Inv
<1> DEFINE pc == IF Val(active[c]) = None THEN "get_consumed" ELSE "validate"
           state == [pc |-> pc, env |-> env, origin |-> origin,
                     rec |-> Val(active[c]), now |-> 0, since |-> 0, tries |-> 0,
                     answer |-> None]
<1>2. UNCHANGED <<clock, keys, conns, handed, crashes, opt, granted>>
  BY <1>1 DEF GetActive, OnlyReq
<1>3. /\ req'[r] = state
      /\ \A s \in Request \ {r} : req'[s] = req[s]
  BY <1>1 DEF ReqMoves, Inv, TypeInv, TypeOK
<1>4. /\ req'[r].pc = pc /\ req'[r].env = env
      /\ req'[r].rec = Val(active[c]) /\ req'[r].answer = None
  <2>1. /\ state.pc = pc /\ state.env = env
        /\ state.rec = Val(active[c]) /\ state.answer = None
    BY Zenon
  <2> HIDE DEF state, pc
  <2> QED
    BY <1>3, <2>1
<1>5. /\ Val(active[c]) # None => active[c] # None /\ Val(active[c]) = active[c].rec
      /\ Val(active[c]) = None => active[c] = None
  BY NoneIsOutside DEF Inv, TypeInv, TypeOK, Entry, Val
<1>6. ActiveHolds(c) /\ LateWithoutKeys(c)
  BY DEF Inv, KeyInv
<1>7. \A d \in Challenge : r \notin granted'[d]
  BY <1>1, <1>2 DEF Inv, ReplyHolds, GrantHolds
<1>8. ReadHolds(req[r])'
  <2>1. CASE Val(active[c]) = None
    BY <1>1, <1>2, <1>4, <1>5, <1>6, <2>1
       DEF ReadHolds, LateWithoutKeys, keys
  <2>2. CASE Val(active[c]) # None
    BY <1>1, <1>2, <1>4, <1>5, <1>6, <2>2
       DEF ReadHolds, ActiveHolds, keys
  <2> QED
    BY <2>1, <2>2
<1>9. None # "challenge_replay"
  BY NoneIsOutside DEF Refusal
<1>10. ReplyHolds(r)'
  BY <1>4, <1>7, <1>8, <1>9 DEF ReplyHolds, GrantHolds
<1> QED
  BY <1>2, <1>3, <1>4, <1>10

\* A crash answers for nobody.
LEMMA CrashKeeps ==
    ASSUME Inv, NEW k, Crash(k)
    PROVE  KeyInv' /\ Grows /\ UNCHANGED opt /\ \A r \in Request : ReplyHolds(r)'
<1>1. UNCHANGED <<clock, keys, handed, opt, granted>>
  BY DEF Crash
<1>2. req' = [r \in Request |->
               IF ConnOf(r) # k \/ req[r].pc \in {"idle", "done"} THEN req[r]
               ELSE [req[r] EXCEPT !.pc = "done", !.rec = None,
                                   !.answer = "lost"]]
  BY Zenon DEF Crash
<1>3. KeyInv' /\ Grows
  BY <1>1, QuietStep
<1>4. ASSUME NEW r \in Request PROVE ReplyHolds(r)'
  <2>1. CASE ConnOf(r) # k \/ req[r].pc \in {"idle", "done"}
    <3>1. req'[r] = req[r]
      BY <1>2, <2>1
    <3> QED
      BY <1>1, <1>3, <3>1, ReplyKeeps
  <2>2. CASE ~(ConnOf(r) # k \/ req[r].pc \in {"idle", "done"})
    <3>1. req'[r] = [req[r] EXCEPT !.pc = "done", !.rec = None, !.answer = "lost"]
      BY <1>2, <2>2
    <3>2. req'[r].pc = "done" /\ req'[r].env = req[r].env /\ req'[r].answer = "lost"
      BY <3>1 DEF Inv, TypeInv, TypeOK, ReqState
    <3>3. ReplyHolds(r)
      BY DEF Inv
    <3>4. ReadHolds(req[r])'
      BY <1>1, <2>2, <3>2, <3>3 DEF ReplyHolds, ReadHolds
    <3>5. GrantHolds(r)'
      BY <1>1, <3>2, <3>3 DEF ReplyHolds, GrantHolds
    <3> QED
      BY <3>2, <3>4, <3>5 DEF ReplyHolds
  <2> QED
    BY <2>1, <2>2
<1> QED
  BY <1>1, <1>3, <1>4

\* Assertion-options goes on with a record of its challenge.
LEMMA OptionsHold ==
    ASSUME Inv, NEW u \in Updater,
           \/ OptionsStep(u)
           \/ \E c \in Challenge, origin \in Audience :
                handed[c] # None /\ BeginOptions(u, c, origin)
    PROVE  OptHolds(u)'
<1> DEFINE st == opt[u]
           c == st.challenge
<1>1. st \in OptState /\ OptHeld(st) /\ OptHolds(u)
  BY DEF Inv, TypeInv, TypeOK
<1>2. UNCHANGED handed
  BY DEF OptionsStep, OptionsGetConsumed, BuildOptions, StoreGet,
         StoreGetConsumed, SetActive, BeginOptions, OnlyOpt
<1>3. ASSUME NEW d \in Challenge
      PROVE  /\ Val(active[d]) # None =>
                  Val(active[d]).expiresAt = handed[d].expiresAt
             /\ active[d] # None => Val(active[d]) # None
             /\ Val(tombs[d]) # None =>
                  Val(tombs[d]).expiresAt = handed[d].expiresAt
  <2>1. ActiveHolds(d) /\ TombHolds(d)
    BY DEF Inv, KeyInv
  <2> QED
    BY <2>1, NoneIsOutside
       DEF Val, ActiveHolds, TombHolds, Inv, TypeInv, TypeOK, Entry
<1>4. ASSUME NEW a \in {"sent", "not_found", "not_registered",
                        "audience_mismatch"},
             opt' = [opt EXCEPT ![u] = AnsweredOpt(u, a)]
      PROVE  OptHolds(u)'
  <2>1. opt'[u].pc = "done"
    BY <1>4, AnsweredOptType DEF Inv, TypeInv, TypeOK
  <2> QED
    BY <2>1 DEF OptHolds
<1>5. ASSUME NEW d \in Challenge, NEW origin \in Audience,
             handed[d] # None, BeginOptions(u, d, origin)
      PROVE  OptHolds(u)'
  <2> DEFINE pc == IF active[d] = None THEN "get_consumed" ELSE "building"
             state == [pc |-> pc, challenge |-> d, origin |-> origin,
                       rec |-> Val(active[d]), since |-> 0, answer |-> None]
  <2>1. opt'[u] = state
    BY <1>5 DEF BeginOptions, OnlyOpt, Inv, TypeInv, TypeOK
  <2>2. state.pc = pc /\ state.challenge = d /\ state.rec = Val(active[d])
    BY Zenon
  <2> HIDE DEF state
  <2>3. pc \in {"get_consumed", "building"}
        /\ (pc = "building" => Val(active[d]).expiresAt = handed[d].expiresAt)
    BY <1>3
  <2> HIDE DEF pc
  <2> QED
    BY <1>2, <1>5, <2>1, <2>2, <2>3 DEF OptHolds
<1>6. ASSUME NEW rec, c \in Challenge, handed[c] # None,
             rec # None => rec.expiresAt = handed[c].expiresAt,
             opt' = [opt EXCEPT ![u] = Updating(u, rec)]
      PROVE  OptHolds(u)'
  <2> DEFINE state == [st EXCEPT !.pc = "set", !.rec = rec, !.since = clock]
  <2>1. CASE rec # None /\ rec.status = "issued"
    <3>1. state.pc = "set" /\ state.rec = rec /\ state.challenge = c
      BY <1>1 DEF OptState
    <3>2. opt'[u] = state
      BY <1>6, <2>1 DEF Updating, Inv, TypeInv, TypeOK
    <3> HIDE DEF state
    <3> QED
      BY <1>2, <1>6, <2>1, <3>1, <3>2 DEF OptHolds
  <2>2. CASE ~(rec # None /\ rec.status = "issued")
    BY <1>4, <1>6, <2>2 DEF Updating
  <2> QED
    BY <2>1, <2>2
<1>7. ASSUME st.pc \notin {"idle", "done"}
      PROVE  c \in Challenge /\ handed[c] # None
  BY <1>1, <1>7 DEF OptHeld, OptHolds
<1>8. ASSUME NEW state, opt' = [opt EXCEPT ![u] = state],
             state.challenge = c, st.pc \notin {"idle", "done"},
             state.pc \in {"building", "store_get", "store_get_consumed"},
             state.pc = "building" => state.rec.expiresAt = handed[c].expiresAt
      PROVE  OptHolds(u)'
  <2>1. opt'[u] = state
    BY <1>8 DEF Inv, TypeInv, TypeOK
  <2> QED
    BY <1>2, <1>7, <1>8, <2>1 DEF OptHolds
<1>9. CASE OptionsGetConsumed(u)
  <2> DEFINE rec == Val(tombs[c])
             state == [st EXCEPT !.pc = "building", !.rec = rec]
  <2>1. CASE rec = None
    BY <1>4, <1>9, <2>1 DEF OptionsGetConsumed, OnlyOpt
  <2>2. CASE rec # None
    <3>1. opt' = [opt EXCEPT ![u] = state] /\ st.pc = "get_consumed"
      BY <1>9, <2>2 DEF OptionsGetConsumed, OnlyOpt
    <3>2. state.pc = "building" /\ state.rec = rec /\ state.challenge = c
      BY <1>1 DEF OptState
    <3>3. rec.expiresAt = handed[c].expiresAt
      BY <1>3, <1>7, <2>2, <3>1
    <3> HIDE DEF state, rec
    <3> QED
      BY <1>8, <3>1, <3>2, <3>3
  <2> QED
    BY <2>1, <2>2
<1>10. CASE BuildOptions(u)
  <2> DEFINE state == [st EXCEPT !.pc = "store_get", !.rec = None]
  <2>1. \/ opt' = [opt EXCEPT ![u] = AnsweredOpt(u, "audience_mismatch")]
        \/ opt' = [opt EXCEPT ![u] = AnsweredOpt(u, "not_registered")]
        \/ opt' = [opt EXCEPT ![u] = state]
    BY <1>10 DEF BuildOptions, OnlyOpt
  <2>2. state.pc = "store_get" /\ state.challenge = c /\ st.pc = "building"
    BY <1>1, <1>10 DEF OptState, BuildOptions
  <2> HIDE DEF state
  <2> QED
    BY <1>4, <1>8, <2>1, <2>2
<1>11. CASE StoreGet(u)
  <2>1. st.pc = "store_get"
    BY <1>11 DEF StoreGet
  <2>2. CASE Val(active[c]) = None
    <3> DEFINE state == [st EXCEPT !.pc = "store_get_consumed"]
    <3>1. opt' = [opt EXCEPT ![u] = state]
      BY <1>11, <2>2 DEF StoreGet, OnlyOpt
    <3>2. state.pc = "store_get_consumed" /\ state.challenge = c
      BY <1>1 DEF OptState
    <3> HIDE DEF state
    <3> QED
      BY <1>8, <2>1, <3>1, <3>2
  <2>3. CASE Val(active[c]) # None
    <3>1. opt' = [opt EXCEPT ![u] = Updating(u, Val(active[c]))]
      BY <1>11, <2>3 DEF StoreGet, OnlyOpt
    <3> QED
      BY <1>3, <1>6, <1>7, <2>1, <3>1
  <2> QED
    BY <2>2, <2>3
<1>12. CASE StoreGetConsumed(u)
  <2>1. /\ st.pc = "store_get_consumed"
        /\ opt' = [opt EXCEPT ![u] = Updating(u, Val(tombs[c]))]
    BY <1>12 DEF StoreGetConsumed, OnlyOpt
  <2> QED
    BY <1>3, <1>6, <1>7, <2>1
<1>13. CASE SetActive(u)
  BY <1>4, <1>13 DEF SetActive
<1> QED
  BY <1>5, <1>9, <1>10, <1>11, <1>12, <1>13 DEF OptionsStep

-----------------------------------------------------------------------------
(* Every step *)

\* A step of one request's handler: the keys, and the others' knowledge.
LEMMA HandlerKeeps ==
    ASSUME Inv, NEW r \in Request, HandlerStep(r)
    PROVE  /\ KeyInv' /\ Grows
           /\ UNCHANGED opt
           /\ \A s \in Request : ReplyHolds(s)'
<1>1. PICK state : ReqMoves(r, state)
  BY HandlerMoves DEF Inv
<1>2. \A s \in Request \ {r} : req'[s] = req[s]
  BY <1>1 DEF ReqMoves, Inv, TypeInv, TypeOK
<1>3. UNCHANGED opt
  BY HandlerKeepsStores DEF Inv
<1>4. CASE ExecConsume(r)
  <2>1. KeyInv' /\ Grows
    BY <1>4, ExecKeeps
  <2>2. granted' = [granted EXCEPT ![req[r].env.challenge] = @ \cup {r}]
    BY <1>4, Zenon DEF ExecConsume
  <2>3. \A s \in Request \ {r} : \A c \in Challenge :
           s \in granted'[c] => s \in granted[c]
    BY <2>2 DEF Inv, TypeInv, TypeOK
  <2> QED
    BY <1>2, <1>3, <2>1, <2>3, OthersKeep, HandlerReplies
<1>5. CASE UNCHANGED <<clock, keys, handed, granted>>
  <2>1. KeyInv' /\ Grows
    BY <1>5, QuietStep
  <2> QED
    BY <1>2, <1>3, <1>5, <2>1, OthersKeep, HandlerReplies
<1> QED
  BY <1>4, <1>5
     DEF HandlerStep, GetConsumed, ValidateRecord, Watch, Mget, Unwatch,
         ExecAborted, Fallback, VerifyProof, OnlyReq

\* A step that leaves the handlers alone leaves what they know.
LEMMA HandlersKeep ==
    ASSUME Inv, TypeInv', KeyInv', Grows, UNCHANGED <<req, opt, granted>>
    PROVE  Inv'
BY OthersKeep DEF Inv

\* A step of assertion-options, or its start.
LEMMA OptionsKeep ==
    ASSUME Inv, TypeInv', NEW u \in Updater,
           \/ OptionsStep(u)
           \/ \E c \in Challenge, origin \in Audience :
                handed[c] # None /\ BeginOptions(u, c, origin)
    PROVE  Inv'
<1>1. OptHolds(u)'
  BY OptionsHold
<1>2. PICK state : OptMoves(u, state)
  BY OptionsMoves DEF Inv
<1>3. \A v \in Updater \ {u} : opt'[v] = opt[v]
  BY <1>2 DEF OptMoves, Inv, TypeInv, TypeOK
<1>4. UNCHANGED <<req, granted>>
  BY DEF OptionsStep, OptionsGetConsumed, BuildOptions, StoreGet,
         StoreGetConsumed, SetActive, BeginOptions, OnlyOpt
<1>5. KeyInv' /\ Grows
  <2>1. CASE SetActive(u)
    BY <2>1, SetKeeps
  <2>2. CASE UNCHANGED <<clock, keys, handed, granted>>
    BY <2>2, QuietStep
  <2> QED
    BY <2>1, <2>2
       DEF OptionsStep, OptionsGetConsumed, BuildOptions, StoreGet,
           StoreGetConsumed, BeginOptions, OnlyOpt
<1> QED
  BY <1>1, <1>3, <1>4, <1>5, OthersKeep DEF Inv

\* No step of Redis, a process or the clock breaks the invariant.
LEMMA NextInv == Inv /\ [Next]_vars => Inv'
<1> SUFFICES ASSUME Inv, [Next]_vars PROVE Inv'
  OBVIOUS
<1>1. TypeInv'
  BY TypeStep DEF Inv
<1>2. ASSUME Tick PROVE Inv'
  BY <1>1, <1>2, TickKeeps, HandlersKeep DEF Tick
<1>3. ASSUME NEW k, Reconnect(k) PROVE Inv'
  BY <1>1, <1>3, QuietStep, HandlersKeep DEF Reconnect
<1>4. ASSUME NEW k, Crash(k) PROVE Inv'
  BY <1>1, <1>4, CrashKeeps, OthersKeep DEF Inv
<1>5. ASSUME NEW c \in Challenge, NEW a \in Audience, NEW l \in Lifetimes,
             NEW p \in PasskeyPolicies, NEW delay \in 0..MaxDelay,
             delay <= clock,
             IssueChallenge(c, [audience |-> a, expiresAt |-> clock - delay + l,
                                passkey |-> p, delay |-> delay])
      PROVE  Inv'
  <2> DEFINE h == [audience |-> a, expiresAt |-> clock - delay + l,
                   passkey |-> p, delay |-> delay]
  <2>1. h \in Issued /\ clock - h.delay \in 0..clock
    BY <1>5, IssuedType DEF Inv, TypeInv, TypeOK
  <2> HIDE DEF h
  <2>2. IssueChallenge(c, h)
    BY <1>5 DEF h
  <2>3. UNCHANGED <<req, opt, granted>>
    BY <2>2 DEF IssueChallenge
  <2> QED
    BY <1>1, <2>1, <2>2, <2>3, IssueKeeps, HandlersKeep
<1>6. ASSUME NEW r \in Request, Arrive(r) PROVE Inv'
  BY <1>1, <1>6, ArriveReplies, QuietStep, OthersKeep DEF Inv
<1>7. ASSUME NEW r \in Request, HandlerStep(r) PROVE Inv'
  BY <1>1, <1>7, HandlerKeeps, OthersKeep DEF Inv
<1>8. ASSUME NEW u \in Updater,
             \/ OptionsStep(u)
             \/ \E c \in Challenge, origin \in Audience :
                  handed[c] # None /\ BeginOptions(u, c, origin)
      PROVE  Inv'
  BY <1>1, <1>8, OptionsKeep
<1>9. CASE UNCHANGED vars
  BY <1>1, <1>9, QuietStep, HandlersKeep DEF vars, keys
<1>10. deployment.updaters \subseteq Updater
  BY RedisBounds DEF Inv, TypeInv, TypeOK, RedisBounds
<1> QED
  BY <1>2, <1>3, <1>4, <1>5, <1>6, <1>7, <1>8, <1>9, <1>10 DEF Next, Step

-----------------------------------------------------------------------------
(* What the site and the wallet can rely on *)

\* In every deployment, whatever shares a connection, is written back, crashes
\* or reconnects, the keys and what the handlers read of them stand for the
\* history of the challenge.
THEOREM InvHolds == Spec => []Inv
<1> QED
  BY InitInv, NextInv, PTL DEF Spec

\* "Already consumed" is only ever said where another presentation was let
\* through (redis-store.ts, consume; presentation-challenge.ts).
THEOREM ReplayHasWinnerHolds == Spec => []ReplayHasWinner
<1>1. Inv => ReplayHasWinner
  BY DEF Inv, ReplyHolds, ReplayHasWinner
<1> QED
  BY <1>1, InvHolds, PTL

\* Where a handler says "not issued by this verifier", it has found neither
\* key, so the challenge is past its expiry: its active key lasts as long as it
\* does and so does the tombstone that replaces it.
LEMMA UnknownIsLate ==
    ASSUME Inv, NEW r \in Request, HandlerStep(r),
           req[r].answer # "unknown_challenge",
           req'[r].answer = "unknown_challenge"
    PROVE  LET c == req'[r].env.challenge IN
           \/ handed[c].expiresAt <= clock'
           \/ req[r].pc = "fallback" /\ active[c] # None
<1> DEFINE st == req[r]
           c == st.env.challenge
<1>1. PICK state : ReqMoves(r, state) /\ state.env = st.env
  BY HandlerMoves DEF Inv
<1>2. req'[r].env = st.env
  BY <1>1 DEF ReqMoves, Inv, TypeInv, TypeOK
<1>3. /\ st \in ReqState /\ ReqHeld(st) /\ ReadHolds(st)
      /\ c \in Challenge /\ st.env \in Envelope
      /\ st.pc \notin {"idle", "done"}
      /\ clock \in Nat /\ clock' = clock
  BY HandlerMoves, HandlerKeepsStores
     DEF Inv, TypeInv, TypeOK, ReqHeld, Envelope, ReplyHolds
<1>4. \A d \in Challenge : LateWithoutKeys(d)
  BY DEF Inv, KeyInv
<1>5. ASSUME NEW a, req' = [req EXCEPT ![r] = Answered(r, a)]
      PROVE  req'[r].answer = a
  <2>1. req'[r] = Answered(r, a)
    BY <1>5 DEF Inv, TypeInv, TypeOK
  <2> QED
    BY <1>3, <2>1 DEF Answered, ReqState
<1>6. ASSUME NEW found, req' = [req EXCEPT ![r] = NotConsumed(r, found)]
      PROVE  found = None
  <2>1. CASE found # None
    <3>1. req' = [req EXCEPT ![r] = Answered(r, "challenge_replay")]
      BY <1>6, <2>1 DEF NotConsumed
    <3> QED
      BY <1>5, <3>1
  <2> QED
    BY <2>1
<1>7. CASE ValidateRecord(r)
  <2> DEFINE verdict == Validate(st.rec, st.env, st.origin, clock)
             ok == [st EXCEPT !.pc = "watch", !.now = clock, !.rec = None]
  <2>1. /\ st.pc = "validate"
        /\ req' = [req EXCEPT ![r] = IF verdict = "ok" THEN ok
                                     ELSE Answered(r, verdict)]
    BY <1>7, Zenon DEF ValidateRecord, OnlyReq
  <2>2. ok.answer = st.answer
    BY <1>3 DEF ReqState
  <2>3. verdict = "unknown_challenge" => st.rec = None
    BY DEF Validate
  <2> HIDE DEF verdict, ok
  <2>4. CASE verdict = "ok"
    <3>1. req'[r] = ok
      BY <2>1, <2>4 DEF Inv, TypeInv, TypeOK
    <3> QED
      BY <2>2, <3>1
  <2>5. CASE verdict # "ok"
    <3>1. st.rec = None
      BY <1>5, <2>1, <2>3, <2>5
    <3> QED
      BY <1>2, <1>3, <2>1, <3>1 DEF ReadHolds
  <2> QED
    BY <2>4, <2>5
<1>8. CASE Unwatch(r)
  <2>1. st.pc = "unwatch" /\ st.rec = None
    BY <1>6, <1>8 DEF Unwatch
  <2> QED
    BY <1>2, <1>3, <2>1 DEF ReadHolds
<1>9. CASE Fallback(r)
  <2>1. st.pc = "fallback" /\ tombs[c] = None
    BY <1>6, <1>9 DEF Fallback, OnlyReq
  <2>2. handed[c] # None
    BY <1>3, <2>1 DEF ReadHolds
  <2> QED
    BY <1>2, <1>3, <1>4, <2>1, <2>2 DEF LateWithoutKeys
<1>10. CASE VerifyProof(r)
  <2>1. PICK v \in {"verified", "proof_failed"} :
             req' = [req EXCEPT ![r] = Answered(r, v)]
    BY <1>10 DEF VerifyProof, OnlyReq, ProofVerdicts
  <2> QED
    BY <1>5, <2>1
<1>11. ASSUME NEW state2, req' = [req EXCEPT ![r] = state2],
              state2.answer = st.answer
       PROVE  FALSE
  BY <1>11 DEF Inv, TypeInv, TypeOK
<1>12. CASE GetConsumed(r)
  <2> DEFINE to == [st EXCEPT !.pc = "validate", !.rec = Val(tombs[c])]
  <2>1. req' = [req EXCEPT ![r] = to]
    BY <1>12 DEF GetConsumed, OnlyReq
  <2>2. to.answer = st.answer
    BY <1>3 DEF ReqState
  <2> HIDE DEF to
  <2> QED
    BY <1>11, <2>1, <2>2
<1>13. CASE Watch(r)
  <2>1. req' = [req EXCEPT ![r].pc = "mget"]
    BY <1>13 DEF Watch
  <2>2. req'[r] = [st EXCEPT !.pc = "mget"]
    BY <2>1 DEF Inv, TypeInv, TypeOK
  <2> QED
    BY <1>3, <2>2 DEF ReqState
<1>14. CASE Mget(r)
  <2> DEFINE hit == [st EXCEPT !.pc = "exec", !.rec = active[c].rec,
                                 !.since = clock]
             miss == [st EXCEPT !.pc = "unwatch", !.rec = Val(tombs[c])]
  <2>1. \/ req' = [req EXCEPT ![r] = hit]
        \/ req' = [req EXCEPT ![r] = miss]
    BY <1>14 DEF Mget, OnlyReq
  <2>2. hit.answer = st.answer /\ miss.answer = st.answer
    BY <1>3 DEF ReqState
  <2> HIDE DEF hit, miss
  <2> QED
    BY <1>11, <2>1, <2>2
<1>15. CASE ExecAborted(r)
  <2>1. req' = [req EXCEPT ![r].tries = @ + 1, ![r].rec = None, ![r].since = 0,
                           ![r].pc = RetryAt(req[r].tries + 1)]
    BY <1>15, Zenon DEF ExecAborted
  <2>2. req'[r] = [st EXCEPT !.tries = @ + 1, !.rec = None, !.since = 0,
                             !.pc = RetryAt(st.tries + 1)]
    BY <2>1 DEF Inv, TypeInv, TypeOK
  <2> QED
    BY <1>3, <2>2 DEF ReqState
<1>16. CASE ExecConsume(r)
  <2> DEFINE spent == [st.rec EXCEPT !.status = "consumed"]
  <2>1. req' = [req EXCEPT ![r].pc = "proving", ![r].rec = spent,
                           ![r].since = 0]
    BY <1>16, Zenon DEF ExecConsume
  <2> HIDE DEF spent
  <2>2. req'[r] = [st EXCEPT !.pc = "proving", !.rec = spent, !.since = 0]
    BY <2>1 DEF Inv, TypeInv, TypeOK
  <2> QED
    BY <1>3, <2>2 DEF ReqState
<1> QED
  BY <1>7, <1>8, <1>9, <1>10, <1>12, <1>13, <1>14, <1>15, <1>16 DEF HandlerStep

\* An issued challenge is not called unknown while it is in time, except by a
\* consume() that has run out of rounds with the record in front of it.
THEOREM NoFalseUnknownHolds == Spec => NoFalseUnknown
<1> DEFINE Told(r) ==
        /\ req[r].answer # "unknown_challenge"
        /\ req'[r].answer = "unknown_challenge"
        => LET c == req'[r].env.challenge IN
           \/ handed[c].expiresAt <= clock'
           \/ req[r].pc = "fallback" /\ active[c] # None
<1>1. ASSUME Inv, [Next]_vars, NEW r \in Request PROVE Told(r)
  <2>1. CASE req'[r].answer = req[r].answer
    BY <2>1
  <2>2. ASSUME NEW s \in Request, HandlerStep(s) PROVE Told(r)
    <3>1. PICK state : ReqMoves(s, state)
      BY <1>1, <2>2, HandlerMoves DEF Inv
    <3>2. r # s => req'[r] = req[r]
      BY <1>1, <3>1 DEF ReqMoves, Inv, TypeInv, TypeOK
    <3> QED
      BY <1>1, <2>1, <2>2, <3>2, UnknownIsLate
  <2>3. ASSUME NEW s \in Request, Arrive(s) PROVE Told(r)
    <3>1. (r # s => req'[r] = req[r]) /\ req'[s].answer = None
      BY <1>1, <2>3, ArriveReplies
    <3> QED
      BY <2>1, <3>1, NoneIsOutside DEF Refusal
  <2>4. ASSUME NEW k, Crash(k) PROVE Told(r)
    <3>1. req'[r] = req[r] \/ req'[r] = [req[r] EXCEPT !.pc = "done", !.rec = None,
                                                     !.answer = "lost"]
      BY <2>4 DEF Crash
    <3>2. req'[r] = req[r] \/ req'[r].answer = "lost"
      BY <1>1, <3>1 DEF Inv, TypeInv, TypeOK, ReqState
    <3> QED
      BY <2>1, <3>2
  <2>5. CASE UNCHANGED req
    BY <2>1, <2>5
  <2>6. UNCHANGED req \/ (\E s \in Request : Arrive(s) \/ HandlerStep(s))
        \/ \E k \in Opened : Crash(k)
    <3>1. \A u \in Updater : SetActive(u) => UNCHANGED req
      BY DEF SetActive
    <3>2. \A c, h : IssueChallenge(c, h) => UNCHANGED req
      BY Zenon DEF IssueChallenge
    <3> QED
      BY <1>1, <3>1, <3>2
         DEF Next, Step, vars, Tick, Reconnect, BeginOptions, OptionsStep,
             OptionsGetConsumed, BuildOptions, StoreGet,
             StoreGetConsumed, OnlyOpt
  <2> QED
    BY <2>2, <2>3, <2>4, <2>5, <2>6
<1>2. Inv /\ [Next]_vars => [\A r \in Request : Told(r)]_vars
  BY <1>1
<1> QED
  BY <1>2, InvHolds, PTL DEF Spec, NoFalseUnknown

-----------------------------------------------------------------------------
(* The deployments in which WATCH guards consume() alone: no two requests    *)
(* share a connection, none drops, and no assertion-options writes a record  *)
(* back.  There the Redis store keeps the whole promise of a challenge       *)
(* register.                                                                 *)

\* A request between its WATCH and its EXEC has its key watched, and if no one
\* has touched the connection since then, the key its MGET found is there.
GuardHolds(r) ==
    LET c == req[r].env.challenge
        k == ConnOf(r)
    IN
    /\ req[r].pc \in {"mget", "exec"} => c \in watched[k]
    /\ (req[r].pc = "exec" /\ ~dirty[k]) => active[c] # None

\* A challenge is granted once, its active key is gone from then on, and no key
\* outlives its record by a whole second and the delay of the SET of issue().
OnceHolds(c) ==
    /\ \A r, s \in granted[c] : r = s
    /\ granted[c] # {} => active[c] = None
    /\ active[c] # None => active[c].until < handed[c].expiresAt + Second + handed[c].delay

Guarded ==
    /\ \A u \in Updater : opt[u].pc = "idle"
    /\ \A r \in Request : GuardHolds(r)
    /\ \A c \in Challenge : OnceHolds(c)

-----------------------------------------------------------------------------

\* Who shares a connection with whom never changes.
LEMMA IsolatedStays ==
    ASSUME UNCHANGED deployment
    PROVE  /\ Isolated' <=> Isolated
           /\ \A r \in Request : ConnOf(r)' = ConnOf(r)
BY DEF Isolated, ConnOf

\* Every request has a connection, and none it shares.
LEMMA OwnConnection ==
    ASSUME TypeInv, Isolated, NEW r \in Request
    PROVE  /\ ConnOf(r) \in Conn
           /\ \A s \in Request \ {r} : ConnOf(s) # ConnOf(r)
BY RedisBounds DEF TypeInv, TypeOK, RedisBounds, ConnOf, Isolated

\* A step of somebody else: the connection of r is left alone, and touched if
\* the key of r goes.
LEMMA GuardKeeps ==
    ASSUME NEW r \in Request, GuardHolds(r), req'[r] = req[r],
           UNCHANGED deployment,
           watched'[ConnOf(r)] = watched[ConnOf(r)],
           dirty[ConnOf(r)] => dirty'[ConnOf(r)],
           LET c == req[r].env.challenge IN
             (c \in watched[ConnOf(r)] /\ active[c] # None /\ active'[c] = None)
                => dirty'[ConnOf(r)]
    PROVE  GuardHolds(r)'
BY IsolatedStays DEF GuardHolds

\* A granted challenge has been handed out.
LEMMA GrantedIsHanded ==
    ASSUME Inv, NEW c \in Challenge, granted[c] # {}
    PROVE  handed[c] # None
<1>1. PICK r \in Request : r \in granted[c]
  BY DEF Inv, TypeInv, TypeOK
<1>2. req[r].pc # "idle" /\ req[r].env.challenge = c
  BY <1>1 DEF Inv, ReplyHolds, GrantHolds
<1> QED
  BY <1>2 DEF Inv, ReplyHolds, ReadHolds

\* Touch, connection by connection.
LEMMA Touching ==
    ASSUME NEW touched, NEW k \in Conn
    PROVE  Touch(touched)[k] <=> dirty[k] \/ watched[k] \cap touched # {}
BY DEF Touch

-----------------------------------------------------------------------------
(* The steps *)

\* At the start nothing is watched, issued or granted.
LEMMA GuardedInit == Init => Guarded
BY DEF Init, IdleReq, IdleOpt, Guarded, GuardHolds, OnceHolds

\* A key that expires under a watch fails the EXEC of the connection.
LEMMA GuardedTick ==
    ASSUME Inv, Guarded, Tick, UNCHANGED deployment, Isolated
    PROVE  Guarded'
<1> DEFINE touched == {c \in Challenge : active'[c] # active[c]}
<1>1. /\ active' = Unexpired(active, clock')
      /\ dirty' = Touch(touched)
      /\ UNCHANGED <<watched, handed, req, opt, granted>>
  BY DEF Tick
<1>2. \A c \in Challenge : active'[c] \in {active[c], None}
  BY <1>1 DEF Unexpired
<1>3. ASSUME NEW r \in Request PROVE GuardHolds(r)'
  <2>1. ConnOf(r) \in Conn
    BY OwnConnection DEF Inv
  <2>2. dirty'[ConnOf(r)] <=>
           dirty[ConnOf(r)] \/ watched[ConnOf(r)] \cap touched # {}
    BY <1>1, <2>1, Touching
  <2>3. req[r].env.challenge \in watched[ConnOf(r)]
           => req[r].env.challenge \in Challenge
    BY <2>1 DEF Inv, TypeInv, TypeOK
  <2>4. GuardHolds(r)
    BY DEF Guarded
  <2> QED
    BY <1>1, <2>2, <2>3, <2>4, GuardKeeps
<1>4. ASSUME NEW c \in Challenge PROVE OnceHolds(c)'
  BY <1>1, <1>2 DEF Guarded, OnceHolds
<1> QED
  BY <1>1, <1>3, <1>4 DEF Guarded

\* A crash forgets the watches of the process with its requests.
LEMMA GuardedCrash ==
    ASSUME Inv, Guarded, NEW k \in Opened, Crash(k), UNCHANGED deployment, Isolated
    PROVE  Guarded'
<1>1. /\ watched' = Unwatched(k)
      /\ dirty' = [dirty EXCEPT ![k] = FALSE]
      /\ UNCHANGED <<active, handed, opt, granted>>
  BY DEF Crash, keys
<1>2. req' = [r \in Request |->
               IF ConnOf(r) # k \/ req[r].pc \in {"idle", "done"} THEN req[r]
               ELSE [req[r] EXCEPT !.pc = "done", !.rec = None,
                                   !.answer = "lost"]]
  BY Zenon DEF Crash
<1>3. ASSUME NEW r \in Request PROVE GuardHolds(r)'
  <2>1. ConnOf(r) \in Conn
    BY OwnConnection DEF Inv
  <2>2. CASE ConnOf(r) = k
    <3>1. req'[r].pc \in {"idle", "done"}
      BY <1>2, <2>2 DEF Inv, TypeInv, TypeOK, ReqState
    <3> QED
      BY <3>1 DEF GuardHolds
  <2>3. CASE ConnOf(r) # k
    <3>1. /\ req'[r] = req[r]
          /\ watched'[ConnOf(r)] = watched[ConnOf(r)]
          /\ dirty'[ConnOf(r)] = dirty[ConnOf(r)]
      BY <1>1, <1>2, <2>1, <2>3 DEF Unwatched, Inv, TypeInv, TypeOK
    <3> QED
      BY <1>1, <3>1, GuardKeeps DEF Guarded
  <2> QED
    BY <2>2, <2>3
<1>4. ASSUME NEW c \in Challenge PROVE OnceHolds(c)'
  BY <1>1 DEF Guarded, OnceHolds
<1> QED
  BY <1>1, <1>3, <1>4 DEF Guarded

\* A challenge that is issued has been granted to nobody.
LEMMA GuardedIssue ==
    ASSUME Inv, Guarded, NEW c \in Challenge, NEW h \in Issued,
           IssueChallenge(c, h), clock - h.delay \in 0..clock,
           UNCHANGED deployment, Isolated
    PROVE  Guarded'
<1> DEFINE rec == ToChallengeRecord(h)
<1>1. /\ handed[c] = None
      /\ handed' = [handed EXCEPT ![c] = h]
      /\ UNCHANGED <<watched, req, opt, granted>>
      /\ LET ttl == TtlSecondsUntil(h.expiresAt, clock - h.delay) IN
           \/ ttl = None /\ UNCHANGED <<active, dirty>>
           \/ /\ ttl # None
              /\ active' = [active EXCEPT ![c] = KeyFor(rec, ttl)]
              /\ dirty' = Touch({c})
  BY Zenon DEF IssueChallenge
<1>2. rec \in ChallengeRecord /\ rec.expiresAt = h.expiresAt /\ h.expiresAt \in Nat
  BY StoredType DEF Issued
<1> HIDE DEF rec
<1>3. KeySet(c, rec, clock - (clock - h.delay))
  BY <1>1, <1>2, SettingKey DEF Inv
<1>10. clock - (clock - h.delay) = h.delay
  BY DEF Inv, TypeInv, TypeOK, Issued
<1>4. granted[c] = {}
  BY <1>1, GrantedIsHanded
<1>5. active[c] = None
  BY <1>1 DEF Inv, KeyInv, ActiveHolds
<1>6. handed'[c] = h /\ \A d \in Challenge \ {c} : handed'[d] = handed[d]
  BY <1>1 DEF Inv, TypeInv, TypeOK
<1>7. /\ \A d \in Challenge \ {c} : active'[d] = active[d]
      /\ \/ active'[c] = None
         \/ \E until \in Nat : /\ active'[c] = [rec |-> rec, until |-> until]
                               /\ until < rec.expiresAt + Second + h.delay
      /\ \/ UNCHANGED dirty
         \/ dirty' = Touch({c})
  BY <1>3, <1>5, <1>10 DEF KeySet, Inv, TypeInv, TypeOK
<1>8. ASSUME NEW r \in Request PROVE GuardHolds(r)'
  <2>1. ConnOf(r) \in Conn
    BY OwnConnection DEF Inv
  <2>2. dirty[ConnOf(r)] => dirty'[ConnOf(r)]
    BY <1>7, <2>1, Touching
  <2>3. req[r].env.challenge \in watched[ConnOf(r)]
           => req[r].env.challenge \in Challenge
    BY <2>1 DEF Inv, TypeInv, TypeOK
  <2>4. LET d == req[r].env.challenge IN
          ~(d \in watched[ConnOf(r)] /\ active[d] # None /\ active'[d] = None)
    BY <1>5, <1>7, <2>3
  <2> QED
    BY <1>1, <2>2, <2>4, GuardKeeps DEF Guarded
<1>9. ASSUME NEW d \in Challenge PROVE OnceHolds(d)'
  <2>1. CASE d = c
    <3>1. CASE active'[c] = None
      BY <1>1, <1>4, <2>1, <3>1 DEF OnceHolds
    <3>2. CASE \E until \in Nat : /\ active'[c] = [rec |-> rec, until |-> until]
                                 /\ until < rec.expiresAt + Second + h.delay
      <4>1. PICK until \in Nat : /\ active'[c] = [rec |-> rec, until |-> until]
                                /\ until < rec.expiresAt + Second + h.delay
        BY <3>2
      <4>2. active'[c].until = until
        BY <4>1
      <4> QED
        BY <1>1, <1>2, <1>4, <1>6, <2>1, <4>1, <4>2 DEF OnceHolds
    <3> QED
      BY <1>7, <3>1, <3>2
  <2>2. CASE d # c
    BY <1>1, <1>6, <1>7, <2>2 DEF Guarded, OnceHolds
  <2> QED
    BY <2>1, <2>2
<1> QED
  BY <1>1, <1>8, <1>9 DEF Guarded

\* What a step of r does to its connection, and to no other.
LEMMA OthersGuarded ==
    ASSUME Inv, Guarded, UNCHANGED deployment, Isolated,
           NEW r \in Request, NEW s \in Request \ {r}, HandlerStep(r),
           UNCHANGED active,
           UNCHANGED watched \/ \E set : watched' = [watched EXCEPT ![ConnOf(r)] = set],
           UNCHANGED dirty \/ dirty' = [dirty EXCEPT ![ConnOf(r)] = FALSE]
    PROVE  GuardHolds(s)'
<1>1. ConnOf(s) # ConnOf(r) /\ ConnOf(s) \in Conn
  BY OwnConnection DEF Inv
<1>2. PICK state : ReqMoves(r, state)
  BY HandlerMoves DEF Inv
<1>3. req'[s] = req[s]
  BY <1>2 DEF ReqMoves, Inv, TypeInv, TypeOK
<1>4. watched'[ConnOf(s)] = watched[ConnOf(s)] /\ dirty'[ConnOf(s)] = dirty[ConnOf(s)]
  BY <1>1 DEF Inv, TypeInv, TypeOK
<1> QED
  BY <1>3, <1>4, GuardKeeps DEF Guarded

\* EXEC touches the connection of whoever else watches the key it deletes, and
\* nobody has been granted a challenge whose key is there.
LEMMA GuardedExec ==
    ASSUME Inv, Guarded, UNCHANGED deployment, Isolated,
           NEW r \in Request, ExecConsume(r)
    PROVE  /\ Guarded'
           /\ LET c == req[r].env.challenge IN
              /\ c \in Challenge
              /\ active[c] # None
              /\ granted[c] = {}
              /\ granted' = [granted EXCEPT ![c] = {r}]
              /\ active' = [active EXCEPT ![c] = None]
<1> DEFINE c == req[r].env.challenge
           k == ConnOf(r)
           spent == [req[r].rec EXCEPT !.status = "consumed"]
           touched == IF active[c] = None THEN {} ELSE {c}
<1>1. /\ req[r].pc = "exec"
      /\ ~dirty[k]
      /\ active' = [active EXCEPT ![c] = None]
      /\ watched' = Unwatched(k)
      /\ dirty' = [Touch(touched) EXCEPT ![k] = FALSE]
      /\ req' = [req EXCEPT ![r].pc = "proving", ![r].rec = spent,
                           ![r].since = 0]
      /\ granted' = [granted EXCEPT ![c] = @ \cup {r}]
      /\ UNCHANGED <<handed, opt>>
  BY Zenon DEF ExecConsume
<1> HIDE DEF spent
<1>2. c \in Challenge
  BY <1>1 DEF Inv, TypeInv, TypeOK, ReqHeld, Envelope
<1>3. GuardHolds(r) /\ OnceHolds(c)
  BY <1>2 DEF Guarded
<1>4. active[c] # None /\ touched = {c}
  BY <1>1, <1>3 DEF GuardHolds
<1>5. granted[c] = {}
  BY <1>3, <1>4 DEF OnceHolds
<1>6. granted' = [granted EXCEPT ![c] = {r}]
  BY <1>1, <1>5 DEF Inv, TypeInv, TypeOK
<1>7. k \in Conn /\ \A s \in Request \ {r} : ConnOf(s) # k /\ ConnOf(s) \in Conn
  BY OwnConnection DEF Inv
<1>8. ASSUME NEW s \in Request PROVE GuardHolds(s)'
  <2>1. CASE s = r
    <3>1. req'[r] = [req[r] EXCEPT !.pc = "proving", !.rec = spent, !.since = 0]
      BY <1>1 DEF Inv, TypeInv, TypeOK
    <3>2. req'[r].pc = "proving"
      BY <3>1 DEF Inv, TypeInv, TypeOK, ReqState
    <3> QED
      BY <2>1, <3>2 DEF GuardHolds
  <2>2. CASE s # r
    <3>1. req'[s] = req[s]
      BY <1>1, <2>2 DEF Inv, TypeInv, TypeOK
    <3>2. watched'[ConnOf(s)] = watched[ConnOf(s)]
      BY <1>1, <1>7, <2>2 DEF Unwatched, Inv, TypeInv, TypeOK
    <3>3. dirty'[ConnOf(s)] <=> Touch({c})[ConnOf(s)]
      BY <1>1, <1>4, <1>7, <2>2, ConnType DEF Inv
    <3>4. dirty'[ConnOf(s)] <=> dirty[ConnOf(s)] \/ watched[ConnOf(s)] \cap {c} # {}
      BY <1>7, <2>2, <3>3, Touching
    <3>5. ASSUME req[s].env.challenge \in watched[ConnOf(s)],
                 active[req[s].env.challenge] # None,
                 active'[req[s].env.challenge] = None
          PROVE  req[s].env.challenge = c
      BY <1>1, <1>7, <2>2, <3>5 DEF Inv, TypeInv, TypeOK
    <3> HIDE DEF c
    <3> QED
      BY <3>1, <3>2, <3>4, <3>5, GuardKeeps DEF Guarded
  <2> QED
    BY <2>1, <2>2
<1>9. ASSUME NEW d \in Challenge PROVE OnceHolds(d)'
  <2>1. OnceHolds(d)
    BY DEF Guarded
  <2>2. active'[c] = None /\ granted'[c] = {r}
    BY <1>1, <1>2, <1>6 DEF Inv, TypeInv, TypeOK
  <2>3. d # c => active'[d] = active[d] /\ granted'[d] = granted[d]
    BY <1>1, <1>6 DEF Inv, TypeInv, TypeOK
  <2> HIDE DEF c
  <2> QED
    BY <1>1, <2>1, <2>2, <2>3 DEF OnceHolds
<1>10. Guarded'
  BY <1>1, <1>8, <1>9 DEF Guarded
<1> QED
  BY <1>1, <1>2, <1>4, <1>5, <1>6, <1>10

\* The other steps of a presentation: WATCH before MGET, MGET before EXEC.
LEMMA GuardedReading ==
    ASSUME Inv, Guarded, UNCHANGED deployment, Isolated,
           NEW r \in Request, HandlerStep(r), ~ExecConsume(r)
    PROVE  Guarded' /\ UNCHANGED <<active, handed, granted>>
<1> DEFINE st == req[r]
           c == st.env.challenge
           k == ConnOf(r)
<1>1. /\ st \in ReqState
      /\ c \in Challenge
      /\ k \in Conn
  BY HandlerMoves, OwnConnection
     DEF Inv, TypeInv, TypeOK, ReqHeld, Envelope
<1>2. /\ UNCHANGED <<active, handed, granted, opt>>
      /\ UNCHANGED watched \/ \E set : watched' = [watched EXCEPT ![k] = set]
      /\ UNCHANGED dirty \/ dirty' = [dirty EXCEPT ![k] = FALSE]
  BY DEF HandlerStep, GetConsumed, ValidateRecord, Watch, Mget, Unwatch,
         ExecAborted, Fallback, VerifyProof, OnlyReq, keys, conns, Unwatched
<1>3. \A s \in Request \ {r} : GuardHolds(s)'
  BY <1>2, OthersGuarded
<1>4. \A d \in Challenge : OnceHolds(d)'
  BY <1>2 DEF Guarded, OnceHolds
<1> SUFFICES GuardHolds(r)'
  BY <1>2, <1>3, <1>4 DEF Guarded
<1>5. ASSUME NEW state, req' = [req EXCEPT ![r] = state]
      PROVE  req'[r] = state
  BY <1>5 DEF Inv, TypeInv, TypeOK
<1>6. req'[r].pc \notin {"mget", "exec"} => GuardHolds(r)'
  BY DEF GuardHolds
<1>7. (\E answer : req' = [req EXCEPT ![r] = Answered(r, answer)])
         => GuardHolds(r)'
  <2>1. ASSUME NEW answer, req' = [req EXCEPT ![r] = Answered(r, answer)]
        PROVE  req'[r].pc = "done"
    <3>1. req'[r] = Answered(r, answer)
      BY <1>5, <2>1
    <3> QED
      BY <1>1, <3>1 DEF Answered, ReqState
  <2> QED
    BY <1>6, <2>1
<1>8. CASE GetConsumed(r)
  <2>1. req'[r] = [st EXCEPT !.pc = "validate", !.rec = Val(tombs[c])]
    BY <1>5, <1>8 DEF GetConsumed, OnlyReq
  <2>2. req'[r].pc = "validate"
    BY <1>1, <2>1 DEF ReqState
  <2> QED
    BY <1>6, <2>2
<1>9. CASE ValidateRecord(r)
  <2> DEFINE ok == [st EXCEPT !.pc = "watch", !.now = clock, !.rec = None]
  <2>1. \/ req' = [req EXCEPT ![r] = ok]
        \/ \E answer : req' = [req EXCEPT ![r] = Answered(r, answer)]
    BY <1>9 DEF ValidateRecord, OnlyReq
  <2>2. ok.pc = "watch"
    BY <1>1 DEF ReqState
  <2> HIDE DEF ok
  <2> QED
    BY <1>5, <1>6, <1>7, <2>1, <2>2
<1>10. CASE Watch(r)
  <2>1. /\ req' = [req EXCEPT ![r].pc = "mget"]
        /\ watched' = [watched EXCEPT ![k] = @ \cup {c}]
    BY <1>10 DEF Watch
  <2>2. req'[r] = [st EXCEPT !.pc = "mget"]
    BY <2>1 DEF Inv, TypeInv, TypeOK
  <2>3. req'[r].pc = "mget" /\ req'[r].env = st.env
    BY <1>1, <2>2 DEF ReqState
  <2>4. c \in watched'[k]
    BY <1>1, <2>1 DEF Inv, TypeInv, TypeOK
  <2> QED
    BY <2>3, <2>4, IsolatedStays DEF GuardHolds
<1>11. CASE Mget(r)
  <2> DEFINE hit == [st EXCEPT !.pc = "exec", !.rec = active[c].rec,
                                 !.since = clock]
             miss == [st EXCEPT !.pc = "unwatch", !.rec = Val(tombs[c])]
  <2>1. /\ st.pc = "mget"
        /\ UNCHANGED watched
        /\ \/ active[c] # None /\ req' = [req EXCEPT ![r] = hit]
           \/ req' = [req EXCEPT ![r] = miss]
    BY <1>11 DEF Mget, OnlyReq, conns
  <2>2. hit.env = st.env /\ miss.pc = "unwatch"
    BY <1>1 DEF ReqState
  <2>3. c \in watched[k]
    BY <2>1 DEF Guarded, GuardHolds
  <2> HIDE DEF hit, miss
  <2>4. CASE active[c] # None /\ req' = [req EXCEPT ![r] = hit]
    <3>1. req'[r].env = st.env
      BY <1>5, <2>2, <2>4
    <3> QED
      BY <1>2, <2>1, <2>3, <2>4, <3>1, IsolatedStays DEF GuardHolds
  <2>5. CASE req' = [req EXCEPT ![r] = miss]
    BY <1>5, <1>6, <2>2, <2>5
  <2> QED
    BY <2>1, <2>4, <2>5
<1>12. CASE Unwatch(r)
  BY <1>7, <1>12 DEF Unwatch, NotConsumed
<1>13. CASE ExecAborted(r)
  <2>1. req' = [req EXCEPT ![r].tries = @ + 1, ![r].rec = None, ![r].since = 0,
                           ![r].pc = RetryAt(req[r].tries + 1)]
    BY <1>13, Zenon DEF ExecAborted
  <2>2. req'[r] = [st EXCEPT !.tries = @ + 1, !.rec = None, !.since = 0,
                             !.pc = RetryAt(st.tries + 1)]
    BY <2>1 DEF Inv, TypeInv, TypeOK
  <2>3. req'[r].pc = RetryAt(st.tries + 1)
    BY <1>1, <2>2 DEF ReqState
  <2> QED
    BY <1>6, <2>3 DEF RetryAt
<1>14. CASE Fallback(r)
  BY <1>7, <1>14 DEF Fallback, NotConsumed, OnlyReq
<1>15. CASE VerifyProof(r)
  BY <1>7, <1>15 DEF VerifyProof, OnlyReq
<1> QED
  BY <1>8, <1>9, <1>10, <1>11, <1>12, <1>13, <1>14, <1>15 DEF HandlerStep

\* A presentation that arrives has watched nothing yet.
LEMMA GuardedArrive ==
    ASSUME Inv, Guarded, UNCHANGED deployment, Isolated,
           NEW r \in Request, Arrive(r)
    PROVE  Guarded' /\ UNCHANGED <<active, handed, granted>>
<1>1. /\ UNCHANGED <<active, watched, dirty, handed, opt, granted>>
      /\ \A s \in Request \ {r} : req'[s] = req[s]
  BY ArriveReplies DEF keys, conns
<1>2. req'[r].pc \in {"get_consumed", "validate"}
  <2> DEFINE pc(c) == IF Val(active[c]) = None THEN "get_consumed" ELSE "validate"
  <2>1. PICK c \in Challenge, env \in Envelope, origin \in Audience :
           ReqMoves(r, [pc |-> pc(c), env |-> env, origin |-> origin,
                        rec |-> Val(active[c]), now |-> 0, since |-> 0, tries |-> 0,
                        answer |-> None])
    BY ArriveMoves DEF Inv
  <2> DEFINE state == [pc |-> pc(c), env |-> env, origin |-> origin,
                       rec |-> Val(active[c]), now |-> 0, since |-> 0, tries |-> 0,
                       answer |-> None]
  <2>2. req'[r] = state
    BY <2>1 DEF ReqMoves, Inv, TypeInv, TypeOK
  <2>3. state.pc = pc(c)
    BY Zenon
  <2>4. pc(c) \in {"get_consumed", "validate"}
    OBVIOUS
  <2> HIDE DEF state
  <2> QED
    BY <2>2, <2>3, <2>4
<1>3. \A s \in Request : GuardHolds(s)'
  <2>1. GuardHolds(r)'
    BY <1>2 DEF GuardHolds
  <2> QED
    BY <1>1, <2>1, GuardKeeps DEF Guarded
<1> QED
  BY <1>1, <1>3 DEF Guarded, OnceHolds

-----------------------------------------------------------------------------
(* The refinement of ChallengeRegister *)

\* The phase of every challenge is the same, or it lapses.
LEMMA LapseStep ==
    ASSUME Isolated, UNCHANGED <<deployment, granted>>,
           \A c \in Challenge :
              PhaseOf(c)' = PhaseOf(c) \/ (PhaseOf(c) = "open" /\ PhaseOf(c)' = "lapsed")
    PROVE  Register!Next
<1> DEFINE late == {c \in Challenge : PhaseOf(c)' # PhaseOf(c)}
<1>1. Isolated'
  BY IsolatedStays
<1>2. [c \in Challenge |-> IF Isolated THEN PhaseOf(c) ELSE "fresh"]' =
         [c \in Challenge |->
            IF c \in late
               /\ [d \in Challenge |-> IF Isolated THEN PhaseOf(d) ELSE "fresh"][c] = "open"
            THEN "lapsed"
            ELSE [d \in Challenge |-> IF Isolated THEN PhaseOf(d) ELSE "fresh"][c]]
  BY <1>1
<1>3. UNCHANGED [c \in Challenge |-> IF Isolated THEN granted[c] ELSE {}]
  BY <1>1
<1>4. late \in SUBSET Challenge
  OBVIOUS
<1> HIDE DEF late
<1>5. Register!Lapse(late)
  BY <1>2, <1>3 DEF Register!Lapse, Register!Lapsing
<1> QED
  BY <1>4, <1>5 DEF Register!Next

\* A step that leaves the keys, the handouts and the grants alone.
LEMMA SamePhases ==
    ASSUME Isolated, UNCHANGED <<deployment, active, handed, granted>>
    PROVE  Register!Next
<1>1. \A c \in Challenge : PhaseOf(c)' = PhaseOf(c)
  BY DEF PhaseOf
<1> QED
  BY <1>1, LapseStep

\* Keys only expire, so a challenge can only lapse as time passes.
LEMMA TickStep ==
    ASSUME Inv, Isolated, Tick, UNCHANGED deployment
    PROVE  Register!Next
<1>1. active' = Unexpired(active, clock') /\ UNCHANGED <<handed, granted>>
  BY DEF Tick
<1>2. \A c \in Challenge : active'[c] \in {active[c], None}
  BY <1>1 DEF Unexpired
<1>3. \A c \in Challenge : active[c] # None => handed[c] # None
  BY DEF Inv, KeyInv, ActiveHolds
<1>4. \A c \in Challenge :
         PhaseOf(c)' = PhaseOf(c) \/ (PhaseOf(c) = "open" /\ PhaseOf(c)' = "lapsed")
  BY <1>1, <1>2, <1>3 DEF PhaseOf
<1> QED
  BY <1>1, <1>4, LapseStep

\* One challenge moves on, from a phase and to one that a step of the register
\* allows.
LEMMA OneMoves ==
    ASSUME TypeInv, Isolated, UNCHANGED deployment, NEW c \in Challenge,
           \A d \in Challenge \ {c} : PhaseOf(d)' = PhaseOf(d)
    PROVE  /\ (/\ PhaseOf(c) = "fresh" /\ PhaseOf(c)' \in {"open", "lapsed"}
               /\ UNCHANGED granted)
                => Register!Next
           /\ \A r \in Request :
                (/\ PhaseOf(c) = "open" /\ PhaseOf(c)' = "spent"
                 /\ granted[c] = {}
                 /\ granted' = [granted EXCEPT ![c] = {r}])
                   => Register!Next
<1> DEFINE phase == [d \in Challenge |-> IF Isolated THEN PhaseOf(d) ELSE "fresh"]
           grants == [d \in Challenge |-> IF Isolated THEN granted[d] ELSE {}]
<1>1. Isolated'
  BY IsolatedStays
<1>2. phase[c] = PhaseOf(c) /\ grants[c] = granted[c]
  OBVIOUS
<1>3. [d \in Challenge |-> IF d \in {} /\ phase[d] = "open" THEN "lapsed"
                           ELSE phase[d]] = phase
  OBVIOUS
<1>4. phase' = [phase EXCEPT ![c] = PhaseOf(c)']
  BY <1>1
<1>5. ASSUME PhaseOf(c) = "fresh", PhaseOf(c)' \in {"open", "lapsed"},
             UNCHANGED granted
      PROVE  Register!Next
  <2>1. UNCHANGED grants
    BY <1>1, <1>5
  <2>2. Register!Issue(c, {})
    BY <1>2, <1>3, <1>4, <1>5, <2>1 DEF Register!Issue, Register!Lapsing
  <2> QED
    BY <2>2 DEF Register!Next
<1>6. ASSUME NEW r \in Request,
             PhaseOf(c) = "open", PhaseOf(c)' = "spent", granted[c] = {},
             granted' = [granted EXCEPT ![c] = {r}]
      PROVE  Register!Next
  <2>1. grants' = [grants EXCEPT ![c] = @ \cup {r}]
    BY <1>1, <1>6 DEF TypeInv, TypeOK
  <2>2. Register!Grant(c, r, {})
    BY <1>2, <1>3, <1>4, <1>6, <2>1 DEF Register!Grant, Register!Lapsing
  <2> QED
    BY <2>2 DEF Register!Next
<1> QED
  BY <1>5, <1>6

\* What is guarded stays so, and the register sees one of its steps or none.
LEMMA IsolatedStep ==
    ASSUME Inv, Guarded, Isolated, [Next]_vars
    PROVE  /\ Guarded'
           /\ Register!Next
           /\ \A c \in Challenge :
                granted'[c] # granted[c] =>
                    clock < handed[c].expiresAt + Second + handed[c].delay
<1> DEFINE InTime == \A c \in Challenge :
                       granted'[c] # granted[c] =>
                    clock < handed[c].expiresAt + Second + handed[c].delay
           Goal == Guarded' /\ Register!Next /\ InTime
<1>1. UNCHANGED deployment
  BY DEF Next, vars
<1>2. CASE Tick
  <2>1. UNCHANGED granted
    BY <1>2 DEF Tick
  <2> QED
    BY <1>1, <1>2, <2>1, GuardedTick, TickStep
<1>3. ASSUME NEW k \in Opened, Crash(k) PROVE Goal
  <2>1. UNCHANGED <<active, handed, granted>>
    BY <1>3 DEF Crash, keys
  <2> QED
    BY <1>1, <1>3, <2>1, GuardedCrash, SamePhases
<1>4. ASSUME NEW c \in Challenge, NEW a \in Audience, NEW l \in Lifetimes,
             NEW p \in PasskeyPolicies, NEW delay \in 0..MaxDelay,
             delay <= clock,
             IssueChallenge(c, [audience |-> a, expiresAt |-> clock - delay + l,
                                passkey |-> p, delay |-> delay])
      PROVE  Goal
  <2> DEFINE h == [audience |-> a, expiresAt |-> clock - delay + l,
                   passkey |-> p, delay |-> delay]
  <2>1. h \in Issued /\ clock - h.delay \in 0..clock
    BY <1>4, IssuedType DEF Inv, TypeInv, TypeOK
  <2> HIDE DEF h
  <2>2. IssueChallenge(c, h)
    BY <1>4 DEF h
  <2>3. /\ handed[c] = None /\ handed' = [handed EXCEPT ![c] = h]
        /\ \/ UNCHANGED active
           \/ \E e : active' = [active EXCEPT ![c] = e]
        /\ UNCHANGED granted
    BY <2>2 DEF IssueChallenge
  <2>4. granted[c] = {} /\ active[c] = None /\ h # None
    BY <2>1, <2>3, GrantedIsHanded, RedisBounds
       DEF Inv, KeyInv, ActiveHolds, RedisBounds
  <2>8. /\ handed'[c] = h /\ granted'[c] = {}
        /\ \A d \in Challenge \ {c} : /\ handed'[d] = handed[d]
                                       /\ active'[d] = active[d]
                                       /\ granted'[d] = granted[d]
    BY <2>3, <2>4 DEF Inv, TypeInv, TypeOK
  <2>5. PhaseOf(c) = "fresh" /\ PhaseOf(c)' \in {"open", "lapsed"}
    BY <2>3, <2>4, <2>8 DEF PhaseOf
  <2>6. \A d \in Challenge \ {c} : PhaseOf(d)' = PhaseOf(d)
    BY <2>8 DEF PhaseOf
  <2>7. Register!Next
    BY <1>1, <2>3, <2>5, <2>6, OneMoves DEF Inv
  <2> QED
    BY <1>1, <2>1, <2>2, <2>3, <2>7, GuardedIssue
<1>5. ASSUME NEW r \in Request, Arrive(r) PROVE Goal
  BY <1>1, <1>5, GuardedArrive, SamePhases
<1>6. ASSUME NEW r \in Request, ExecConsume(r) PROVE Goal
  <2>1. PICK c \in Challenge :
        /\ Guarded'
        /\ active[c] # None
        /\ granted[c] = {}
        /\ granted' = [granted EXCEPT ![c] = {r}]
        /\ active' = [active EXCEPT ![c] = None]
    BY <1>1, <1>6, GuardedExec
  <2>2. UNCHANGED handed
    BY <1>6 DEF ExecConsume
  <2>3. PhaseOf(c) = "open" /\ PhaseOf(c)' = "spent"
    BY <2>1 DEF PhaseOf, Inv, TypeInv, TypeOK
  <2>4. \A d \in Challenge \ {c} : PhaseOf(d)' = PhaseOf(d)
    BY <2>1, <2>2 DEF PhaseOf, Inv, TypeInv, TypeOK
  <2>5. Register!Next
    BY <1>1, <2>1, <2>3, <2>4, OneMoves DEF Inv
  <2>6. clock < handed[c].expiresAt + Second + handed[c].delay
    <3>1. ActiveHolds(c) /\ OnceHolds(c)
      BY <2>1 DEF Inv, KeyInv, Guarded
    <3>2. active[c].until \in Nat /\ handed[c].expiresAt \in Nat /\ clock \in Nat
         /\ handed[c].delay \in Nat
      BY <2>1, <3>1 DEF ActiveHolds, Inv, TypeInv, TypeOK, Entry, Issued
    <3> QED
      BY <2>1, <3>1, <3>2, RedisBounds DEF ActiveHolds, OnceHolds, RedisBounds
  <2>7. InTime
    BY <2>1, <2>6 DEF Inv, TypeInv, TypeOK
  <2> QED
    BY <2>1, <2>5, <2>7
<1>7. ASSUME NEW r \in Request, HandlerStep(r), ~ExecConsume(r) PROVE Goal
  BY <1>1, <1>7, GuardedReading, SamePhases
<1>8. CASE UNCHANGED vars
  <2>1. UNCHANGED <<active, watched, dirty, handed, req, opt, granted>>
    BY <1>8 DEF vars
  <2>2. Guarded'
    BY <1>1, <2>1, IsolatedStays DEF Guarded, GuardHolds, OnceHolds
  <2> QED
    BY <1>1, <2>1, <2>2, SamePhases
<1>9. /\ ~\E k \in Opened : Reconnect(k)
      /\ ~\E u \in deployment.updaters, c \in Challenge, origin \in Audience :
            BeginOptions(u, c, origin)
      /\ ~\E u \in Updater : OptionsStep(u)
  BY DEF Isolated, Reconnect, Guarded, OptionsStep, OptionsGetConsumed,
         BuildOptions, StoreGet, StoreGetConsumed, SetActive
<1> QED
  BY <1>2, <1>3, <1>4, <1>5, <1>6, <1>7, <1>8, <1>9 DEF Next, Step

-----------------------------------------------------------------------------
(* The promise *)

\* Where WATCH guards consume() alone, watched keys fail the EXEC they should.
THEOREM GuardedHolds == Spec => [](Isolated => Guarded)
<1>1. Init => (Isolated => Guarded)
  BY GuardedInit
<1>2. Inv /\ (Isolated => Guarded) /\ [Next]_vars => (Isolated => Guarded)'
  <2> SUFFICES ASSUME Inv, Isolated => Guarded, [Next]_vars, Isolated'
               PROVE  Guarded'
    OBVIOUS
  <2>1. UNCHANGED deployment
    BY DEF Next, vars
  <2>2. Isolated
    BY <2>1, IsolatedStays
  <2> QED
    BY <2>2, IsolatedStep
<1> QED
  BY <1>1, <1>2, InvHolds, PTL DEF Spec

\* Single use across replicas (README.md), where every request has a connection
\* of its own that is never reopened and no passkey update runs: for any number
\* of processes and requests, at most one presentation of a challenge gets past
\* consume(), through retries, expiry and crashes.
THEOREM SingleUseHolds == Spec => [](Isolated => SingleUse)
<1>1. (Isolated => Guarded) => (Isolated => SingleUse)
  BY DEF Guarded, OnceHolds, SingleUse
<1> QED
  BY <1>1, GuardedHolds, PTL

\* In such a deployment consume() commits no later than the rounding of the TTL
\* and the delay of the SET of issue() allow, however many retries, crashes and
\* instants lie between the check of the expiry and the commit.
THEOREM GrantWithinTtlHolds == Spec => GrantWithinTtl
<1> DEFINE InTime == \A c \in Challenge :
                       Isolated /\ granted'[c] # granted[c] =>
                           clock < handed[c].expiresAt + Second + handed[c].delay
<1>1. Inv /\ (Isolated => Guarded) /\ [Next]_vars => [InTime]_vars
  BY IsolatedStep
<1> QED
  BY <1>1, InvHolds, GuardedHolds, PTL DEF Spec, GrantWithinTtl

\* The Redis verifiers implement the challenge register (redis-store.ts,
\* consume): every step of theirs is a step of the register, or none.
THEOREM RegisterImplemented == Spec => ImplementsRegister
<1>1. Init => Register!Init
  BY DEF Init, Register!Init, PhaseOf
<1>2. Inv /\ (Isolated => Guarded) /\ [Next]_vars
        => [Register!Next]_(Register!vars)
  <2> SUFFICES ASSUME Inv, Isolated => Guarded, [Next]_vars
               PROVE  [Register!Next]_(Register!vars)
    OBVIOUS
  <2>1. CASE Isolated
    BY <2>1, IsolatedStep
  <2>2. CASE ~Isolated
    <3>1. UNCHANGED deployment
      BY DEF Next, vars
    <3>2. ~Isolated'
      BY <2>2, <3>1, IsolatedStays
    <3> QED
      BY <2>2, <3>2 DEF Register!vars
  <2> QED
    BY <2>1, <2>2
<1> QED
  BY <1>1, <1>2, InvHolds, GuardedHolds, PTL
     DEF Spec, ImplementsRegister, Register!Spec
=============================================================================
