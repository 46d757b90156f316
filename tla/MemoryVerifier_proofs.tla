----------------------- MODULE MemoryVerifier_proofs -----------------------
(* Theorems about MemoryVerifier, for any number of challenges, requests,    *)
(* assertion-options calls, restarts and instants.                           *)
EXTENDS MemoryVerifier, TLAPS

(* The record a handout is stored as is one, issued and not yet updated.     *)
LEMMA StoredType ==
    ASSUME NEW handout \in Handout
    PROVE  /\ ToChallengeRecord(handout) \in ChallengeRecord
           /\ ToChallengeRecord(handout).status = "issued"
           /\ ToChallengeRecord(handout).expiresAt = handout.expiresAt
BY DEF ToChallengeRecord, ChallengeRecord, Handout

(* The envelope a wallet can present is one.                                 *)
LEMMA PresentType ==
    ASSUME NEW c \in Challenge, NEW handout \in Handout,
           NEW match \in {"same", "nonce", "request"}, NEW a \in Updater \cup {None}
    PROVE  /\ Present(c, handout, match, a) \in Envelope
           /\ Present(c, handout, match, a).challenge = c
           /\ Present(c, handout, match, a).expiresAt = handout.expiresAt
BY DEF Present, Handout, Envelope

(* What the checks before consume() answer is "ok" or a refusal.             *)
LEMMA ValidateType ==
    ASSUME NEW rec, NEW env, NEW origin, NEW now
    PROVE  /\ Validate(rec, env, origin, now) \in Refusal \cup {"ok"}
           /\ InferMissing(env, now) \in Refusal
BY DEF Validate, InferMissing, Refusal

(* evictExpired only ever drops records.                                     *)
LEMMA EvictDrops ==
    ASSUME NEW map \in [Challenge -> ChallengeRecord \cup {None}], NEW t
    PROVE  /\ Evict(map, t) \in [Challenge -> ChallengeRecord \cup {None}]
           /\ \A c \in Challenge :
                 /\ Evict(map, t)[c] # None => Evict(map, t)[c] = map[c]
                 /\ Evict(map, t)[c] # None => ~(map[c].expiresAt <= t)
                 /\ map[c] # None /\ ~(map[c].expiresAt <= t)
                       => Evict(map, t)[c] = map[c]
BY DEF Evict

(* What consume() and evictExpired() leave in the two maps are records.      *)
LEMMA ConsumeType ==
    ASSUME TypeOK, NEW r \in Request, NEW c \in Challenge, NEW t,
           Consume(r, c, t), Evict(issued, t)[c] # None
    PROVE  /\ issued' \in [Challenge -> ChallengeRecord \cup {None}]
           /\ consumed' \in [Challenge -> ChallengeRecord \cup {None}]
           /\ consumed'[c] \in ChallengeRecord
           /\ granted' \in [Challenge -> SUBSET Request]
<1> DEFINE evicted == Evict(issued, t)
           spent == [evicted[c] EXCEPT !.status = "consumed"]
<1>1. evicted \in [Challenge -> ChallengeRecord \cup {None}]
  BY EvictDrops DEF TypeOK
<1>2. spent \in ChallengeRecord
  BY <1>1 DEF ChallengeRecord
<1>3. Evict(consumed, t) \in [Challenge -> ChallengeRecord \cup {None}]
  BY EvictDrops DEF TypeOK
<1>4. /\ issued' = [evicted EXCEPT ![c] = None]
      /\ consumed' = [Evict(consumed, t) EXCEPT ![c] = spent]
      /\ granted' = [granted EXCEPT ![c] = @ \cup {r}]
  BY DEF Consume
<1> HIDE DEF evicted, spent
<1> QED
  BY <1>1, <1>2, <1>3, <1>4 DEF TypeOK

(* A handler that has started holds the envelope it was sent.                *)
EnvelopeHeld == \A r \in Request : req[r].pc # "idle" => req[r].env # None

TypeInv == TypeOK /\ EnvelopeHeld

(* The state a handler is left in by an answer, or by the end of its process.*)
LEMMA AnsweredType ==
    ASSUME NEW st \in ReqState,
           NEW a \in Refusal \cup {"verified", "proof_failed", "lost"}
    PROVE  LET done == [st EXCEPT !.pc = "done", !.rec = None, !.answer = a]
           IN  /\ done \in ReqState
               /\ done.pc = "done" /\ done.answer = a /\ done.env = st.env
BY DEF ReqState

(* The same for a handler that answered for a registration of options.      *)
LEMMA AnsweredOptType ==
    ASSUME NEW st \in OptState,
           NEW a \in {"sent", "not_found", "not_registered",
                      "audience_mismatch", "lost"}
    PROVE  [st EXCEPT !.pc = "done", !.answer = a] \in OptState
BY DEF OptState

(* A handler that answers keeps the shape of its state.                      *)
LEMMA AnswerType ==
    ASSUME TypeInv, NEW r \in Request,
           NEW a \in Refusal \cup {"verified", "proof_failed"}, Answer(r, a),
           req[r].pc # "idle"
    PROVE  req' \in [Request -> ReqState] /\ EnvelopeHeld'
<1> DEFINE state == [req[r] EXCEPT !.pc = "done", !.rec = None, !.answer = a]
<1>1. state \in ReqState /\ state.env # None
  <2>1. req[r] \in ReqState /\ req[r].env # None
    BY DEF EnvelopeHeld, TypeInv, TypeOK
  <2>2. state \in ReqState /\ state.env = req[r].env
    BY <2>1, AnsweredType
  <2> QED
    BY <2>1, <2>2
<1>2. req' = [req EXCEPT ![r] = state]
  BY DEF Answer, TypeInv, TypeOK
<1> HIDE DEF state
<1>3. req' \in [Request -> ReqState]
  BY <1>1, <1>2 DEF TypeInv, TypeOK
<1>4. EnvelopeHeld'
  BY <1>1, <1>2 DEF TypeInv, TypeOK, EnvelopeHeld
<1> QED
  BY <1>3, <1>4

(* A fresh process starts with every variable in its type.                  *)
LEMMA TypeInit == Init => TypeInv
BY DEF Init, TypeInv, TypeOK, EnvelopeHeld, IdleReq, IdleOpt, ReqState, OptState

(* Every step of every handler keeps every variable in its type.            *)
LEMMA TypeStep == TypeInv /\ [Next]_vars => TypeInv'
<1> SUFFICES ASSUME TypeInv, [Next]_vars
             PROVE  TypeInv'
  OBVIOUS
<1> USE DEF TypeInv, TypeOK, EnvelopeHeld
<1>1. CASE Tick
  BY <1>1 DEF Tick
<1>2. ASSUME NEW c \in Challenge, NEW a \in Audience, NEW l \in Lifetimes,
             NEW p \in BOOLEAN,
             IssueChallenge(c, [audience |-> a, expiresAt |-> clock + l,
                                passkey |-> p])
      PROVE  TypeInv'
  <2> DEFINE handout == [audience |-> a, expiresAt |-> clock + l, passkey |-> p]
  <2>1. handout \in Handout
    BY MemoryBounds DEF Handout
  <2>2. ToChallengeRecord(handout) \in ChallengeRecord
    BY <2>1, NoneIsOutside DEF ToChallengeRecord, ChallengeRecord, Handout
  <2> HIDE DEF handout
  <2>3. /\ issued' \in [Challenge -> ChallengeRecord \cup {None}]
        /\ consumed' \in [Challenge -> ChallengeRecord \cup {None}]
    BY <1>2, <2>2, EvictDrops DEF IssueChallenge, handout
  <2>4. handed' \in [Challenge -> Handout \cup {None}]
    BY <1>2, <2>1 DEF IssueChallenge, handout
  <2> QED
    BY <1>2, <2>3, <2>4 DEF IssueChallenge
<1>3. ASSUME NEW r \in Request, Arrive(r)
      PROVE  TypeInv'
  <2>1. PICK c \in Challenge, origin \in Audience,
             match \in {"same", "nonce", "request"}, a \in Updater \cup {None} :
           /\ handed[c] # None
           /\ ReadChallenge(r, Present(c, handed[c], match, a), origin)
    BY <1>3 DEF Arrive, Assertions
  <2> DEFINE env == Present(c, handed[c], match, a)
  <2>2. env \in Envelope /\ env # None
    BY <2>1, PresentType, NoneIsOutside
  <2> HIDE DEF env
  <2>3. /\ issued' \in [Challenge -> ChallengeRecord \cup {None}]
        /\ consumed' \in [Challenge -> ChallengeRecord \cup {None}]
    BY <2>1, EvictDrops DEF ReadChallenge, EvictBoth
  <2>4. Get(issued', consumed', env.challenge) \in ChallengeRecord \cup {None}
    BY <2>2, <2>3 DEF Get, Envelope
  <2>5. req' = [req EXCEPT ![r] =
                  [pc |-> "read", env |-> env, origin |-> origin,
                   rec |-> Get(issued', consumed', env.challenge), answer |-> None]]
    BY <2>1 DEF ReadChallenge, env
  <2>6. req' \in [Request -> ReqState] /\ EnvelopeHeld'
    BY <2>1, <2>2, <2>4, <2>5 DEF ReqState
  <2> QED
    BY <2>1, <2>3, <2>6 DEF ReadChallenge
<1>4. ASSUME NEW r \in Request, NEW later \in {clock, clock + 1},
             ValidateAndConsume(r, later)
      PROVE  TypeInv'
  <2> DEFINE c == req[r].env.challenge
             verdict == Validate(req[r].rec, req[r].env, req[r].origin, clock)
  <2>1. c \in Challenge
    BY <1>4 DEF ValidateAndConsume, ReqState, Envelope
  <2>2. ASSUME NEW answer \in Refusal, Answer(r, answer)
        PROVE  req' \in [Request -> ReqState] /\ EnvelopeHeld'
    BY <1>4, <2>2, AnswerType DEF ValidateAndConsume
  <2>3. CASE verdict # "ok" /\ Answer(r, verdict) /\ UNCHANGED <<store, granted>>
    <3>1. verdict \in Refusal
      BY <2>3, ValidateType
    <3> HIDE DEF verdict
    <3> QED
      BY <1>4, <2>2, <2>3, <3>1 DEF ValidateAndConsume, store
  <2>4. CASE /\ Evict(issued, later)[c] # None
             /\ Consume(r, c, later)
             /\ req' = [req EXCEPT ![r].pc = "proving", ![r].rec = consumed'[c]]
    <3>1. /\ issued' \in [Challenge -> ChallengeRecord \cup {None}]
          /\ consumed' \in [Challenge -> ChallengeRecord \cup {None}]
          /\ consumed'[c] \in ChallengeRecord
          /\ granted' \in [Challenge -> SUBSET Request]
      BY <2>1, <2>4, ConsumeType
    <3> DEFINE state == [req[r] EXCEPT !.pc = "proving", !.rec = consumed'[c]]
    <3>2. state \in ReqState /\ state.env # None
      BY <1>4, <3>1 DEF ReqState, ValidateAndConsume
    <3>3. req' = [req EXCEPT ![r] = state]
      BY <2>4
    <3> HIDE DEF state
    <3>4. req' \in [Request -> ReqState] /\ EnvelopeHeld'
      BY <3>2, <3>3
    <3> QED
      BY <1>4, <3>1, <3>4 DEF ValidateAndConsume
  <2>5. CASE /\ EvictBoth(later)
             /\ Answer(r, NotConsumed(r, consumed'[c]))
             /\ UNCHANGED granted
    <3>1. NotConsumed(r, consumed'[c]) \in Refusal
      BY ValidateType DEF NotConsumed, Refusal
    <3>2. /\ issued' \in [Challenge -> ChallengeRecord \cup {None}]
          /\ consumed' \in [Challenge -> ChallengeRecord \cup {None}]
      BY <2>5, EvictDrops DEF EvictBoth
    <3> QED
      BY <1>4, <2>2, <2>5, <3>1, <3>2 DEF ValidateAndConsume
  <2> QED
    BY <1>4, <2>3, <2>4, <2>5 DEF ValidateAndConsume
<1>5. ASSUME NEW r \in Request, VerifyProof(r)
      PROVE  TypeInv'
  <2>1. PICK v \in {"verified", "proof_failed"} : Answer(r, v)
    BY <1>5 DEF VerifyProof, ProofVerdicts
  <2>2. req' \in [Request -> ReqState] /\ EnvelopeHeld'
    BY <1>5, <2>1, AnswerType DEF VerifyProof
  <2> QED
    BY <1>5, <2>2 DEF VerifyProof, store
<1>6. ASSUME NEW u \in Updater, NEW c \in Challenge, NEW origin \in Audience,
             BeginOptions(u, c, origin)
      PROVE  TypeInv'
  <2>1. /\ issued' \in [Challenge -> ChallengeRecord \cup {None}]
        /\ consumed' \in [Challenge -> ChallengeRecord \cup {None}]
    BY <1>6, EvictDrops DEF BeginOptions, EvictBoth
  <2>2. opt' \in [Updater -> OptState]
    BY <1>6 DEF BeginOptions, OptState
  <2> QED
    BY <1>6, <2>1, <2>2 DEF BeginOptions
<1>7. ASSUME NEW u \in Updater, FinishOptions(u)
      PROVE  TypeInv'
  <2>1. opt' \in [Updater -> OptState]
    <3>1. PICK a \in {"not_registered", "sent"} :
             opt' = [opt EXCEPT ![u] = [opt[u] EXCEPT !.pc = "done", !.answer = a]]
      BY <1>7 DEF FinishOptions, AnswerOpt
    <3> QED
      BY <3>1, AnsweredOptType
  <2>2. CASE UNCHANGED store
    BY <1>7, <2>1, <2>2 DEF FinishOptions, store
  <2>3. CASE /\ issued' = Attach(Evict(issued, clock), opt[u].challenge, u)
             /\ consumed' = Evict(consumed, clock)
    <3>1. /\ Evict(issued, clock) \in [Challenge -> ChallengeRecord \cup {None}]
          /\ consumed' \in [Challenge -> ChallengeRecord \cup {None}]
      BY <2>3, EvictDrops
    <3>2. issued' \in [Challenge -> ChallengeRecord \cup {None}]
      BY <2>3, <3>1 DEF Attach, ChallengeRecord
    <3> QED
      BY <1>7, <2>1, <3>1, <3>2 DEF FinishOptions
  <2> QED
    BY <1>7, <2>2, <2>3 DEF FinishOptions
<1>8. CASE Restart
  <2>1. req' \in [Request -> ReqState] /\ EnvelopeHeld'
    <3> DEFINE cut(q) == [req[q] EXCEPT !.pc = "done", !.rec = None, !.answer = "lost"]
    <3>1. \A q \in Request : cut(q) \in ReqState /\ cut(q).env = req[q].env
      BY AnsweredType
    <3>2. req' = [q \in Request |->
                    IF req[q].pc \in {"idle", "done"} THEN req[q] ELSE cut(q)]
      BY <1>8 DEF Restart
    <3> HIDE DEF cut
    <3> QED
      BY <3>1, <3>2
  <2>2. opt' \in [Updater -> OptState]
    BY <1>8, AnsweredOptType DEF Restart
  <2>3. /\ issued' = [c \in Challenge |-> None]
        /\ consumed' = [c \in Challenge |-> None]
        /\ lost' = {c \in Challenge : handed[c] # None}
        /\ restarts' = restarts + 1
        /\ clock' = clock /\ handed' = handed /\ granted' = granted
    BY <1>8, Zenon DEF Restart
  <2>4. TypeOK'
    BY <2>1, <2>2, <2>3
  <2> QED
    BY <2>1, <2>4
<1>9. CASE UNCHANGED vars
  BY <1>9 DEF vars
<1> QED
  BY <1>1, <1>2, <1>3, <1>4, <1>5, <1>6, <1>7, <1>8, <1>9 DEF Next, HandlerStep

(* Every variable keeps its type, whatever interleaves in the process.       *)
THEOREM TypeCorrect == Spec => []TypeOK
<1>1. TypeInv => TypeOK
  BY DEF TypeInv
<1> QED
  BY <1>1, TypeInit, TypeStep, PTL DEF Spec

-----------------------------------------------------------------------------
(* The two maps against the history: an issued record is one that was handed *)
(* out, with its expiry, and that nobody was granted; a consumed record is   *)
(* one somebody was granted.                                                 *)
Holdings ==
    \A c \in Challenge :
        /\ issued[c] # None =>
              /\ handed[c] # None
              /\ granted[c] = {}
              /\ c \notin lost
              /\ issued[c].status = "issued"
              /\ issued[c].expiresAt = handed[c].expiresAt
        /\ consumed[c] # None =>
              /\ handed[c] # None
              /\ granted[c] # {}
              /\ consumed[c].expiresAt = handed[c].expiresAt
        /\ granted[c] # {} => handed[c] # None
        /\ c \in lost => handed[c] # None

StoreInv == Holdings /\ SingleUse /\ SpentStaysSpent

(* Two empty maps and an empty history are in line with each other.         *)
LEMMA StoreInit == Init => StoreInv
BY DEF Init, StoreInv, Holdings, SingleUse, SpentStaysSpent, Register!SingleUse

(* A step that only evicts, or only lets time pass, keeps it: a tombstone is *)
(* dropped no sooner than its challenge is out of time.                      *)
LEMMA EvictKeeps ==
    ASSUME TypeInv, TypeInv', StoreInv, NEW t \in Nat,
           EvictBoth(t), t <= clock', clock <= clock',
           UNCHANGED <<handed, lost, granted>>
    PROVE  StoreInv'
<1> USE DEF TypeInv, TypeOK, Holdings, SingleUse, SpentStaysSpent,
            Register!SingleUse, StoreInv
<1>1. \A c \in Challenge :
         /\ issued'[c] # None => issued[c] # None /\ issued'[c] = issued[c]
         /\ consumed'[c] # None => consumed[c] # None /\ consumed'[c] = consumed[c]
         /\ consumed[c] # None /\ clock' < consumed[c].expiresAt
               => consumed'[c] = consumed[c]
  <2> SUFFICES ASSUME NEW c \in Challenge
               PROVE  /\ issued'[c] # None => issued[c] # None /\ issued'[c] = issued[c]
                      /\ consumed'[c] # None => consumed[c] # None /\ consumed'[c] = consumed[c]
                      /\ consumed[c] # None /\ clock' < consumed[c].expiresAt
                            => consumed'[c] = consumed[c]
    OBVIOUS
  <2>1. consumed[c] # None => consumed[c].expiresAt \in Nat
    BY DEF ChallengeRecord
  <2> QED
    BY <2>1, EvictDrops DEF EvictBoth
<1>2. Holdings'
  BY <1>1
<1>3. SingleUse'
  OBVIOUS
<1>4. SpentStaysSpent'
  <2> SUFFICES ASSUME NEW c \in Challenge, granted[c] # {}, c \notin lost,
                      clock' < handed[c].expiresAt
               PROVE  issued'[c] = None /\ consumed'[c] # None
    OBVIOUS
  <2>1. handed[c].expiresAt \in Nat
    BY DEF Handout
  <2>2. issued[c] = None /\ consumed[c] # None
    BY <2>1
  <2> QED
    BY <1>1, <2>2
<1> QED
  BY <1>2, <1>3, <1>4

(* A new challenge enters the issued map under a nonce of its own.          *)
LEMMA IssueKeeps ==
    ASSUME TypeInv, TypeInv', StoreInv, NEW c \in Challenge, NEW h \in Handout,
           IssueChallenge(c, h)
    PROVE  StoreInv'
<1> USE DEF TypeInv, TypeOK, Holdings, SingleUse, SpentStaysSpent,
            Register!SingleUse, StoreInv
<1> DEFINE record == ToChallengeRecord(h)
<1>1. /\ handed[c] = None
      /\ issued[c] = None /\ consumed[c] = None /\ granted[c] = {} /\ c \notin lost
      /\ handed' = [handed EXCEPT ![c] = h]
      /\ h # None
  BY NoneIsOutside DEF IssueChallenge
<1>2. record.status = "issued" /\ record.expiresAt = h.expiresAt
  BY DEF ToChallengeRecord
<1>3. /\ Evict(issued, clock) \in [Challenge -> ChallengeRecord \cup {None}]
      /\ Evict(consumed, clock) \in [Challenge -> ChallengeRecord \cup {None}]
  BY EvictDrops
<1>4. /\ issued' = [Evict(issued, clock) EXCEPT ![c] = record]
      /\ consumed' = Evict(consumed, clock)
      /\ UNCHANGED <<clock, lost, granted>>
  BY DEF IssueChallenge
<1> HIDE DEF record
<1>5. \A d \in Challenge \ {c} :
         /\ handed'[d] = handed[d]
         /\ issued'[d] # None => issued[d] # None /\ issued'[d] = issued[d]
         /\ consumed'[d] # None => consumed[d] # None /\ consumed'[d] = consumed[d]
         /\ consumed[d] # None /\ clock < consumed[d].expiresAt
               => consumed'[d] = consumed[d]
  <2> SUFFICES ASSUME NEW d \in Challenge \ {c}
               PROVE  /\ handed'[d] = handed[d]
                      /\ issued'[d] # None => issued[d] # None /\ issued'[d] = issued[d]
                      /\ consumed'[d] # None => consumed[d] # None /\ consumed'[d] = consumed[d]
                      /\ consumed[d] # None /\ clock < consumed[d].expiresAt
                            => consumed'[d] = consumed[d]
    OBVIOUS
  <2>1. consumed[d] # None => consumed[d].expiresAt \in Nat
    BY DEF ChallengeRecord
  <2> QED
    BY <1>1, <1>3, <1>4, <2>1, EvictDrops
<1>6. /\ issued'[c] = record /\ handed'[c] = h
      /\ consumed'[c] = None
  BY <1>1, <1>3, <1>4, EvictDrops
<1>7. Holdings'
  BY <1>1, <1>2, <1>4, <1>5, <1>6
<1>8. SpentStaysSpent'
  BY <1>1, <1>4, <1>5
<1> QED
  BY <1>4, <1>7, <1>8

(* The winner of consume(): the record moves to the consumed map.            *)
LEMMA ConsumeKeeps ==
    ASSUME TypeInv, TypeInv', StoreInv, NEW r \in Request, NEW c \in Challenge,
           NEW t \in Nat, t = clock', clock <= clock',
           Evict(issued, t)[c] # None, Consume(r, c, t),
           UNCHANGED <<handed, lost>>
    PROVE  StoreInv' /\ granted[c] = {} /\ clock' < handed[c].expiresAt
<1> USE DEF TypeInv, TypeOK, Holdings, SingleUse, SpentStaysSpent,
            Register!SingleUse, StoreInv
<1> DEFINE record == Evict(issued, t)[c]
           spent == [record EXCEPT !.status = "consumed"]
<1>1. /\ issued[c] # None /\ granted[c] = {} /\ record = issued[c]
      /\ ~(issued[c].expiresAt <= t)
  BY EvictDrops
<1>2. spent \in ChallengeRecord /\ spent # None /\ spent.expiresAt = handed[c].expiresAt
  <2>1. record \in ChallengeRecord
    BY <1>1
  <2>2. spent \in ChallengeRecord /\ spent.expiresAt = record.expiresAt
    BY <2>1 DEF ChallengeRecord
  <2> QED
    BY <1>1, <2>2, NoneIsOutside
<1>3. /\ issued' = [Evict(issued, t) EXCEPT ![c] = None]
      /\ consumed' = [Evict(consumed, t) EXCEPT ![c] = spent]
      /\ granted' = [granted EXCEPT ![c] = @ \cup {r}]
  BY DEF Consume
<1>4. /\ Evict(issued, t) \in [Challenge -> ChallengeRecord \cup {None}]
      /\ Evict(consumed, t) \in [Challenge -> ChallengeRecord \cup {None}]
  BY EvictDrops
<1> HIDE DEF record, spent
<1>5. \A d \in Challenge \ {c} :
         /\ granted'[d] = granted[d]
         /\ issued'[d] # None => issued[d] # None /\ issued'[d] = issued[d]
         /\ consumed'[d] # None => consumed[d] # None /\ consumed'[d] = consumed[d]
         /\ consumed[d] # None /\ clock' < consumed[d].expiresAt
               => consumed'[d] = consumed[d]
  <2> SUFFICES ASSUME NEW d \in Challenge \ {c}
               PROVE  /\ granted'[d] = granted[d]
                      /\ issued'[d] # None => issued[d] # None /\ issued'[d] = issued[d]
                      /\ consumed'[d] # None => consumed[d] # None /\ consumed'[d] = consumed[d]
                      /\ consumed[d] # None /\ clock' < consumed[d].expiresAt
                            => consumed'[d] = consumed[d]
    OBVIOUS
  <2>1. consumed[d] # None => consumed[d].expiresAt \in Nat
    BY DEF ChallengeRecord
  <2> QED
    BY <1>3, <1>4, <2>1, EvictDrops
<1>6. issued'[c] = None /\ consumed'[c] = spent /\ granted'[c] = {r}
  BY <1>1, <1>3, <1>4
<1>7. Holdings'
  <2>1. ASSUME NEW d \in Challenge \ {c}
        PROVE  /\ issued'[d] # None =>
                    /\ handed[d] # None /\ granted'[d] = {} /\ d \notin lost
                    /\ issued'[d].status = "issued"
                    /\ issued'[d].expiresAt = handed[d].expiresAt
               /\ consumed'[d] # None =>
                    /\ handed[d] # None /\ granted'[d] # {}
                    /\ consumed'[d].expiresAt = handed[d].expiresAt
               /\ granted'[d] # {} => handed[d] # None
    BY <1>5
  <2>2. /\ handed[c] # None /\ granted'[c] # {} /\ issued'[c] = None
        /\ consumed'[c].expiresAt = handed[c].expiresAt
    BY <1>1, <1>2, <1>6
  <2> QED
    BY <2>1, <2>2
<1>8. SingleUse'
  BY <1>5, <1>6
<1>9. SpentStaysSpent'
  <2> SUFFICES ASSUME NEW d \in Challenge, granted'[d] # {}, d \notin lost,
                      clock' < handed[d].expiresAt
               PROVE  issued'[d] = None /\ consumed'[d] # None
    OBVIOUS
  <2>1. CASE d = c
    BY <1>2, <1>6, <2>1
  <2>2. CASE d # c
    <3>1. handed[d] \in Handout
      BY <1>5, <2>2
    <3>2. handed[d].expiresAt \in Nat
      BY <3>1 DEF Handout
    <3>3. issued[d] = None /\ consumed[d] # None
      BY <1>5, <2>2, <3>2
    <3> QED
      BY <1>5, <2>2, <3>3
  <2> QED
    BY <2>1, <2>2
<1>10. clock' < handed[c].expiresAt
  <2>1. handed[c].expiresAt \in Nat
    BY <1>1 DEF Handout
  <2> QED
    BY <1>1, <2>1
<1>11. StoreInv'
  BY <1>7, <1>8, <1>9
<1> QED
  BY <1>1, <1>10, <1>11

(* The passkey update touches a record that is still issued, or nothing.     *)
LEMMA AttachKeeps ==
    ASSUME TypeInv, TypeInv', StoreInv, NEW c, NEW u \in Updater,
           issued' = Attach(Evict(issued, clock), c, u),
           consumed' = Evict(consumed, clock),
           UNCHANGED <<clock, handed, lost, granted>>
    PROVE  StoreInv'
<1> USE DEF TypeInv, TypeOK, Holdings, SingleUse, SpentStaysSpent,
            Register!SingleUse, StoreInv
<1> DEFINE evicted == Evict(issued, clock)
<1>1. /\ evicted \in [Challenge -> ChallengeRecord \cup {None}]
      /\ Evict(consumed, clock) \in [Challenge -> ChallengeRecord \cup {None}]
  BY EvictDrops
<1>2. \A d \in Challenge : evicted[d] # None => evicted[d] = issued[d]
  BY EvictDrops
<1> HIDE DEF evicted
<1>3. issued' = IF evicted[c] = None THEN evicted
                ELSE [evicted EXCEPT ![c].auth = u]
  BY DEF Attach, evicted
<1>4. \A d \in Challenge :
         issued'[d] # None =>
            /\ issued[d] # None
            /\ issued'[d].status = issued[d].status
            /\ issued'[d].expiresAt = issued[d].expiresAt
  <2> SUFFICES ASSUME NEW d \in Challenge, issued'[d] # None
               PROVE  /\ issued[d] # None
                      /\ issued'[d].status = issued[d].status
                      /\ issued'[d].expiresAt = issued[d].expiresAt
    OBVIOUS
  <2>1. CASE issued'[d] = evicted[d]
    BY <1>2, <2>1
  <2>2. CASE issued'[d] # evicted[d]
    <3>1. d = c /\ evicted[d] # None /\ issued'[d] = [evicted[d] EXCEPT !.auth = u]
      BY <1>1, <1>3, <2>2
    <3>2. evicted[d] \in ChallengeRecord
      BY <1>1, <3>1
    <3> QED
      BY <1>2, <3>1, <3>2 DEF ChallengeRecord
  <2> QED
    BY <2>1, <2>2
<1>5. \A d \in Challenge :
         /\ consumed'[d] # None => consumed[d] # None /\ consumed'[d] = consumed[d]
         /\ consumed[d] # None /\ clock < consumed[d].expiresAt
               => consumed'[d] = consumed[d]
  <2> SUFFICES ASSUME NEW d \in Challenge
               PROVE  /\ consumed'[d] # None => consumed[d] # None /\ consumed'[d] = consumed[d]
                      /\ consumed[d] # None /\ clock < consumed[d].expiresAt
                            => consumed'[d] = consumed[d]
    OBVIOUS
  <2>1. consumed[d] # None => consumed[d].expiresAt \in Nat
    BY DEF ChallengeRecord
  <2> QED
    BY <2>1, EvictDrops
<1>6. Holdings'
  BY <1>4, <1>5
<1>7. SpentStaysSpent'
  BY <1>4, <1>5
<1> QED
  BY <1>6, <1>7

(* Time passing spoils no tombstone whose challenge is still in time.       *)
LEMMA TickKeeps == TypeInv /\ StoreInv /\ Tick => StoreInv'
<1> SUFFICES ASSUME TypeInv, StoreInv, Tick
             PROVE  StoreInv'
  OBVIOUS
<1> USE DEF TypeInv, TypeOK, Holdings, SingleUse, SpentStaysSpent,
            Register!SingleUse, StoreInv, Tick
<1>1. Holdings' /\ SingleUse'
  OBVIOUS
<1>2. ASSUME NEW c \in Challenge, granted[c] # {}, c \notin lost,
             clock' < handed[c].expiresAt
      PROVE  issued[c] = None /\ consumed[c] # None
  <2>1. handed[c].expiresAt \in Nat
    BY <1>2 DEF Handout
  <2> QED
    BY <1>2, <2>1
<1> QED
  BY <1>1, <1>2

(* A restart empties both maps: no challenge of before can be won again.    *)
LEMMA RestartKeeps == TypeInv /\ StoreInv /\ Restart => StoreInv'
<1> SUFFICES ASSUME TypeInv, StoreInv, Restart
             PROVE  StoreInv'
  OBVIOUS
<1>1. /\ issued' = [c \in Challenge |-> None]
      /\ consumed' = [c \in Challenge |-> None]
      /\ lost' = {c \in Challenge : handed[c] # None}
      /\ clock' = clock /\ handed' = handed /\ granted' = granted
  BY Zenon DEF Restart
<1> QED
  BY <1>1 DEF TypeInv, TypeOK, Holdings, SingleUse, SpentStaysSpent,
              Register!SingleUse, StoreInv

(* The maps and the history stay in line in every step, and a step that      *)
(* grants a challenge does so in time.                                       *)
LEMMA StoreStep ==
    ASSUME TypeInv, TypeInv', StoreInv, [Next]_vars
    PROVE  /\ StoreInv'
           /\ \A c \in Challenge :
                 granted'[c] # granted[c] => clock' < handed[c].expiresAt
<1>1. CASE Tick
  BY <1>1, TickKeeps DEF Tick
<1>2. ASSUME NEW c \in Challenge, NEW a \in Audience, NEW l \in Lifetimes,
             NEW p \in BOOLEAN,
             IssueChallenge(c, [audience |-> a, expiresAt |-> clock + l,
                                passkey |-> p])
      PROVE  StoreInv' /\ granted' = granted
  <2>1. [audience |-> a, expiresAt |-> clock + l, passkey |-> p] \in Handout
    BY MemoryBounds DEF TypeInv, TypeOK, Handout
  <2> QED
    BY <1>2, <2>1, IssueKeeps DEF IssueChallenge
<1>3. ASSUME NEW r \in Request, Arrive(r)
      PROVE  StoreInv' /\ granted' = granted
  <2>1. PICK c \in Challenge, origin \in Audience,
             match \in {"same", "nonce", "request"}, a \in Updater \cup {None} :
           ReadChallenge(r, Present(c, handed[c], match, a), origin)
    BY <1>3 DEF Arrive, Assertions
  <2> QED
    BY <2>1, EvictKeeps DEF ReadChallenge, TypeInv, TypeOK
<1>4. ASSUME NEW r \in Request, NEW later \in {clock, clock + 1},
             ValidateAndConsume(r, later)
      PROVE  /\ StoreInv'
             /\ \A c \in Challenge :
                   granted'[c] # granted[c] => clock' < handed[c].expiresAt
  <2> DEFINE c == req[r].env.challenge
  <2>1. /\ clock' = later /\ later \in Nat /\ clock <= later
        /\ UNCHANGED <<handed, lost>>
    BY <1>4 DEF ValidateAndConsume, TypeInv, TypeOK
  <2>2. CASE later = clock /\ UNCHANGED <<store, granted>>
    <3>1. UNCHANGED <<issued, consumed, granted, clock, handed, lost>>
      BY <2>1, <2>2 DEF store
    <3> QED
      BY <3>1 DEF StoreInv, Holdings, SingleUse, SpentStaysSpent, Register!SingleUse
  <2>3. CASE Evict(issued, later)[c] # None /\ Consume(r, c, later)
    <3>1. c \in Challenge
      BY <1>4 DEF ValidateAndConsume, TypeInv, TypeOK, EnvelopeHeld, ReqState, Envelope
    <3> HIDE DEF c
    <3>2. StoreInv' /\ clock' < handed[c].expiresAt
      BY <2>1, <2>3, <3>1, ConsumeKeeps
    <3>3. \A d \in Challenge \ {c} : granted'[d] = granted[d]
      BY <2>3, <3>1 DEF Consume, TypeInv, TypeOK
    <3> QED
      BY <3>2, <3>3
  <2>4. CASE EvictBoth(later) /\ UNCHANGED granted
    BY <2>1, <2>4, EvictKeeps
  <2> QED
    BY <1>4, <2>2, <2>3, <2>4 DEF ValidateAndConsume
<1>5. ASSUME NEW r \in Request, VerifyProof(r)
      PROVE  StoreInv' /\ granted' = granted
  BY <1>5 DEF VerifyProof, store, StoreInv, Holdings, SingleUse,
              SpentStaysSpent, Register!SingleUse
<1>6. ASSUME NEW u \in Updater, NEW c \in Challenge, NEW origin \in Audience,
             BeginOptions(u, c, origin)
      PROVE  StoreInv' /\ granted' = granted
  BY <1>6, EvictKeeps DEF BeginOptions, TypeInv, TypeOK
<1>7. ASSUME NEW u \in Updater, FinishOptions(u)
      PROVE  StoreInv' /\ granted' = granted
  <2>1. UNCHANGED <<clock, handed, lost, granted>>
    BY <1>7 DEF FinishOptions
  <2>2. CASE UNCHANGED store
    BY <2>1, <2>2 DEF store, StoreInv, Holdings, SingleUse, SpentStaysSpent,
                      Register!SingleUse
  <2>3. CASE /\ issued' = Attach(Evict(issued, clock), opt[u].challenge, u)
             /\ consumed' = Evict(consumed, clock)
    BY <2>1, <2>3, AttachKeeps
  <2> QED
    BY <1>7, <2>1, <2>2, <2>3 DEF FinishOptions
<1>8. CASE Restart
  BY <1>8, RestartKeeps DEF Restart
<1>9. CASE UNCHANGED vars
  BY <1>9 DEF vars, StoreInv, Holdings, SingleUse, SpentStaysSpent,
              Register!SingleUse
<1> QED
  BY <1>1, <1>2, <1>3, <1>4, <1>5, <1>6, <1>7, <1>8, <1>9 DEF Next, HandlerStep

Inv == TypeInv /\ StoreInv

(* The inductive invariant of the verifier.                                  *)
THEOREM InvHolds == Spec => []Inv
<1>1. Init => Inv
  BY TypeInit, StoreInit DEF Inv
<1>2. Inv /\ [Next]_vars => Inv'
  BY TypeStep, StoreStep DEF Inv
<1> QED
  BY <1>1, <1>2, PTL DEF Spec

(* However presentations, passkey updates and restarts interleave, at most   *)
(* one presentation of a challenge gets past consume().                      *)
THEOREM SingleUseHolds == Spec => []SingleUse
<1>1. Inv => SingleUse
  BY DEF Inv, StoreInv
<1> QED
  BY <1>1, InvHolds, PTL

(* A spent challenge stays out of the issued map, and its tombstone in the   *)
(* other one until its time is up.                                           *)
THEOREM SpentStaysSpentHolds == Spec => []SpentStaysSpent
<1>1. Inv => SpentStaysSpent
  BY DEF Inv, StoreInv
<1> QED
  BY <1>1, InvHolds, PTL

(* consume() never lets a presentation through at or after the expiry of its *)
(* challenge.                                                                *)
THEOREM GrantInTimeHolds == Spec => GrantInTime
<1>1. Inv /\ Inv' /\ [Next]_vars =>
         [\A c \in Challenge :
             granted'[c] # granted[c] => clock' < handed[c].expiresAt]_vars
  BY StoreStep DEF Inv
<1> QED
  BY <1>1, InvHolds, PTL DEF Spec, GrantInTime

-----------------------------------------------------------------------------
(* The handlers against the history: who has not consumed was not granted,   *)
(* and a record read as consumed is one somebody was granted.                *)
Reading ==
    \A r \in Request :
        /\ req[r].pc \in {"idle", "read"} =>
              /\ req[r].answer # "challenge_replay"
              /\ \A c \in Challenge : r \notin granted[c]
        /\ /\ req[r].pc = "read"
           /\ req[r].rec # None
           /\ req[r].rec.status = "consumed"
           => granted[req[r].env.challenge] # {}

ReplyInv == Reading /\ ReplayHasWinner

(* No handler is reading, and nobody was refused as a replay, at the start. *)
LEMMA ReplyInit == Init => ReplyInv
BY NoneIsOutside DEF Refusal, Init, ReplyInv, Reading, ReplayHasWinner, IdleReq

(* A handler that answers without having consumed tells a replay only where  *)
(* somebody was granted the challenge.                                       *)
LEMMA AnswerKeeps ==
    ASSUME TypeInv, ReplyInv, NEW r \in Request, NEW a, Answer(r, a),
           UNCHANGED granted,
           a = "challenge_replay" =>
              granted[req[r].env.challenge] \ {r} # {}
    PROVE  ReplyInv'
<1>1. /\ \A q \in Request \ {r} : req'[q] = req[q]
      /\ req'[r].pc = "done" /\ req'[r].answer = a /\ req'[r].env = req[r].env
  <2> DEFINE state == [req[r] EXCEPT !.pc = "done", !.rec = None, !.answer = a]
  <2>1. state.pc = "done" /\ state.answer = a /\ state.env = req[r].env
    BY DEF TypeInv, TypeOK, ReqState
  <2>2. req' = [req EXCEPT ![r] = state]
    BY DEF Answer, TypeInv, TypeOK
  <2> HIDE DEF state
  <2> QED
    BY <2>1, <2>2 DEF TypeInv, TypeOK
<1> QED
  BY <1>1 DEF ReplyInv, Reading, ReplayHasWinner

(* Every step keeps a replay refusal backed by an earlier winner.           *)
LEMMA ReplyStep ==
    ASSUME TypeInv, TypeInv', StoreInv, StoreInv', ReplyInv, [Next]_vars
    PROVE  ReplyInv'
<1>1. CASE UNCHANGED <<req, granted>>
  BY <1>1 DEF ReplyInv, Reading, ReplayHasWinner
<1>2. ASSUME NEW r \in Request, Arrive(r)
      PROVE  ReplyInv'
  <2>1. PICK c \in Challenge, origin \in Audience,
             match \in {"same", "nonce", "request"}, a \in Updater \cup {None} :
           /\ handed[c] # None
           /\ ReadChallenge(r, Present(c, handed[c], match, a), origin)
    BY <1>2 DEF Arrive, Assertions
  <2> DEFINE env == Present(c, handed[c], match, a)
             state == [pc |-> "read", env |-> env, origin |-> origin,
                       rec |-> Get(issued', consumed', env.challenge),
                       answer |-> None]
  <2>2. /\ req[r].pc = "idle" /\ req' = [req EXCEPT ![r] = state]
        /\ granted' = granted
    BY <2>1 DEF ReadChallenge
  <2>3. state.rec = (IF issued'[c] # None THEN issued'[c] ELSE consumed'[c])
        /\ state.env.challenge = c
    BY DEF Get, Present
  <2>4. state.rec # None /\ state.rec.status = "consumed" => granted[c] # {}
    BY <2>2, <2>3 DEF StoreInv, Holdings
  <2>5. state.pc = "read" /\ state.answer = None
    OBVIOUS
  <2>6. None # "challenge_replay"
    BY NoneIsOutside DEF Refusal
  <2> HIDE DEF state
  <2>7. /\ \A q \in Request \ {r} : req'[q] = req[q]
        /\ req'[r] = state
    BY <2>2 DEF TypeInv, TypeOK
  <2> QED
    BY <2>2, <2>3, <2>4, <2>5, <2>6, <2>7 DEF ReplyInv, Reading, ReplayHasWinner
<1>3. ASSUME NEW r \in Request, NEW later \in {clock, clock + 1},
             ValidateAndConsume(r, later)
      PROVE  ReplyInv'
  <2> DEFINE c == req[r].env.challenge
             verdict == Validate(req[r].rec, req[r].env, req[r].origin, clock)
  <2>1. /\ c \in Challenge
        /\ req[r].pc = "read" /\ r \notin granted[c]
    BY <1>3 DEF ValidateAndConsume, TypeInv, TypeOK, EnvelopeHeld, ReqState,
                Envelope, ReplyInv, Reading
  <2>2. CASE Answer(r, verdict) /\ UNCHANGED <<store, granted>>
    <3>1. verdict = "challenge_replay" =>
             req[r].rec # None /\ req[r].rec.status = "consumed"
      BY DEF Validate, InferMissing
    <3>2. verdict = "challenge_replay" => granted[c] \ {r} # {}
      BY <2>1, <3>1 DEF ReplyInv, Reading
    <3> HIDE DEF verdict
    <3> QED
      BY <2>2, <3>2, AnswerKeeps
  <2>3. CASE /\ Consume(r, c, later)
             /\ req' = [req EXCEPT ![r].pc = "proving", ![r].rec = consumed'[c]]
    <3>1. /\ \A q \in Request \ {r} : req'[q] = req[q]
          /\ req'[r].pc = "proving" /\ req'[r].answer = req[r].answer
          /\ req'[r].env = req[r].env
      BY <2>3 DEF TypeInv, TypeOK, ReqState
    <3> HIDE DEF c
    <3>2. \A d \in Challenge :
             granted[d] \subseteq granted'[d] /\ granted'[d] \subseteq granted[d] \cup {r}
      BY <2>1, <2>3 DEF Consume, TypeInv, TypeOK
    <3>3. \A q \in Request : req[q].pc # "idle" => req[q].env.challenge \in Challenge
      BY DEF TypeInv, TypeOK, EnvelopeHeld, ReqState, Envelope
    <3>4. Reading'
      BY <2>1, <3>1, <3>2, <3>3 DEF ReplyInv, Reading
    <3>5. ReplayHasWinner'
      BY <2>1, <3>1, <3>2, <3>3 DEF ReplyInv, Reading, ReplayHasWinner
    <3> QED
      BY <3>4, <3>5 DEF ReplyInv
  <2>4. CASE /\ Answer(r, NotConsumed(r, consumed'[c]))
             /\ UNCHANGED granted
    <3>1. NotConsumed(r, consumed'[c]) = "challenge_replay" => consumed'[c] # None
      BY DEF NotConsumed, InferMissing
    <3>2. NotConsumed(r, consumed'[c]) = "challenge_replay" => granted[c] \ {r} # {}
      BY <2>1, <2>4, <3>1 DEF StoreInv, Holdings
    <3> QED
      BY <2>4, <3>2, AnswerKeeps
  <2> QED
    BY <1>3, <2>2, <2>3, <2>4 DEF ValidateAndConsume
<1>4. ASSUME NEW r \in Request, VerifyProof(r)
      PROVE  ReplyInv'
  <2>1. PICK v \in {"verified", "proof_failed"} : Answer(r, v)
    BY <1>4 DEF VerifyProof, ProofVerdicts
  <2> QED
    BY <1>4, <2>1, AnswerKeeps DEF VerifyProof
<1>5. CASE Restart
  <2> DEFINE cut(q) == [req[q] EXCEPT !.pc = "done", !.rec = None, !.answer = "lost"]
  <2>1. \A q \in Request : cut(q).pc = "done" /\ cut(q).answer = "lost"
    BY DEF TypeInv, TypeOK, ReqState
  <2>2. /\ req' = [q \in Request |->
                    IF req[q].pc \in {"idle", "done"} THEN req[q] ELSE cut(q)]
        /\ granted' = granted
    BY <1>5 DEF Restart
  <2> HIDE DEF cut
  <2> QED
    BY <2>1, <2>2 DEF ReplyInv, Reading, ReplayHasWinner
<1> QED
  BY <1>1, <1>2, <1>3, <1>4, <1>5
     DEF Next, HandlerStep, Tick, IssueChallenge, BeginOptions, FinishOptions, vars

(* No challenge is burned without a winner: a presentation is told "already  *)
(* consumed" only if another one was let through.                            *)
THEOREM ReplayHasWinnerHolds == Spec => []ReplayHasWinner
<1>1. Init => ReplyInv
  BY ReplyInit
<1>2. Inv /\ Inv' /\ ReplyInv /\ [Next]_vars => ReplyInv'
  BY ReplyStep DEF Inv
<1>3. ReplyInv => ReplayHasWinner
  BY DEF ReplyInv
<1> QED
  BY <1>1, <1>2, <1>3, InvHolds, PTL DEF Spec

-----------------------------------------------------------------------------
(* What is handed out and in time is in one of the maps; and a handler that  *)
(* has read nothing has read it too late, or of an earlier process.          *)
InTime(c) == handed[c] # None /\ c \notin lost /\ clock < handed[c].expiresAt

Kept == \A c \in Challenge : InTime(c) => issued[c] # None \/ consumed[c] # None

AwareOf(r) ==
    LET c == req[r].env.challenge IN
    req[r].pc = "read" =>
        /\ handed[c] # None
        /\ req[r].rec = None => ~InTime(c)

Aware == \A r \in Request : AwareOf(r)

(* A step that leaves every record in time in one of the maps keeps them.    *)
LEMMA RecordsStay ==
    ASSUME TypeInv, StoreInv, Kept, clock' \in Nat, clock <= clock',
           UNCHANGED <<handed, lost>>,
           \A c \in Challenge :
              /\ (issued[c] # None /\ ~(issued[c].expiresAt <= clock'))
                    => issued'[c] # None \/ consumed'[c] # None
              /\ (consumed[c] # None /\ ~(consumed[c].expiresAt <= clock'))
                    => consumed'[c] # None
    PROVE  Kept'
<1> SUFFICES ASSUME NEW c \in Challenge, InTime(c)'
             PROVE  issued'[c] # None \/ consumed'[c] # None
  BY DEF Kept
<1>1. /\ handed[c] # None /\ c \notin lost /\ clock' < handed[c].expiresAt
      /\ handed[c].expiresAt \in Nat /\ clock \in Nat
  BY DEF InTime, TypeInv, TypeOK, Handout
<1>2. InTime(c) /\ ~(handed[c].expiresAt <= clock')
  BY <1>1 DEF InTime
<1> QED
  BY <1>1, <1>2 DEF Kept, StoreInv, Holdings

(* No step takes a handout back, turns the time back or forgets a restart.   *)
LEMMA HandoutsStay ==
    ASSUME TypeInv, [Next]_vars, NEW c \in Challenge, handed[c] # None
    PROVE  /\ clock' \in {clock, clock + 1}
           /\ handed'[c] = handed[c]
           /\ c \in lost => c \in lost'
<1>1. CASE Tick
  BY <1>1 DEF Tick
<1>2. CASE \E d \in Challenge, a \in Audience, l \in Lifetimes, p \in BOOLEAN :
              IssueChallenge(d, [audience |-> a, expiresAt |-> clock + l,
                                 passkey |-> p])
  BY <1>2 DEF IssueChallenge, TypeInv, TypeOK
<1>3. CASE \E r \in Request : Arrive(r)
  BY <1>3 DEF Arrive, ReadChallenge
<1>4. CASE \E r \in Request : HandlerStep(r)
  BY <1>4 DEF HandlerStep, ValidateAndConsume, VerifyProof
<1>5. CASE \E u \in Updater, d \in Challenge, origin \in Audience :
              BeginOptions(u, d, origin)
  BY <1>5 DEF BeginOptions
<1>6. CASE \E u \in Updater : FinishOptions(u)
  BY <1>6 DEF FinishOptions
<1>7. CASE Restart
  <2>1. /\ lost' = {d \in Challenge : handed[d] # None}
        /\ clock' = clock /\ handed' = handed
    BY <1>7, Zenon DEF Restart
  <2> QED
    BY <2>1 DEF TypeInv, TypeOK
<1>8. CASE UNCHANGED vars
  BY <1>8 DEF vars
<1> QED
  BY <1>1, <1>2, <1>3, <1>4, <1>5, <1>6, <1>7, <1>8 DEF Next

(* A challenge that is not in time stays so.                                 *)
LEMMA LateStays ==
    ASSUME TypeInv, [Next]_vars, NEW c \in Challenge, handed[c] # None, ~InTime(c)
    PROVE  ~InTime(c)'
<1>1. clock \in Nat /\ handed[c].expiresAt \in Nat
  BY DEF TypeInv, TypeOK, Handout
<1> QED
  BY <1>1, HandoutsStay DEF InTime

(* Handlers that do not read in this step stay aware.                        *)
LEMMA AwareStays ==
    ASSUME TypeInv, [Next]_vars, NEW r \in Request, AwareOf(r),
           req'[r] = req[r] \/ req'[r].pc # "read"
    PROVE  AwareOf(r)'
<1>1. CASE req'[r] = req[r] /\ req[r].pc = "read"
  <2>1. PICK c \in Challenge : c = req[r].env.challenge
    BY <1>1 DEF TypeInv, TypeOK, EnvelopeHeld, ReqState, Envelope
  <2>2. handed[c] # None /\ (req[r].rec = None => ~InTime(c))
    BY <1>1, <2>1 DEF AwareOf
  <2>3. handed'[c] # None /\ (req[r].rec = None => ~InTime(c)')
    BY <2>2, HandoutsStay, LateStays
  <2> QED
    BY <1>1, <2>1, <2>3 DEF AwareOf, InTime
<1> QED
  BY <1>1 DEF AwareOf

(* Nothing is held, and nobody is reading, at the start.                     *)
LEMMA AwareInit == Init => Kept /\ Aware
BY DEF Init, Kept, Aware, AwareOf, InTime, IdleReq

(* The maps keep what is in time, and the handlers what they know, and only  *)
(* a presentation that is late, or of an earlier process, is called unknown. *)
LEMMA AwareStep ==
    ASSUME TypeInv, TypeInv', StoreInv, StoreInv', Kept, Aware, [Next]_vars
    PROVE  /\ Kept' /\ Aware'
           /\ \A r \in Request :
                 LET c == req'[r].env.challenge IN
                 /\ req[r].answer # "unknown_challenge"
                 /\ req'[r].answer = "unknown_challenge"
                 => c \in lost \/ handed[c].expiresAt <= clock'
<1> DEFINE Told(r) ==
             LET c == req'[r].env.challenge IN
             /\ req[r].answer # "unknown_challenge"
             /\ req'[r].answer = "unknown_challenge"
             => c \in lost \/ handed[c].expiresAt <= clock'
           Quiet(r) == req'[r] = req[r] \/ (req'[r].pc # "read"
                                        /\ req'[r].answer # "unknown_challenge")
<1>1. ASSUME NEW r \in Request, Quiet(r)
      PROVE  AwareOf(r)' /\ Told(r)
  BY <1>1, AwareStays DEF Aware
<1>2. ASSUME EvictBoth(clock'), UNCHANGED <<handed, lost>>, clock' \in Nat,
             clock <= clock'
      PROVE  Kept'
  BY <1>2, RecordsStay, EvictDrops DEF EvictBoth, TypeInv, TypeOK
<1>3. CASE Tick
  <2>1. Kept'
    BY <1>3, RecordsStay DEF Tick, TypeInv, TypeOK
  <2> QED
    BY <1>1, <1>3, <2>1 DEF Tick, Aware
<1>4. ASSUME NEW c \in Challenge, NEW a \in Audience, NEW l \in Lifetimes,
             NEW p \in BOOLEAN,
             IssueChallenge(c, [audience |-> a, expiresAt |-> clock + l,
                                passkey |-> p])
      PROVE  Kept' /\ req' = req
  <2> DEFINE h == [audience |-> a, expiresAt |-> clock + l, passkey |-> p]
  <2>1. /\ handed[c] = None
        /\ handed' = [handed EXCEPT ![c] = h]
        /\ issued' = [Evict(issued, clock) EXCEPT ![c] = ToChallengeRecord(h)]
        /\ consumed' = Evict(consumed, clock)
        /\ UNCHANGED <<clock, lost, req>>
    BY <1>4 DEF IssueChallenge
  <2>2. h \in Handout
    BY MemoryBounds DEF TypeInv, TypeOK, Handout
  <2>3. ToChallengeRecord(h) # None
    BY <2>2, StoredType, NoneIsOutside
  <2> HIDE DEF h
  <2>4. SUFFICES ASSUME NEW d \in Challenge, InTime(d)'
                 PROVE  issued'[d] # None \/ consumed'[d] # None
    BY <2>1 DEF Kept
  <2>5. CASE d = c
    BY <2>1, <2>3, <2>5, EvictDrops DEF TypeInv, TypeOK
  <2>6. CASE d # c
    <3>1. InTime(d) /\ handed[d].expiresAt \in Nat /\ clock \in Nat
      BY <2>1, <2>4, <2>6 DEF InTime, TypeInv, TypeOK, Handout
    <3>2. /\ issued[d] # None => ~(issued[d].expiresAt <= clock)
          /\ consumed[d] # None => ~(consumed[d].expiresAt <= clock)
      BY <3>1 DEF InTime, StoreInv, Holdings
    <3>3. /\ issued[d] # None => Evict(issued, clock)[d] = issued[d]
          /\ consumed[d] # None => Evict(consumed, clock)[d] = consumed[d]
      BY <3>2, EvictDrops DEF TypeInv, TypeOK
    <3>4. issued'[d] = Evict(issued, clock)[d]
      BY <2>1, <2>6, EvictDrops DEF TypeInv, TypeOK
    <3> QED
      BY <2>1, <3>1, <3>3, <3>4 DEF Kept
  <2> QED
    BY <2>5, <2>6
<1>5. ASSUME NEW r \in Request, Arrive(r)
      PROVE  Kept' /\ Aware' /\ \A q \in Request : Told(q)
  <2>1. PICK c \in Challenge, origin \in Audience,
             match \in {"same", "nonce", "request"}, a \in Updater \cup {None} :
           /\ handed[c] # None
           /\ ReadChallenge(r, Present(c, handed[c], match, a), origin)
    BY <1>5 DEF Arrive, Assertions
  <2> DEFINE env == Present(c, handed[c], match, a)
             state == [pc |-> "read", env |-> env, origin |-> origin,
                       rec |-> Get(issued', consumed', env.challenge),
                       answer |-> None]
  <2>2. /\ req' = [req EXCEPT ![r] = state] /\ EvictBoth(clock)
        /\ UNCHANGED <<clock, handed, lost>>
    BY <2>1 DEF ReadChallenge
  <2>3. Kept'
    BY <1>2, <2>2 DEF TypeInv, TypeOK
  <2>4. /\ state.env.challenge = c /\ state.pc = "read"
        /\ state.rec = (IF issued'[c] # None THEN issued'[c] ELSE consumed'[c])
        /\ state.answer # "unknown_challenge"
    BY NoneIsOutside DEF Get, Present, Refusal
  <2> HIDE DEF state
  <2>5. /\ \A q \in Request \ {r} : req'[q] = req[q]
        /\ req'[r] = state
    BY <2>2 DEF TypeInv, TypeOK
  <2>6. AwareOf(r)' /\ Told(r)
    BY <2>1, <2>2, <2>3, <2>4, <2>5 DEF AwareOf, Kept, InTime
  <2> QED
    BY <1>1, <2>3, <2>5, <2>6 DEF Aware
<1>6. ASSUME NEW r \in Request, NEW later \in {clock, clock + 1},
             ValidateAndConsume(r, later)
      PROVE  Kept' /\ Aware' /\ \A q \in Request : Told(q)
  <2> DEFINE c == req[r].env.challenge
             verdict == Validate(req[r].rec, req[r].env, req[r].origin, clock)
  <2>1. /\ c \in Challenge /\ req[r].pc = "read"
        /\ clock' = later /\ later \in Nat /\ clock <= later
        /\ UNCHANGED <<handed, lost>>
    BY <1>6 DEF ValidateAndConsume, TypeInv, TypeOK, EnvelopeHeld, ReqState, Envelope
  <2>2. handed[c] # None /\ (req[r].rec = None => ~InTime(c))
    BY <2>1 DEF Aware, AwareOf
  <2>3. ASSUME NEW answer, Answer(r, answer),
               answer = "unknown_challenge" =>
                  c \in lost \/ handed[c].expiresAt <= clock'
        PROVE  Aware' /\ \A q \in Request : Told(q)
    <3>1. /\ \A q \in Request \ {r} : req'[q] = req[q]
          /\ req'[r].pc = "done" /\ req'[r].answer = answer /\ req'[r].env = req[r].env
      <4> DEFINE state == [req[r] EXCEPT !.pc = "done", !.rec = None, !.answer = answer]
      <4>1. state.pc = "done" /\ state.answer = answer /\ state.env = req[r].env
        BY DEF TypeInv, TypeOK, ReqState
      <4>2. req' = [req EXCEPT ![r] = state]
        BY <2>3 DEF Answer, TypeInv, TypeOK
      <4> HIDE DEF state
      <4> QED
        BY <4>1, <4>2 DEF TypeInv, TypeOK
    <3>2. AwareOf(r)' /\ Told(r)
      BY <2>3, <3>1 DEF AwareOf
    <3> QED
      BY <1>1, <3>1, <3>2 DEF Aware
  <2>4. CASE /\ Answer(r, verdict) /\ later = clock
             /\ UNCHANGED <<store, granted>>
    <3>1. verdict = "unknown_challenge" => req[r].rec = None
      BY DEF Validate, InferMissing
    <3>2. handed[c].expiresAt \in Nat /\ clock \in Nat
      BY <2>1, <2>2 DEF TypeInv, TypeOK, Handout
    <3>3. verdict = "unknown_challenge" =>
             c \in lost \/ handed[c].expiresAt <= clock'
      BY <2>1, <2>2, <2>4, <3>1, <3>2 DEF InTime
    <3>4. Kept'
      BY <2>1, <2>4 DEF store, Kept, InTime
    <3> HIDE DEF verdict, c
    <3> QED
      BY <2>3, <2>4, <3>3, <3>4
  <2>5. CASE /\ Evict(issued, later)[c] # None
             /\ Consume(r, c, later)
             /\ req' = [req EXCEPT ![r].pc = "proving", ![r].rec = consumed'[c]]
    <3>1. /\ \A q \in Request \ {r} : req'[q] = req[q]
          /\ req'[r].pc = "proving" /\ req'[r].answer = req[r].answer
      BY <2>5 DEF TypeInv, TypeOK, ReqState
    <3>2. \A q \in Request : AwareOf(q)' /\ Told(q)
      BY <1>1, <3>1 DEF AwareOf
    <3> HIDE DEF c
    <3>3. consumed'[c] # None
      <4>1. consumed'[c] \in ChallengeRecord
        BY <2>1, <2>5, ConsumeType DEF TypeInv
      <4> QED
        BY <4>1, NoneIsOutside
    <3>4. \A d \in Challenge \ {c} :
             /\ issued'[d] = Evict(issued, later)[d]
             /\ consumed'[d] = Evict(consumed, later)[d]
      BY <2>1, <2>5, EvictDrops DEF Consume, TypeInv, TypeOK
    <3>5. Kept'
      BY <2>1, <3>3, <3>4, RecordsStay, EvictDrops DEF TypeInv, TypeOK
    <3> QED
      BY <3>2, <3>5 DEF Aware
  <2>6. CASE /\ Evict(issued, later)[c] = None
             /\ EvictBoth(later)
             /\ Answer(r, NotConsumed(r, consumed'[c]))
    <3>1. Kept'
      BY <1>2, <2>1, <2>6
    <3>2. NotConsumed(r, consumed'[c]) = "unknown_challenge" => consumed'[c] = None
      BY DEF NotConsumed, InferMissing
    <3>3. PICK d \in Challenge : d = c
      BY <2>1
    <3>4. consumed'[d] = None => ~InTime(d)'
      BY <2>6, <3>1, <3>3 DEF Kept, EvictBoth
    <3>5. handed[d].expiresAt \in Nat
      BY <2>2, <3>3 DEF TypeInv, TypeOK, Handout
    <3>6. consumed'[d] = None => d \in lost \/ handed[d].expiresAt <= clock'
      BY <2>1, <2>2, <3>3, <3>4, <3>5 DEF InTime
    <3>7. NotConsumed(r, consumed'[c]) = "unknown_challenge" =>
             c \in lost \/ handed[c].expiresAt <= clock'
      BY <3>2, <3>3, <3>6
    <3> QED
      BY <2>3, <2>6, <3>1, <3>7
  <2> QED
    BY <1>6, <2>4, <2>5, <2>6 DEF ValidateAndConsume
<1>7. ASSUME NEW r \in Request, VerifyProof(r)
      PROVE  Kept' /\ Aware' /\ \A q \in Request : Told(q)
  <2>1. PICK v \in {"verified", "proof_failed"} : Answer(r, v)
    BY <1>7 DEF VerifyProof, ProofVerdicts
  <2>2. \A q \in Request : Quiet(q)
    BY <2>1 DEF Answer, TypeInv, TypeOK, ReqState
  <2>3. Kept'
    BY <1>7 DEF VerifyProof, store, Kept, InTime
  <2> QED
    BY <1>1, <2>2, <2>3 DEF Aware
<1>8. ASSUME NEW u \in Updater, NEW c \in Challenge, NEW origin \in Audience,
             BeginOptions(u, c, origin)
      PROVE  Kept' /\ req' = req
  BY <1>2, <1>8 DEF BeginOptions, TypeInv, TypeOK
<1>9. ASSUME NEW u \in Updater, FinishOptions(u)
      PROVE  Kept' /\ req' = req
  <2> DEFINE c == opt[u].challenge
  <2>1. UNCHANGED <<clock, handed, lost, req>>
    BY <1>9 DEF FinishOptions
  <2>2. CASE UNCHANGED store
    BY <2>1, <2>2 DEF store, Kept, InTime
  <2>3. CASE /\ issued' = Attach(Evict(issued, clock), c, u)
             /\ consumed' = Evict(consumed, clock)
    <3> DEFINE evicted == Evict(issued, clock)
    <3>1. evicted \in [Challenge -> ChallengeRecord \cup {None}]
      BY EvictDrops DEF TypeInv, TypeOK
    <3>2. \A d \in Challenge : (issued[d] # None /\ ~(issued[d].expiresAt <= clock))
                                   => evicted[d] # None
      BY EvictDrops DEF TypeInv, TypeOK
    <3> HIDE DEF evicted, c
    <3>3. issued' = evicted \/ issued' = [evicted EXCEPT ![c].auth = u]
      BY <2>3 DEF Attach, evicted
    <3>4. \A d \in Challenge : evicted[d] # None => issued'[d] # None
      <4> SUFFICES ASSUME NEW d \in Challenge, evicted[d] # None
                   PROVE  issued'[d] # None
        OBVIOUS
      <4>1. evicted[d] \in ChallengeRecord
        BY <3>1
      <4>2. [evicted[d] EXCEPT !.auth = u] \in ChallengeRecord
        BY <4>1 DEF ChallengeRecord
      <4>3. issued'[d] = evicted[d] \/ issued'[d] = [evicted[d] EXCEPT !.auth = u]
        BY <3>1, <3>3
      <4> QED
        BY <4>1, <4>2, <4>3, NoneIsOutside
    <3>5. \A d \in Challenge : (consumed[d] # None /\ ~(consumed[d].expiresAt <= clock))
                                   => consumed'[d] # None
      BY <2>3, EvictDrops DEF TypeInv, TypeOK
    <3> QED
      BY <2>1, <3>2, <3>4, <3>5, RecordsStay DEF TypeInv, TypeOK
  <2> QED
    BY <1>9, <2>1, <2>2, <2>3 DEF FinishOptions
<1>10. CASE Restart
  <2> DEFINE cut(q) == [req[q] EXCEPT !.pc = "done", !.rec = None, !.answer = "lost"]
  <2>1. \A q \in Request : cut(q).pc = "done" /\ cut(q).answer = "lost"
    BY DEF TypeInv, TypeOK, ReqState
  <2>2. /\ req' = [q \in Request |->
                    IF req[q].pc \in {"idle", "done"} THEN req[q] ELSE cut(q)]
        /\ lost' = {d \in Challenge : handed[d] # None}
        /\ handed' = handed
    BY <1>10, Zenon DEF Restart
  <2> HIDE DEF cut
  <2>3. \A q \in Request : Quiet(q)
    BY <2>1, <2>2
  <2>4. Kept'
    BY <2>2 DEF Kept, InTime
  <2> QED
    BY <1>1, <2>3, <2>4 DEF Aware
<1>11. CASE UNCHANGED vars
  BY <1>1, <1>11 DEF vars, Kept, InTime, Aware
<1>12. ASSUME Kept', req' = req
       PROVE  Kept' /\ Aware' /\ \A q \in Request : Told(q)
  BY <1>1, <1>12 DEF Aware
<1> QED
  BY <1>3, <1>4, <1>5, <1>6, <1>7, <1>8, <1>9, <1>10, <1>11, <1>12
     DEF Next, HandlerStep

(* A challenge the running process has issued, and whose time is not up, is  *)
(* never called unknown, however get() and consume() interleave.             *)
THEOREM NoFalseUnknownHolds == Spec => NoFalseUnknown
<1>1. Init => Kept /\ Aware
  BY AwareInit
<1>2. Inv /\ Inv' /\ Kept /\ Aware /\ [Next]_vars => Kept' /\ Aware'
  BY AwareStep DEF Inv
<1>3. Inv /\ Inv' /\ Kept /\ Aware /\ [Next]_vars =>
         [\A r \in Request :
             LET c == req'[r].env.challenge IN
             /\ req[r].answer # "unknown_challenge"
             /\ req'[r].answer = "unknown_challenge"
             => c \in lost \/ handed[c].expiresAt <= clock']_vars
  BY AwareStep DEF Inv
<1> QED
  BY <1>1, <1>2, <1>3, InvHolds, PTL DEF Spec, NoFalseUnknown

-----------------------------------------------------------------------------
(* The refinement of ChallengeRegister.                                      *)

(* A step that issues and grants nothing can only let challenges lapse.      *)
LEMMA LapseStep ==
    ASSUME TypeInv, clock' \in Nat, clock <= clock', lost \subseteq lost',
           \A c \in Challenge : c \in lost' \ lost => handed[c] # None,
           UNCHANGED <<handed, granted>>
    PROVE  Register!Next
<1> DEFINE late == {c \in Challenge : PhaseOf(c)' # PhaseOf(c)}
<1>1. ASSUME NEW c \in Challenge
      PROVE  PhaseOf(c)' = PhaseOf(c) \/ (PhaseOf(c) = "open" /\ PhaseOf(c)' = "lapsed")
  <2>1. handed[c] # None => handed[c].expiresAt \in Nat
    BY DEF TypeInv, TypeOK, Handout
  <2> QED
    BY <2>1 DEF PhaseOf, TypeInv, TypeOK
<1>2. [c \in Challenge |-> PhaseOf(c)]' =
         [c \in Challenge |->
            IF c \in late /\ PhaseOf(c) = "open" THEN "lapsed" ELSE PhaseOf(c)]
  BY <1>1
<1>3. late \in SUBSET Challenge
  OBVIOUS
<1> HIDE DEF late
<1>4. Register!Lapse(late)
  BY <1>2 DEF Register!Lapse, Register!Lapsing
<1> QED
  BY <1>3, <1>4 DEF Register!Next

(* Issuing and writing records is what the abstract register calls issuing. *)
LEMMA IssueStep ==
    ASSUME Inv, Inv', NEW c \in Challenge, NEW h \in Handout, IssueChallenge(c, h)
    PROVE  Register!Next
<1> USE DEF Inv, TypeInv, TypeOK
<1>1. /\ handed[c] = None
      /\ handed' = [handed EXCEPT ![c] = h]
      /\ UNCHANGED <<clock, lost, granted>>
  BY DEF IssueChallenge
<1>2. granted[c] = {} /\ c \notin lost
  BY <1>1 DEF StoreInv, Holdings
<1>3. PhaseOf(c) = "fresh" /\ PhaseOf(c)' \in {"open", "lapsed"}
  <2>1. handed'[c] = h /\ h # None
    BY <1>1, NoneIsOutside
  <2> QED
    BY <1>1, <1>2, <2>1 DEF PhaseOf
<1>4. \A d \in Challenge \ {c} : PhaseOf(d)' = PhaseOf(d)
  BY <1>1 DEF PhaseOf
<1>5. [d \in Challenge |-> PhaseOf(d)]' =
         [[d \in Challenge |-> PhaseOf(d)] EXCEPT ![c] = PhaseOf(c)']
  BY <1>4
<1>6. [d \in Challenge |->
         IF d \in {} /\ [e \in Challenge |-> PhaseOf(e)][d] = "open" THEN "lapsed"
         ELSE [e \in Challenge |-> PhaseOf(e)][d]] = [d \in Challenge |-> PhaseOf(d)]
  OBVIOUS
<1>7. Register!Issue(c, {})
  BY <1>1, <1>3, <1>5, <1>6 DEF Register!Issue, Register!Lapsing
<1> QED
  BY <1>7 DEF Register!Next

(* consume() grants; challenges whose last instant passes meanwhile lapse.   *)
LEMMA GrantStep ==
    ASSUME Inv, Inv', NEW r \in Request, NEW c \in Challenge,
           granted' = [granted EXCEPT ![c] = @ \cup {r}],
           granted[c] = {}, handed[c] # None, c \notin lost,
           clock' < handed[c].expiresAt, clock <= clock',
           UNCHANGED <<handed, lost>>
    PROVE  Register!Next
<1> USE DEF Inv, TypeInv, TypeOK
<1> DEFINE late == {d \in Challenge \ {c} : PhaseOf(d)' # PhaseOf(d)}
<1>1. \A d \in Challenge : handed[d] # None => handed[d].expiresAt \in Nat
  BY DEF Handout
<1>2. PhaseOf(c) = "open" /\ PhaseOf(c)' = "spent"
  BY <1>1 DEF PhaseOf
<1>3. \A d \in Challenge \ {c} :
         PhaseOf(d)' = PhaseOf(d) \/ (PhaseOf(d) = "open" /\ PhaseOf(d)' = "lapsed")
  BY <1>1 DEF PhaseOf
<1>4. [d \in Challenge |-> PhaseOf(d)]' =
         [[d \in Challenge |->
             IF d \in late /\ PhaseOf(d) = "open" THEN "lapsed" ELSE PhaseOf(d)]
          EXCEPT ![c] = "spent"]
  BY <1>2, <1>3
<1>5. late \in SUBSET Challenge
  OBVIOUS
<1> HIDE DEF late
<1>6. Register!Grant(c, r, late)
  BY <1>2, <1>4 DEF Register!Grant, Register!Lapsing
<1> QED
  BY <1>5, <1>6 DEF Register!Next

(* Every step of the verifier is a step of the register, or none.           *)
LEMMA RegisterStep ==
    ASSUME Inv, Inv', [Next]_vars
    PROVE  [Register!Next]_(Register!vars)
<1> USE DEF Inv, TypeInv, TypeOK
<1>1. ASSUME UNCHANGED <<handed, granted, lost>>, clock' \in {clock, clock + 1}
      PROVE  Register!Next
  BY <1>1, LapseStep
<1>2. CASE Tick
  BY <1>1, <1>2 DEF Tick
<1>3. ASSUME NEW c \in Challenge, NEW a \in Audience, NEW l \in Lifetimes,
             NEW p \in BOOLEAN,
             IssueChallenge(c, [audience |-> a, expiresAt |-> clock + l,
                                passkey |-> p])
      PROVE  Register!Next
  <2>1. [audience |-> a, expiresAt |-> clock + l, passkey |-> p] \in Handout
    BY MemoryBounds DEF Handout
  <2> QED
    BY <1>3, <2>1, IssueStep
<1>4. ASSUME NEW r \in Request, Arrive(r)
      PROVE  Register!Next
  BY <1>1, <1>4 DEF Arrive, ReadChallenge
<1>5. ASSUME NEW r \in Request, NEW later \in {clock, clock + 1},
             ValidateAndConsume(r, later)
      PROVE  Register!Next
  <2> DEFINE c == req[r].env.challenge
  <2>1. clock' = later /\ UNCHANGED <<handed, lost>>
    BY <1>5 DEF ValidateAndConsume
  <2>2. CASE UNCHANGED granted
    BY <1>1, <2>1, <2>2
  <2>3. CASE Evict(issued, later)[c] # None /\ Consume(r, c, later)
    <3>1. c \in Challenge
      BY <1>5 DEF ValidateAndConsume, EnvelopeHeld, ReqState, Envelope
    <3> HIDE DEF c
    <3>2. later \in Nat /\ clock <= later
      OBVIOUS
    <3>3. granted[c] = {} /\ clock' < handed[c].expiresAt
      BY <2>1, <2>3, <3>1, <3>2, ConsumeKeeps
    <3>4. handed[c] # None /\ c \notin lost
      BY <2>3, <3>1, EvictDrops DEF StoreInv, Holdings
    <3> QED
      BY <2>1, <2>3, <3>1, <3>2, <3>3, <3>4, GrantStep DEF Consume
  <2> QED
    BY <1>5, <2>2, <2>3 DEF ValidateAndConsume
<1>6. ASSUME NEW r \in Request, VerifyProof(r)
      PROVE  Register!Next
  BY <1>1, <1>6 DEF VerifyProof
<1>7. ASSUME NEW u \in Updater, NEW c \in Challenge, NEW origin \in Audience,
             BeginOptions(u, c, origin)
      PROVE  Register!Next
  BY <1>1, <1>7 DEF BeginOptions
<1>8. ASSUME NEW u \in Updater, FinishOptions(u)
      PROVE  Register!Next
  BY <1>1, <1>8 DEF FinishOptions
<1>9. CASE Restart
  <2>1. /\ lost' = {c \in Challenge : handed[c] # None}
        /\ clock' = clock /\ handed' = handed /\ granted' = granted
    BY <1>9, Zenon DEF Restart
  <2>2. lost \subseteq lost'
    BY <2>1 DEF StoreInv, Holdings
  <2> QED
    BY <2>1, <2>2, LapseStep
<1>10. CASE UNCHANGED vars
  <2>1. UNCHANGED <<handed, granted, lost, clock>>
    BY <1>10 DEF vars
  <2> QED
    BY <1>1, <2>1
<1> QED
  BY <1>2, <1>3, <1>4, <1>5, <1>6, <1>7, <1>8, <1>9, <1>10 DEF Next, HandlerStep

(* The memory verifier implements the challenge register: whatever requests, *)
(* restarts and clock readings interleave, a challenge is issued once,       *)
(* granted at most while open, and never opened again.                       *)
THEOREM RegisterImplemented == Spec => ImplementsRegister
<1>1. Init => Register!Init
  BY DEF Init, Register!Init, PhaseOf
<1>2. Inv /\ Inv' /\ [Next]_vars => [Register!Next]_(Register!vars)
  BY RegisterStep
<1> QED
  BY <1>1, <1>2, InvHolds, PTL DEF Spec, ImplementsRegister, Register!Spec
=============================================================================
