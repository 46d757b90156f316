--------------------------- MODULE Passkeys_proofs ---------------------------
(* Theorems about Passkeys, for any numbers of registrations, wallets and    *)
(* assertions, either store, any lifetimes and any restarts.                 *)
EXTENDS Passkeys, TLAPS

\* What the store keeps of a registration was offered, and lives no longer than
\* the offer, or in Redis, less than a second and the delay of its SET longer;
\* memory never gives it away and keeps it.
PendHolds(g) ==
    /\ offered[g] = None => pending[g] = None /\ taken[g] = {}
    /\ pending[g] # None =>
          /\ offered[g] # None
          /\ Redis => pending[g].until <=
                        offered[g].expiresAt + (Second - 1 + offered[g].delay)
          /\ ~Redis => /\ pending[g].until <= offered[g].expiresAt
                       /\ taken[g] = {}

\* A register/verify call has what its next step reads, and its binding is
\* stored by its own StoreBinding only.
FinHolds(f) ==
    /\ finish[f].pc \in {"del", "verifying", "stored"} =>
          finish[f].reg \in Registration /\ finish[f].rec \in Pending
    /\ bindings[f] # None => finish[f].pc \in {"stored", "done"}

\* The pointer of a wallet leads to a binding of that wallet.
PointerHolds(w) ==
    walletBinding[w] # None =>
        /\ bindings[walletBinding[w]] # None
        /\ bindings[walletBinding[w]].wallet = w

\* An assertion under way has a binding, its record to write back is that
\* binding's, and an assertion that met no other read the stored counter.
AsnHolds(a) ==
    /\ asn[a].pc \notin {"idle", "done"} => asn[a].binding \in Finisher
    /\ asn[a].pc \in {"by_id", "verifying", "update_get", "update_set"} =>
          bindings[asn[a].binding] # None
    /\ asn[a].pc \in {"update_get", "update_set"} =>
          CounterAdvances(asn[a].count, asn[a].read)
    /\ asn[a].pc = "update_set" =>
          /\ asn[a].rec \in Binding
          /\ asn[a].rec.wallet = bindings[asn[a].binding].wallet
    /\ (a \notin overlap /\ asn[a].pc \in {"verifying", "update_get", "update_set"}) =>
          /\ bindings[asn[a].binding].counter = asn[a].read
          /\ \A other \in Verifying(asn[a].binding) : other = a

Inv ==
    /\ TypeOK
    /\ \A g \in Registration : PendHolds(g)
    /\ \A f \in Finisher : FinHolds(f)
    /\ \A w \in Wallet : PointerHolds(w)
    /\ \A a \in Assertion : AsnHolds(a)

-----------------------------------------------------------------------------
(* Expiry *)

\* The eviction only ever drops registrations, and those that are over.
LEMMA LiveDrops ==
    ASSUME NEW map \in [Registration -> Pending \cup {None}], NEW t \in Nat
    PROVE  /\ Live(map, t) \in [Registration -> Pending \cup {None}]
           /\ \A g \in Registration :
                 Live(map, t)[g] # None => /\ Live(map, t)[g] = map[g]
                                           /\ t < map[g].until
BY PasskeyBounds DEF Live, Pending

\* A key of Redis expires less than a second after what was left.
LEMMA KeyExpiryBounds ==
    ASSUME clock \in Nat, NEW left \in Nat
    PROVE  /\ KeyExpiry(left) \in Nat
           /\ KeyExpiry(left) <= clock + left + (Second - 1)
<1> DEFINE n == left + Second - 1
           q == n \div Second
<1>1. n \in Nat /\ Second \in Nat \ {0}
  BY PasskeyBounds
<1>2. q \in Nat
  BY <1>1
<1>3. n % Second \in 0 .. Second - 1
  BY <1>1
<1>4. n = Second * q + (n % Second)
  BY <1>1
<1>5. PICK m \in 0 .. Second - 1 : n = Second * q + m
  BY <1>3, <1>4
<1>6. KeyExpiry(left) = clock + Second * q
  BY DEF KeyExpiry
<1> HIDE DEF q
<1>7. Second * q \in Nat
  BY <1>1, <1>2
<1>8. Second * q <= n
  BY <1>1, <1>5, <1>7
<1> QED
  BY <1>1, <1>6, <1>7, <1>8

-----------------------------------------------------------------------------
(* What the steps of a registration leave alone *)

\* The types of everything but the assertions.
RegType ==
    /\ kind \in Kinds
    /\ clock \in Nat
    /\ offered \in [Registration -> Offer \cup {None}]
    /\ pending \in [Registration -> Pending \cup {None}]
    /\ bindings \in [Finisher -> Binding \cup {None}]
    /\ walletBinding \in [Wallet -> Finisher \cup {None}]
    /\ finish \in [Finisher -> FinishState]
    /\ taken \in [Registration -> SUBSET Finisher]

\* The steps of a registration touch no assertion, and no binding there is.
RegFrame ==
    /\ UNCHANGED <<kind, device, asn, restarts, overlap>>
    /\ \A b \in Finisher : bindings[b] # None => bindings'[b] = bindings[b]

RegSteps ==
    \/ Tick
    \/ \E g \in Registration, w \in Wallet, o \in Origin, left \in Lifetimes,
          delay \in 0..MaxDelay : BeginRegistration(g, w, o, left, delay)
    \/ \E f \in Finisher, g \in Registration, o \in Origin :
          offered[g] # None /\ TakePending(f, g, o)
    \/ \E f \in Finisher : RegisterStep(f)

(* Assertions do not notice the steps of a registration.                     *)
LEMMA RegKeepsAsn ==
    ASSUME Inv, RegFrame, NEW a \in Assertion
    PROVE  AsnHolds(a)'
<1>1. AsnHolds(a)
  BY DEF Inv
<1>3. asn' = asn /\ overlap' = overlap
  BY DEF RegFrame
<1>4. asn[a].pc \notin {"idle", "done"} => asn'[a].binding \in Finisher
  BY <1>1, <1>3 DEF AsnHolds
<1>5. asn[a].pc \in {"by_id", "verifying", "update_get", "update_set"} =>
         /\ bindings[asn[a].binding] # None
         /\ bindings'[asn[a].binding] = bindings[asn[a].binding]
  BY <1>1 DEF AsnHolds, RegFrame
<1>6. \A b : Verifying(b)' = Verifying(b)
  BY <1>3 DEF Verifying
<1> QED
  BY <1>1, <1>3, <1>4, <1>5, <1>6 DEF AsnHolds, CounterAdvances

(* register/options.                                                         *)
LEMMA BeginStep ==
    ASSUME Inv, NEW g \in Registration, NEW w \in Wallet, NEW o \in Origin,
           NEW left \in Lifetimes, NEW delay \in 0..MaxDelay,
           BeginRegistration(g, w, o, left, delay)
    PROVE  /\ RegType' /\ RegFrame
           /\ \A x \in Registration : PendHolds(x)'
           /\ \A f \in Finisher : FinHolds(f)'
           /\ \A x \in Wallet : PointerHolds(x)'
<1> DEFINE live == Live(pending, clock)
           until == IF Redis THEN KeyExpiry(left) ELSE clock + left
           new == [wallet |-> w, origin |-> o, until |-> until]
<1>1. /\ TypeOK /\ left \in Nat /\ clock \in Nat /\ Second \in Nat \ {0}
      /\ delay \in Nat /\ delay <= clock /\ (~Redis => delay = 0)
  BY PasskeyBounds DEF Inv, TypeOK, BeginRegistration
<1>2. /\ live \in [Registration -> Pending \cup {None}]
      /\ \A x \in Registration : live[x] # None => live[x] = pending[x]
  BY <1>1, LiveDrops DEF TypeOK
<1>3. /\ until \in Nat
      /\ Redis => until <= clock + left + (Second - 1)
      /\ ~Redis => until = clock + left
  BY <1>1, KeyExpiryBounds
<1>4. new \in Pending /\ new.until = until /\ new # None
  BY <1>3, PasskeyBounds DEF Pending
<1> DEFINE expiry == clock - delay + left
           offer == [wallet |-> w, origin |-> o, expiresAt |-> expiry,
                     delay |-> delay]
<1>12. expiry \in Nat /\ clock + left = expiry + delay
  BY <1>1
<1> HIDE DEF expiry
<1>5. /\ offer \in Offer /\ offer # None
      /\ offer.expiresAt = expiry /\ offer.delay = delay
  BY <1>12, <1>1, PasskeyBounds DEF Offer
<1>6. /\ offered[g] = None
      /\ offered' = [offered EXCEPT ![g] = offer]
      /\ pending' = IF Redis /\ left = 0 THEN live ELSE [live EXCEPT ![g] = new]
      /\ UNCHANGED <<kind, clock, bindings, walletBinding, finish, device, asn,
                     restarts, taken, overlap>>
  BY DEF BeginRegistration, histories, expiry
<1>7. taken[g] = {} /\ pending[g] = None
  BY <1>6 DEF Inv, PendHolds
<1> HIDE DEF live, until, new, offer
<1>8. RegType'
  BY <1>1, <1>2, <1>4, <1>5, <1>6 DEF TypeOK, RegType
<1>9. RegFrame
  BY <1>6 DEF RegFrame
<1>10. ASSUME NEW x \in Registration
       PROVE  PendHolds(x)'
  <2>1. (Redis' <=> Redis) /\ PendHolds(x)
    BY <1>6 DEF Inv, Redis
  <2>2. CASE x = g
    <3>1. offered'[g] = offer /\ taken'[g] = {}
      BY <1>1, <1>6, <1>7 DEF TypeOK
    <3>2. pending'[g] # None => pending'[g].until = until
      BY <1>2, <1>4, <1>6, <1>7
    <3> QED
      BY <1>1, <1>3, <1>5, <1>12, <2>1, <2>2, <3>1, <3>2 DEF PendHolds
  <2>3. CASE x # g
    <3>1. offered'[x] = offered[x] /\ taken' = taken
      BY <1>1, <1>6, <2>3 DEF TypeOK
    <3>2. pending'[x] # None => pending'[x] = pending[x]
      BY <1>2, <1>6, <2>3
    <3>3. offered[x] = None => pending'[x] = None
      BY <2>1, <3>2 DEF PendHolds
    <3> QED
      BY <2>1, <3>1, <3>2, <3>3 DEF PendHolds
  <2> QED
    BY <2>2, <2>3
<1>11. (\A f \in Finisher : FinHolds(f)') /\ (\A x \in Wallet : PointerHolds(x)')
  BY <1>6 DEF Inv, FinHolds, PointerHolds
<1> QED
  BY <1>8, <1>9, <1>10, <1>11

(* The clock, and the keys of Redis that expire with it.                     *)
LEMMA TickStep ==
    ASSUME Inv, Tick
    PROVE  /\ RegType' /\ RegFrame
           /\ \A x \in Registration : PendHolds(x)'
           /\ \A f \in Finisher : FinHolds(f)'
           /\ \A x \in Wallet : PointerHolds(x)'
<1>1. TypeOK /\ clock \in Nat
  BY DEF Inv, TypeOK
<1>2. /\ clock' = clock + 1
      /\ UNCHANGED <<kind, offered, bindings, walletBinding, finish, device, asn,
                     restarts, taken, overlap>>
  BY DEF Tick, histories
<1>3. clock' \in Nat
  BY <1>1, <1>2
<1>4. /\ Live(pending, clock') \in [Registration -> Pending \cup {None}]
      /\ \A g \in Registration :
            Live(pending, clock')[g] # None => Live(pending, clock')[g] = pending[g]
  BY <1>1, <1>3, LiveDrops DEF TypeOK
<1>5. /\ pending' \in [Registration -> Pending \cup {None}]
      /\ \A g \in Registration : pending'[g] # None => pending'[g] = pending[g]
  BY <1>1, <1>4 DEF Tick, TypeOK
<1>6. RegType' /\ RegFrame
  BY <1>1, <1>2, <1>3, <1>5 DEF TypeOK, RegType, RegFrame
<1>7. \A x \in Registration : PendHolds(x)'
  BY <1>2, <1>5 DEF Inv, PendHolds, Redis
<1>8. (\A f \in Finisher : FinHolds(f)') /\ (\A x \in Wallet : PointerHolds(x)')
  BY <1>2 DEF Inv, FinHolds, PointerHolds
<1> QED
  BY <1>6, <1>7, <1>8

(* consumePendingRegistration: what it takes was kept, and its time is not   *)
(* up.                                                                       *)
LEMMA TakeStep ==
    ASSUME Inv, NEW f \in Finisher, NEW g \in Registration, NEW o \in Origin,
           offered[g] # None, TakePending(f, g, o)
    PROVE  /\ RegType' /\ RegFrame
           /\ \A x \in Registration : PendHolds(x)'
           /\ \A x \in Finisher : FinHolds(x)'
           /\ \A x \in Wallet : PointerHolds(x)'
           /\ \A x \in Registration : taken'[x] # taken[x] =>
                 /\ x = g
                 /\ pending[g] # None
                 /\ clock < pending[g].until
<1> DEFINE live == Live(pending, clock)
           hit == live[g]
           state == [pc |-> IF Redis THEN "del" ELSE "verifying", reg |-> g,
                     origin |-> o, rec |-> hit, answer |-> None]
           miss == [state EXCEPT !.pc = "done", !.answer = "not_found"]
<1>1. TypeOK /\ clock \in Nat
  BY DEF Inv, TypeOK
<1>2. /\ live \in [Registration -> Pending \cup {None}]
      /\ \A x \in Registration :
            live[x] # None => live[x] = pending[x] /\ clock < pending[x].until
  BY <1>1, LiveDrops DEF TypeOK
<1>3. /\ state \in FinishState
      /\ miss \in FinishState
      /\ state.pc \in {"del", "verifying"} /\ state.reg = g /\ state.rec = hit
      /\ miss.pc = "done"
  BY <1>2 DEF FinishState
<1>4. /\ finish[f].pc = "idle"
      /\ UNCHANGED <<kind, clock, offered, device, asn, restarts, overlap,
                     bindings, walletBinding>>
      /\ \/ /\ hit = None
            /\ finish' = [finish EXCEPT ![f] = miss]
            /\ pending' = live
            /\ taken' = taken
         \/ /\ hit # None
            /\ finish' = [finish EXCEPT ![f] = state]
            /\ pending' = IF Redis THEN live ELSE [live EXCEPT ![g] = None]
            /\ taken' = [taken EXCEPT ![g] = @ \cup {f}]
  BY DEF TakePending, FinishOnly
<1> HIDE DEF live, hit, state, miss
<1>5. hit \in Pending \cup {None}
  BY <1>2 DEF hit
<1>6. RegType'
  BY <1>1, <1>2, <1>3, <1>4 DEF TypeOK, RegType
<1>7. RegFrame
  BY <1>4 DEF RegFrame
<1>8. \A x \in Registration : taken'[x] # taken[x] => x = g /\ hit # None
  BY <1>1, <1>4 DEF TypeOK
<1>9. \A x \in Registration : pending'[x] # None => pending'[x] = pending[x]
  BY <1>2, <1>4
<1>10. ~Redis => pending'[g] = None
  BY <1>2, <1>4 DEF hit
<1>11. \A x \in Registration : PendHolds(x)'
  <2> SUFFICES ASSUME NEW x \in Registration
               PROVE  PendHolds(x)'
    OBVIOUS
  <2>1. PendHolds(x) /\ offered' = offered /\ (Redis' <=> Redis)
    BY <1>4 DEF Inv, Redis
  <2>2. offered[x] = None => taken'[x] = taken[x]
    BY <1>8
  <2>3. (pending'[x] # None /\ ~Redis) => taken'[x] = taken[x]
    BY <1>8, <1>10
  <2> QED
    BY <1>9, <2>1, <2>2, <2>3 DEF PendHolds
<1>12. ASSUME NEW x \in Finisher
       PROVE  FinHolds(x)'
  <2>1. FinHolds(x) /\ bindings' = bindings
    BY <1>4 DEF Inv
  <2>2. x = f => bindings[x] = None
    BY <1>4, <2>1 DEF FinHolds
  <2>3. x # f => finish'[x] = finish[x]
    BY <1>1, <1>4 DEF TypeOK
  <2>4. x = f => \/ hit = None /\ finish'[x] = miss
                 \/ hit # None /\ finish'[x] = state
    BY <1>1, <1>4 DEF TypeOK
  <2> QED
    BY <1>3, <1>5, <2>1, <2>2, <2>3, <2>4 DEF FinHolds
<1>13. \A x \in Wallet : PointerHolds(x)'
  BY <1>4 DEF Inv, PointerHolds
<1> QED
  BY <1>2, <1>6, <1>7, <1>8, <1>11, <1>12, <1>13 DEF hit

(* register/verify after the GET: the DEL, the refusals, upsertBinding and   *)
(* the answer.                                                               *)
LEMMA RegisterCallStep ==
    ASSUME Inv, NEW f \in Finisher, RegisterStep(f)
    PROVE  /\ RegType' /\ RegFrame
           /\ taken' = taken
           /\ \A x \in Registration : PendHolds(x)'
           /\ \A x \in Finisher : FinHolds(x)'
           /\ \A x \in Wallet : PointerHolds(x)'
<1> DEFINE closed(answer) == [finish[f] EXCEPT !.pc = "done", !.rec = None,
                                               !.answer = answer]
<1>1. TypeOK /\ finish[f] \in FinishState /\ FinHolds(f)
  BY DEF Inv, TypeOK
<1>2. UNCHANGED <<kind, clock, offered, device, asn, restarts, overlap, taken>>
  BY DEF RegisterStep, DeletePending, RefuseCredential, StoreBinding,
         AnswerRegistration, FinishOnly
<1>3. CASE DeletePending(f)
  <2>1. finish[f].pc = "del" /\ finish[f].reg \in Registration
    BY <1>1, <1>3 DEF DeletePending, FinHolds
  <2>2. /\ finish' = [finish EXCEPT ![f] = [finish[f] EXCEPT !.pc = "verifying"]]
        /\ pending' = [pending EXCEPT ![finish[f].reg] = None]
        /\ UNCHANGED <<bindings, walletBinding>>
    BY <1>3 DEF DeletePending, FinishOnly
  <2>3. RegType' /\ RegFrame
    BY <1>1, <1>2, <2>2 DEF TypeOK, RegType, RegFrame, FinishState
  <2>4. \A x \in Registration : pending'[x] # None => pending'[x] = pending[x]
    BY <1>1, <2>2 DEF TypeOK
  <2>5. \A x \in Registration : PendHolds(x)'
    BY <1>2, <2>4 DEF Inv, PendHolds, Redis
  <2>6. \A x \in Finisher : FinHolds(x)'
    BY <1>1, <2>1, <2>2 DEF Inv, FinHolds, FinishState, TypeOK
  <2>7. \A x \in Wallet : PointerHolds(x)'
    BY <2>2 DEF Inv, PointerHolds
  <2> QED
    BY <1>2, <2>3, <2>5, <2>6, <2>7
<1>4. CASE RefuseCredential(f) \/ AnswerRegistration(f)
  <2>1. PICK answer \in {"refused", "origin_mismatch", "registered"} :
           finish' = [finish EXCEPT ![f] = closed(answer)]
    BY <1>4 DEF RefuseCredential, AnswerRegistration, FinishOnly, Refused
  <2>2. UNCHANGED <<pending, bindings, walletBinding>>
    BY <1>4 DEF RefuseCredential, AnswerRegistration, stores
  <2>3. closed(answer) \in FinishState /\ closed(answer).pc = "done"
    BY <1>1 DEF FinishState
  <2>4. RegType' /\ RegFrame
    BY <1>1, <1>2, <2>1, <2>2, <2>3 DEF TypeOK, RegType, RegFrame
  <2>5. (\A x \in Registration : PendHolds(x)') /\ (\A x \in Wallet : PointerHolds(x)')
    BY <1>2, <2>2 DEF Inv, PendHolds, PointerHolds, Redis
  <2>6. \A x \in Finisher : finish'[x] = IF x = f THEN closed(answer) ELSE finish[x]
    BY <1>1, <2>1 DEF TypeOK
  <2> HIDE DEF closed
  <2>7. \A x \in Finisher : FinHolds(x)'
    BY <2>2, <2>3, <2>6 DEF Inv, FinHolds
  <2> QED
    BY <1>2, <2>4, <2>5, <2>7
<1>5. CASE StoreBinding(f)
  <2> DEFINE rec == finish[f].rec
             new == [wallet |-> rec.wallet, origin |-> rec.origin, counter |-> 0]
  <2>1. finish[f].pc = "verifying" /\ rec \in Pending /\ bindings[f] = None
    BY <1>1, <1>5 DEF StoreBinding, FinHolds
  <2>2. /\ new \in Binding /\ new # None /\ new.wallet = rec.wallet
        /\ rec.wallet \in Wallet
    BY <2>1, PasskeyBounds DEF Pending, Binding
  <2>3. /\ bindings' = [bindings EXCEPT ![f] = new]
        /\ walletBinding' = [walletBinding EXCEPT ![rec.wallet] = f]
        /\ finish' = [finish EXCEPT ![f] = [finish[f] EXCEPT !.pc = "stored"]]
        /\ pending' = pending
    BY <1>5 DEF StoreBinding, FinishOnly
  <2> HIDE DEF new
  <2>4. RegType'
    BY <1>1, <1>2, <2>2, <2>3 DEF TypeOK, RegType, FinishState
  <2>5. RegFrame
    BY <1>1, <1>2, <2>1, <2>3 DEF TypeOK, RegFrame
  <2>6. \A x \in Registration : PendHolds(x)'
    BY <1>2, <2>3 DEF Inv, PendHolds, Redis
  <2>7. \A x \in Finisher : FinHolds(x)'
    BY <1>1, <2>1, <2>3 DEF Inv, FinHolds, FinishState, TypeOK
  <2>8. ASSUME NEW w \in Wallet
        PROVE  PointerHolds(w)'
    <3>1. f # None /\ PointerHolds(w)
      BY PasskeyBounds DEF Inv
    <3>2. CASE w = rec.wallet
      <4>1. walletBinding'[w] = f /\ bindings'[f] = new
        BY <1>1, <2>3, <3>2 DEF TypeOK
      <4> QED
        BY <2>2, <3>2, <4>1 DEF PointerHolds
    <3>3. CASE w # rec.wallet
      <4>1. walletBinding'[w] = walletBinding[w]
        BY <1>1, <2>3, <3>3 DEF TypeOK
      <4>2. walletBinding[w] # None => bindings'[walletBinding[w]] = bindings[walletBinding[w]]
        BY <1>1, <2>1, <2>3, <3>1 DEF TypeOK, PointerHolds
      <4> QED
        BY <3>1, <4>1, <4>2 DEF PointerHolds
    <3> QED
      BY <3>2, <3>3
  <2> QED
    BY <1>2, <2>4, <2>5, <2>6, <2>7, <2>8
<1> QED
  BY <1>3, <1>4, <1>5 DEF RegisterStep

-----------------------------------------------------------------------------
(* What the steps of an assertion leave alone *)

\* The types of what an assertion changes.
AsnType ==
    /\ bindings \in [Finisher -> Binding \cup {None}]
    /\ device \in [Finisher -> Nat]
    /\ asn \in [Assertion -> AssertionState]
    /\ overlap \subseteq Assertion

\* The steps of an assertion touch no registration, and of a binding at most
\* the counter.
AsnFrame ==
    /\ UNCHANGED <<kind, clock, offered, pending, walletBinding, finish, restarts,
                   taken>>
    /\ \A b \in Finisher :
          /\ bindings'[b] # None <=> bindings[b] # None
          /\ bindings[b] # None => bindings'[b].wallet = bindings[b].wallet

(* Registrations do not notice the steps of an assertion.                    *)
LEMMA AsnKeepsReg ==
    ASSUME Inv, AsnType', AsnFrame
    PROVE  /\ TypeOK'
           /\ \A g \in Registration : PendHolds(g)'
           /\ \A f \in Finisher : FinHolds(f)'
           /\ \A w \in Wallet : PointerHolds(w)'
<1>1. TypeOK
  BY DEF Inv
<1>2. TypeOK'
  BY <1>1 DEF TypeOK, AsnType, AsnFrame
<1>3. \A g \in Registration : PendHolds(g)'
  BY DEF Inv, PendHolds, AsnFrame, Redis
<1>4. \A f \in Finisher : FinHolds(f)'
  BY DEF Inv, FinHolds, AsnFrame
<1>5. \A w \in Wallet : PointerHolds(w)'
  <2> SUFFICES ASSUME NEW w \in Wallet, walletBinding'[w] # None
               PROVE  /\ bindings'[walletBinding'[w]] # None
                      /\ bindings'[walletBinding'[w]].wallet = w
    BY DEF PointerHolds
  <2>1. PointerHolds(w) /\ walletBinding'[w] = walletBinding[w]
    BY DEF Inv, AsnFrame
  <2>2. walletBinding[w] \in Finisher
    BY <1>1, <2>1 DEF TypeOK
  <2> QED
    BY <2>1, <2>2 DEF PointerHolds, AsnFrame
<1> QED
  BY <1>2, <1>3, <1>4, <1>5

-----------------------------------------------------------------------------
(* The steps of an assertion *)

Checking == {"verifying", "update_get", "update_set"}

\* The counter of a binding falls only by a step of an assertion of that
\* binding that overlapped with another.
FallsByOverlap(a) ==
    \A b \in Finisher :
        (/\ bindings[b] # None
         /\ bindings'[b] # None
         /\ bindings'[b].counter < bindings[b].counter)
        => /\ a \in overlap
           /\ asn[a].binding = b
           /\ asn'[a].count = bindings'[b].counter

(* The others keep what they rely on if the step changes the counter of no   *)
(* binding but the one the assertion is checking, and marks those it joins.  *)
LEMMA OthersHold ==
    ASSUME Inv, NEW a \in Assertion, NEW state \in AssertionState,
           asn' = [asn EXCEPT ![a] = state],
           AsnFrame,
           overlap \subseteq overlap',
           \A b \in Finisher :
              bindings[b] # None /\ a \notin Verifying(b) =>
                 bindings'[b].counter = bindings[b].counter,
           (state.pc \in Checking /\ a \notin Verifying(state.binding)) =>
              Verifying(state.binding) \subseteq overlap',
           NEW x \in Assertion, x # a
    PROVE  AsnHolds(x)'
<1>1. TypeOK /\ AsnHolds(x)
  BY DEF Inv
<1>2. asn'[x] = asn[x] /\ asn'[a] = state
  BY <1>1 DEF TypeOK
<1> DEFINE b == asn[x].binding
<1>3. asn[x].pc \notin {"idle", "done"} => b \in Finisher
  BY <1>1 DEF AsnHolds
<1>4. asn[x].pc \in {"by_id", "verifying", "update_get", "update_set"} =>
         /\ b \in Finisher
         /\ bindings[b] # None
         /\ bindings'[b] # None
         /\ bindings'[b].wallet = bindings[b].wallet
  BY <1>1, <1>3 DEF AsnHolds, AsnFrame
<1>5. ASSUME x \notin overlap', asn[x].pc \in Checking
      PROVE  /\ bindings'[b].counter = asn[x].read
             /\ \A other \in Verifying(b)' : other = x
  <2>1. /\ bindings[b].counter = asn[x].read
        /\ \A other \in Verifying(b) : other = x
        /\ x \in Verifying(b)
    BY <1>1, <1>5 DEF AsnHolds, Checking, Verifying
  <2>2. bindings'[b].counter = bindings[b].counter
    BY <1>4, <1>5, <2>1 DEF Checking
  <2>3. ASSUME NEW other \in Verifying(b)'
        PROVE  other = x
    <3>1. other \in Assertion /\ asn'[other].binding = asn'[x].binding
                              /\ asn'[other].pc \in Checking
      BY <2>3 DEF Verifying, Checking
    <3>2. CASE other = a
      BY <1>2, <1>5, <2>1, <3>1, <3>2
    <3>3. CASE other # a
      <4>1. asn'[other] = asn[other]
        BY <1>1, <3>1, <3>3 DEF TypeOK
      <4> QED
        BY <1>2, <2>1, <3>1, <4>1 DEF Verifying, Checking
    <3> QED
      BY <3>2, <3>3
  <2> QED
    BY <2>1, <2>2, <2>3
<1>6. Verifying(b)' = {other \in Assertion : /\ asn'[other].binding = asn'[x].binding
                                             /\ asn'[other].pc \in Checking}
  BY DEF Verifying, Checking
<1>7. asn'[x].pc \notin {"idle", "done"} => asn'[x].binding \in Finisher
  BY <1>2, <1>3
<1>8. asn'[x].pc \in {"by_id", "verifying", "update_get", "update_set"} =>
         bindings'[asn'[x].binding] # None
  BY <1>2, <1>4
<1>9. asn'[x].pc \in {"update_get", "update_set"} =>
         CounterAdvances(asn'[x].count, asn'[x].read)
  BY <1>1, <1>2 DEF AsnHolds
<1>10. asn'[x].pc = "update_set" =>
         /\ asn'[x].rec \in Binding
         /\ asn'[x].rec.wallet = bindings'[asn'[x].binding].wallet
  BY <1>1, <1>2, <1>4 DEF AsnHolds
<1>11. (x \notin overlap' /\ asn'[x].pc \in {"verifying", "update_get", "update_set"}) =>
         /\ bindings'[asn'[x].binding].counter = asn'[x].read
         /\ \A other \in Verifying(asn[x].binding)' : other = x
  BY <1>2, <1>5 DEF Checking
<1>12. (x \notin overlap' /\ asn'[x].pc \in {"verifying", "update_get", "update_set"}) =>
         \A other \in Assertion :
            (asn'[other].binding = asn'[x].binding
               /\ asn'[other].pc \in {"verifying", "update_get", "update_set"})
            => other = x
  BY <1>6, <1>11 DEF Checking
<1> QED
  BY <1>7, <1>8, <1>9, <1>10, <1>11, <1>12 DEF AsnHolds, Verifying, CounterAdvances

(* The steps that leave every binding and every overlap as they are, and     *)
(* check no counter.                                                         *)
LEMMA QuietStep ==
    ASSUME Inv, NEW a \in Assertion, NEW state \in AssertionState,
           AsnOnly(a, state), bindings' = bindings, overlap' = overlap,
           device' \in [Finisher -> Nat],
           state.pc \notin Checking,
           state.pc \notin {"idle", "done"} => state.binding \in Finisher,
           state.pc = "by_id" => bindings[state.binding] # None
    PROVE  /\ AsnType' /\ AsnFrame
           /\ \A x \in Assertion : AsnHolds(x)'
           /\ FallsByOverlap(a)
<1>1. TypeOK
  BY DEF Inv
<1>2. asn' = [asn EXCEPT ![a] = state]
  BY DEF AsnOnly
<1>3. AsnType' /\ AsnFrame
  BY <1>1, <1>2 DEF AsnType, AsnFrame, AsnOnly, TypeOK
<1>4. \A x \in Assertion : x # a => AsnHolds(x)'
  BY <1>2, <1>3, OthersHold
<1>5. AsnHolds(a)'
  <2>1. asn'[a] = state
    BY <1>1, <1>2 DEF TypeOK
  <2> QED
    BY <2>1 DEF AsnHolds, Checking
<1>6. FallsByOverlap(a)
  <2>1. \A b \in Finisher : bindings[b] # None => bindings[b].counter \in Nat
    BY <1>1 DEF TypeOK, Binding
  <2> QED
    BY <2>1 DEF FallsByOverlap
<1> QED
  BY <1>3, <1>4, <1>5, <1>6

(* Answers are quiet.                                                        *)
LEMMA AnswerQuiet ==
    ASSUME Inv, NEW a \in Assertion,
           NEW answer \in {"verified", "not_registered", "failed", "lost"}
    PROVE  Asserted(a, answer) \in AssertionState /\ Asserted(a, answer).pc = "done"
BY DEF Inv, TypeOK, Asserted, AssertionState

(* assertion/options, the authenticator, and the ways to refuse.             *)
LEMMA LookUpStep ==
    ASSUME Inv, NEW a \in Assertion, NEW w \in Wallet, LookUpWallet(a, w)
    PROVE  /\ AsnType' /\ AsnFrame
           /\ \A x \in Assertion : AsnHolds(x)'
           /\ FallsByOverlap(a)
<1> DEFINE b == walletBinding[w]
           found == [asn[a] EXCEPT !.wallet = w, !.binding = b,
                                   !.pc = IF Redis THEN "by_id" ELSE "sent"]
           missing == [found EXCEPT !.pc = "done", !.answer = "not_registered"]
           state == IF b = None THEN missing ELSE found
<1>1. TypeOK /\ PointerHolds(w) /\ asn[a] \in AssertionState
  BY DEF Inv, TypeOK
<1>2. b \in Finisher \cup {None}
  BY <1>1 DEF TypeOK
<1>3. found \in AssertionState /\ missing \in AssertionState
  BY <1>1, <1>2 DEF AssertionState
<1>4. /\ found.pc \in {"by_id", "sent"} /\ found.binding = b
      /\ missing.pc = "done"
  BY <1>1 DEF AssertionState
<1>5. /\ AsnOnly(a, state)
      /\ bindings' = bindings /\ overlap' = overlap /\ device' = device
  BY DEF LookUpWallet
<1>6. b # None => bindings[b] # None
  BY <1>1 DEF PointerHolds
<1> HIDE DEF found, missing, b
<1>7. /\ state \in AssertionState
      /\ state.pc \notin Checking
      /\ state.pc \notin {"idle", "done"} => state.binding \in Finisher
      /\ state.pc = "by_id" => bindings[state.binding] # None
  BY <1>2, <1>3, <1>4, <1>6 DEF Checking
<1>8. device' \in [Finisher -> Nat]
  BY <1>1, <1>5 DEF TypeOK
<1> HIDE DEF state
<1> QED
  BY <1>5, <1>7, <1>8, QuietStep

(* Likewise for the second GET, the signature and the refusals.              *)
LEMMA OtherQuietSteps ==
    ASSUME Inv, NEW a \in Assertion,
           \/ LookUpBinding(a) \/ Sign(a) \/ RejectAssertion(a)
           \/ ReadBinding(a) /\ bindings[asn[a].binding] = None
    PROVE  /\ AsnType' /\ AsnFrame
           /\ \A x \in Assertion : AsnHolds(x)'
           /\ FallsByOverlap(a)
<1>1. TypeOK /\ AsnHolds(a) /\ asn[a] \in AssertionState
  BY DEF Inv, TypeOK
<1>2. bindings' = bindings /\ overlap' = overlap
  BY DEF LookUpBinding, Sign, RejectAssertion, ReadBinding
<1>3. device' \in [Finisher -> Nat]
  BY <1>1 DEF LookUpBinding, Sign, RejectAssertion, ReadBinding, TypeOK
<1>4. CASE AsnOnly(a, Asserted(a, "not_registered"))
             \/ AsnOnly(a, Asserted(a, "failed"))
  <2>1. PICK answer \in {"not_registered", "failed"} : AsnOnly(a, Asserted(a, answer))
    BY <1>4
  <2>2. Asserted(a, answer) \in AssertionState /\ Asserted(a, answer).pc = "done"
    BY AnswerQuiet
  <2> QED
    BY <1>2, <1>3, <2>1, <2>2, QuietStep DEF Checking
<1>5. CASE LookUpBinding(a) /\ bindings[asn[a].binding] # None
  <2> DEFINE state == [asn[a] EXCEPT !.pc = "sent"]
  <2>1. AsnOnly(a, state) /\ asn[a].pc = "by_id"
    BY <1>5 DEF LookUpBinding
  <2>2. /\ state \in AssertionState /\ state.pc = "sent"
        /\ state.binding \in Finisher
    BY <1>1, <2>1 DEF AsnHolds, AssertionState
  <2> HIDE DEF state
  <2> QED
    BY <1>2, <1>3, <2>1, <2>2, QuietStep DEF Checking
<1>6. CASE Sign(a)
  <2> DEFINE count == device[asn[a].binding] + 1
             state == [asn[a] EXCEPT !.pc = "signed", !.count = count]
  <2>1. AsnOnly(a, state) /\ asn[a].pc = "sent"
    BY <1>6 DEF Sign
  <2>2. asn[a].binding \in Finisher
    BY <1>1, <2>1 DEF AsnHolds
  <2>3. device[asn[a].binding] \in Nat /\ count \in Nat
    BY <1>1, <2>2 DEF TypeOK
  <2> HIDE DEF count
  <2>4. /\ state \in AssertionState /\ state.pc = "signed"
        /\ state.binding \in Finisher
    BY <1>1, <2>2, <2>3 DEF AssertionState
  <2> HIDE DEF state
  <2>5. device' \in [Finisher -> Nat]
    BY <1>1, <1>6, <2>2, <2>3 DEF Sign, TypeOK
  <2> QED
    BY <1>2, <2>1, <2>4, <2>5, QuietStep DEF Checking
<1> QED
  BY <1>4, <1>5, <1>6 DEF LookUpBinding, RejectAssertion, ReadBinding

(* Reading the binding: whoever verifies at that time, and the reader if     *)
(* there is one, is marked.                                                  *)
LEMMA ReadStep ==
    ASSUME Inv, NEW a \in Assertion, ReadBinding(a), bindings[asn[a].binding] # None
    PROVE  /\ AsnType' /\ AsnFrame
           /\ \A x \in Assertion : AsnHolds(x)'
           /\ FallsByOverlap(a)
<1> DEFINE b == asn[a].binding
           state == [asn[a] EXCEPT !.pc = "verifying", !.read = bindings[b].counter]
<1>1. TypeOK /\ AsnHolds(a) /\ asn[a] \in AssertionState
  BY DEF Inv, TypeOK
<1>2. /\ asn[a].pc = "signed"
      /\ AsnOnly(a, state)
      /\ overlap' = IF Verifying(b) = {} THEN overlap
                    ELSE overlap \cup Verifying(b) \cup {a}
      /\ bindings' = bindings /\ device' = device
  BY DEF ReadBinding
<1>3. b \in Finisher /\ bindings[b] \in Binding /\ bindings[b].counter \in Nat
  BY <1>1, <1>2 DEF AsnHolds, TypeOK, Binding
<1>4. /\ state \in AssertionState /\ state.pc = "verifying"
      /\ state.binding = b /\ state.read = bindings[b].counter
  BY <1>1, <1>3 DEF AssertionState
<1>5. asn' = [asn EXCEPT ![a] = state]
  BY <1>2 DEF AsnOnly
<1> HIDE DEF state
<1>6. Verifying(b) \subseteq overlap' /\ Verifying(b) \subseteq Assertion
  BY <1>2 DEF Verifying
<1>7. AsnType' /\ AsnFrame
  <2>1. overlap' \subseteq Assertion
    BY <1>1, <1>2, <1>6 DEF TypeOK
  <2> QED
    BY <1>1, <1>2, <1>4, <1>5, <2>1 DEF AsnType, AsnFrame, AsnOnly, TypeOK
<1>8. overlap \subseteq overlap'
  BY <1>2
<1>9. ASSUME NEW x \in Assertion, x # a
      PROVE  AsnHolds(x)'
  BY <1>2, <1>4, <1>5, <1>6, <1>7, <1>8, <1>9, OthersHold
<1>10. AsnHolds(a)'
  <2>1. asn'[a] = state
    BY <1>1, <1>5 DEF TypeOK
  <2>2. ASSUME a \notin overlap', NEW other \in Assertion,
               asn'[other].binding = b, asn'[other].pc \in Checking
        PROVE  other = a
    <3>1. Verifying(b) = {}
      BY <1>2, <2>2
    <3>2. other # a => asn'[other] = asn[other]
      BY <1>1, <1>5 DEF TypeOK
    <3> QED
      BY <2>2, <3>1, <3>2 DEF Verifying, Checking
  <2> QED
    BY <1>2, <1>3, <1>4, <2>1, <2>2 DEF AsnHolds, Verifying, Checking
<1>11. FallsByOverlap(a)
  <2>1. \A x \in Finisher : bindings[x] # None => bindings[x].counter \in Nat
    BY <1>1 DEF TypeOK, Binding
  <2> QED
    BY <1>2, <2>1 DEF FallsByOverlap
<1> QED
  BY <1>7, <1>9, <1>10, <1>11

(* The write of the counter an assertion was verified with.                  *)
LEMMA WriteStep ==
    ASSUME Inv, NEW a \in Assertion, asn[a].pc \in Checking,
           CounterAdvances(asn[a].count, asn[a].read),
           NEW new \in Binding,
           new.wallet = bindings[asn[a].binding].wallet,
           new.counter = asn[a].count,
           bindings' = [bindings EXCEPT ![asn[a].binding] = new],
           AsnOnly(a, Asserted(a, "verified")),
           device' = device, overlap' = overlap
    PROVE  /\ AsnType' /\ AsnFrame
           /\ \A x \in Assertion : AsnHolds(x)'
           /\ FallsByOverlap(a)
<1> DEFINE b == asn[a].binding
           state == Asserted(a, "verified")
<1>1. TypeOK /\ AsnHolds(a) /\ asn[a] \in AssertionState
  BY DEF Inv, TypeOK
<1>2. /\ b \in Finisher /\ bindings[b] # None /\ a \in Verifying(b)
      /\ new # None
  BY <1>1, PasskeyBounds DEF AsnHolds, Checking, Verifying
<1>3. /\ state \in AssertionState /\ state.pc = "done"
      /\ state.count = asn[a].count
  BY <1>1 DEF Asserted, AssertionState
<1>4. asn' = [asn EXCEPT ![a] = state]
  BY DEF AsnOnly
<1> HIDE DEF state
<1>5. \A x \in Finisher : bindings'[x] = IF x = b THEN new ELSE bindings[x]
  BY <1>1 DEF TypeOK
<1>6. AsnType'
  BY <1>1, <1>3, <1>4 DEF AsnType, TypeOK
<1>7. AsnFrame
  BY <1>2, <1>5 DEF AsnFrame, AsnOnly
<1>8. \A x \in Finisher : a \notin Verifying(x) => bindings'[x] = bindings[x]
  BY <1>2, <1>5
<1>9. ASSUME NEW x \in Assertion, x # a
      PROVE  AsnHolds(x)'
  BY <1>3, <1>4, <1>7, <1>8, <1>9, OthersHold DEF Checking
<1>10. asn'[a] = state
  BY <1>1, <1>4 DEF TypeOK
<1>11. AsnHolds(a)'
  BY <1>3, <1>10 DEF AsnHolds
<1>12. FallsByOverlap(a)
  <2> SUFFICES ASSUME NEW x \in Finisher, bindings[x] # None,
                      bindings'[x].counter < bindings[x].counter
               PROVE  a \in overlap /\ b = x /\ asn'[a].count = bindings'[x].counter
    BY DEF FallsByOverlap
  <2>1. bindings[x].counter \in Nat /\ asn[a].count \in Nat /\ asn[a].read \in Nat
    BY <1>1 DEF TypeOK, Binding, AssertionState
  <2>2. x = b
    BY <1>5, <2>1
  <2>3. bindings'[x].counter = asn[a].count
    BY <1>5, <2>2
  <2>4. a \notin overlap => bindings[b].counter = asn[a].read
    BY <1>1 DEF AsnHolds, Checking
  <2> QED
    BY <1>3, <1>10, <2>1, <2>2, <2>3, <2>4 DEF CounterAdvances
<1> QED
  BY <1>6, <1>7, <1>9, <1>11, <1>12

(* Redis: an assertion goes on to the GET, and from there to the SET.        *)
LEMMA CarryOnStep ==
    ASSUME Inv, NEW a \in Assertion, NEW state \in AssertionState,
           asn[a].pc \in Checking, state.pc \in {"update_get", "update_set"},
           state.binding = asn[a].binding,
           state.count = asn[a].count, state.read = asn[a].read,
           CounterAdvances(asn[a].count, asn[a].read),
           state.pc = "update_set" => state.rec = bindings[asn[a].binding],
           AsnOnly(a, state),
           bindings' = bindings, device' = device, overlap' = overlap
    PROVE  /\ AsnType' /\ AsnFrame
           /\ \A x \in Assertion : AsnHolds(x)'
           /\ FallsByOverlap(a)
<1> DEFINE b == asn[a].binding
<1>1. TypeOK /\ AsnHolds(a) /\ asn[a] \in AssertionState
  BY DEF Inv, TypeOK
<1>2. b \in Finisher /\ bindings[b] # None /\ bindings[b] \in Binding
  BY <1>1 DEF AsnHolds, Checking, TypeOK
<1>3. asn' = [asn EXCEPT ![a] = state]
  BY DEF AsnOnly
<1>4. AsnType' /\ AsnFrame
  BY <1>1, <1>3 DEF AsnType, AsnFrame, AsnOnly, TypeOK
<1>5. a \in Verifying(b)
  BY DEF Verifying, Checking
<1>6. ASSUME NEW x \in Assertion, x # a
      PROVE  AsnHolds(x)'
  BY <1>3, <1>4, <1>5, <1>6, OthersHold
<1>7. asn'[a] = state
  BY <1>1, <1>3 DEF TypeOK
<1>8. ASSUME a \notin overlap'
      PROVE  /\ bindings'[b].counter = state.read
             /\ \A other \in Assertion :
                   (asn'[other].binding = b /\ asn'[other].pc \in Checking)
                   => other = a
  <2>1. \A other \in Assertion : other # a => asn'[other] = asn[other]
    BY <1>1, <1>3 DEF TypeOK
  <2>2. /\ bindings[b].counter = asn[a].read
        /\ \A other \in Verifying(b) : other = a
    BY <1>1, <1>8 DEF AsnHolds, Checking
  <2> QED
    BY <2>1, <2>2 DEF Verifying, Checking
<1>9. AsnHolds(a)'
  BY <1>2, <1>7, <1>8 DEF AsnHolds, Verifying, Checking, CounterAdvances
<1>10. FallsByOverlap(a)
  <2>1. \A x \in Finisher : bindings[x] # None => bindings[x].counter \in Nat
    BY <1>1 DEF TypeOK, Binding
  <2> QED
    BY <2>1 DEF FallsByOverlap
<1> QED
  BY <1>4, <1>6, <1>9, <1>10

(* updateBindingCounter, in memory with the acceptance, in Redis in a GET    *)
(* and a SET.                                                                *)
LEMMA CounterStep ==
    ASSUME Inv, NEW a \in Assertion,
           AcceptAssertion(a) \/ UpdateGet(a) \/ UpdateSet(a)
    PROVE  /\ AsnType' /\ AsnFrame
           /\ \A x \in Assertion : AsnHolds(x)'
           /\ FallsByOverlap(a)
<1> DEFINE b == asn[a].binding
<1>1. TypeOK /\ AsnHolds(a) /\ asn[a] \in AssertionState
  BY DEF Inv, TypeOK
<1>2. /\ asn[a].pc \in Checking
      /\ CounterAdvances(asn[a].count, asn[a].read)
      /\ device' = device /\ overlap' = overlap
  BY <1>1 DEF AcceptAssertion, UpdateGet, UpdateSet, AsnHolds, Checking
<1>3. b \in Finisher /\ bindings[b] # None /\ bindings[b] \in Binding
  BY <1>1, <1>2 DEF AsnHolds, Checking, TypeOK
<1>4. CASE AcceptAssertion(a) /\ Redis
  <2> DEFINE state == [asn[a] EXCEPT !.pc = "update_get"]
  <2>1. AsnOnly(a, state) /\ bindings' = bindings
    BY <1>4 DEF AcceptAssertion
  <2>2. /\ state \in AssertionState /\ state.pc = "update_get"
        /\ state.binding = b
        /\ state.count = asn[a].count /\ state.read = asn[a].read
    BY <1>1 DEF AssertionState
  <2> HIDE DEF state
  <2> QED
    BY <1>2, <2>1, <2>2, CarryOnStep
<1>5. CASE UpdateGet(a)
  <2> DEFINE state == [asn[a] EXCEPT !.pc = "update_set", !.rec = bindings[b]]
  <2>1. AsnOnly(a, state) /\ bindings' = bindings
    BY <1>5 DEF UpdateGet
  <2>2. /\ state \in AssertionState /\ state.pc = "update_set"
        /\ state.binding = b /\ state.rec = bindings[b]
        /\ state.count = asn[a].count /\ state.read = asn[a].read
    BY <1>1, <1>3 DEF AssertionState
  <2> HIDE DEF state
  <2> QED
    BY <1>2, <2>1, <2>2, CarryOnStep
<1>6. asn[a].count \in Nat
  BY <1>1 DEF AssertionState
<1>7. CASE AcceptAssertion(a) /\ ~Redis
  <2> DEFINE new == [bindings[b] EXCEPT !.counter = asn[a].count]
  <2>1. /\ new \in Binding /\ new.wallet = bindings[b].wallet
        /\ new.counter = asn[a].count
    BY <1>3, <1>6 DEF Binding
  <2>2. /\ AsnOnly(a, Asserted(a, "verified"))
        /\ bindings' = [bindings EXCEPT ![b] = new]
    BY <1>3, <1>7 DEF AcceptAssertion, WithCounter
  <2> HIDE DEF new
  <2> QED
    BY <1>2, <2>1, <2>2, WriteStep
<1>8. CASE UpdateSet(a)
  <2> DEFINE new == [asn[a].rec EXCEPT !.counter = asn[a].count]
  <2>1. asn[a].rec \in Binding /\ asn[a].rec.wallet = bindings[b].wallet
    BY <1>1, <1>8 DEF UpdateSet, AsnHolds
  <2>2. /\ new \in Binding /\ new.wallet = bindings[b].wallet
        /\ new.counter = asn[a].count
    BY <1>6, <2>1 DEF Binding
  <2>3. /\ AsnOnly(a, Asserted(a, "verified"))
        /\ bindings' = [bindings EXCEPT ![b] = new]
    BY <1>8 DEF UpdateSet
  <2> HIDE DEF new
  <2> QED
    BY <1>2, <2>2, <2>3, WriteStep
<1> QED
  BY <1>4, <1>5, <1>7, <1>8

(* Any step of the two assertion handlers.                                   *)
LEMMA AssertionStep ==
    ASSUME Inv, NEW a \in Assertion,
           AssertStep(a) \/ \E w \in Wallet : LookUpWallet(a, w)
    PROVE  /\ AsnType' /\ AsnFrame
           /\ \A x \in Assertion : AsnHolds(x)'
           /\ FallsByOverlap(a)
<1>1. CASE \E w \in Wallet : LookUpWallet(a, w)
  BY <1>1, LookUpStep
<1>2. CASE \/ LookUpBinding(a) \/ Sign(a) \/ RejectAssertion(a)
           \/ ReadBinding(a) /\ bindings[asn[a].binding] = None
  BY <1>2, OtherQuietSteps
<1>3. CASE ReadBinding(a) /\ bindings[asn[a].binding] # None
  BY <1>3, ReadStep
<1>4. CASE AcceptAssertion(a) \/ UpdateGet(a) \/ UpdateSet(a)
  BY <1>4, CounterStep
<1> QED
  BY <1>1, <1>2, <1>3, <1>4 DEF AssertStep

-----------------------------------------------------------------------------
(* Restarts *)

(* A restart ends the handlers; with the memory stores it also forgets, the  *)
(* bindings together with the pointers to them.                              *)
LEMMA RestartStep ==
    ASSUME Inv, Restart
    PROVE  Inv'
<1>1. TypeOK
  BY DEF Inv
<1>2. /\ UNCHANGED <<kind, clock, offered, device, taken, overlap>>
      /\ restarts' = restarts + 1
      /\ \/ Redis /\ UNCHANGED <<pending, bindings, walletBinding>>
         \/ /\ ~Redis
            /\ pending' = [g \in Registration |-> None]
            /\ bindings' = [f \in Finisher |-> None]
            /\ walletBinding' = [w \in Wallet |-> None]
  BY DEF Restart, stores, histories
<1>3. ASSUME NEW f \in Finisher
      PROVE  /\ finish'[f] \in FinishState
             /\ finish'[f].pc \in {"idle", "done"}
             /\ finish'[f].pc = "idle" => finish[f].pc = "idle"
  <2>1. finish'[f] = IF finish[f].pc \in {"idle", "done"} THEN finish[f]
                     ELSE Refused(f, "lost")
    BY DEF Restart
  <2>2. finish[f] \in FinishState
    BY <1>1 DEF TypeOK
  <2>3. Refused(f, "lost") \in FinishState /\ Refused(f, "lost").pc = "done"
    BY <2>2 DEF Refused, FinishState
  <2> QED
    BY <2>1, <2>2, <2>3
<1>4. ASSUME NEW a \in Assertion
      PROVE  /\ asn'[a] \in AssertionState
             /\ asn'[a].pc \in {"idle", "sent", "signed", "done"}
             /\ asn'[a].pc \in {"sent", "signed"} => asn'[a] = asn[a]
  <2>1. asn'[a] = IF asn[a].pc \in {"idle", "sent", "signed", "done"} THEN asn[a]
                  ELSE Asserted(a, "lost")
    BY DEF Restart
  <2>2. asn[a] \in AssertionState
    BY <1>1 DEF TypeOK
  <2>3. Asserted(a, "lost") \in AssertionState /\ Asserted(a, "lost").pc = "done"
    BY AnswerQuiet
  <2> QED
    BY <2>1, <2>2, <2>3
<1>5. finish' \in [Finisher -> FinishState] /\ asn' \in [Assertion -> AssertionState]
  BY <1>3, <1>4 DEF Restart
<1>6. /\ pending' \in [Registration -> Pending \cup {None}]
      /\ bindings' \in [Finisher -> Binding \cup {None}]
      /\ walletBinding' \in [Wallet -> Finisher \cup {None}]
  BY <1>1, <1>2 DEF TypeOK
<1>7. TypeOK'
  BY <1>1, <1>2, <1>5, <1>6 DEF TypeOK
<1>8. \A g \in Registration : PendHolds(g)'
  BY <1>2 DEF Inv, PendHolds, Redis
<1>9. \A f \in Finisher : FinHolds(f)'
  <2> SUFFICES ASSUME NEW f \in Finisher
               PROVE  FinHolds(f)'
    OBVIOUS
  <2>1. bindings'[f] # None => bindings[f] # None
    BY <1>2
  <2>2. FinHolds(f)
    BY DEF Inv
  <2> QED
    BY <1>3, <2>1, <2>2 DEF FinHolds
<1>10. \A w \in Wallet : PointerHolds(w)'
  BY <1>2 DEF Inv, PointerHolds
<1>11. \A a \in Assertion : AsnHolds(a)'
  <2> SUFFICES ASSUME NEW a \in Assertion
               PROVE  AsnHolds(a)'
    OBVIOUS
  <2>1. AsnHolds(a)
    BY DEF Inv
  <2>2. asn'[a].pc \notin {"idle", "done"} => asn'[a].binding \in Finisher
    BY <1>4, <2>1 DEF AsnHolds
  <2> QED
    BY <1>4, <2>2 DEF AsnHolds
<1> QED
  BY <1>7, <1>8, <1>9, <1>10, <1>11 DEF Inv

-----------------------------------------------------------------------------
(* The invariant *)

\* Nothing has happened at first.
LEMMA InitInv ==
    ASSUME Init
    PROVE  Inv
<1>1. TypeOK
  BY DEF Init, TypeOK, FinishState, AssertionState
<1>2. (\A g \in Registration : PendHolds(g)) /\ (\A f \in Finisher : FinHolds(f))
  BY DEF Init, PendHolds, FinHolds
<1>3. (\A w \in Wallet : PointerHolds(w)) /\ (\A a \in Assertion : AsnHolds(a))
  BY DEF Init, PointerHolds, AsnHolds
<1> QED
  BY <1>1, <1>2, <1>3 DEF Inv

(* The steps of a registration keep the invariant, and consume no            *)
(* registration but one that is kept and whose time is not up.               *)
LEMMA RegistrationStep ==
    ASSUME Inv, RegSteps
    PROVE  /\ Inv'
           /\ RegFrame
           /\ \A g \in Registration : taken'[g] # taken[g] =>
                 pending[g] # None /\ clock < pending[g].until
<1>1. /\ RegType' /\ RegFrame
      /\ \A g \in Registration : PendHolds(g)'
      /\ \A f \in Finisher : FinHolds(f)'
      /\ \A w \in Wallet : PointerHolds(w)'
      /\ \A g \in Registration : taken'[g] # taken[g] =>
            pending[g] # None /\ clock < pending[g].until
  <2>1. CASE Tick
    <3>1. taken' = taken
      BY <2>1 DEF Tick, histories
    <3> QED
      BY <2>1, <3>1, TickStep
  <2>2. CASE \E g \in Registration, w \in Wallet, o \in Origin, left \in Lifetimes,
                delay \in 0..MaxDelay : BeginRegistration(g, w, o, left, delay)
    <3>1. taken' = taken
      BY <2>2 DEF BeginRegistration, histories
    <3> QED
      BY <2>2, <3>1, BeginStep
  <2>3. CASE \E f \in Finisher, g \in Registration, o \in Origin :
                offered[g] # None /\ TakePending(f, g, o)
    BY <2>3, TakeStep
  <2>4. CASE \E f \in Finisher : RegisterStep(f)
    BY <2>4, RegisterCallStep
  <2> QED
    BY <2>1, <2>2, <2>3, <2>4 DEF RegSteps
<1>2. TypeOK'
  BY <1>1 DEF Inv, TypeOK, RegType, RegFrame
<1>3. \A a \in Assertion : AsnHolds(a)'
  BY <1>1, RegKeepsAsn
<1> QED
  BY <1>1, <1>2, <1>3 DEF Inv

\* A step is one of registration, one of an assertion, or time or a restart.
LEMMA NextSplit ==
    ASSUME Next
    PROVE  \/ RegSteps
           \/ \E a \in Assertion : AssertStep(a) \/ \E w \in Wallet : LookUpWallet(a, w)
           \/ Restart
BY DEF Next, RegSteps

\* Every step keeps the invariant.
LEMMA StepInv ==
    ASSUME Inv, [Next]_vars
    PROVE  Inv'
<1>1. CASE RegSteps
  BY <1>1, RegistrationStep
<1>2. CASE \E a \in Assertion : AssertStep(a) \/ \E w \in Wallet : LookUpWallet(a, w)
  BY <1>2, AssertionStep, AsnKeepsReg DEF Inv
<1>3. CASE Restart
  BY <1>3, RestartStep
<1>4. CASE UNCHANGED vars
  <2>1. TypeOK'
    BY <1>4 DEF Inv, TypeOK, vars, stores, histories
  <2>2. (\A g \in Registration : PendHolds(g)') /\ (\A f \in Finisher : FinHolds(f)')
    BY <1>4 DEF Inv, PendHolds, FinHolds, Redis, vars, stores, histories
  <2>3. (\A w \in Wallet : PointerHolds(w)') /\ (\A a \in Assertion : AsnHolds(a)')
    BY <1>4 DEF Inv, PointerHolds, AsnHolds, CounterAdvances, Verifying, vars,
                stores, histories
  <2> QED
    BY <2>1, <2>2, <2>3 DEF Inv
<1> QED
  BY <1>1, <1>2, <1>3, <1>4, NextSplit

(* Types, pointers, what is kept of a registration and what an assertion     *)
(* read stay in step in every behaviour.                                     *)
THEOREM Invariance == Spec => []Inv
<1>1. Init => Inv
  BY InitInv
<1>2. Inv /\ [Next]_vars => Inv'
  BY StepInv
<1> QED
  BY <1>1, <1>2, PTL DEF Spec

-----------------------------------------------------------------------------
(* Theorems *)

(* The type invariant of the passkey bindings, for either store.             *)
THEOREM TypeCorrect == Spec => []TypeOK
<1>1. Inv => TypeOK
  BY DEF Inv
<1> QED
  BY <1>1, Invariance, PTL

(* A wallet with a binding is found by it, whatever re-registrations come    *)
(* between the two GETs of getBindingForWallet.                              *)
THEOREM RegisteredIsFoundHolds == Spec => []RegisteredIsFound
<1>1. Inv => RegisteredIsFound
  BY DEF Inv, PointerHolds, AsnHolds, RegisteredIsFound
<1> QED
  BY <1>1, Invariance, PTL

(* No registration is taken from the memory store after its time, or twice,  *)
(* nor from Redis later than the rounding of its TTL and the delay of its    *)
(* SET allow (consumePendingRegistration of both stores).                    *)
THEOREM TakenInTimeHolds == Spec => TakenInTime
<1>1. Inv /\ [Next]_vars =>
        [\A g \in Registration :
            taken'[g] # taken[g] =>
                /\ clock < offered[g].expiresAt +
                              (IF Redis THEN Second - 1 + offered[g].delay ELSE 0)
                /\ Redis \/ taken[g] = {}]_vars
  <2> SUFFICES ASSUME Inv, Next, NEW g \in Registration, taken'[g] # taken[g]
               PROVE  /\ clock < offered[g].expiresAt +
                            (IF Redis THEN Second - 1 + offered[g].delay ELSE 0)
                      /\ Redis \/ taken[g] = {}
    OBVIOUS
  <2>1. RegSteps
    <3>1. CASE \E a \in Assertion : AssertStep(a) \/ \E w \in Wallet : LookUpWallet(a, w)
      BY <3>1, AssertionStep DEF AsnFrame
    <3>2. CASE Restart
      BY <3>2 DEF Restart, histories
    <3> QED
      BY <3>1, <3>2, NextSplit
  <2>2. pending[g] # None /\ clock < pending[g].until
    BY <2>1, RegistrationStep
  <2>3. PendHolds(g) /\ TypeOK
    BY DEF Inv
  <2>4. /\ clock \in Nat /\ Second \in Nat \ {0}
        /\ pending[g].until \in Nat /\ offered[g].expiresAt \in Nat
        /\ offered[g].delay \in Nat
    BY <2>2, <2>3, PasskeyBounds DEF TypeOK, PendHolds, Pending, Offer
  <2> QED
    BY <2>2, <2>3, <2>4 DEF PendHolds
<1> QED
  BY <1>1, Invariance, PTL DEF Spec, TakenInTime

(* The stored counter of a binding falls only by an assertion that was       *)
(* verified at the same time as another.                                     *)
THEOREM FallbackNeedsOverlapHolds == Spec => FallbackNeedsOverlap
<1>1. Inv /\ [Next]_vars =>
        [\A b \in Finisher :
            /\ bindings[b] # None
            /\ bindings'[b] # None
            /\ bindings'[b].counter < bindings[b].counter
            => \E a \in overlap :
                  asn[a].binding = b /\ asn'[a].count = bindings'[b].counter]_vars
  <2> SUFFICES ASSUME Inv, Next, NEW b \in Finisher,
                      bindings[b] # None, bindings'[b] # None,
                      bindings'[b].counter < bindings[b].counter
               PROVE  \E a \in overlap :
                         asn[a].binding = b /\ asn'[a].count = bindings'[b].counter
    OBVIOUS
  <2>1. bindings[b].counter \in Nat
    BY DEF Inv, TypeOK, Binding
  <2>2. bindings'[b] # bindings[b]
    BY <2>1
  <2>3. CASE RegSteps
    BY <2>2, <2>3, RegistrationStep DEF RegFrame
  <2>4. CASE \E a \in Assertion : AssertStep(a) \/ \E w \in Wallet : LookUpWallet(a, w)
    BY <2>4, AssertionStep DEF FallsByOverlap
  <2>5. CASE Restart
    BY <2>2, <2>5 DEF Restart, stores
  <2> QED
    BY <2>3, <2>4, <2>5, NextSplit
<1> QED
  BY <1>1, Invariance, PTL DEF Spec, FallbackNeedsOverlap
=============================================================================
