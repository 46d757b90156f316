------------------------------ MODULE Passkeys ------------------------------
(* PasskeyBindingService over either of its stores: register/options,        *)
(* register/verify, the lookup of assertion/options, and the counter check   *)
(* of verifyPasskeyBinding in verify-presentation.  With Redis a store       *)
(* method is one action per command; the methods of the memory store run     *)
(* inside the action that calls them.                                        *)
(* A definition named X_Y is X with the plausible bug Y: no action uses it,  *)
(* the README says what it is for.                                           *)
EXTENDS Naturals

CONSTANTS
    Wallet,
    Origin,         \* the allowed origins of the verifier
    Registration,   \* register/options calls, and the registration ids
    Finisher,       \* register/verify calls, and the ids of their bindings
    Assertion,      \* single-use challenges answered with a passkey
    None,
    Kinds,          \* the stores to consider, some of "memory" and "redis"
    Second,         \* instants per second: Redis TTLs are whole seconds
    Lifetimes,      \* what may be left of PASSKEY_REGISTRATION_TTL_MS
    MaxDelay,       \* bound: how long the SET of a registration is under way
    MaxClock,       \* bound: the last instant of the clock
    MaxRestarts     \* bound: restarts of the process

\* What the site is handed, with a history: how long after the process had read
\* the clock for secondsUntil Redis ran the SET of the registration.
Offer == [wallet : Wallet, origin : Origin, expiresAt : Nat, delay : Nat]
\* until is expiresAt in the memory store, the expiry of the key in Redis.
Pending == [wallet : Wallet, origin : Origin, until : Nat]
Binding == [wallet : Wallet, origin : Origin, counter : Nat]

ASSUME PasskeyBounds ==
    /\ None \notin Finisher \cup Offer \cup Pending \cup Binding
    /\ Kinds \subseteq {"memory", "redis"}
    /\ Second \in Nat \ {0}
    /\ Lifetimes \subseteq Nat
    /\ MaxDelay \in Nat
    /\ MaxClock \in Nat
    /\ MaxRestarts \in Nat

VARIABLES
    kind,           \* which store createPasskeyBindingStoreFromEnv chose
    clock,
    offered,        \* Registration -> the registration the site was handed
    pending,        \* Registration -> what the store keeps of it, or None
    bindings,       \* bindingId -> StoredPasskeyBinding or None
    walletBinding,  \* bindingIdsByWallet: Wallet -> bindingId or None
    finish,         \* Finisher -> the state of its register/verify handler
    device,         \* bindingId -> signature counter of its authenticator
    asn,            \* Assertion -> how far its two handlers got
    restarts,
    taken,          \* history: Registration -> the calls that consumed it
    overlap         \* history: assertions verified at the same time as others

stores == <<pending, bindings, walletBinding>>
histories == <<taken, overlap>>
vars == <<kind, clock, offered, stores, finish, device, asn, restarts, histories>>

Redis == kind = "redis"

FinishState ==
    [pc : {"idle", "del", "verifying", "stored", "done"},
     reg : Registration \cup {None}, origin : Origin \cup {None},
     rec : Pending \cup {None},
     answer : {None, "registered", "not_found", "refused", "origin_mismatch",
               "lost"}]

\* read is the counter of the binding getBindingById returned, count the one
\* the authenticator signed.
AssertionState ==
    [pc : {"idle", "by_id", "sent", "signed", "verifying", "update_get",
           "update_set", "done"},
     wallet : Wallet \cup {None}, binding : Finisher \cup {None},
     count : Nat, read : Nat, rec : Binding \cup {None},
     answer : {None, "verified", "not_registered", "failed", "lost"}]

(* Every place an await may stop at has what the next step reads.            *)
TypeOK ==
    /\ kind \in Kinds
    /\ clock \in Nat
    /\ offered \in [Registration -> Offer \cup {None}]
    /\ pending \in [Registration -> Pending \cup {None}]
    /\ bindings \in [Finisher -> Binding \cup {None}]
    /\ walletBinding \in [Wallet -> Finisher \cup {None}]
    /\ finish \in [Finisher -> FinishState]
    /\ device \in [Finisher -> Nat]
    /\ asn \in [Assertion -> AssertionState]
    /\ restarts \in Nat
    /\ taken \in [Registration -> SUBSET Finisher]
    /\ overlap \subseteq Assertion

Init ==
    /\ kind \in Kinds
    /\ clock = 0
    /\ offered = [g \in Registration |-> None]
    /\ pending = [g \in Registration |-> None]
    /\ bindings = [f \in Finisher |-> None]
    /\ walletBinding = [w \in Wallet |-> None]
    /\ finish = [f \in Finisher |-> [pc |-> "idle", reg |-> None,
                    origin |-> None, rec |-> None, answer |-> None]]
    /\ device = [f \in Finisher |-> 0]
    /\ asn = [a \in Assertion |-> [pc |-> "idle", wallet |-> None,
                 binding |-> None, count |-> 0, read |-> 0, rec |-> None,
                 answer |-> None]]
    /\ restarts = 0
    /\ taken = [g \in Registration |-> {}]
    /\ overlap = {}

-----------------------------------------------------------------------------
(* Registration                                                              *)

\* Bug: a registration is kept through the instant it expires.
Live_LastInstant(map, t) ==
    [g \in Registration |->
        IF map[g] # None /\ map[g].until < t THEN None ELSE map[g]]

\* evictExpiredPending, and the expiry of the keys in Redis.
Live(map, t) ==
    [g \in Registration |->
        IF map[g] # None /\ map[g].until <= t THEN None ELSE map[g]]

\* secondsUntil, as the instant the key expires.
KeyExpiry(left) == clock + Second * ((left + Second - 1) \div Second)

\* register/options: beginRegistration with `left` of its time still to go
\* when issuePendingRegistration reads the clock; with Redis a late one is not
\* stored, and the key of the others lives from when Redis runs the SET, delay
\* instants later. Nobody knows the id g while the SET is under way.
BeginRegistration(g, w, o, left, delay) ==
    LET live == Live(pending, clock)
        until == IF Redis THEN KeyExpiry(left) ELSE clock + left
    IN
    /\ offered[g] = None
    /\ delay <= clock /\ (~Redis => delay = 0)
    /\ offered' = [offered EXCEPT ![g] = [wallet |-> w, origin |-> o,
                                          expiresAt |-> clock - delay + left,
                                          delay |-> delay]]
    /\ pending' = IF Redis /\ left = 0 THEN live
                  ELSE [live EXCEPT ![g] = [wallet |-> w, origin |-> o,
                                            until |-> until]]
    /\ UNCHANGED <<kind, clock, bindings, walletBinding, finish, device, asn,
                   restarts, histories>>

FinishOnly(f, state) ==
    /\ finish' = [finish EXCEPT ![f] = state]
    /\ UNCHANGED <<kind, clock, offered, device, asn, restarts, overlap>>

Refused(f, answer) ==
    [finish[f] EXCEPT !.pc = "done", !.rec = None, !.answer = answer]

\* Bug: the pending registration is read and not deleted.
TakePending_Keeps(f, g, o) ==
    /\ finish[f].pc = "idle"
    /\ Live(pending, clock)[g] # None
    /\ FinishOnly(f, [pc |-> "verifying", reg |-> g, origin |-> o,
                      rec |-> Live(pending, clock)[g], answer |-> None])
    /\ pending' = Live(pending, clock)
    /\ taken' = [taken EXCEPT ![g] = @ \cup {f}]
    /\ UNCHANGED <<bindings, walletBinding>>

\* register/verify, consumePendingRegistration: get and delete in one go in
\* memory, a GET whose DEL is still to come in Redis.
TakePending(f, g, o) ==
    LET live == Live(pending, clock)
        hit == live[g]
        state == [pc |-> IF Redis THEN "del" ELSE "verifying", reg |-> g,
                  origin |-> o, rec |-> hit, answer |-> None]
    IN
    /\ finish[f].pc = "idle"
    /\ UNCHANGED <<bindings, walletBinding>>
    /\ \/ /\ hit = None
          /\ FinishOnly(f, [state EXCEPT !.pc = "done", !.answer = "not_found"])
          /\ pending' = live
          /\ UNCHANGED taken
       \/ /\ hit # None
          /\ FinishOnly(f, state)
          /\ pending' = IF Redis THEN live ELSE [live EXCEPT ![g] = None]
          /\ taken' = [taken EXCEPT ![g] = @ \cup {f}]

DeletePending(f) ==
    /\ finish[f].pc = "del"
    /\ FinishOnly(f, [finish[f] EXCEPT !.pc = "verifying"])
    /\ pending' = [pending EXCEPT ![finish[f].reg] = None]
    /\ UNCHANGED <<bindings, walletBinding, taken>>

RefuseCredential(f) ==
    /\ finish[f].pc = "verifying"
    /\ FinishOnly(f, Refused(f, "refused"))
    /\ UNCHANGED <<stores, taken>>

\* Bug: the pointer of the wallet is set without the binding it points to.
StoreBinding_PointerOnly(f) ==
    /\ finish[f].pc = "verifying"
    /\ walletBinding' = [walletBinding EXCEPT ![finish[f].rec.wallet] = f]
    /\ FinishOnly(f, [finish[f] EXCEPT !.pc = "stored"])
    /\ UNCHANGED <<pending, bindings, taken>>

\* verifyRegistrationResponse is content with the credential, whose counter
\* starts at 0: upsertBinding sets both keys (MULTI/EXEC in Redis).
StoreBinding(f) ==
    LET rec == finish[f].rec IN
    /\ finish[f].pc = "verifying"
    /\ bindings' = [bindings EXCEPT ![f] =
                      [wallet |-> rec.wallet, origin |-> rec.origin,
                       counter |-> 0]]
    /\ walletBinding' = [walletBinding EXCEPT ![rec.wallet] = f]
    /\ FinishOnly(f, [finish[f] EXCEPT !.pc = "stored"])
    /\ UNCHANGED <<pending, taken>>

\* register/verify once the binding is stored: only now is the origin of the
\* caller compared with the binding's.
AnswerRegistration(f) ==
    /\ finish[f].pc = "stored"
    /\ FinishOnly(f, Refused(f, IF finish[f].rec.origin # finish[f].origin
                                THEN "origin_mismatch" ELSE "registered"))
    /\ UNCHANGED <<stores, taken>>

-----------------------------------------------------------------------------
(* Assertion                                                                 *)

AsnOnly(a, state) ==
    /\ asn' = [asn EXCEPT ![a] = state]
    /\ UNCHANGED <<kind, clock, offered, pending, walletBinding, finish, restarts,
                   taken>>

Asserted(a, answer) ==
    [asn[a] EXCEPT !.pc = "done", !.rec = None, !.answer = answer]

\* assertion/options, getBindingForWallet: the pointer of the wallet.
LookUpWallet(a, w) ==
    LET b == walletBinding[w]
        state == [asn[a] EXCEPT !.wallet = w, !.binding = b,
                                !.pc = IF Redis THEN "by_id" ELSE "sent"]
    IN
    /\ asn[a].pc = "idle"
    /\ AsnOnly(a, IF b = None
                  THEN [state EXCEPT !.pc = "done", !.answer = "not_registered"]
                  ELSE state)
    /\ UNCHANGED <<bindings, device, overlap>>

\* Its second GET in Redis.
LookUpBinding(a) ==
    /\ asn[a].pc = "by_id"
    /\ AsnOnly(a, IF bindings[asn[a].binding] = None
                  THEN Asserted(a, "not_registered")
                  ELSE [asn[a] EXCEPT !.pc = "sent"])
    /\ UNCHANGED <<bindings, device, overlap>>

\* The authenticator signs the options and counts.
Sign(a) ==
    LET b == asn[a].binding IN
    /\ asn[a].pc = "sent"
    /\ device' = [device EXCEPT ![b] = @ + 1]
    /\ AsnOnly(a, [asn[a] EXCEPT !.pc = "signed", !.count = device[b] + 1])
    /\ UNCHANGED <<bindings, overlap>>

Verifying(b) ==
    {a \in Assertion : /\ asn[a].binding = b
                       /\ asn[a].pc \in {"verifying", "update_get", "update_set"}}

\* Bug: the signature is checked against a counter of zero.
ReadBinding_ZeroCounter(a) ==
    LET b == asn[a].binding IN
    /\ asn[a].pc = "signed"
    /\ bindings[b] # None
    /\ AsnOnly(a, [asn[a] EXCEPT !.pc = "verifying", !.read = 0])
    /\ overlap' = IF Verifying(b) = {} THEN overlap
                  ELSE overlap \cup Verifying(b) \cup {a}
    /\ UNCHANGED <<bindings, device>>

\* verify-presentation, verifyPasskeyBinding up to the signature check.
ReadBinding(a) ==
    LET b == asn[a].binding IN
    /\ asn[a].pc = "signed"
    /\ \/ /\ bindings[b] = None
          /\ AsnOnly(a, Asserted(a, "not_registered"))
          /\ UNCHANGED overlap
       \/ /\ bindings[b] # None
          /\ AsnOnly(a, [asn[a] EXCEPT !.pc = "verifying",
                                       !.read = bindings[b].counter])
          /\ overlap' = IF Verifying(b) = {} THEN overlap
                        ELSE overlap \cup Verifying(b) \cup {a}
    /\ UNCHANGED <<bindings, device>>

\* Bug: the new record is not built from the current one.
WithCounter_Alone(b, counter) ==
    [bindings EXCEPT ![b] = [counter |-> counter]]

WithCounter(b, counter) == [bindings EXCEPT ![b].counter = counter]

\* The signature, or any other check of verifyPresentation, does not hold.
RejectAssertion(a) ==
    /\ asn[a].pc = "verifying"
    /\ AsnOnly(a, Asserted(a, "failed"))
    /\ UNCHANGED <<bindings, device, overlap>>

\* verifyAuthenticationResponse accepts a counter above the one it is given.
CounterAdvances(count, read) == count > read \/ (count = 0 /\ read = 0)

\* verifyAuthenticationResponse has answered; updateBindingCounter begins.
AcceptAssertion(a) ==
    LET b == asn[a].binding IN
    /\ asn[a].pc = "verifying"
    /\ CounterAdvances(asn[a].count, asn[a].read)
    /\ \/ /\ Redis
          /\ AsnOnly(a, [asn[a] EXCEPT !.pc = "update_get"])
          /\ UNCHANGED bindings
       \/ /\ ~Redis
          /\ bindings' = IF bindings[b] = None THEN bindings
                         ELSE WithCounter(b, asn[a].count)
          /\ AsnOnly(a, Asserted(a, "verified"))
    /\ UNCHANGED <<device, overlap>>

\* updateBindingCounter in Redis: the GET and the SET of the whole record.
UpdateGet(a) ==
    /\ asn[a].pc = "update_get"
    /\ AsnOnly(a, [asn[a] EXCEPT !.pc = "update_set",
                                 !.rec = bindings[asn[a].binding]])
    /\ UNCHANGED <<bindings, device, overlap>>

UpdateSet(a) ==
    /\ asn[a].pc = "update_set"
    /\ bindings' = [bindings EXCEPT ![asn[a].binding] =
                      [asn[a].rec EXCEPT !.counter = asn[a].count]]
    /\ AsnOnly(a, Asserted(a, "verified"))
    /\ UNCHANGED <<device, overlap>>

-----------------------------------------------------------------------------
Tick ==
    /\ clock < MaxClock
    /\ clock' = clock + 1
    /\ pending' = IF Redis THEN Live(pending, clock') ELSE pending
    /\ UNCHANGED <<kind, offered, bindings, walletBinding, finish, device, asn,
                   restarts, histories>>

\* The process restarts: its handlers are gone, and with the memory stores
\* everything it knew.
Restart ==
    /\ restarts < MaxRestarts
    /\ restarts' = restarts + 1
    /\ \/ Redis /\ UNCHANGED stores
       \/ /\ ~Redis
          /\ pending' = [g \in Registration |-> None]
          /\ bindings' = [f \in Finisher |-> None]
          /\ walletBinding' = [w \in Wallet |-> None]
    /\ finish' = [f \in Finisher |->
                    IF finish[f].pc \in {"idle", "done"} THEN finish[f]
                    ELSE Refused(f, "lost")]
    /\ asn' = [a \in Assertion |->
                 IF asn[a].pc \in {"idle", "sent", "signed", "done"} THEN asn[a]
                 ELSE Asserted(a, "lost")]
    /\ UNCHANGED <<kind, clock, offered, device, histories>>

RegisterStep(f) ==
    \/ DeletePending(f)
    \/ RefuseCredential(f)
    \/ StoreBinding(f)
    \/ AnswerRegistration(f)

AssertStep(a) ==
    \/ LookUpBinding(a)
    \/ Sign(a)
    \/ ReadBinding(a)
    \/ RejectAssertion(a)
    \/ AcceptAssertion(a)
    \/ UpdateGet(a)
    \/ UpdateSet(a)

Next ==
    \/ Tick
    \/ Restart
    \/ \E g \in Registration, w \in Wallet, o \in Origin, left \in Lifetimes,
          delay \in 0..MaxDelay : BeginRegistration(g, w, o, left, delay)
    \/ \E f \in Finisher, g \in Registration, o \in Origin :
          offered[g] # None /\ TakePending(f, g, o)
    \/ \E f \in Finisher : RegisterStep(f)
    \/ \E a \in Assertion, w \in Wallet : LookUpWallet(a, w)
    \/ \E a \in Assertion : AssertStep(a)

Spec == Init /\ [][Next]_vars

-----------------------------------------------------------------------------
(* Correctness                                                               *)

(* register/verify takes a registration within the ten minutes that          *)
(* beginRegistration gives it.  With Redis only the key bounds how late: its *)
(* TTL ends less than a second, the rounding, after the expiry plus the time *)
(* the SET took to reach Redis.  With the memory store, whose get and delete *)
(* run without an await between them, a registration is taken once only      *)
(* (with Redis maybe more often).  How long the credential is verified after *)
(* that, before its binding is stored, nothing bounds.                       *)
TakenInTime ==
    [][\A g \in Registration :
          taken'[g] # taken[g] =>
              /\ clock < offered[g].expiresAt +
                            (IF Redis THEN Second - 1 + offered[g].delay ELSE 0)
              /\ Redis \/ taken[g] = {}]_vars

(* A wallet that has a binding is never told passkey_not_registered: the     *)
(* pointer leads to a stored binding of that wallet, re-registrations that   *)
(* come between the two lookups included.                                    *)
RegisteredIsFound ==
    /\ \A w \in Wallet :
          walletBinding[w] # None =>
              /\ bindings[walletBinding[w]] # None
              /\ bindings[walletBinding[w]].wallet = w
    /\ \A a \in Assertion : asn[a].pc = "by_id" => bindings[asn[a].binding] # None

(* The stored counter only ever falls back when two assertions of one        *)
(* binding were verified at the same time: on its own each one raises it.    *)
FallbackNeedsOverlap ==
    [][\A b \in Finisher :
          /\ bindings[b] # None
          /\ bindings'[b] # None
          /\ bindings'[b].counter < bindings[b].counter
          => \E a \in overlap :
                asn[a].binding = b /\ asn'[a].count = bindings'[b].counter]_vars
=============================================================================
