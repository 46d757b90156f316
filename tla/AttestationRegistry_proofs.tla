--------------------- MODULE AttestationRegistry_proofs ---------------------
(* Theorems about AttestationRegistry, for any commitments, operators,       *)
(* environments, wishes and histories of the registry, and any numbers of    *)
(* runs: which state is where, and what a claim proof that verifies against  *)
(* the roots of a state says of that state.                                  *)
EXTENDS AttestationRegistry, FiniteSetTheorems, TLAPS

Posts == {"publish", "revoke"}

Publishes(c) == [kind |-> "publish", commitment |-> c]

\* What a run has and its next step relies on.
RunOk(r) ==
    /\ r.version \in 0..Len(log)
    /\ r.pc \in {"read", "truncated"} =>
          r.wish \in Wishes /\ r.kind = r.wish.kind /\ Sound(r.state)
    /\ r.pc \in {"read", "truncated", "written"} => ~r.landed
    /\ r.pc = "written" => r.kind \in Posts \cup {"update"}
    /\ r.pc = "sent" => r.kind \in Posts \cup {"update", "deploy"}
    /\ (r.pc \in {"written", "sent", "ok"} /\ r.kind \in Posts) => r.version # 0
    /\ (r.pc = "written" /\ r.kind \in Posts) => r.state = log[r.version].state
    /\ (r.pc = "written" /\ r.kind = "update") => r.version = 0
    /\ r.pc \in {"deploying", "deployed"} =>
          r.kind = "deploy" /\ r.state = EmptyState /\ r.version = 0

\* The roots of a publish or revoke are those of an entry of the log, an
\* initialize carries those of nothing, and only a deploy sets no anchors.
TxData(t) ==
    /\ t.kind \in Posts =>
          t.version \in 1..Len(log) /\ t.state = log[t.version].state
    /\ t.kind \notin Posts => t.version = 0
    /\ t.kind \in {"deploy", "initialize"} => t.state = EmptyState
    /\ t.kind = "deploy" => t.anchors = NoAnchors
    /\ t.kind # "deploy" => t.anchors.program # Unset

\* A transaction of an operator whose run is r: it is of this run or an
\* earlier one, and of this run only while that waits for it.
TxRun(t, r) ==
    /\ t.nonce <= r.nonce
    /\ (t.nonce = r.nonce /\ r.kind \in Posts) =>
          /\ r.pc = "sent" /\ ~r.landed
          /\ t.kind = r.kind /\ t.version = r.version

AccountHolds ==
    /\ account.deployed <=> account.via # None
    /\ account.via \in Posts =>
          /\ account.version \in 1..Len(log)
          /\ account.state = log[account.version].state
    /\ account.via \notin Posts => account.version = 0
    /\ account.via \in {None, "deploy", "initialize"} => account.state = EmptyState
    /\ account.via \notin {None, "deploy"} => account.anchors.program # Unset
    /\ account.anchors = NoAnchors \/ account.anchors \in anchored

LogHolds ==
    /\ log # <<>>
    /\ \A i \in 1..Len(log) : Sound(log[i].state)

\* What holds whether or not scripts overlap.
Base ==
    /\ TypeOK
    /\ RegistryTrustIsAnchored
    /\ \A o \in Operator : RunOk(run[o])
    /\ \A t \in pending : TxData(t) /\ TxRun(t, run[t.by])
    /\ AccountHolds
    /\ LogHolds

-----------------------------------------------------------------------------

\* Nothing published leaves the log, and a revocation only with a publish.
LogGrows ==
    \A i, j \in 1..Len(log) :
        i <= j =>
            /\ log[i].state.listed \subseteq log[j].state.listed
            /\ \A c \in log[i].state.revoked \ log[j].state.revoked :
                  \E k \in (i + 1)..j : log[k].wish = Publishes(c)

\* The log up to v contains what a state has, or says why not.
Older(state, v) ==
    /\ state.listed \subseteq log[v].state.listed
    /\ \A c \in state.revoked \ log[v].state.revoked :
          \E k \in 1..v : log[k].wish = Publishes(c)

\* It is no news to any entry that may still reach the account.
Outdated(state) ==
    /\ Older(state, Len(log))
    /\ \A t \in pending : t.kind \in Posts => Older(state, t.version)

\* Once a run knows its transaction included, the account has it and no
\* transaction takes it back but an update.
Delivered(r) ==
    /\ account.via = "update" \/ account.version >= r.version
    /\ \A t \in pending : t.kind \in Posts => t.version >= r.version

SoloRun(r) ==
    /\ r.pc \in {"read", "truncated"} =>
          r.state = Fulfil(log[Len(log)].state, r.wish)
    /\ (r.pc = "written" /\ r.kind \in Posts) => r.version = Len(log)
    /\ (r.pc = "written" /\ r.kind = "update") => Outdated(r.state)
    /\ ((r.pc = "ok" \/ (r.pc = "sent" /\ r.landed)) /\ r.kind \in Posts) =>
          Delivered(r)

\* One transaction after the other, none behind the account.
InOrder ==
    /\ \A t, u \in pending :
          (t.kind \in Posts /\ u.kind \in Posts /\ t.nonce < u.nonce) =>
              t.version <= u.version
    /\ \A t \in pending : t.kind \in Posts => account.version <= t.version

OneUnderWay ==
    \A o, p \in Operator : UnderWay(o) /\ UnderWay(p) => o = p

FileHolds ==
    file.form \in {"missing", "json"} => file.state = log[Len(log)].state

\* What holds as long as no two scripts have overlapped.
Solo ==
    /\ OneUnderWay
    /\ FileHolds
    /\ LogGrows
    /\ InOrder
    /\ Outdated(account.state)
    /\ \A t \in pending : t.kind = "update" => Outdated(t.state)
    /\ \A o \in Operator : SoloRun(run[o])

Inv == Base /\ (~overlapped => Solo)

-----------------------------------------------------------------------------
(* States and wishes *)

\* A wish turns a registry state into one, in which every published commitment
\* still has exactly one status.
LEMMA FulfilType ==
    ASSUME NEW s \in RegistryState, NEW w \in Wishes
    PROVE  /\ w.kind \in Posts /\ w.commitment \in Commitment
           /\ Fulfil(s, w) \in RegistryState
           /\ Sound(s) => Sound(Fulfil(s, w))
<1>1. w \in [kind : {"publish", "revoke"}, commitment : Commitment]
  BY RegistryBounds
<1>2. w.kind \in Posts /\ w.commitment \in Commitment
  BY <1>1 DEF Posts
<1>3. Fulfil(s, w) =
         [listed  |-> IF w.kind = "publish" THEN s.listed \cup {w.commitment}
                      ELSE s.listed,
          cleared |-> IF w.kind = "publish" THEN s.cleared \cup {w.commitment}
                      ELSE s.cleared \ {w.commitment},
          revoked |-> IF w.kind = "publish" THEN s.revoked \ {w.commitment}
                      ELSE s.revoked \cup {w.commitment}]
  BY DEF Fulfil, UpsertCredentialCommitment, SetRevocationStatus, RegistryState
<1>4. /\ s.listed \subseteq Commitment /\ s.cleared \subseteq Commitment
      /\ s.revoked \subseteq Commitment
  BY DEF RegistryState
<1>5. Fulfil(s, w) \in RegistryState
  BY <1>2, <1>3, <1>4 DEF RegistryState
<1>6. Sound(s) => Sound(Fulfil(s, w))
  BY <1>3 DEF Sound
<1> QED
  BY <1>2, <1>5, <1>6

\* What a wish takes away it takes away by publishing.
LEMMA FulfilGrows ==
    ASSUME NEW s \in RegistryState, NEW w \in Wishes
    PROVE  /\ s.listed \subseteq Fulfil(s, w).listed
           /\ \A c \in s.revoked \ Fulfil(s, w).revoked : w = Publishes(c)
<1>1. w \in [kind : {"publish", "revoke"}, commitment : Commitment]
  BY RegistryBounds
<1>2. w = [kind |-> w.kind, commitment |-> w.commitment]
  BY <1>1
<1>3. /\ Fulfil(s, w).listed = IF w.kind = "publish"
                               THEN s.listed \cup {w.commitment} ELSE s.listed
      /\ Fulfil(s, w).revoked = IF w.kind = "publish"
                                THEN s.revoked \ {w.commitment}
                                ELSE s.revoked \cup {w.commitment}
  BY DEF Fulfil, UpsertCredentialCommitment, SetRevocationStatus, RegistryState
<1> QED
  BY <1>2, <1>3 DEF Publishes

\* An empty state is one.
LEMMA EmptyStateType ==
    /\ EmptyState \in RegistryState /\ Sound(EmptyState)
    /\ EmptyState.listed = {} /\ EmptyState.revoked = {}
BY DEF EmptyState, RegistryState, Sound

\* Nothing is missing of nothing.
LEMMA EmptyIsOutdated == Outdated(EmptyState)
<1>1. \A v : Older(EmptyState, v)
  BY EmptyStateType DEF Older
<1> QED
  BY <1>1 DEF Outdated

\* Later entries contain what earlier ones do.
LEMMA OlderStays ==
    ASSUME LogGrows, NEW s, NEW v \in 1..Len(log), NEW w \in 1..Len(log),
           Len(log) \in Nat, v <= w, Older(s, v)
    PROVE  Older(s, w)
<1>1. /\ log[v].state.listed \subseteq log[w].state.listed
      /\ \A c \in log[v].state.revoked \ log[w].state.revoked :
            \E k \in (v + 1)..w : log[k].wish = Publishes(c)
  BY DEF LogGrows
<1>2. s.listed \subseteq log[w].state.listed
  BY <1>1 DEF Older
<1>3. ASSUME NEW c \in s.revoked \ log[w].state.revoked
      PROVE  \E k \in 1..w : log[k].wish = Publishes(c)
  <2>1. CASE c \in log[v].state.revoked
    <3>1. PICK k \in (v + 1)..w : log[k].wish = Publishes(c)
      BY <1>1, <1>3, <2>1
    <3>2. k \in 1..w
      BY <3>1
    <3> QED
      BY <3>1, <3>2
  <2>2. CASE c \notin log[v].state.revoked
    <3>1. PICK k \in 1..v : log[k].wish = Publishes(c)
      BY <1>3, <2>2 DEF Older
    <3>2. k \in 1..w
      BY <3>1
    <3> QED
      BY <3>1, <3>2
  <2> QED
    BY <2>1, <2>2
<1> QED
  BY <1>2, <1>3 DEF Older

\* A state of the log is no news to later entries.
LEMMA EntryIsOlder ==
    ASSUME LogGrows, NEW v \in 1..Len(log), NEW w \in 1..Len(log),
           Len(log) \in Nat, v <= w
    PROVE  Older(log[v].state, w)
<1>1. /\ log[v].state.listed \subseteq log[w].state.listed
      /\ \A c \in log[v].state.revoked \ log[w].state.revoked :
            \E k \in (v + 1)..w : log[k].wish = Publishes(c)
  BY DEF LogGrows
<1>2. \A k \in (v + 1)..w : k \in 1..w
  OBVIOUS
<1> QED
  BY <1>1, <1>2 DEF Older

\* The log is a sequence with a last entry.
LEMMA LogType ==
    ASSUME TypeOK, LogHolds
    PROVE  /\ Len(log) \in Nat /\ Len(log) >= 1 /\ Len(log) \in 1..Len(log)
           /\ \A i \in 1..Len(log) : log[i].state \in RegistryState
<1> DEFINE Entry == [wish : Wishes \cup {None}, state : RegistryState]
<1>1. log \in Seq(Entry) /\ log # <<>>
  BY DEF TypeOK, LogHolds
<1>2. \A e \in Entry : e.state \in RegistryState
  OBVIOUS
<1> HIDE DEF Entry
<1>3. Len(log) \in Nat /\ Len(log) >= 1
  BY <1>1
<1>4. \A i \in 1..Len(log) : log[i] \in Entry
  BY <1>1
<1> QED
  BY <1>2, <1>3, <1>4

-----------------------------------------------------------------------------
(* Steps of the scripts that leave log and account alone *)

\* A script's step that gives it the run r and sends the transactions `new`,
\* at most one.
Steps(o, r, new) ==
    /\ run' = [run EXCEPT ![o] = r]
    /\ pending' = pending \cup new
    /\ UNCHANGED <<log, account, anchored, held, verifier, reads>>
    /\ file' \in File /\ Sound(file'.state)
    /\ runs' \in 0..MaxRuns
    /\ overlapped' \in BOOLEAN
    /\ overlapped => overlapped'

\* Such a step keeps what holds of runs, transactions, account and log.
LEMMA StepsKeepBase ==
    ASSUME Inv, NEW o \in Operator, NEW r \in Run, NEW new \in SUBSET Transaction,
           Steps(o, r, new), RunOk(r),
           \A t \in pending : t.by = o => TxRun(t, r),
           \A t \in new : t.by = o /\ TxData(t) /\ TxRun(t, r)
    PROVE  Base'
<1>1. Base /\ TypeOK
  BY DEF Inv, Base
<1>2. /\ run' = [run EXCEPT ![o] = r]
      /\ pending' = pending \cup new
      /\ UNCHANGED <<log, account, anchored, held, verifier, reads>>
      /\ file' \in File /\ Sound(file'.state)
      /\ runs' \in 0..MaxRuns
      /\ overlapped' \in BOOLEAN
  BY DEF Steps
<1>3. TypeOK'
  BY <1>1, <1>2 DEF TypeOK, Sound
<1>4. RegistryTrustIsAnchored' /\ AccountHolds' /\ LogHolds'
  BY <1>1, <1>2 DEF Base, RegistryTrustIsAnchored, AccountHolds, LogHolds, Sound
<1>5. \A p \in Operator : run'[p] = IF p = o THEN r ELSE run[p]
  BY <1>1, <1>2 DEF TypeOK
<1>6. \A p \in Operator : RunOk(run[p])'
  <2> SUFFICES ASSUME NEW p \in Operator
               PROVE  RunOk(run[p])'
    OBVIOUS
  <2>1. RunOk(run'[p])
    BY <1>1, <1>5 DEF Base
  <2> QED
    BY <1>2, <2>1 DEF RunOk, Sound
<1>7. \A t \in pending' : (TxData(t) /\ TxRun(t, run[t.by]))'
  <2> SUFFICES ASSUME NEW t \in pending'
               PROVE  (TxData(t) /\ TxRun(t, run[t.by]))'
    OBVIOUS
  <2>1. t \in Transaction /\ t.by \in Operator
    BY <1>1, <1>2 DEF TypeOK, Transaction
  <2>2. TxData(t) /\ TxRun(t, run'[t.by])
    BY <1>1, <1>2, <1>5, <2>1 DEF Base
  <2> QED
    BY <1>2, <2>2 DEF TxData, TxRun
<1> QED
  BY <1>3, <1>4, <1>6, <1>7 DEF Base

\* If no other script is under way and nobody else has a transaction pending,
\* the transactions remain in order.
LEMMA StepsKeepSolo ==
    ASSUME Inv, NEW o \in Operator, NEW r \in Run, NEW new \in SUBSET Transaction,
           Steps(o, r, new), RunOk(r),
           \A t \in pending : t.by = o => TxRun(t, r),
           ~overlapped',
           \A p \in Operator \ {o} : ~UnderWay(p),
           file'.form \in {"missing", "json"} => file'.state = log[Len(log)].state,
           SoloRun(r),
           \A t \in new : /\ t.by = o /\ t.nonce = r.nonce
                          /\ t.kind \in Posts => t.version = Len(log)
                          /\ t.kind = "update" => Outdated(t.state)
    PROVE  Solo'
<1>1. Base /\ TypeOK /\ Solo
  BY DEF Inv, Base, Steps
<1>2. /\ run' = [run EXCEPT ![o] = r]
      /\ pending' = pending \cup new
      /\ UNCHANGED <<log, account>>
  BY DEF Steps
<1>3. \A p \in Operator : run'[p] = IF p = o THEN r ELSE run[p]
  BY <1>1, <1>2 DEF TypeOK
<1>4. \A t \in pending : t \in Transaction /\ t.by = o
  BY <1>1 DEF TypeOK, Transaction, UnderWay
<1>5. Len(log) \in Nat /\ Len(log) >= 1
  BY <1>1, LogType DEF Base
<1>6. \A t \in pending : t.kind \in Posts => t.version \in 1..Len(log)
  BY <1>1 DEF Base, TxData
<1>7. OneUnderWay'
  <2>1. \A p \in Operator \ {o} : ~UnderWay(p)'
    BY <1>2, <1>3 DEF UnderWay
  <2> QED
    BY <2>1 DEF OneUnderWay
<1>8. FileHolds' /\ LogGrows'
  BY <1>1, <1>2 DEF Solo, FileHolds, LogGrows
<1>9. InOrder'
  <2>1. ASSUME NEW t \in pending', NEW u \in pending',
               t.kind \in Posts, u.kind \in Posts, t.nonce < u.nonce
        PROVE  t.version <= u.version
    <3>1. CASE t \in pending /\ u \in pending
      BY <1>1, <2>1, <3>1 DEF Solo, InOrder
    <3>2. CASE u \in new
      <4>1. u.version = Len(log)
        BY <2>1, <3>2
      <4>2. t.version <= Len(log)
        BY <1>2, <1>5, <1>6, <2>1
      <4> QED
        BY <4>1, <4>2
    <3>3. CASE t \in new /\ u \in pending
      <4>1. t.nonce = r.nonce /\ u.nonce <= r.nonce
        BY <1>4, <3>3 DEF TxRun
      <4>2. t.nonce \in Nat /\ u.nonce \in Nat /\ r.nonce \in Nat
        BY <1>4, <3>3 DEF Transaction, Run
      <4> QED
        BY <2>1, <4>1, <4>2
    <3> QED
      BY <1>2, <3>1, <3>2, <3>3
  <2>2. ASSUME NEW t \in pending', t.kind \in Posts
        PROVE  account.version <= t.version
    <3>1. CASE t \in pending
      BY <1>1, <2>2, <3>1 DEF Solo, InOrder
    <3>2. CASE t \in new
      <4>1. account.version <= Len(log)
        BY <1>1, <1>5 DEF Base, AccountHolds
      <4> QED
        BY <2>2, <3>2, <4>1
    <3> QED
      BY <1>2, <3>1, <3>2
  <2> QED
    BY <1>2, <2>1, <2>2 DEF InOrder
<1>10. ASSUME NEW s, Outdated(s)
       PROVE  Outdated(s)'
  <2>1. \A v : Older(s, v)' <=> Older(s, v)
    BY <1>2 DEF Older
  <2>2. \A t \in pending' : t.kind \in Posts => Older(s, t.version)
    BY <1>2, <1>10 DEF Outdated
  <2> QED
    BY <1>2, <1>10, <2>1, <2>2 DEF Outdated
<1>11. Outdated(account.state)'
  BY <1>1, <1>2, <1>10 DEF Solo
<1>12. \A t \in pending' : (t.kind = "update" => Outdated(t.state))'
  BY <1>1, <1>2, <1>10 DEF Solo
<1>13. ASSUME NEW q \in Run, RunOk(q), SoloRun(q)
       PROVE  SoloRun(q)'
  <2>1. Delivered(q) => Delivered(q)'
    <3>1. q.version <= Len(log)
      BY <1>5, <1>13 DEF RunOk
    <3> QED
      BY <1>2, <3>1 DEF Delivered
  <2>2. (q.pc = "written" /\ q.kind = "update") => Outdated(q.state)'
    BY <1>10, <1>13 DEF SoloRun
  <2> QED
    BY <1>2, <1>13, <2>1, <2>2 DEF SoloRun
<1>14. \A p \in Operator : SoloRun(run[p])'
  <2> SUFFICES ASSUME NEW p \in Operator
               PROVE  SoloRun(run[p])'
    OBVIOUS
  <2>1. run'[p] \in Run /\ RunOk(run'[p]) /\ SoloRun(run'[p])
    BY <1>1, <1>3 DEF Base, Solo, TypeOK
  <2>2. PICK q \in Run : q = run'[p]
    BY <2>1
  <2>3. SoloRun(q)'
    BY <1>13, <2>1, <2>2
  <2> QED
    BY <2>2, <2>3 DEF SoloRun, Delivered, Outdated, Older
<1> QED
  BY <1>7, <1>8, <1>9, <1>11, <1>12, <1>14 DEF Solo

-----------------------------------------------------------------------------
(* Each step of a script *)

\* A script starts: whoever has one under way has overlapped with it.
LEMMA StartStep ==
    ASSUME Inv, NEW o \in Operator, NEW q \in Run, Start(o, q),
           q.nonce = run[o].nonce,
           NEW new \in SUBSET Transaction, pending' = pending \cup new,
           UNCHANGED <<file, log, account, anchored, held, verifier, reads>>,
           RunOk(q), ~overlapped => SoloRun(q),
           \A t \in new : /\ t.by = o /\ t.nonce = run[o].nonce + 1
                          /\ t.kind = "deploy" /\ TxData(t)
                          /\ q.kind \notin Posts
    PROVE  Inv'
<1> DEFINE n == q.nonce + 1
           r == [q EXCEPT !.nonce = n]
<1>1. Base /\ TypeOK
  BY DEF Inv, Base
<1>0. n \in Nat /\ n = run[o].nonce + 1 /\ run[o].nonce \in Nat
  BY <1>1 DEF TypeOK, Run
<1>3. run' = [run EXCEPT ![o] = r]
  BY DEF Start
<1> HIDE DEF n
<1>2. /\ r \in Run /\ r.nonce = run[o].nonce + 1 /\ run[o].nonce \in Nat
      /\ r.pc = q.pc /\ r.kind = q.kind /\ r.version = q.version
      /\ r.state = q.state /\ r.wish = q.wish /\ r.landed = q.landed
  BY <1>0 DEF Run
<1> HIDE DEF r
<1>4. RunOk(r)
  BY <1>2 DEF RunOk
<1>5. ASSUME NEW t \in pending, t.by = o
      PROVE  TxRun(t, r)
  <2>1. t.nonce <= run[o].nonce /\ t.nonce \in Nat
    BY <1>1, <1>5 DEF Base, TxRun, TypeOK, Transaction
  <2> QED
    BY <1>2, <2>1 DEF TxRun
<1>6. /\ \A t \in pending : t.by = o => TxRun(t, r)
      /\ \A t \in new : t.by = o /\ TxData(t) /\ TxRun(t, r)
  <2>1. \A t \in new : TxRun(t, r)
    BY <1>2 DEF TxRun
  <2> QED
    BY <1>5, <2>1
<1>7. Steps(o, r, new)
  <2>1. runs' \in 0..MaxRuns
    BY <1>1, RegistryBounds DEF Start, TypeOK
  <2>2. overlapped' \in BOOLEAN /\ (overlapped => overlapped')
    BY <1>1 DEF Start, TypeOK
  <2> QED
    BY <1>1, <1>3, <2>1, <2>2 DEF Steps, TypeOK
<1>8. Base'
  BY <1>2, <1>4, <1>6, <1>7, StepsKeepBase
<1>9. ASSUME ~overlapped'
      PROVE  Solo'
  <2>1. ~overlapped /\ \A p \in Operator \ {o} : ~UnderWay(p)
    BY <1>9 DEF Start
  <2>2. SoloRun(r)
    BY <1>2, <2>1 DEF SoloRun, Delivered
  <2>3. file'.form \in {"missing", "json"} => file'.state = log[Len(log)].state
    BY <2>1 DEF Inv, Solo, FileHolds
  <2>4. \A t \in new : /\ t.by = o /\ t.nonce = r.nonce
                       /\ t.kind \in Posts => t.version = Len(log)
                       /\ t.kind = "update" => Outdated(t.state)
    BY <1>2 DEF Posts
  <2> QED
    BY <1>2, <1>4, <1>6, <1>7, <1>9, <2>1, <2>2, <2>3, <2>4, StepsKeepSolo
<1> QED
  BY <1>8, <1>9 DEF Inv

\* A script goes on: it is the one under way.
LEMMA GoOnStep ==
    ASSUME Inv, NEW o \in Operator, run[o].pc \notin Resting,
           NEW r \in Run, run' = [run EXCEPT ![o] = r], r.nonce = run[o].nonce,
           NEW new \in SUBSET Transaction, pending' = pending \cup new,
           UNCHANGED <<runs, overlapped, log, account, anchored, held, verifier,
                       reads>>,
           file' = file \/ file' = [form |-> "empty", state |-> EmptyState],
           RunOk(r), ~overlapped => SoloRun(r),
           \A t \in pending : t.by = o => TxRun(t, r),
           \A t \in new : /\ t.by = o /\ t.nonce = r.nonce
                          /\ TxData(t) /\ TxRun(t, r)
                          /\ (~overlapped /\ t.kind \in Posts) => t.version = Len(log)
                          /\ (~overlapped /\ t.kind = "update") => Outdated(t.state)
    PROVE  Inv'
<1>1. Base /\ TypeOK
  BY DEF Inv, Base
<1>2. Steps(o, r, new)
  BY <1>1, EmptyStateType DEF Steps, TypeOK, File
<1>3. Base'
  BY <1>2, StepsKeepBase
<1>4. ASSUME ~overlapped'
      PROVE  Solo'
  <2>1. ~overlapped /\ Solo
    BY <1>4 DEF Inv
  <2>2. \A p \in Operator \ {o} : ~UnderWay(p)
    BY <2>1 DEF Solo, OneUnderWay, UnderWay
  <2>3. file'.form \in {"missing", "json"} => file'.state = log[Len(log)].state
    BY <2>1 DEF Solo, FileHolds
  <2> QED
    BY <1>2, <1>4, <2>1, <2>2, <2>3, StepsKeepSolo
<1> QED
  BY <1>3, <1>4 DEF Inv

\* A run that is over has nothing to keep.
LEMMA FreshType ==
    ASSUME Inv, NEW o \in Operator, NEW pc \in Stages, NEW kind \in Kinds \cup {None}
    PROVE  /\ Fresh(o, pc, kind) \in Run
           /\ Fresh(o, pc, kind).pc = pc /\ Fresh(o, pc, kind).kind = kind
           /\ Fresh(o, pc, kind).version = 0
           /\ Fresh(o, pc, kind).state = EmptyState
           /\ Fresh(o, pc, kind).nonce = run[o].nonce
           /\ ~Fresh(o, pc, kind).landed
BY EmptyStateType DEF Inv, Base, TypeOK, Fresh, Run

\* publish:attestation and revoke:attestation.
LEMMA ReadStateStep ==
    ASSUME Inv, NEW o \in Operator, ReadState(o)
    PROVE  Inv'
<1>1. Base /\ TypeOK
  BY DEF Inv, Base
<1>2. Len(log) \in Nat
  BY <1>1, LogType DEF Base
<1>3. PICK w \in Wishes :
         Start(o, IF file.form \in {"missing", "json"}
                  THEN [Fresh(o, "read", w.kind) EXCEPT
                           !.wish = w, !.state = Fulfil(file.state, w)]
                  ELSE Fresh(o, "failed", w.kind))
  BY DEF ReadState
<1>4. UNCHANGED <<file, log, account, anchored, held, verifier, reads>>
      /\ pending' = pending
  BY DEF ReadState, chain, readers
<1>5. file.state \in RegistryState /\ Sound(file.state)
  BY <1>1 DEF TypeOK, File
<1>6. /\ w.kind \in Posts /\ w.kind \in Kinds
      /\ Fulfil(file.state, w) \in RegistryState /\ Sound(Fulfil(file.state, w))
  BY <1>5, FulfilType DEF Posts, Kinds
<1> PICK none \in SUBSET Transaction : none = {}
  OBVIOUS
<1>9. pending' = pending \cup none /\ \A t \in none : FALSE
  BY <1>4
<1>7. CASE file.form \in {"missing", "json"}
  <2> DEFINE fresh == Fresh(o, "read", w.kind)
             state == Fulfil(file.state, w)
             q == [fresh EXCEPT !.wish = w, !.state = state]
  <2>1. /\ fresh \in Run /\ fresh.pc = "read" /\ fresh.kind = w.kind
        /\ ~fresh.landed /\ fresh.version = 0 /\ fresh.nonce = run[o].nonce
    BY <1>6, FreshType DEF Stages
  <2> HIDE DEF fresh, state
  <2>2. /\ q \in Run /\ q.pc = "read" /\ q.kind = w.kind /\ q.wish = w
        /\ ~q.landed
        /\ q.version = 0 /\ q.nonce = run[o].nonce /\ q.state = state
    BY <1>6, <2>1 DEF Run, state
  <2>3. Start(o, q)
    BY <1>3, <1>7 DEF fresh, state
  <2> HIDE DEF q
  <2>4. RunOk(q)
    BY <1>2, <1>6, <2>2 DEF RunOk, state
  <2>5. ~overlapped => SoloRun(q)
    <3> SUFFICES ASSUME ~overlapped
                 PROVE  SoloRun(q)
      OBVIOUS
    <3>1. file.state = log[Len(log)].state
      BY <1>7 DEF Inv, Solo, FileHolds
    <3> QED
      BY <2>2, <3>1 DEF SoloRun, state
  <2> QED
    BY <1>4, <1>9, <2>2, <2>3, <2>4, <2>5, StartStep
<1>8. CASE file.form \notin {"missing", "json"}
  <2> DEFINE q == Fresh(o, "failed", w.kind)
  <2>1. /\ q \in Run /\ q.pc = "failed" /\ q.version = 0
        /\ q.nonce = run[o].nonce
    BY <1>6, FreshType DEF Stages
  <2>2. Start(o, q)
    BY <1>3, <1>8
  <2> HIDE DEF q
  <2>3. RunOk(q) /\ SoloRun(q)
    BY <1>2, <2>1 DEF RunOk, SoloRun
  <2> QED
    BY <1>4, <1>9, <2>1, <2>2, <2>3, StartStep
<1> QED
  BY <1>7, <1>8

\* writeFile opens the file.
LEMMA TruncateStep ==
    ASSUME Inv, NEW o \in Operator, Truncate(o)
    PROVE  Inv'
<1> DEFINE r == [run[o] EXCEPT !.pc = "truncated"]
<1>1. Base /\ TypeOK /\ run[o] \in Run /\ RunOk(run[o])
  BY DEF Inv, Base, TypeOK
<1>2. /\ run[o].pc = "read"
      /\ run' = [run EXCEPT ![o] = r]
      /\ file' = [form |-> "empty", state |-> EmptyState]
      /\ UNCHANGED <<runs, overlapped, log, account, anchored, held, verifier, reads>>
      /\ pending' = pending
  BY DEF Truncate, chain, readers
<1>3. /\ r \in Run /\ r.pc = "truncated" /\ r.nonce = run[o].nonce
      /\ r.wish = run[o].wish /\ r.kind = run[o].kind
      /\ r.state = run[o].state /\ r.version = run[o].version
      /\ r.landed = run[o].landed
  BY <1>1 DEF Run, Stages
<1> HIDE DEF r
<1>4. RunOk(r)
  BY <1>1, <1>2, <1>3 DEF RunOk
<1>5. ~overlapped => SoloRun(r)
  BY <1>1, <1>2, <1>3 DEF Inv, Solo, SoloRun
<1>6. \A t \in pending : t.by = o => TxRun(t, r)
  BY <1>1, <1>2, <1>3 DEF Base, TxRun
<1> PICK none \in SUBSET Transaction : none = {}
  OBVIOUS
<1>7. pending' = pending \cup none /\ \A t \in none : FALSE
  BY <1>2
<1>8. run[o].pc \notin Resting
  BY <1>2 DEF Resting
<1> QED
  BY <1>2, <1>3, <1>4, <1>5, <1>6, <1>7, <1>8, GoOnStep

\* The script ends, or the deploy is included and the script goes on.
LEMMA FinishWaitStep ==
    ASSUME Inv, NEW o \in Operator, FinishWait(o)
    PROVE  Inv'
<1> DEFINE pc == IF run[o].pc = "sent" THEN "ok" ELSE "deployed"
           fresh == Fresh(o, pc, run[o].kind)
           r == [fresh EXCEPT !.version = run[o].version]
<1>1. Base /\ TypeOK /\ run[o] \in Run /\ RunOk(run[o])
  BY DEF Inv, Base, TypeOK
<1>2. /\ run[o].pc \in {"deploying", "sent"} /\ run[o].landed
      /\ run' = [run EXCEPT ![o] = r]
      /\ UNCHANGED <<file, runs, overlapped, log, account, anchored, held, verifier,
                     reads>>
      /\ pending' = pending
  BY DEF FinishWait, chain, readers
<1>3. run[o].kind \in Kinds \cup {None} /\ run[o].version \in Nat
  BY <1>1 DEF Run
<1>4. /\ fresh \in Run /\ fresh.pc = pc /\ fresh.kind = run[o].kind
      /\ fresh.state = EmptyState /\ fresh.nonce = run[o].nonce /\ ~fresh.landed
  BY <1>3, FreshType DEF Stages
<1> HIDE DEF fresh
<1>5. /\ r \in Run /\ r.pc = pc /\ r.kind = run[o].kind /\ r.state = EmptyState
      /\ r.nonce = run[o].nonce /\ ~r.landed /\ r.version = run[o].version
  BY <1>3, <1>4 DEF Run
<1> HIDE DEF r
<1>6. RunOk(r)
  BY <1>1, <1>2, <1>5 DEF RunOk
<1>7. ~overlapped => SoloRun(r)
  BY <1>1, <1>2, <1>5 DEF Inv, Solo, SoloRun, Delivered, RunOk, Posts
<1>8. \A t \in pending : t.by = o => TxRun(t, r)
  BY <1>1, <1>2, <1>5 DEF Base, TxRun, RunOk, Posts
<1> PICK none \in SUBSET Transaction : none = {}
  OBVIOUS
<1>9. pending' = pending \cup none /\ \A t \in none : FALSE
  BY <1>2
<1>10. run[o].pc \notin Resting
  BY <1>2 DEF Resting
<1> QED
  BY <1>2, <1>5, <1>6, <1>7, <1>8, <1>9, <1>10, GoOnStep

\* A script dies.
LEMMA FailScriptStep ==
    ASSUME Inv, NEW o \in Operator, FailScript(o)
    PROVE  Inv'
<1> DEFINE r == Fresh(o, "failed", None)
<1>1. Base /\ TypeOK /\ run[o] \in Run
  BY DEF Inv, Base, TypeOK
<1>2. /\ run[o].pc \notin Resting
      /\ run' = [run EXCEPT ![o] = r]
      /\ UNCHANGED <<file, runs, overlapped, log, account, anchored, held, verifier,
                     reads>>
      /\ pending' = pending
  BY DEF FailScript, chain, readers
<1>3. /\ r \in Run /\ r.pc = "failed" /\ r.kind = None /\ r.version = 0
      /\ r.nonce = run[o].nonce
  BY FreshType DEF Stages
<1> HIDE DEF r
<1>4. None \notin Posts /\ Len(log) \in Nat
  BY <1>1, LogType, RegistryBounds DEF Posts, Kinds, Base
<1>5. RunOk(r) /\ SoloRun(r)
  BY <1>3, <1>4 DEF RunOk, SoloRun
<1>6. \A t \in pending : t.by = o => TxRun(t, r)
  BY <1>1, <1>3, <1>4 DEF Base, TxRun
<1> PICK none \in SUBSET Transaction : none = {}
  OBVIOUS
<1>7. pending' = pending \cup none /\ \A t \in none : FALSE
  BY <1>2
<1> QED
  BY <1>2, <1>3, <1>5, <1>6, <1>7, GoOnStep

\* What a script sends is a transaction with its nonce, its state and the entry
\* that state is of.
LEMMA SentType ==
    ASSUME Inv, NEW o \in Operator, NEW kind \in Kinds
    PROVE  /\ Sent(o, kind, EnvOf[o]) \in Transaction
           /\ Sent(o, kind, EnvOf[o]).by = o
           /\ Sent(o, kind, EnvOf[o]).nonce = run[o].nonce
           /\ Sent(o, kind, EnvOf[o]).kind = kind
           /\ Sent(o, kind, EnvOf[o]).state = run[o].state
           /\ Sent(o, kind, EnvOf[o]).version = run[o].version
           /\ Sent(o, kind, EnvOf[o]).anchors.program # Unset
<1>1. run[o] \in Run
  BY DEF Inv, Base, TypeOK
<1>2. EnvOf[o] \in Anchors /\ EnvOf[o].program # Unset
  BY RegistryBounds DEF Anchors
<1>3. run[o].nonce \in Nat /\ run[o].state \in RegistryState /\ run[o].version \in Nat
  BY <1>1 DEF Run
<1> QED
  BY <1>2, <1>3 DEF Sent, Transaction

\* The transaction of a publish, a revoke or an update, and that of initialize.
LEMMA SendStep ==
    ASSUME Inv, NEW o \in Operator, SendUpdate(o) \/ SendInitialize(o)
    PROVE  Inv'
<1> DEFINE kind == IF run[o].pc = "written" THEN run[o].kind ELSE "initialize"
           t == Sent(o, kind, EnvOf[o])
           r == [run[o] EXCEPT !.pc = "sent"]
<1>1. Base /\ TypeOK /\ run[o] \in Run /\ RunOk(run[o])
  BY DEF Inv, Base, TypeOK
<1>2. /\ run[o].pc \in {"written", "deployed"}
      /\ run' = [run EXCEPT ![o] = r]
      /\ pending' = pending \cup {t}
      /\ UNCHANGED <<file, runs, overlapped, log, account, anchored, held, verifier,
                     reads>>
  BY DEF SendUpdate, SendInitialize, readers
<1>3. /\ kind \in Kinds
      /\ run[o].pc = "written" => kind \in Posts \cup {"update"} /\ kind = run[o].kind
      /\ run[o].pc = "deployed" => /\ kind = "initialize" /\ run[o].kind = "deploy"
                                   /\ run[o].state = EmptyState
                                   /\ run[o].version = 0
  BY <1>1, <1>2 DEF RunOk, Kinds, Posts
<1>4. /\ t \in Transaction /\ t.by = o /\ t.nonce = run[o].nonce /\ t.kind = kind
      /\ t.state = run[o].state /\ t.version = run[o].version
      /\ t.anchors.program # Unset
  BY <1>3, SentType
<1>5. /\ r \in Run /\ r.pc = "sent" /\ r.kind = run[o].kind
      /\ r.nonce = run[o].nonce /\ r.version = run[o].version
      /\ r.landed = run[o].landed
  BY <1>1 DEF Run, Stages
<1> HIDE DEF kind, t, r
<1>6. RunOk(r)
  BY <1>1, <1>2, <1>3, <1>5 DEF RunOk, Posts
<1>7. Len(log) \in Nat
  BY <1>1, LogType DEF Base
<1>8. TxData(t)
  BY <1>1, <1>2, <1>3, <1>4, <1>7 DEF TxData, RunOk, Posts
<1>9. \A u \in pending : u.by = o => TxRun(u, r)
  BY <1>1, <1>2, <1>5 DEF Base, TxRun, RunOk, Posts
<1>10. TxRun(t, r)
  BY <1>1, <1>2, <1>3, <1>4, <1>5 DEF TxRun, RunOk, Run, Posts
<1>11. ~overlapped => SoloRun(r)
  BY <1>1, <1>2, <1>5 DEF SoloRun, RunOk, Posts
<1>12. ~overlapped =>
          /\ t.kind \in Posts => t.version = Len(log)
          /\ t.kind = "update" => Outdated(t.state)
  <2> SUFFICES ASSUME ~overlapped
               PROVE  /\ t.kind \in Posts => t.version = Len(log)
                      /\ t.kind = "update" => Outdated(t.state)
    OBVIOUS
  <2>1. SoloRun(run[o])
    BY DEF Inv, Solo
  <2>2. run[o].pc = "deployed" => t.kind \notin Posts \cup {"update"}
    BY <1>3, <1>4 DEF Posts
  <2> QED
    BY <1>2, <1>3, <1>4, <2>1, <2>2 DEF SoloRun
<1>13. PICK new \in SUBSET Transaction : new = {t}
  BY <1>4
<1>14. /\ pending' = pending \cup new
       /\ \A u \in new : /\ u.by = o /\ u.nonce = r.nonce
                         /\ TxData(u) /\ TxRun(u, r)
                         /\ (~overlapped /\ u.kind \in Posts) => u.version = Len(log)
                         /\ (~overlapped /\ u.kind = "update") => Outdated(u.state)
  BY <1>2, <1>4, <1>5, <1>8, <1>10, <1>12, <1>13
<1>15. run[o].pc \notin Resting
  BY <1>2 DEF Resting
<1> QED
  BY <1>2, <1>5, <1>6, <1>9, <1>11, <1>14, <1>15, GoOnStep

\* update:registry: its roots are those of the account, or of nothing.
LEMMA UpdateRegistryStep ==
    ASSUME Inv, NEW o \in Operator, UpdateRegistry(o)
    PROVE  Inv'
<1>1. Base /\ TypeOK /\ account.state \in RegistryState
  BY DEF Inv, Base, TypeOK, Account
<1>2. PICK credentials \in {EmptyState, account.state},
           revocations \in {EmptyState, account.state} :
         Start(o, [Fresh(o, "written", "update") EXCEPT
                      !.state = [listed  |-> credentials.listed,
                                 cleared |-> revocations.cleared,
                                 revoked |-> revocations.revoked]])
  BY DEF UpdateRegistry
<1> DEFINE state == [listed  |-> credentials.listed,
                     cleared |-> revocations.cleared,
                     revoked |-> revocations.revoked]
           fresh == Fresh(o, "written", "update")
           q == [fresh EXCEPT !.state = state]
<1>3. credentials \in RegistryState /\ revocations \in RegistryState
  BY <1>1, EmptyStateType
<1>4. /\ state \in RegistryState
      /\ state.listed = credentials.listed /\ state.revoked = revocations.revoked
  BY <1>3 DEF RegistryState
<1>5. /\ fresh \in Run /\ fresh.pc = "written" /\ fresh.kind = "update"
      /\ fresh.version = 0 /\ fresh.nonce = run[o].nonce /\ ~fresh.landed
  BY FreshType DEF Stages, Kinds
<1> HIDE DEF fresh, state
<1>6. /\ q \in Run /\ q.pc = "written" /\ q.kind = "update" /\ ~q.landed
      /\ q.version = 0 /\ q.nonce = run[o].nonce /\ q.state = state
  BY <1>4, <1>5 DEF Run
<1>7. Start(o, q)
  BY <1>2 DEF fresh, state
<1> HIDE DEF q
<1>8. Len(log) \in Nat
  BY <1>1, LogType DEF Base
<1>9. RunOk(q)
  BY <1>6, <1>8 DEF RunOk, Posts
<1>10. ~overlapped => SoloRun(q)
  <2> SUFFICES ASSUME ~overlapped
               PROVE  SoloRun(q)
    OBVIOUS
  <2>1. Outdated(account.state) /\ Outdated(EmptyState)
    BY EmptyIsOutdated DEF Inv, Solo
  <2>2. Outdated(credentials) /\ Outdated(revocations)
    BY <2>1
  <2>3. Outdated(state)
    BY <1>4, <2>2 DEF Outdated, Older
  <2> QED
    BY <1>6, <2>3 DEF SoloRun, Posts
<1>11. UNCHANGED <<file, log, account, anchored, held, verifier, reads>>
       /\ pending' = pending
  BY DEF UpdateRegistry, chain, readers
<1> PICK none \in SUBSET Transaction : none = {}
  OBVIOUS
<1>12. pending' = pending \cup none /\ \A t \in none : FALSE
  BY <1>11
<1> QED
  BY <1>6, <1>7, <1>9, <1>10, <1>11, <1>12, StartStep

\* deploy:registry sends the account.
LEMMA DeployRegistryStep ==
    ASSUME Inv, NEW o \in Operator, DeployRegistry(o)
    PROVE  Inv'
<1> DEFINE q == Fresh(o, "deploying", "deploy")
           n == run[o].nonce + 1
           t == [by |-> o, nonce |-> n, kind |-> "deploy", anchors |-> NoAnchors,
                 state |-> EmptyState, version |-> 0]
<1>1. Base /\ TypeOK /\ run[o] \in Run
  BY DEF Inv, Base, TypeOK
<1>2. /\ Start(o, q)
      /\ pending' = pending \cup {t}
      /\ UNCHANGED <<file, log, account, anchored, held, verifier, reads>>
  BY DEF DeployRegistry, readers
<1>3. /\ q \in Run /\ q.pc = "deploying" /\ q.kind = "deploy"
      /\ q.version = 0 /\ q.nonce = run[o].nonce /\ ~q.landed
      /\ q.state = EmptyState
  BY FreshType DEF Stages, Kinds
<1>4. n \in Nat /\ NoAnchors \in Anchors
  BY <1>1 DEF Run, NoAnchors, Anchors
<1> HIDE DEF q, n
<1>5. t \in Transaction
  BY <1>4, EmptyStateType DEF Transaction, Kinds
<1>6. TxData(t) /\ t.by = o /\ t.nonce = n /\ t.kind = "deploy"
  BY DEF TxData, Posts
<1> HIDE DEF t
<1>7. Len(log) \in Nat
  BY <1>1, LogType DEF Base
<1>8. RunOk(q) /\ SoloRun(q)
  BY <1>3, <1>7 DEF RunOk, SoloRun, Posts
<1>9. PICK new \in SUBSET Transaction : new = {t}
  BY <1>5
<1>10. /\ pending' = pending \cup new
       /\ \A u \in new : /\ u.by = o /\ u.nonce = run[o].nonce + 1
                         /\ u.kind = "deploy" /\ TxData(u)
                         /\ q.kind \notin Posts
  BY <1>2, <1>3, <1>6, <1>9 DEF n, Posts
<1> QED
  BY <1>2, <1>3, <1>8, <1>10, StartStep

-----------------------------------------------------------------------------
(* The log grows *)

\* The log with an entry more.
LEMMA AppendFacts ==
    ASSUME TypeOK, LogHolds, NEW w \in Wishes, NEW s \in RegistryState,
           log' = Append(log, [wish |-> w, state |-> s])
    PROVE  /\ Len(log') = Len(log) + 1
           /\ \A i \in 1..Len(log) : log'[i] = log[i]
           /\ log'[Len(log) + 1].wish = w
           /\ log'[Len(log) + 1].state = s
           /\ log' \in Seq([wish : Wishes \cup {None}, state : RegistryState])
           /\ log' # <<>>
<1> DEFINE Entry == [wish : Wishes \cup {None}, state : RegistryState]
           e == [wish |-> w, state |-> s]
<1>1. log \in Seq(Entry) /\ e \in Entry /\ e.wish = w /\ e.state = s
  BY DEF TypeOK
<1> HIDE DEF Entry, e
<1>2. log' = Append(log, e)
  BY DEF e
<1>3. /\ log' \in Seq(Entry) /\ Len(log') = Len(log) + 1
      /\ \A i \in 1..Len(log) : log'[i] = log[i]
      /\ log'[Len(log) + 1] = e
  BY <1>1, <1>2
<1>4. log' # <<>>
  BY <1>1, <1>2
<1> QED
  BY <1>1, <1>3, <1>4 DEF Entry

\* An entry made of the last one is no exception to what the log is.
LEMMA LogGrowsStep ==
    ASSUME TypeOK, LogHolds, LogGrows, NEW w \in Wishes,
           log' = Append(log, [wish |-> w, state |-> Fulfil(log[Len(log)].state, w)])
    PROVE  /\ LogGrows'
           /\ \A s : Older(s, Len(log)) => Older(s, Len(log))'
<1> DEFINE last == log[Len(log)].state
           next == Fulfil(last, w)
           n == Len(log)
<1>1. n \in Nat /\ n >= 1 /\ n \in 1..n /\ last \in RegistryState
  BY LogType
<1>2. next \in RegistryState
  BY <1>1, FulfilType
<1>3. /\ last.listed \subseteq next.listed
      /\ \A c \in last.revoked \ next.revoked : w = Publishes(c)
  BY <1>1, FulfilGrows
<1>4. /\ Len(log') = n + 1
      /\ \A i \in 1..n : log'[i] = log[i]
      /\ log'[n + 1].wish = w
      /\ log'[n + 1].state = next
  BY <1>2, AppendFacts
<1>5. last = log[n].state
  OBVIOUS
<1> HIDE DEF last, next, n
<1>6. ASSUME NEW i \in 1..n
      PROVE  /\ log[i].state.listed \subseteq next.listed
             /\ \A c \in log[i].state.revoked \ next.revoked :
                   \E k \in (i + 1)..(n + 1) : log'[k].wish = Publishes(c)
  <2>1. /\ log[i].state.listed \subseteq last.listed
        /\ \A c \in log[i].state.revoked \ last.revoked :
              \E k \in (i + 1)..n : log[k].wish = Publishes(c)
    BY <1>1, <1>5 DEF LogGrows, n
  <2>2. ASSUME NEW c \in log[i].state.revoked \ next.revoked
        PROVE  \E k \in (i + 1)..(n + 1) : log'[k].wish = Publishes(c)
    <3>1. CASE c \in last.revoked
      BY <1>1, <1>3, <1>4, <2>2, <3>1
    <3>2. CASE c \notin last.revoked
      <4>1. PICK k \in (i + 1)..n : log[k].wish = Publishes(c)
        BY <2>1, <2>2, <3>2
      <4>2. k \in (i + 1)..(n + 1) /\ k \in 1..n
        BY <1>1, <4>1
      <4> QED
        BY <1>4, <4>1, <4>2
    <3> QED
      BY <3>1, <3>2
  <2> QED
    BY <1>3, <2>1, <2>2
<1>7. LogGrows'
  <2> SUFFICES ASSUME NEW i \in 1..(n + 1), NEW j \in 1..(n + 1), i <= j
               PROVE  /\ log'[i].state.listed \subseteq log'[j].state.listed
                      /\ \A c \in log'[i].state.revoked \ log'[j].state.revoked :
                            \E k \in (i + 1)..j : log'[k].wish = Publishes(c)
    BY <1>4 DEF LogGrows
  <2>1. CASE j \in 1..n
    <3>1. i \in 1..n
      BY <1>1, <2>1
    <3>2. \A k \in (i + 1)..j : log'[k] = log[k]
      BY <1>1, <1>4, <2>1, <3>1
    <3> QED
      BY <1>4, <2>1, <3>1, <3>2 DEF LogGrows, n
  <2>2. CASE i = n + 1 /\ j = n + 1
    BY <2>2
  <2>3. CASE i \in 1..n /\ j = n + 1
    BY <1>4, <1>6, <2>3
  <2>4. \/ j \in 1..n
        \/ i = n + 1 /\ j = n + 1
        \/ i \in 1..n /\ j = n + 1
    BY <1>1
  <2> QED
    BY <2>1, <2>2, <2>3, <2>4
<1>8. ASSUME NEW s, Older(s, n)
      PROVE  /\ s.listed \subseteq log'[n + 1].state.listed
             /\ \A c \in s.revoked \ log'[n + 1].state.revoked :
                   \E k \in 1..(n + 1) : log'[k].wish = Publishes(c)
  <2>1. s.listed \subseteq next.listed
    BY <1>3, <1>5, <1>8 DEF Older
  <2>2. ASSUME NEW c \in s.revoked \ next.revoked
        PROVE  \E k \in 1..(n + 1) : log'[k].wish = Publishes(c)
    <3>1. CASE c \in last.revoked
      BY <1>1, <1>3, <1>4, <2>2, <3>1
    <3>2. CASE c \notin last.revoked
      <4>1. PICK k \in 1..n : log[k].wish = Publishes(c)
        BY <1>5, <1>8, <2>2, <3>2 DEF Older
      <4>2. k \in 1..(n + 1)
        BY <1>1, <4>1
      <4> QED
        BY <1>4, <4>1, <4>2
    <3> QED
      BY <3>1, <3>2
  <2> QED
    BY <1>4, <2>1, <2>2
<1>9. \A s : Older(s, n) => Older(s, Len(log))'
  BY <1>4, <1>8 DEF Older
<1> QED
  BY <1>7, <1>9 DEF n

\* writeFile writes: an entry of the log, and of the file unless it is garbled.
LEMMA WriteStateStep ==
    ASSUME Inv, NEW o \in Operator, WriteState(o)
    PROVE  Inv'
<1> DEFINE n == Len(log)
           m == n + 1
           r == [run[o] EXCEPT !.pc = "written", !.version = m]
           s == run[o].state
           w == run[o].wish
<1>1. Base /\ TypeOK /\ run[o] \in Run /\ RunOk(run[o]) /\ LogHolds
  BY DEF Inv, Base, TypeOK
<1>2. n \in Nat /\ n >= 1 /\ m \in Nat /\ m = n + 1
  BY <1>1, LogType
<1>3. /\ run[o].pc = "truncated" /\ w \in Wishes /\ run[o].kind = w.kind
      /\ s \in RegistryState /\ Sound(s) /\ ~run[o].landed
  BY <1>1 DEF WriteState, RunOk, Run
<1>4. w.kind \in Posts
  BY <1>3, FulfilType, EmptyStateType
<1>5. /\ UNCHANGED <<runs, overlapped, pending, account, anchored, held, verifier,
                     reads>>
      /\ log' = Append(log, [wish |-> w, state |-> s])
      /\ run' = [run EXCEPT ![o] = r]
  <2>1. run' = [run EXCEPT ![o].pc = "written", ![o].version = n + 1]
    BY DEF WriteState
  <2>2. run' = [run EXCEPT ![o] = r]
    BY <1>1, <2>1 DEF TypeOK, Run
  <2> QED
    BY <2>2 DEF WriteState, chain, readers
<1>6. /\ Len(log') = n + 1
      /\ \A i \in 1..n : log'[i] = log[i]
      /\ log'[n + 1].state = s
      /\ log' \in Seq([wish : Wishes \cup {None}, state : RegistryState])
      /\ log' # <<>>
  BY <1>1, <1>3, <1>5, AppendFacts
<1> HIDE DEF m
<1>7. /\ r \in Run /\ r.pc = "written" /\ r.kind = w.kind /\ r.version = n + 1
      /\ r.state = s /\ ~r.landed /\ r.nonce = run[o].nonce
  BY <1>1, <1>2, <1>3 DEF Run, Stages
<1>8. /\ file' \in File /\ Sound(file'.state)
      /\ file'.form \in {"json", "garbled"}
      /\ file'.form = "json" => file'.state = s
  <2>1. PICK form \in {"json", "garbled"} :
           file' = [form |-> form, state |-> IF form = "json" THEN s ELSE EmptyState]
    BY DEF WriteState
  <2> QED
    BY <1>3, <2>1, EmptyStateType DEF File
<1> HIDE DEF r, s, w
<1>9. TypeOK'
  BY <1>1, <1>5, <1>6, <1>7, <1>8 DEF TypeOK, Sound
<1>10. \A p \in Operator : run'[p] = IF p = o THEN r ELSE run[p]
  BY <1>1, <1>5 DEF TypeOK
<1>11. Base'
  <2>1. RegistryTrustIsAnchored'
    BY <1>1, <1>5 DEF Base, RegistryTrustIsAnchored
  <2>2. AccountHolds'
    BY <1>1, <1>2, <1>5, <1>6 DEF Base, AccountHolds
  <2>3. LogHolds'
    <3>1. \A i \in 1..(n + 1) : i \in 1..n \/ i = n + 1
      BY <1>2
    <3> QED
      BY <1>1, <1>3, <1>6, <3>1 DEF LogHolds, Sound, s
  <2>4. \A p \in Operator : RunOk(run[p])'
    <3> SUFFICES ASSUME NEW p \in Operator
                 PROVE  RunOk(run[p])'
      OBVIOUS
    <3>1. CASE p = o
      BY <1>2, <1>4, <1>6, <1>7, <1>10, <3>1 DEF RunOk, Posts
    <3>2. CASE p # o
      <4>1. RunOk(run[p]) /\ run'[p] = run[p]
        BY <1>1, <1>10, <3>2 DEF Base
      <4>2. run[p].version \in 0..n /\ (run[p].version # 0 => run[p].version \in 1..n)
        BY <1>2, <4>1 DEF RunOk
      <4>3. run[p].version \in 0..(n + 1)
        BY <1>2, <4>2
      <4> QED
        BY <1>6, <4>1, <4>2, <4>3 DEF RunOk, Sound, Posts
    <3> QED
      BY <3>1, <3>2
  <2>5. \A t \in pending' : (TxData(t) /\ TxRun(t, run[t.by]))'
    <3> SUFFICES ASSUME NEW t \in pending
                 PROVE  (TxData(t) /\ TxRun(t, run[t.by]))'
      BY <1>5
    <3>1. t.by \in Operator /\ TxData(t) /\ TxRun(t, run[t.by])
      BY <1>1 DEF Base, TypeOK, Transaction
    <3>2. TxData(t)'
      BY <1>2, <1>6, <3>1 DEF TxData
    <3>3. TxRun(t, run'[t.by])
      BY <1>3, <1>4, <1>7, <1>10, <3>1 DEF TxRun
    <3> QED
      BY <3>2, <3>3 DEF TxRun
  <2> QED
    BY <1>9, <2>1, <2>2, <2>3, <2>4, <2>5 DEF Base
<1>12. ASSUME ~overlapped'
       PROVE  Solo'
  <2>1. Solo
    BY <1>5, <1>12 DEF Inv
  <2>2. \A p \in Operator \ {o} : ~UnderWay(p)
    BY <1>3, <2>1 DEF Solo, OneUnderWay, UnderWay, Resting
  <2>3. s = Fulfil(log[n].state, w)
    BY <1>3, <2>1 DEF Solo, SoloRun, s, w
  <2>4. LogGrows' /\ \A x : Older(x, n) => Older(x, Len(log))'
    BY <1>1, <1>3, <1>5, <2>1, <2>3, LogGrowsStep DEF Solo
  <2>5. ASSUME NEW v \in 1..n, NEW x, Older(x, v)
        PROVE  Older(x, v)'
    <3>1. \A k \in 1..v : k \in 1..n
      BY <1>2
    <3> QED
      BY <1>6, <2>5, <3>1 DEF Older
  <2>6. ASSUME NEW x, Outdated(x)
        PROVE  Outdated(x)'
    <3>1. Older(x, Len(log))'
      BY <2>4, <2>6 DEF Outdated
    <3>2. \A t \in pending : t.kind \in Posts => Older(x, t.version)'
      BY <1>1, <2>5, <2>6 DEF Outdated, Base, TxData
    <3> QED
      BY <1>5, <3>1, <3>2 DEF Outdated, Older
  <2>7. Outdated(account.state)' /\ \A t \in pending' : (t.kind = "update" => Outdated(t.state))'
    BY <1>5, <2>1, <2>6 DEF Solo
  <2>8. OneUnderWay'
    <3>1. \A p \in Operator \ {o} : ~UnderWay(p)'
      BY <1>5, <1>10, <2>2 DEF UnderWay
    <3> QED
      BY <3>1 DEF OneUnderWay
  <2>9. FileHolds'
    BY <1>6, <1>8 DEF FileHolds
  <2>10. InOrder'
    BY <1>5, <2>1 DEF Solo, InOrder
  <2>11. ASSUME NEW p \in Operator
         PROVE  SoloRun(run[p])'
    <3>1. CASE p = o
      BY <1>4, <1>6, <1>7, <1>10, <3>1 DEF SoloRun, Posts
    <3>2. CASE p # o
      <4>1. SoloRun(run[p]) /\ run'[p] = run[p]
        BY <1>10, <2>1, <3>2 DEF Solo
      <4>2. run[p].pc \in Resting
        BY <2>2, <3>2 DEF UnderWay
      <4> QED
        BY <1>5, <4>1, <4>2 DEF SoloRun, Delivered, Resting
    <3> QED
      BY <3>1, <3>2
  <2> QED
    BY <2>4, <2>7, <2>8, <2>9, <2>10, <2>11 DEF Solo
<1> QED
  BY <1>11, <1>12 DEF Inv

-----------------------------------------------------------------------------
(* The account and the readers *)

\* What an inclusion changes: the account, the pending transactions of the same
\* operator up to this one, and whether its run has landed.
LEMMA IncludeFacts ==
    ASSUME Inv, NEW t \in pending, Include(t)
    PROVE  /\ t \in Transaction /\ t.by \in Operator
           /\ account' = [deployed |-> TRUE, anchors |-> t.anchors,
                          state |-> t.state, version |-> t.version, via |-> t.kind]
           /\ pending' \subseteq pending
           /\ \A u \in pending' : u.by = t.by => u.nonce > t.nonce
           /\ UNCHANGED <<file, runs, log, overlapped, held, verifier, reads>>
           /\ run' \in [Operator -> Run]
           /\ \A p \in Operator \ {t.by} : run'[p] = run[p]
           /\ \E landed \in BOOLEAN :
                /\ run'[t.by] = [run[t.by] EXCEPT !.landed = landed]
                /\ run[t.by].landed => landed
                /\ (landed /\ ~run[t.by].landed) =>
                      t.nonce = run[t.by].nonce
                        /\ run[t.by].pc \in {"deploying", "sent"}
<1>1. Base /\ TypeOK
  BY DEF Inv, Base
<1>2. t \in Transaction /\ t.by \in Operator
  BY <1>1 DEF TypeOK, Transaction
<1> DEFINE before == run[t.by].landed
           now == t.nonce = run[t.by].nonce
                    /\ run[t.by].pc = IF t.kind = "deploy" THEN "deploying" ELSE "sent"
           landed == before \/ now
           r == [run[t.by] EXCEPT !.landed = landed]
<1>3. run' = [run EXCEPT ![t.by] = r]
  <2>1. run' = [run EXCEPT ![t.by].landed =
                  @ \/ (t.nonce = run[t.by].nonce /\ run[t.by].pc =
                            IF t.kind = "deploy" THEN "deploying" ELSE "sent")]
    BY DEF Include
  <2> QED
    BY <1>1, <1>2, <2>1 DEF TypeOK
<1>4. run[t.by] \in Run /\ before \in BOOLEAN
  BY <1>1, <1>2 DEF TypeOK, Run
<1>5. landed \in BOOLEAN
  OBVIOUS
<1>6. now => t.nonce = run[t.by].nonce /\ run[t.by].pc \in {"deploying", "sent"}
  OBVIOUS
<1>7. (before => landed) /\ ((landed /\ ~before) => now)
  BY <1>4
<1> HIDE DEF landed, now
<1>8. r \in Run
  BY <1>4, <1>5 DEF Run
<1>9. /\ run' \in [Operator -> Run]
      /\ \A p \in Operator \ {t.by} : run'[p] = run[p]
      /\ run'[t.by] = r
  BY <1>1, <1>2, <1>3, <1>8 DEF TypeOK
<1>10. /\ account' = [deployed |-> TRUE, anchors |-> t.anchors,
                      state |-> t.state, version |-> t.version, via |-> t.kind]
       /\ pending' = {u \in pending : u.by = t.by => u.nonce > t.nonce}
       /\ UNCHANGED <<file, runs, log, overlapped, held, verifier, reads>>
  BY DEF Include, readers
<1> QED
  BY <1>2, <1>5, <1>6, <1>7, <1>9, <1>10

\* A transaction is included.
LEMMA IncludeStep ==
    ASSUME Inv, NEW t \in pending, Include(t)
    PROVE  Inv'
<1>1. Base /\ TypeOK
  BY DEF Inv, Base
<1>2. /\ t \in Transaction /\ t.by \in Operator
      /\ account' = [deployed |-> TRUE, anchors |-> t.anchors,
                     state |-> t.state, version |-> t.version, via |-> t.kind]
      /\ pending' \subseteq pending
      /\ \A u \in pending' : u.by = t.by => u.nonce > t.nonce
      /\ UNCHANGED <<file, runs, log, overlapped, held, verifier, reads>>
      /\ run' \in [Operator -> Run]
      /\ \A p \in Operator \ {t.by} : run'[p] = run[p]
  BY IncludeFacts
<1>3. PICK landed \in BOOLEAN :
         /\ run'[t.by] = [run[t.by] EXCEPT !.landed = landed]
         /\ run[t.by].landed => landed
         /\ (landed /\ ~run[t.by].landed) =>
               t.nonce = run[t.by].nonce /\ run[t.by].pc \in {"deploying", "sent"}
  BY IncludeFacts
<1> DEFINE old == run[t.by]
           new == run'[t.by]
<1>4. /\ new \in Run /\ old \in Run
      /\ new.pc = old.pc /\ new.kind = old.kind /\ new.wish = old.wish
      /\ new.state = old.state /\ new.version = old.version
      /\ new.nonce = old.nonce /\ new.landed = landed
  BY <1>1, <1>2, <1>3 DEF TypeOK, Run
<1>5. /\ t.kind \in Kinds /\ t.anchors \in Anchors /\ t.state \in RegistryState
      /\ t.version \in Nat /\ t.nonce \in Nat
      /\ TxData(t) /\ TxRun(t, old)
  BY <1>1, <1>2 DEF Base, Transaction
<1>6. /\ account'.deployed /\ account'.anchors = t.anchors
      /\ account'.state = t.state /\ account'.version = t.version
      /\ account'.via = t.kind
  BY <1>2
<1>7. /\ anchored \subseteq anchored' /\ anchored' \subseteq Anchors
      /\ t.kind # "deploy" => t.anchors \in anchored'
  BY <1>1, <1>5 DEF Include, TypeOK
<1>8. None \notin Kinds /\ Len(log) \in Nat
  BY <1>1, LogType, RegistryBounds DEF Base
<1> HIDE DEF old, new
<1>9. Base'
  <2>1. account' \in Account
    BY <1>2, <1>5 DEF Account
  <2>2. t.kind # "update" => Sound(t.state)
    BY <1>1, <1>5, EmptyStateType DEF TxData, Base, LogHolds, Posts, Kinds
  <2>3. TypeOK'
    BY <1>1, <1>2, <1>6, <1>7, <2>1, <2>2 DEF TypeOK, Sound
  <2>4. RegistryTrustIsAnchored'
    BY <1>1, <1>2, <1>7 DEF Base, RegistryTrustIsAnchored
  <2>5. \A p \in Operator : RunOk(run[p])'
    <3> SUFFICES ASSUME NEW p \in Operator
                 PROVE  RunOk(run[p])'
      OBVIOUS
    <3>1. RunOk(run[p])
      BY <1>1 DEF Base
    <3>2. p # t.by => RunOk(run'[p])
      BY <1>2, <3>1
    <3>3. p = t.by => RunOk(run'[p])
      BY <1>3, <1>4, <3>1 DEF RunOk, new, old
    <3> QED
      BY <1>2, <3>2, <3>3 DEF RunOk, Sound
  <2>6. \A u \in pending' : (TxData(u) /\ TxRun(u, run[u.by]))'
    <3> SUFFICES ASSUME NEW u \in pending'
                 PROVE  (TxData(u) /\ TxRun(u, run[u.by]))'
      OBVIOUS
    <3>1. u \in Transaction /\ u.by \in Operator /\ TxData(u) /\ TxRun(u, run[u.by])
      BY <1>1, <1>2 DEF Base, TypeOK, Transaction
    <3>2. u.by = t.by => TxRun(u, new)
      <4> SUFFICES ASSUME u.by = t.by
                   PROVE  TxRun(u, new)
        OBVIOUS
      <4>1. u.nonce > t.nonce /\ u.nonce \in Nat /\ TxRun(u, old)
        BY <1>2, <3>1 DEF Transaction, old
      <4>2. u.nonce = old.nonce => landed = old.landed
        BY <1>3, <1>4, <1>5, <4>1 DEF old, Run
      <4> QED
        BY <1>4, <4>1, <4>2 DEF TxRun
    <3>3. TxRun(u, run'[u.by])
      BY <1>2, <3>1, <3>2 DEF new
    <3> QED
      BY <1>2, <3>1, <3>3 DEF TxData, TxRun
  <2>7. AccountHolds'
    BY <1>2, <1>5, <1>6, <1>7, <1>8 DEF AccountHolds, TxData, Posts
  <2>8. LogHolds'
    BY <1>1, <1>2 DEF Base, LogHolds, Sound
  <2> QED
    BY <2>3, <2>4, <2>5, <2>6, <2>7, <2>8 DEF Base
<1>10. ASSUME ~overlapped'
       PROVE  Solo'
  <2>1. Solo
    BY <1>2, <1>10 DEF Inv
  <2>2. \A u \in pending : u \in Transaction /\ u.by = t.by
    BY <1>1, <1>2, <2>1 DEF Solo, OneUnderWay, UnderWay, TypeOK, Transaction
  <2>3. \A u \in pending' : u.nonce > t.nonce
    BY <1>2, <2>2
  <2>4. OneUnderWay'
    <3>1. ASSUME NEW p \in Operator, UnderWay(p)'
          PROVE  UnderWay(p)
      <4>1. run'[p].pc = run[p].pc
        BY <1>2, <1>4 DEF new, old
      <4> QED
        BY <1>2, <3>1, <4>1 DEF UnderWay
    <3> QED
      BY <2>1, <3>1 DEF Solo, OneUnderWay
  <2>5. FileHolds' /\ LogGrows'
    BY <1>2, <2>1 DEF Solo, FileHolds, LogGrows
  <2>6. ASSUME NEW u \in pending', u.kind \in Posts
        PROVE  /\ u.version \in 1..Len(log)
               /\ t.kind \in Posts => t.version <= u.version
    <3>1. u \in pending /\ u.nonce > t.nonce /\ u.nonce \in Nat
      BY <1>2, <2>2, <2>3 DEF Transaction
    <3> QED
      BY <1>1, <1>5, <2>1, <2>6, <3>1 DEF Base, TxData, Solo, InOrder
  <2>7. InOrder'
    <3>1. \A u \in pending' : u.kind \in Posts => t.version <= u.version
      BY <1>5, <1>8, <2>6 DEF TxData
    <3> QED
      BY <1>2, <1>6, <2>1, <3>1 DEF Solo, InOrder
  <2>8. ASSUME NEW s, Outdated(s)
        PROVE  Outdated(s)'
    BY <1>2, <2>8 DEF Outdated, Older
  <2>9. Outdated(t.state)'
    <3>1. CASE t.kind \in Posts
      <4>1. t.version \in 1..Len(log) /\ t.state = log[t.version].state
        BY <1>5, <3>1 DEF TxData
      <4>2. Older(t.state, Len(log))
        BY <1>8, <2>1, <4>1, EntryIsOlder DEF Solo
      <4>3. \A u \in pending' : u.kind \in Posts => Older(t.state, u.version)
        BY <1>8, <2>1, <2>6, <3>1, <4>1, EntryIsOlder DEF Solo
      <4> QED
        BY <1>2, <4>2, <4>3 DEF Outdated, Older
    <3>2. CASE t.kind = "update"
      BY <2>1, <2>8, <3>2 DEF Solo
    <3>3. CASE t.kind \in {"deploy", "initialize"}
      <4>1. t.state = EmptyState
        BY <1>5, <3>3 DEF TxData
      <4> QED
        BY <2>8, <4>1, EmptyIsOutdated
    <3> QED
      BY <1>5, <3>1, <3>2, <3>3 DEF Kinds, Posts
  <2>10. Outdated(account.state)'
    BY <1>6, <2>9 DEF Outdated, Older
  <2>11. \A u \in pending' : (u.kind = "update" => Outdated(u.state))'
    BY <1>2, <2>1, <2>8 DEF Solo
  <2>12. ASSUME NEW q \in Run, RunOk(q), q.kind \in Posts,
                q.pc = "ok" \/ q.pc = "sent", Delivered(q)
         PROVE  Delivered(q)'
    <3>1. q.version # 0 /\ q.version \in Nat
      BY <1>8, <2>12 DEF RunOk
    <3>2. account.via = "update" \/ account.via \in Posts
      BY <1>1, <2>12, <3>1 DEF Base, AccountHolds, Delivered
    <3>3. account.deployed /\ account.anchors.program # Unset
      BY <1>1, <1>8, <3>2 DEF Base, AccountHolds, Kinds, Posts
    <3>4. t.kind \in Posts \cup {"update"}
      BY <1>5, <3>3 DEF Include, Precondition, Kinds, Posts
    <3>5. t.kind \in Posts => t.version >= q.version
      BY <2>12 DEF Delivered
    <3> QED
      BY <1>2, <1>6, <2>12, <3>4, <3>5 DEF Delivered
  <2>13. ASSUME NEW p \in Operator
         PROVE  SoloRun(run[p])'
    <3>1. SoloRun(run[p]) /\ RunOk(run[p]) /\ run[p] \in Run
      BY <1>1, <2>1 DEF Base, Solo, TypeOK
    <3>2. PICK q \in Run : q = run[p]
      BY <3>1
    <3>3. PICK q2 \in Run : q2 = run'[p]
      BY <1>2
    <3>4. /\ q2.pc = q.pc /\ q2.kind = q.kind /\ q2.wish = q.wish
          /\ q2.state = q.state /\ q2.version = q.version
      BY <1>2, <1>4, <3>2, <3>3 DEF new, old
    <3>5. /\ q2.pc \in {"read", "truncated"} =>
                q2.state = Fulfil(log[Len(log)].state, q2.wish)
          /\ (q2.pc = "written" /\ q2.kind \in Posts) => q2.version = Len(log)
          /\ (q2.pc = "written" /\ q2.kind = "update") => Outdated(q2.state)'
      BY <2>8, <3>1, <3>2, <3>4 DEF SoloRun
    <3>6. ASSUME q2.pc = "ok" \/ (q2.pc = "sent" /\ q2.landed), q2.kind \in Posts
          PROVE  Delivered(q2)'
      <4>1. CASE q.pc = "ok" \/ q.landed
        <5>1. Delivered(q)
          BY <3>1, <3>2, <3>4, <3>6, <4>1 DEF SoloRun
        <5>2. Delivered(q)'
          BY <2>12, <3>1, <3>2, <3>4, <3>6, <5>1
        <5> QED
          BY <3>4, <5>2 DEF Delivered
      <4>2. CASE ~(q.pc = "ok" \/ q.landed)
        <5>1. p = t.by /\ q2.landed /\ q.pc = "sent"
          BY <1>2, <3>2, <3>3, <3>4, <3>6, <4>2
        <5>2. t.nonce = q.nonce
          BY <1>3, <1>4, <3>2, <3>3, <4>2, <5>1 DEF new
        <5>3. t.version = q.version
          BY <1>5, <3>2, <3>4, <3>6, <5>1, <5>2 DEF TxRun, old
        <5>4. \A u \in pending' : FALSE
          <6> SUFFICES ASSUME NEW u \in pending'
                       PROVE  FALSE
            OBVIOUS
          <6>1. u.nonce <= q.nonce /\ u.nonce \in Nat
            BY <1>1, <1>2, <2>2, <3>2, <5>1 DEF Base, TxRun, Transaction
          <6> QED
            BY <1>5, <2>3, <5>2, <6>1
        <5> QED
          BY <1>5, <1>6, <3>4, <5>3, <5>4 DEF Delivered
      <4> QED
        BY <4>1, <4>2
    <3>7. SoloRun(q2)'
      BY <1>2, <3>5, <3>6 DEF SoloRun
    <3> QED
      BY <3>3, <3>7 DEF SoloRun, Delivered, Outdated, Older
  <2> QED
    BY <2>4, <2>5, <2>7, <2>10, <2>11, <2>13 DEF Solo
<1> QED
  BY <1>9, <1>10 DEF Inv

\* A transaction is lost.
LEMMA DropStep ==
    ASSUME Inv, NEW t \in pending, Drop(t)
    PROVE  Inv'
<1>1. Base
  BY DEF Inv
<1>2. /\ pending' \subseteq pending
      /\ UNCHANGED <<file, run, runs, log, overlapped, account, anchored, held,
                     verifier, reads>>
  BY DEF Drop, scripts, readers
<1>3. Base'
  <2>1. TypeOK'
    BY <1>1, <1>2 DEF Base, TypeOK, Sound
  <2>2. RegistryTrustIsAnchored' /\ AccountHolds' /\ LogHolds'
    BY <1>1, <1>2 DEF Base, RegistryTrustIsAnchored, AccountHolds, LogHolds, Sound
  <2>3. \A o \in Operator : RunOk(run[o])'
    BY <1>1, <1>2 DEF Base, RunOk, Sound
  <2>4. \A u \in pending' : (TxData(u) /\ TxRun(u, run[u.by]))'
    BY <1>1, <1>2 DEF Base, TxData, TxRun
  <2> QED
    BY <2>1, <2>2, <2>3, <2>4 DEF Base
<1>4. ASSUME ~overlapped'
      PROVE  Solo'
  <2>1. Solo
    BY <1>2, <1>4 DEF Inv
  <2>2. ASSUME NEW s, Outdated(s)
        PROVE  Outdated(s)'
    BY <1>2, <2>2 DEF Outdated, Older
  <2>3. OneUnderWay' /\ FileHolds' /\ LogGrows' /\ InOrder'
    BY <1>2, <2>1 DEF Solo, OneUnderWay, UnderWay, FileHolds, LogGrows, InOrder
  <2>4. Outdated(account.state)' /\ \A u \in pending' : (u.kind = "update" => Outdated(u.state))'
    BY <1>2, <2>1, <2>2 DEF Solo
  <2>5. ASSUME NEW o \in Operator
        PROVE  SoloRun(run[o])'
    <3>1. SoloRun(run[o]) /\ run'[o] = run[o]
      BY <1>2, <2>1 DEF Solo
    <3>2. Outdated(run[o].state) => Outdated(run[o].state)'
      BY <1>2, <2>2
    <3>3. Delivered(run[o]) => Delivered(run[o])'
      BY <1>2 DEF Delivered
    <3> QED
      BY <1>2, <3>1, <3>2, <3>3 DEF SoloRun
  <2> QED
    BY <2>3, <2>4, <2>5 DEF Solo
<1> QED
  BY <1>3, <1>4 DEF Inv

\* What no reader touches.
LEMMA ReadersKeep ==
    ASSUME Inv, UNCHANGED <<scripts, chain>>, TypeOK', RegistryTrustIsAnchored'
    PROVE  Inv'
<1>1. UNCHANGED <<file, run, runs, log, overlapped, pending, account, anchored>>
  BY DEF scripts, chain
<1>2. Base'
  <2>1. AccountHolds' /\ LogHolds'
    BY <1>1 DEF Inv, Base, AccountHolds, LogHolds, Sound
  <2>2. \A o \in Operator : RunOk(run[o])'
    BY <1>1 DEF Inv, Base, RunOk, Sound
  <2>3. \A t \in pending' : (TxData(t) /\ TxRun(t, run[t.by]))'
    BY <1>1 DEF Inv, Base, TxData, TxRun
  <2> QED
    BY <2>1, <2>2, <2>3 DEF Base
<1>3. ~overlapped' => Solo'
  <2> SUFFICES ASSUME ~overlapped'
               PROVE  Solo'
    OBVIOUS
  <2>1. Solo
    BY <1>1 DEF Inv
  <2>2. OneUnderWay' /\ FileHolds' /\ LogGrows' /\ InOrder'
    BY <1>1, <2>1 DEF Solo, OneUnderWay, UnderWay, FileHolds, LogGrows, InOrder
  <2>3. Outdated(account.state)' /\ \A u \in pending' : (u.kind = "update" => Outdated(u.state))'
    BY <1>1, <2>1 DEF Solo, Outdated, Older
  <2>4. \A o \in Operator : SoloRun(run[o])'
    BY <1>1, <2>1 DEF Solo, SoloRun, Delivered, Outdated, Older
  <2> QED
    BY <2>2, <2>3, <2>4 DEF Solo
<1> QED
  BY <1>2, <1>3 DEF Inv

\* The holder and the verifier: what the verifier takes from the registry is
\* what the account has now, for programs that are some.
LEMMA ReaderStep ==
    ASSUME Inv, TakeProof \/ StartVerifier
    PROVE  Inv'
<1>1. Base /\ TypeOK /\ AccountHolds
  BY DEF Inv, Base
<1>2. UNCHANGED <<file, run, runs, log, overlapped, pending, account, anchored>>
  BY DEF TakeProof, StartVerifier, scripts, chain
<1>3. reads' \in 0..MaxReads
  BY <1>1, RegistryBounds DEF TakeProof, StartVerifier, TypeOK
<1>4. CASE TakeProof
  <2>1. verifier' = verifier
    BY <1>4 DEF TakeProof
  <2>2. held'.commitment \in Commitment /\ held'.state \in RegistryState
    BY <1>1, <1>4, RegistryBounds DEF TakeProof, TypeOK, File
  <2>3. TypeOK' /\ RegistryTrustIsAnchored'
    BY <1>1, <1>2, <1>3, <2>1, <2>2 DEF Inv, Base, TypeOK, RegistryTrustIsAnchored, Sound
  <2> QED
    BY <1>2, <2>3, ReadersKeep DEF scripts, chain
<1>5. CASE StartVerifier
  <2>1. held' = held
    BY <1>5 DEF StartVerifier
  <2>2. PICK s \in Settings, found \in BOOLEAN :
           verifier' = [settings |-> s,
                        trust    |-> ResolveTrust(s, found, account.anchors)]
    BY <1>1, <1>5 DEF StartVerifier, TypeOK, Account
  <2>3. s \in TrustSettings /\ s.program # Unset /\ s.program \in Program
    BY RegistryBounds DEF TrustSettings
  <2>4. account.anchors \in Anchors
    BY <1>1 DEF TypeOK, Account
  <2> DEFINE trust == ResolveTrust(s, found, account.anchors)
  <2>5. trust.source = "registry" =>
           /\ account.anchors.program = s.program
           /\ trust.issuer = account.anchors.issuer
    BY DEF ResolveTrust, EnvContext
  <2>6. s.mode = "registry" =>
           \/ trust.source \in {"registry", "failed"}
           \/ trust.source = "env" /\ ~s.configured
    BY DEF ResolveTrust, EnvContext
  <2> HIDE DEF trust
  <2>7. trust.source = "registry" =>
           [issuer |-> trust.issuer, program |-> s.program] \in anchored
    <3> SUFFICES ASSUME trust.source = "registry"
                 PROVE  [issuer |-> trust.issuer, program |-> s.program] \in anchored
      OBVIOUS
    <3>1. account.anchors = [issuer  |-> account.anchors.issuer,
                             program |-> account.anchors.program]
      BY <2>4 DEF Anchors
    <3>2. account.anchors # NoAnchors
      BY <2>3, <2>5 DEF NoAnchors
    <3> QED
      BY <1>1, <2>5, <3>1, <3>2 DEF AccountHolds
  <2>8. verifier'.settings = s /\ verifier'.trust = trust
    BY <2>2 DEF trust
  <2>9. TypeOK' /\ RegistryTrustIsAnchored'
    BY <1>1, <1>2, <1>3, <2>1, <2>6, <2>7, <2>8 DEF TypeOK, RegistryTrustIsAnchored, Sound
  <2> QED
    BY <1>2, <2>9, ReadersKeep DEF scripts, chain
<1> QED
  BY <1>4, <1>5

-----------------------------------------------------------------------------
(* The invariant *)

\* Nothing has happened at first.
LEMMA InitInv ==
    ASSUME Init
    PROVE  Inv
<1>1. PICK old \in Histories :
         /\ file = [form  |-> IF old = {} THEN "missing" ELSE "json",
                    state |-> Published(old)]
         /\ log = <<[wish |-> None, state |-> Published(old)]>>
         /\ IF old = {}
            THEN /\ account = [deployed |-> FALSE, anchors |-> NoAnchors,
                               state |-> EmptyState, version |-> 0,
                               via |-> None]
                 /\ anchored = {}
            ELSE \E o \in Operator :
                   /\ account = [deployed |-> TRUE, anchors |-> EnvOf[o],
                                 state |-> Published(old), version |-> 1,
                                 via |-> "publish"]
                   /\ anchored = {EnvOf[o]}
  BY DEF Init
<1> DEFINE first == Published(old)
<1>2. first \in RegistryState /\ Sound(first)
  BY RegistryBounds DEF Published, RegistryState, Sound
<1>3. /\ None \notin Kinds /\ NoAnchors \in Anchors
      /\ \A o \in Operator : EnvOf[o] \in Anchors /\ EnvOf[o].program # Unset
  BY RegistryBounds DEF NoAnchors, Anchors
<1>4. /\ Len(log) = 1 /\ log[1].state = first /\ log # <<>>
      /\ log \in Seq([wish : Wishes \cup {None}, state : RegistryState])
  BY <1>1, <1>2
<1>5. /\ account \in Account /\ anchored \subseteq Anchors
      /\ account.via # "update" => Sound(account.state)
      /\ account.via \in {None, "publish"}
      /\ AccountHolds
  <2>1. CASE old = {}
    <3>1. account = [deployed |-> FALSE, anchors |-> NoAnchors,
                     state |-> EmptyState, version |-> 0, via |-> None]
             /\ anchored = {}
      BY <1>1, <2>1
    <3> QED
      BY <1>3, <3>1, EmptyStateType DEF Account, AccountHolds, Kinds, Posts
  <2>2. CASE old # {}
    <3>1. PICK o \in Operator :
             /\ account = [deployed |-> TRUE, anchors |-> EnvOf[o],
                           state |-> first, version |-> 1, via |-> "publish"]
             /\ anchored = {EnvOf[o]}
      BY <1>1, <2>2
    <3> QED
      BY <1>2, <1>3, <1>4, <3>1 DEF Account, AccountHolds, Kinds, Posts
  <2> QED
    BY <2>1, <2>2
<1>6. file \in File /\ file.state = first
  BY <1>1, <1>2 DEF File
<1> HIDE DEF first
<1>7. /\ run \in [Operator -> Run]
      /\ \A o \in Operator : /\ run[o].pc = "idle" /\ run[o].kind = None
                             /\ run[o].version = 0 /\ run[o].nonce = 0
      /\ pending = {} /\ held = None /\ verifier = None /\ ~overlapped
      /\ runs \in 0..MaxRuns /\ reads \in 0..MaxReads /\ overlapped \in BOOLEAN
  <2> DEFINE resting == [pc |-> "idle", kind |-> None, wish |-> None,
                         state |-> EmptyState, version |-> 0, nonce |-> 0,
                         landed |-> FALSE]
  <2>1. resting \in Run /\ resting.pc = "idle" /\ resting.kind = None
        /\ resting.version = 0 /\ resting.nonce = 0
    BY EmptyStateType DEF Run, Stages
  <2>2. run = [o \in Operator |-> resting]
    BY DEF Init
  <2> HIDE DEF resting
  <2>3. /\ pending = {} /\ held = None /\ verifier = None /\ ~overlapped
        /\ runs = 0 /\ reads = 0 /\ overlapped \in BOOLEAN
    BY DEF Init
  <2> QED
    BY <2>1, <2>2, <2>3, RegistryBounds
<1>8. TypeOK
  BY <1>2, <1>4, <1>5, <1>6, <1>7 DEF TypeOK
<1>9. LogHolds
  BY <1>2, <1>4 DEF LogHolds
<1>10. Base
  BY <1>4, <1>5, <1>7, <1>8, <1>9 DEF Base, RegistryTrustIsAnchored, RunOk, Posts
<1>11. LogGrows
  BY <1>4 DEF LogGrows
<1>12. account.state = EmptyState \/ account.state = log[1].state
  <2>1. account.via = "publish" => account.version = 1
    BY <1>4, <1>5 DEF AccountHolds, Posts
  <2> QED
    BY <1>5, <2>1 DEF AccountHolds, Posts
<1>13. Outdated(account.state)
  <2>1. Older(log[1].state, 1)
    BY DEF Older
  <2> QED
    BY <1>4, <1>7, <1>12, <2>1, EmptyIsOutdated DEF Outdated
<1>14. Solo
  BY <1>4, <1>6, <1>7, <1>11, <1>13
     DEF Solo, OneUnderWay, UnderWay, Resting, FileHolds, InOrder, SoloRun
<1> QED
  BY <1>10, <1>14 DEF Inv

\* Every step keeps the invariant.
LEMMA StepInv ==
    ASSUME Inv, [Next]_vars
    PROVE  Inv'
<1>1. CASE \E o \in Operator :
              \/ ReadState(o) \/ Truncate(o) \/ WriteState(o)
              \/ UpdateRegistry(o) \/ SendUpdate(o)
              \/ DeployRegistry(o) \/ SendInitialize(o)
              \/ FinishWait(o) \/ FailScript(o)
  BY <1>1, ReadStateStep, TruncateStep, WriteStateStep, UpdateRegistryStep, SendStep,
     DeployRegistryStep, FinishWaitStep, FailScriptStep
<1>2. CASE \E t \in pending : Include(t) \/ Drop(t)
  BY <1>2, IncludeStep, DropStep
<1>3. CASE TakeProof \/ StartVerifier
  BY <1>3, ReaderStep
<1>4. CASE UNCHANGED vars
  <2>1. UNCHANGED <<scripts, chain>>
    BY <1>4 DEF vars
  <2>2. TypeOK' /\ RegistryTrustIsAnchored'
    BY <1>4 DEF vars, scripts, chain, readers, Inv, Base, TypeOK,
                RegistryTrustIsAnchored, Sound
  <2> QED
    BY <2>1, <2>2, ReadersKeep
<1> QED
  BY <1>1, <1>2, <1>3, <1>4 DEF Next

(* File, runs, transactions and account fit the log in every behaviour, and  *)
(* in order as long as scripts do not overlap.                               *)
THEOREM Invariance == Spec => []Inv
<1>1. Init => Inv
  BY InitInv
<1>2. Inv /\ [Next]_vars => Inv'
  BY StepInv
<1> QED
  BY <1>1, <1>2, PTL DEF Spec

-----------------------------------------------------------------------------
(* Theorems *)

\* Only two actions move the log or the account.
LEMMA Movers ==
    ASSUME Next
    PROVE  \/ UNCHANGED <<log, account>>
           \/ \E o \in Operator : WriteState(o)
           \/ \E t \in pending : Include(t)
BY DEF Next, ReadState, Truncate, UpdateRegistry, SendUpdate, DeployRegistry,
       SendInitialize, FinishWait, FailScript, Drop, TakeProof, StartVerifier,
       scripts, chain

(* Types, and every published commitment of file and account has exactly one *)
(* status, whatever scripts overlap, crash or fail.                          *)
THEOREM TypeCorrect == Spec => []TypeOK
<1>1. Inv => TypeOK
  BY DEF Inv, Base
<1> QED
  BY <1>1, Invariance, PTL

(* The issuer a verifier takes from the registry was anchored there for the  *)
(* programs it compiled; under TRUST_SOURCE=registry it takes no other unless*)
(* the registry's address or its endpoint is missing (resolveVerifierTrust-  *)
(* Context), where one from the environment is trusted instead.              *)
THEOREM RegistryTrustHolds == Spec => []RegistryTrustIsAnchored
<1>1. Inv => RegistryTrustIsAnchored
  BY DEF Inv, Base
<1> QED
  BY <1>1, Invariance, PTL

(* A publish or revoke that ended well is on the account, as long as scripts *)
(* do not overlap.                                                           *)
THEOREM SuccessHolds == Spec => []SuccessIsAnchored
<1>1. Inv => SuccessIsAnchored
  BY DEF Inv, Solo, SoloRun, Delivered, SuccessIsAnchored, Posts
<1> QED
  BY <1>1, Invariance, PTL

(* While scripts do not overlap, file and account are the ledger of the      *)
(* operators' wishes: the account moves forward along the log, or is given   *)
(* other roots.                                                              *)
THEOREM LedgerFollowed == Spec => FollowsLedger
<1>1. Inv /\ [Next]_vars =>
        [overlapped' \/ Ledger!LedgerNext]_<<log, account.version>>
  <2> SUFFICES ASSUME Inv, Next, ~overlapped',
                      ~UNCHANGED <<log, account.version>>
               PROVE  Ledger!LedgerNext
    BY DEF vars, scripts, chain
  <2>1. CASE UNCHANGED <<log, account>>
    BY <2>1
  <2>2. CASE \E o \in Operator : WriteState(o)
    <3>1. PICK o \in Operator : WriteState(o)
      BY <2>2
    <3>2. Solo /\ RunOk(run[o]) /\ run[o].pc = "truncated"
      BY <3>1 DEF Inv, Base, WriteState
    <3>3. /\ run[o].wish \in Wishes
          /\ run[o].state = Fulfil(log[Len(log)].state, run[o].wish)
      BY <3>2 DEF RunOk, Solo, SoloRun
    <3>4. /\ log' = Append(log, [wish |-> run[o].wish, state |-> run[o].state])
          /\ account' = account
      BY <3>1 DEF WriteState, chain
    <3>5. Ledger!Ask
      BY <3>3, <3>4 DEF Ledger!Ask
    <3> QED
      BY <3>5 DEF Ledger!LedgerNext
  <2>3. CASE \E t \in pending : Include(t)
    <3>1. PICK t \in pending : Include(t)
      BY <2>3
    <3>2. /\ account'.version = t.version /\ log' = log /\ ~overlapped
          /\ t.version \in Nat
      BY <3>1, IncludeFacts DEF Transaction
    <3>3. Base /\ Solo /\ TxData(t)
      BY <3>2 DEF Inv, Base
    <3>4. Len(log) \in Nat /\ account.version \in Nat
      BY <3>3, LogType DEF Base, TypeOK, Account
    <3>5. CASE t.kind \in Posts
      <4>1. t.version \in (account.version + 1)..Len(log)
        BY <3>2, <3>3, <3>4, <3>5 DEF TxData, Solo, InOrder
      <4> QED
        BY <3>2, <4>1 DEF Ledger!LedgerNext, Ledger!Advance
    <3>6. CASE t.kind \notin Posts
      BY <3>2, <3>3, <3>6 DEF TxData, Ledger!LedgerNext, Ledger!Replace
    <3> QED
      BY <3>5, <3>6
  <2> QED
    BY <2>1, <2>2, <2>3, Movers
<1> QED
  BY <1>1, Invariance, PTL DEF Spec, FollowsLedger

(* Nothing published leaves the account, and a revocation only with a        *)
(* publish, as long as scripts do not overlap and no roots come from the     *)
(* environment; and an initialize lands on a deploy only, even where they    *)
(* overlap.                                                                  *)
THEOREM DecisionsHold == Spec => DecisionsStick
<1> DEFINE Sticks ==
       /\ \/ overlapped
          \/ account'.via = "update"
          \/ /\ account.state.listed \subseteq account'.state.listed
             /\ \A c \in account.state.revoked \ account'.state.revoked :
                   \E i \in (account.version + 1)..account'.version :
                      log[i].wish = [kind |-> "publish", commitment |-> c]
       /\ (account'.via = "initialize" /\ account' # account) =>
             account.via = "deploy"
<1>1. Inv /\ [Next]_vars => [Sticks]_vars
  <2> SUFFICES ASSUME Inv, Next
               PROVE  Sticks
    OBVIOUS
  <2>1. CASE account' = account
    BY <2>1
  <2>2. CASE \E t \in pending : Include(t)
    <3>1. PICK t \in pending : Include(t)
      BY <2>2
    <3>2. /\ account'.version = t.version /\ account'.state = t.state
          /\ account'.via = t.kind /\ t \in Transaction
      BY <3>1, IncludeFacts
    <3>3. Base /\ TxData(t) /\ AccountHolds
      BY DEF Inv, Base
    <3>4. /\ Len(log) \in Nat /\ account.via \in Kinds \cup {None}
          /\ None \notin Kinds
      BY <3>3, LogType, RegistryBounds DEF Base, TypeOK, Account
    <3>5. t.kind = "initialize" => account.via = "deploy"
      BY <3>1, <3>3, <3>4 DEF Include, Precondition, AccountHolds
    <3>6. ASSUME ~overlapped, t.kind # "update"
          PROVE  /\ account.state.listed \subseteq t.state.listed
                 /\ \A c \in account.state.revoked \ t.state.revoked :
                       \E i \in (account.version + 1)..t.version :
                          log[i].wish = Publishes(c)
      <4>1. Solo
        BY <3>6 DEF Inv
      <4>2. CASE t.kind \in Posts
        <5>1. /\ t.version \in 1..Len(log) /\ t.state = log[t.version].state
              /\ account.version <= t.version
          BY <3>3, <4>1, <4>2 DEF TxData, Solo, InOrder
        <5>2. CASE account.via \in Posts
          <6>1. /\ account.version \in 1..Len(log)
                /\ account.state = log[account.version].state
            BY <3>3, <5>2 DEF AccountHolds
          <6> QED
            BY <4>1, <5>1, <6>1 DEF Solo, LogGrows
        <5>3. CASE account.via \notin Posts
          <6>1. account.version = 0
            BY <3>3, <5>3 DEF AccountHolds
          <6>2. Older(account.state, t.version)
            BY <4>1, <4>2 DEF Solo, Outdated
          <6> QED
            BY <5>1, <6>1, <6>2 DEF Older
        <5> QED
          BY <5>2, <5>3
      <4>3. CASE t.kind \in {"deploy", "initialize"}
        <5>1. account.via \in {None, "deploy"}
          BY <3>1, <3>3, <3>4, <3>5, <4>3 DEF Include, Precondition, AccountHolds
        <5>2. account.state = EmptyState
          BY <3>3, <5>1 DEF AccountHolds
        <5> QED
          BY <5>2, EmptyStateType
      <4> QED
        BY <3>2, <3>6, <4>2, <4>3 DEF Transaction, Kinds, Posts
    <3> QED
      BY <3>2, <3>5, <3>6 DEF Publishes
  <2>3. CASE \E o \in Operator : WriteState(o)
    BY <2>1, <2>3 DEF WriteState, chain
  <2> QED
    BY <2>1, <2>2, <2>3, Movers
<1> QED
  BY <1>1, Invariance, PTL DEF Spec, DecisionsStick

-----------------------------------------------------------------------------
(* Induction over the naturals *)

\* A set of naturals that is not empty has a least member.
LEMMA LeastNatural ==
    ASSUME NEW T, T \subseteq Nat, T # {}
    PROVE  \E x \in T : \A y \in T : x <= y
<1> DEFINE R == OpToRel(<, Nat)
<1>1. IsWellFoundedOn(R, Nat)
  BY NatLessThanWellFounded
<1> HIDE DEF R
<1>2. PICK x \in T : \A y \in T : ~(<<y, x>> \in R)
  BY <1>1, WFMin
<1>3. \A y \in T : ~(y < x)
  BY <1>2 DEF R, OpToRel
<1> QED
  BY <1>2, <1>3

\* Induction, over the set of the numbers a fact holds of.
LEMMA Induction ==
    ASSUME NEW S, 0 \in S, \A n \in Nat : n \in S => n + 1 \in S
    PROVE  \A n \in Nat : n \in S
<1> DEFINE T == Nat \ S
<1>1. SUFFICES ASSUME T # {} PROVE FALSE
  OBVIOUS
<1> HIDE DEF T
<1>2. PICK x \in T : \A y \in T : x <= y
  BY <1>1, LeastNatural DEF T
<1>3. x \in Nat /\ x \notin S /\ x # 0
  BY <1>2 DEF T
<1>4. x - 1 \in Nat /\ ~(x <= x - 1) /\ (x - 1) + 1 = x
  BY <1>3
<1>5. x - 1 \in S
  BY <1>2, <1>4 DEF T
<1> QED
  BY <1>3, <1>4, <1>5

-----------------------------------------------------------------------------
(* Trees *)

\* One round of buildMerkleTree.
HighestOf(level) == IF Len(level) > 1 THEN ParentLevel(level) ELSE level

\* buildMerkleTree: each level is made of the one below.
LEMMA LevelsUnfold ==
    ASSUME NEW leaves, Len(leaves) \in Nat
    PROVE  /\ DOMAIN Levels(leaves) = 0..Len(leaves)
           /\ Levels(leaves)[0] = leaves
           /\ \A k \in 1..Len(leaves) :
                 Levels(leaves)[k] = HighestOf(Levels(leaves)[k - 1])
<1> DEFINE Body(f, k) == IF k = 0 THEN leaves
                         ELSE IF Len(f[k - 1]) > 1 THEN ParentLevel(f[k - 1])
                         ELSE f[k - 1]
           Built(n) == \E f : f = [k \in 0..n |-> Body(f, k)]
           S == {n \in Nat : Built(n)}
<1>1. 0 \in S
  <2> DEFINE f == [k \in 0..0 |-> leaves]
  <2>1. f = [k \in 0..0 |-> Body(f, k)]
    OBVIOUS
  <2> QED
    BY <2>1
<1>2. ASSUME NEW n \in Nat, n \in S PROVE n + 1 \in S
  <2>1. PICK f : f = [k \in 0..n |-> Body(f, k)]
    BY <1>2
  <2> DEFINE g == [k \in 0..(n + 1) |-> IF k <= n THEN f[k] ELSE Body(f, n + 1)]
  <2>2. ASSUME NEW k \in 0..(n + 1) PROVE g[k] = Body(g, k)
    <3>1. CASE k = 0
      BY <2>1, <3>1
    <3>2. CASE k # 0
      <4>1. k - 1 \in 0..n /\ k - 1 \in 0..(n + 1) /\ k - 1 <= n
        BY <3>2
      <4>2. g[k - 1] = f[k - 1]
        BY <4>1
      <4>3. g[k] = Body(f, k)
        BY <2>1, <3>2
      <4> QED
        BY <3>2, <4>2, <4>3
    <3> QED
      BY <3>1, <3>2
  <2>3. g = [k \in 0..(n + 1) |-> Body(g, k)]
    BY <2>2
  <2> HIDE DEF g
  <2>4. Built(n + 1)
    BY <2>3
  <2> QED
    BY <2>4
<1> HIDE DEF S
<1>3. Len(leaves) \in S
  BY <1>1, <1>2, Induction
<1>4. Levels(leaves) = [k \in 0..Len(leaves) |-> Body(Levels(leaves), k)]
  BY <1>3 DEF Levels, S
<1> HIDE DEF Body
<1>5. /\ DOMAIN Levels(leaves) = 0..Len(leaves)
      /\ \A k \in 0..Len(leaves) : Levels(leaves)[k] = Body(Levels(leaves), k)
  BY <1>4
<1>6. Body(Levels(leaves), 0) = leaves
  BY DEF Body
<1>7. ASSUME NEW k \in 1..Len(leaves)
      PROVE  Body(Levels(leaves), k) = HighestOf(Levels(leaves)[k - 1])
  BY DEF Body, HighestOf
<1> QED
  BY <1>5, <1>6, <1>7

\* The parents of a level of more than one node are fewer, by their branches.
LEMMA ParentLevelShape ==
    ASSUME NEW level, Len(level) \in Nat, Len(level) > 1
    PROVE  /\ Len(ParentLevel(level)) = Half(Len(level) + 1)
           /\ Len(ParentLevel(level)) \in Nat \ {0}
           /\ Len(ParentLevel(level)) < Len(level)
           /\ \A i \in 1..Len(ParentLevel(level)) :
                 ParentLevel(level)[i] =
                     HashMerkleBranch(level[2 * i - 1],
                         IF 2 * i <= Len(level) THEN level[2 * i]
                                                ELSE level[2 * i - 1])
<1>1. /\ Half(Len(level) + 1) \in Nat \ {0}
      /\ Half(Len(level) + 1) < Len(level)
  BY DEF Half
<1>2. Len(ParentLevel(level)) = Half(Len(level) + 1)
  BY <1>1 DEF ParentLevel
<1> QED
  BY <1>1, <1>2 DEF ParentLevel

\* Levels shrink until there is a root.
LEMMA LevelsShrink ==
    ASSUME NEW leaves, Len(leaves) \in Nat \ {0}
    PROVE  \A k \in 0..Len(leaves) :
              /\ Len(Levels(leaves)[k]) \in Nat \ {0}
              /\ Len(Levels(leaves)[k]) > 1 =>
                    Len(Levels(leaves)[k]) + k <= Len(leaves)
<1> DEFINE n == Len(leaves)
           levels == Levels(leaves)
           Shrunk(k) == /\ Len(levels[k]) \in Nat \ {0}
                        /\ Len(levels[k]) > 1 => Len(levels[k]) + k <= n
           S == {k \in Nat : k <= n => Shrunk(k)}
<1>0. n \in Nat \ {0}
  OBVIOUS
<1>1. /\ levels[0] = leaves
      /\ \A k \in 1..n : levels[k] = HighestOf(levels[k - 1])
  BY LevelsUnfold
<1> HIDE DEF levels
<1>2. 0 \in S
  BY <1>1
<1> HIDE DEF n
<1>3. ASSUME NEW k \in Nat, k \in S PROVE k + 1 \in S
  <2> HIDE DEF Shrunk
  <2>1. SUFFICES ASSUME k + 1 <= n PROVE Shrunk(k + 1)
    BY <1>0
  <2>2. /\ Len(levels[k]) \in Nat \ {0}
        /\ Len(levels[k]) > 1 => Len(levels[k]) + k <= n
        /\ k + 1 \in 1..n /\ (k + 1) - 1 = k
    BY <1>0, <1>3, <2>1 DEF Shrunk
  <2>3. levels[k + 1] = HighestOf(levels[k])
    BY <1>1, <2>2
  <2>4. CASE Len(levels[k]) > 1
    <3>1. levels[k + 1] = ParentLevel(levels[k])
      BY <2>3, <2>4 DEF HighestOf
    <3>2. /\ Len(levels[k + 1]) \in Nat \ {0}
          /\ Len(levels[k + 1]) < Len(levels[k])
      BY <2>2, <2>4, <3>1, ParentLevelShape
    <3>3. Len(levels[k + 1]) + (k + 1) <= n
      <4> DEFINE a == Len(levels[k])
                 b == Len(levels[k + 1])
      <4>1. a \in Nat /\ b \in Nat /\ b < a /\ a + k <= n
        BY <2>2, <2>4, <3>2
      <4> HIDE DEF a, b
      <4>2. b + (k + 1) <= n
        BY <1>0, <4>1
      <4> QED
        BY <4>2 DEF b
    <3> QED
      BY <3>2, <3>3 DEF Shrunk
  <2>5. CASE ~(Len(levels[k]) > 1)
    <3>1. levels[k + 1] = levels[k]
      BY <2>3, <2>5 DEF HighestOf
    <3> QED
      BY <2>2, <2>5, <3>1 DEF Shrunk
  <2> QED
    BY <2>4, <2>5
<1> HIDE DEF S
<1>4. \A k \in Nat : k \in S
  BY <1>2, <1>3, Induction
<1>5. ASSUME NEW k \in 0..n PROVE Shrunk(k)
  <2>1. k \in Nat /\ k <= n
    OBVIOUS
  <2> QED
    BY <1>4, <2>1 DEF S
<1> QED
  BY <1>5 DEF levels, n

\* The tree over leaves: from them, level by level, to a single root.
LEMMA TreeShape ==
    ASSUME NEW leaves, Len(leaves) \in Nat \ {0}
    PROVE  LET levels == Levels(leaves)
               top == RootLevel(levels)
           IN  /\ top \in Nat
               /\ levels[0] = leaves
               /\ Len(levels[top]) = 1
               /\ MerkleRoot(leaves) = levels[top][1]
               /\ \A k \in 0..top : Len(levels[k]) \in Nat \ {0}
               /\ \A k \in 1..top : /\ Len(levels[k - 1]) > 1
                                    /\ levels[k] = ParentLevel(levels[k - 1])
<1> DEFINE n == Len(leaves)
           levels == Levels(leaves)
           top == RootLevel(levels)
           T == {k \in 0..n : Len(levels[k]) = 1}
<1>1. /\ DOMAIN levels = 0..n
      /\ levels[0] = leaves
      /\ \A k \in 1..n : levels[k] = HighestOf(levels[k - 1])
  BY LevelsUnfold
<1>2. \A k \in 0..n : /\ Len(levels[k]) \in Nat \ {0}
                      /\ Len(levels[k]) > 1 => Len(levels[k]) + k <= n
  BY LevelsShrink
<1>3. leaves # <<>>
  OBVIOUS
<1>4. MerkleRoot(leaves) = levels[top][1]
  BY <1>3 DEF MerkleRoot
<1> HIDE DEF levels
<1>5. n \in T
  <2>1. n \in 0..n
    OBVIOUS
  <2>2. Len(levels[n]) \in Nat \ {0} /\ ~(Len(levels[n]) > 1)
    BY <1>2, <2>1
  <2> DEFINE size == Len(levels[n])
  <2> HIDE DEF size
  <2>3. size = 1
    <3>1. size \in Nat \ {0} /\ ~(size > 1)
      BY <2>2 DEF size
    <3> QED
      BY <3>1
  <2>4. Len(levels[n]) = 1
    BY <2>3 DEF size
  <2> HIDE DEF n
  <2> QED
    BY <2>1, <2>4
<1>6. PICK least \in T : \A k \in T : least <= k
  <2>1. T \subseteq Nat
    OBVIOUS
  <2> HIDE DEF T
  <2> QED
    BY <1>5, <2>1, LeastNatural
<1>7. \A j \in 0..(least - 1) : Len(levels[j]) > 1
  <2> SUFFICES ASSUME NEW j \in 0..(least - 1) PROVE Len(levels[j]) > 1
    OBVIOUS
  <2>1. j \in 0..n /\ ~(least <= j)
    BY <1>6
  <2>2. Len(levels[j]) \in Nat \ {0} /\ Len(levels[j]) # 1
    BY <1>2, <1>6, <2>1
  <2> DEFINE size == Len(levels[j])
  <2> HIDE DEF size
  <2>3. size \in Nat \ {0} /\ size # 1
    BY <2>2 DEF size
  <2>4. size > 1
    BY <2>3
  <2> QED
    BY <2>4 DEF size
<1>8. /\ top \in 0..n /\ Len(levels[top]) = 1
      /\ \A j \in 0..(top - 1) : Len(levels[j]) > 1
  BY <1>1, <1>6, <1>7 DEF RootLevel
<1> HIDE DEF top
<1>9. ASSUME NEW k \in 1..top
      PROVE  Len(levels[k - 1]) > 1 /\ levels[k] = ParentLevel(levels[k - 1])
  <2>1. k - 1 \in 0..(top - 1) /\ k \in 1..n
    BY <1>8
  <2> QED
    BY <1>1, <1>8, <2>1 DEF HighestOf
<1>10. \A k \in 0..top : Len(levels[k]) \in Nat \ {0}
  BY <1>2, <1>8
<1> QED
  BY <1>1, <1>4, <1>8, <1>9, <1>10 DEF levels, top

\* The position over a leaf is halved from level to level.
LEMMA IndicesUnfold ==
    ASSUME NEW leafIndex, NEW height \in Nat
    PROVE  /\ Indices(leafIndex, height)[0] = leafIndex
           /\ \A k \in 1..height :
                 Indices(leafIndex, height)[k]
                     = Half(Indices(leafIndex, height)[k - 1])
<1> DEFINE Body(f, k) == IF k = 0 THEN leafIndex ELSE Half(f[k - 1])
           Built(n) == \E f : f = [k \in 0..n |-> Body(f, k)]
           S == {n \in Nat : Built(n)}
           index == Indices(leafIndex, height)
<1>1. 0 \in S
  <2> DEFINE f == [k \in 0..0 |-> leafIndex]
  <2>1. f = [k \in 0..0 |-> Body(f, k)]
    OBVIOUS
  <2> QED
    BY <2>1
<1>2. ASSUME NEW n \in Nat, n \in S PROVE n + 1 \in S
  <2>1. PICK f : f = [k \in 0..n |-> Body(f, k)]
    BY <1>2
  <2> DEFINE g == [k \in 0..(n + 1) |-> IF k <= n THEN f[k] ELSE Body(f, n + 1)]
  <2>2. ASSUME NEW k \in 0..(n + 1) PROVE g[k] = Body(g, k)
    <3>1. CASE k = 0
      BY <2>1, <3>1
    <3>2. CASE k # 0
      <4>1. k - 1 \in 0..n /\ k - 1 \in 0..(n + 1) /\ k - 1 <= n
        BY <3>2
      <4>2. g[k - 1] = f[k - 1]
        BY <4>1
      <4>3. g[k] = Body(f, k)
        BY <2>1, <3>2
      <4> QED
        BY <3>2, <4>2, <4>3
    <3> QED
      BY <3>1, <3>2
  <2>3. g = [k \in 0..(n + 1) |-> Body(g, k)]
    BY <2>2
  <2> HIDE DEF g
  <2>4. Built(n + 1)
    BY <2>3
  <2> QED
    BY <2>4
<1> HIDE DEF S
<1>3. height \in S
  BY <1>1, <1>2, Induction
<1>4. index = [k \in 0..height |-> Body(index, k)]
  BY <1>3 DEF Indices, S
<1> HIDE DEF Body, index
<1>5. \A k \in 0..height : index[k] = Body(index, k)
  BY <1>4
<1>6. Body(index, 0) = leafIndex
  BY DEF Body
<1>7. ASSUME NEW k \in 1..height
      PROVE  Body(index, k) = Half(index[k - 1])
  BY DEF Body
<1> QED
  BY <1>5, <1>6, <1>7 DEF index

\* One round of verifyMerkleProof.
ClimbStep(proof, index, hash, k) ==
    IF index[k - 1] % 2 = 0
    THEN HashMerkleBranch(hash[k - 1], proof.siblings[k])
    ELSE HashMerkleBranch(proof.siblings[k], hash[k - 1])

\* verifyMerkleProof: each hash is made of the one before and a sibling.
LEMMA ClimbUnfold ==
    ASSUME NEW proof, Len(proof.siblings) \in Nat
    PROVE  /\ Climb(proof)[0] = proof.leafHash
           /\ \A k \in 1..Len(proof.siblings) :
                 Climb(proof)[k] =
                     ClimbStep(proof, Indices(proof.leafIndex, Len(proof.siblings)),
                          Climb(proof), k)
<1> DEFINE height == Len(proof.siblings)
           index == Indices(proof.leafIndex, height)
           Body(f, k) == IF k = 0 THEN proof.leafHash
                         ELSE IF index[k - 1] % 2 = 0
                         THEN HashMerkleBranch(f[k - 1], proof.siblings[k])
                         ELSE HashMerkleBranch(proof.siblings[k], f[k - 1])
           Built(n) == \E f : f = [k \in 0..n |-> Body(f, k)]
           S == {n \in Nat : Built(n)}
           hash == Climb(proof)
<1> HIDE DEF index
<1>1. 0 \in S
  <2> DEFINE f == [k \in 0..0 |-> proof.leafHash]
  <2>1. f = [k \in 0..0 |-> Body(f, k)]
    OBVIOUS
  <2> QED
    BY <2>1
<1>2. ASSUME NEW n \in Nat, n \in S PROVE n + 1 \in S
  <2>1. PICK f : f = [k \in 0..n |-> Body(f, k)]
    BY <1>2
  <2> DEFINE g == [k \in 0..(n + 1) |-> IF k <= n THEN f[k] ELSE Body(f, n + 1)]
  <2>2. ASSUME NEW k \in 0..(n + 1) PROVE g[k] = Body(g, k)
    <3>1. CASE k = 0
      BY <2>1, <3>1
    <3>2. CASE k # 0
      <4>1. k - 1 \in 0..n /\ k - 1 \in 0..(n + 1) /\ k - 1 <= n
        BY <3>2
      <4>2. g[k - 1] = f[k - 1]
        BY <4>1
      <4>3. g[k] = Body(f, k)
        BY <2>1, <3>2
      <4> QED
        BY <3>2, <4>2, <4>3
    <3> QED
      BY <3>1, <3>2
  <2>3. g = [k \in 0..(n + 1) |-> Body(g, k)]
    BY <2>2
  <2> HIDE DEF g
  <2>4. Built(n + 1)
    BY <2>3
  <2> QED
    BY <2>4
<1> HIDE DEF S
<1>3. height \in S
  BY <1>1, <1>2, Induction
<1>4. hash = [k \in 0..height |-> Body(hash, k)]
  BY <1>3 DEF Climb, S, index
<1> HIDE DEF Body, hash
<1>5. \A k \in 0..height : hash[k] = Body(hash, k)
  BY <1>4
<1>6. Body(hash, 0) = proof.leafHash
  BY DEF Body
<1>7. ASSUME NEW k \in 1..height
      PROVE  Body(hash, k) = ClimbStep(proof, index, hash, k)
  BY DEF Body, ClimbStep
<1> QED
  BY <1>5, <1>6, <1>7 DEF hash, index

\* A node and its sibling are the branch above them.
LEMMA ParentOf ==
    ASSUME NEW level, Len(level) \in Nat, Len(level) > 1,
           NEW i \in Nat, i < Len(level)
    PROVE  /\ Half(i) \in Nat
           /\ Half(i) < Len(ParentLevel(level))
           /\ ParentLevel(level)[Half(i) + 1] =
                 IF i % 2 = 0
                 THEN HashMerkleBranch(level[i + 1], Sibling(level, i))
                 ELSE HashMerkleBranch(Sibling(level, i), level[i + 1])
<1> DEFINE n == Len(level)
           h == Half(i)
           size == Len(ParentLevel(level))
<1>0. n \in Nat /\ n > 1 /\ i < n
  OBVIOUS
<1>1. /\ size = Half(n + 1)
      /\ \A k \in 1..size : ParentLevel(level)[k] =
            HashMerkleBranch(level[2 * k - 1],
                IF 2 * k <= n THEN level[2 * k] ELSE level[2 * k - 1])
  BY ParentLevelShape
<1>2. Sibling(level, i) = IF SiblingIndex(i) < n THEN level[SiblingIndex(i) + 1]
                          ELSE level[i + 1]
  BY DEF Sibling
<1> HIDE DEF n, size
<1>3. h \in Nat /\ h < size /\ h + 1 \in 1..size
  BY <1>0, <1>1 DEF Half
<1>4. CASE i % 2 = 0
  <2>1. 2 * (h + 1) - 1 = i + 1 /\ 2 * (h + 1) = i + 2 /\ SiblingIndex(i) = i + 1
    BY <1>4 DEF Half, SiblingIndex
  <2>2. (2 * (h + 1) <= n) <=> (SiblingIndex(i) < n)
    BY <1>0, <2>1
  <2>3. SiblingIndex(i) + 1 = 2 * (h + 1)
    BY <2>1
  <2> HIDE DEF h
  <2>4. ParentLevel(level)[h + 1] =
            HashMerkleBranch(level[2 * (h + 1) - 1],
                IF 2 * (h + 1) <= n THEN level[2 * (h + 1)]
                                    ELSE level[2 * (h + 1) - 1])
    BY <1>1, <1>3
  <2>5. ParentLevel(level)[h + 1]
            = HashMerkleBranch(level[i + 1], Sibling(level, i))
    BY <1>2, <2>1, <2>2, <2>3, <2>4
  <2> QED
    BY <1>3, <1>4, <2>5 DEF h, size
<1>5. CASE i % 2 # 0
  <2>1. 2 * (h + 1) - 1 = i /\ 2 * (h + 1) = i + 1 /\ SiblingIndex(i) = i - 1
    BY <1>5 DEF Half, SiblingIndex
  <2>2. 2 * (h + 1) <= n /\ SiblingIndex(i) < n
    BY <1>0, <2>1
  <2>3. SiblingIndex(i) + 1 = i
    BY <2>1
  <2> HIDE DEF h
  <2>4. ParentLevel(level)[h + 1] =
            HashMerkleBranch(level[2 * (h + 1) - 1],
                IF 2 * (h + 1) <= n THEN level[2 * (h + 1)]
                                    ELSE level[2 * (h + 1) - 1])
    BY <1>1, <1>3
  <2>5. ParentLevel(level)[h + 1]
            = HashMerkleBranch(Sibling(level, i), level[i + 1])
    BY <1>2, <2>1, <2>2, <2>3, <2>4
  <2> QED
    BY <1>3, <1>5, <2>5 DEF h, size
<1> QED
  BY <1>4, <1>5

\* createMerkleProof and verifyMerkleProof agree: the proof made for a leaf of
\* a tree verifies.
THEOREM MadeProofVerifies ==
    ASSUME NEW leaves, Len(leaves) \in Nat \ {0},
           NEW leafIndex \in Nat, leafIndex < Len(leaves)
    PROVE  VerifyMerkleProof(CreateMerkleProof(leaves, leafIndex))
<1> DEFINE levels == Levels(leaves)
           top == RootLevel(levels)
           index == Indices(leafIndex, top)
           proof == CreateMerkleProof(leaves, leafIndex)
           hash == Climb(proof)
           Over(k) == /\ index[k] \in Nat
                      /\ index[k] < Len(levels[k])
                      /\ hash[k] = levels[k][index[k] + 1]
           S == {k \in Nat : k <= top => Over(k)}
<1>1. /\ top \in Nat
      /\ levels[0] = leaves
      /\ Len(levels[top]) = 1
      /\ MerkleRoot(leaves) = levels[top][1]
      /\ \A k \in 0..top : Len(levels[k]) \in Nat \ {0}
      /\ \A k \in 1..top : /\ Len(levels[k - 1]) > 1
                           /\ levels[k] = ParentLevel(levels[k - 1])
  BY TreeShape
<1>2. /\ proof.siblings = [k \in 1..top |-> Sibling(levels[k - 1], index[k - 1])]
      /\ proof.leafHash = leaves[leafIndex + 1]
      /\ proof.leafIndex = leafIndex
      /\ proof.root = MerkleRoot(leaves)
  BY DEF CreateMerkleProof, Siblings
<1>3. Len(leaves) \in Nat /\ leafIndex < Len(leaves)
  OBVIOUS
<1> HIDE DEF levels, top, proof
<1>4. Len(proof.siblings) = top
  BY <1>1, <1>2
<1>5. /\ index[0] = leafIndex
      /\ \A k \in 1..top : index[k] = Half(index[k - 1])
  BY <1>1, IndicesUnfold
<1>6. /\ hash[0] = proof.leafHash
      /\ \A k \in 1..top : hash[k] = ClimbStep(proof, index, hash, k)
  BY <1>1, <1>2, <1>4, ClimbUnfold
<1> HIDE DEF index, hash
<1>7. 0 \in S
  BY <1>1, <1>2, <1>3, <1>5, <1>6
<1> HIDE DEF Over
<1>8. ASSUME NEW k \in Nat, k \in S PROVE k + 1 \in S
  <2>1. SUFFICES ASSUME k + 1 <= top PROVE Over(k + 1)
    BY <1>1
  <2>2. k \in 0..top /\ k + 1 \in 1..top /\ (k + 1) - 1 = k
    BY <1>1, <2>1
  <2>3. /\ index[k] \in Nat
        /\ index[k] < Len(levels[k])
        /\ hash[k] = levels[k][index[k] + 1]
    BY <1>8, <2>2 DEF Over
  <2>4. /\ Len(levels[k]) \in Nat /\ Len(levels[k]) > 1
        /\ levels[k + 1] = ParentLevel(levels[k])
        /\ index[k + 1] = Half(index[k])
    BY <1>1, <1>5, <2>2
  <2>5. proof.siblings[k + 1] = Sibling(levels[k], index[k])
    BY <1>2, <2>2
  <2>6. /\ Half(index[k]) \in Nat
        /\ Half(index[k]) < Len(ParentLevel(levels[k]))
        /\ ParentLevel(levels[k])[Half(index[k]) + 1] =
              IF index[k] % 2 = 0
              THEN HashMerkleBranch(levels[k][index[k] + 1],
                                    Sibling(levels[k], index[k]))
              ELSE HashMerkleBranch(Sibling(levels[k], index[k]),
                                    levels[k][index[k] + 1])
    BY <2>3, <2>4, ParentOf
  <2>7. hash[k + 1] = IF index[k] % 2 = 0
                      THEN HashMerkleBranch(hash[k], Sibling(levels[k], index[k]))
                      ELSE HashMerkleBranch(Sibling(levels[k], index[k]), hash[k])
    BY <1>6, <2>2, <2>5 DEF ClimbStep
  <2> QED
    BY <2>3, <2>4, <2>6, <2>7 DEF Over
<1> HIDE DEF S
<1>9. top \in S
  BY <1>1, <1>7, <1>8, Induction
<1>10. Over(top)
  BY <1>1, <1>9 DEF S
<1>11. index[top] = 0
  <2> DEFINE i == index[top]
             size == Len(levels[top])
  <2>1. i \in Nat /\ i < size /\ size = 1
    BY <1>1, <1>10 DEF Over
  <2> HIDE DEF i, size
  <2>2. i = 0
    BY <2>1
  <2> QED
    BY <2>2 DEF i
<1>12. hash[top] = proof.root
  BY <1>1, <1>2, <1>10, <1>11 DEF Over
<1> QED
  BY <1>4, <1>12 DEF VerifyMerkleProof, hash, proof

\* The hash of an inner node.
IsBranch(digest) == \E left, right : digest = HashMerkleBranch(left, right)

\* The hashes at a level.
Nodes(level) == {level[i] : i \in 1..Len(level)}

\* No leaf is mistaken for a branch: the three hashes are tagged apart.
LEMMA LeavesAreNoBranches ==
    /\ \A c : ~IsBranch(HashCredentialLeaf(c)) /\ HashCredentialLeaf(c) # ZeroDigest
    /\ \A l : ~IsBranch(HashRevocationLeaf(l)) /\ HashRevocationLeaf(l) # ZeroDigest
    /\ ~IsBranch(ZeroDigest)
BY DEF IsBranch, HashMerkleBranch, HashCredentialLeaf, HashRevocationLeaf,
       ZeroDigest

\* What two nodes are the branch of is known from the branch.
LEMMA BranchInjective ==
    ASSUME NEW a, NEW b, NEW c, NEW d,
           HashMerkleBranch(a, b) = HashMerkleBranch(c, d)
    PROVE  a = c /\ b = d
BY DEF HashMerkleBranch

\* A level above another is made of branches of that one's nodes.
LEMMA ParentNodes ==
    ASSUME NEW level, Len(level) \in Nat, Len(level) > 1,
           NEW x \in Nodes(ParentLevel(level))
    PROVE  \E a, b \in Nodes(level) : x = HashMerkleBranch(a, b)
<1> DEFINE n == Len(level)
           size == Len(ParentLevel(level))
<1>1. PICK i \in 1..size : x = ParentLevel(level)[i]
  BY DEF Nodes
<1>2. /\ size = Half(n + 1)
      /\ ParentLevel(level)[i] =
            HashMerkleBranch(level[2 * i - 1],
                IF 2 * i <= n THEN level[2 * i] ELSE level[2 * i - 1])
  BY <1>1, ParentLevelShape
<1>3. n \in Nat
  OBVIOUS
<1> HIDE DEF size, n
<1>4. 2 * i - 1 \in 1..n /\ (2 * i <= n => 2 * i \in 1..n)
  BY <1>1, <1>2, <1>3 DEF Half
<1>5. level[2 * i - 1] \in Nodes(level) /\ (2 * i <= n => level[2 * i] \in Nodes(level))
  BY <1>4 DEF Nodes, n
<1> QED
  BY <1>1, <1>2, <1>5

\* verifyMerkleProof accepts, against the root of a tree, leaves of that tree
\* and nothing else, whatever index and siblings it is given.
THEOREM VerifiedLeafIsInTree ==
    ASSUME NEW leaves, leaves = <<>> \/ Len(leaves) \in Nat \ {0},
           \A x \in Nodes(leaves) : ~IsBranch(x),
           NEW proof, Len(proof.siblings) \in Nat,
           ~IsBranch(proof.leafHash), proof.leafHash # ZeroDigest,
           VerifyMerkleProof(proof), proof.root = MerkleRoot(leaves)
    PROVE  proof.leafHash \in Nodes(leaves)
<1> DEFINE n == Len(proof.siblings)
           hash == Climb(proof)
           levels == Levels(leaves)
           top == RootLevel(levels)
           Under(j) == hash[n - j] \in Nodes(levels[top - j])
           S == {j \in Nat : j <= n /\ j <= top => Under(j)}
<1>1. /\ hash[0] = proof.leafHash
      /\ \A k \in 1..n : \E s : \/ hash[k] = HashMerkleBranch(hash[k - 1], s)
                                \/ hash[k] = HashMerkleBranch(s, hash[k - 1])
  BY ClimbUnfold DEF ClimbStep
<1>2. n \in Nat /\ hash[n] = MerkleRoot(leaves)
  BY DEF VerifyMerkleProof
<1> HIDE DEF n, hash
<1>3. \A k \in 1..n : IsBranch(hash[k])
  BY <1>1 DEF IsBranch
<1>4. leaves # <<>>
  <2> SUFFICES ASSUME leaves = <<>> PROVE FALSE
    OBVIOUS
  <2>1. hash[n] = ZeroDigest
    BY <1>2 DEF MerkleRoot
  <2>2. n = 0
    BY <1>2, <1>3, <2>1, LeavesAreNoBranches
  <2> QED
    BY <1>1, <2>1, <2>2
<1>5. /\ top \in Nat
      /\ levels[0] = leaves
      /\ Len(levels[top]) = 1
      /\ MerkleRoot(leaves) = levels[top][1]
      /\ \A k \in 0..top : Len(levels[k]) \in Nat \ {0}
      /\ \A k \in 1..top : /\ Len(levels[k - 1]) > 1
                           /\ levels[k] = ParentLevel(levels[k - 1])
  BY <1>4, TreeShape
<1> HIDE DEF levels, top
<1>6. \A k \in 1..top : \A x \in Nodes(levels[k]) :
         \E a, b \in Nodes(levels[k - 1]) : x = HashMerkleBranch(a, b)
  <2> SUFFICES ASSUME NEW k \in 1..top, NEW x \in Nodes(levels[k])
               PROVE  \E a, b \in Nodes(levels[k - 1]) : x = HashMerkleBranch(a, b)
    OBVIOUS
  <2>1. k - 1 \in 0..top
    BY <1>5
  <2>2. /\ Len(levels[k - 1]) \in Nat /\ Len(levels[k - 1]) > 1
        /\ x \in Nodes(ParentLevel(levels[k - 1]))
    BY <1>5, <2>1
  <2> QED
    BY <2>2, ParentNodes
<1>7. 0 \in S
  <2>1. n - 0 = n /\ top - 0 = top
    BY <1>2, <1>5
  <2>2. hash[n] \in Nodes(levels[top])
    BY <1>2, <1>5 DEF Nodes
  <2> QED
    BY <2>1, <2>2
<1>8. ASSUME NEW j \in Nat, j \in S PROVE j + 1 \in S
  <2>1. SUFFICES ASSUME j + 1 <= n, j + 1 <= top PROVE Under(j + 1)
    BY <1>8
  <2>2. /\ j <= n /\ j <= top
        /\ n - j \in 1..n /\ (n - j) - 1 = n - (j + 1)
        /\ top - j \in 1..top /\ (top - j) - 1 = top - (j + 1)
    BY <1>2, <1>5, <2>1
  <2>3. hash[n - j] \in Nodes(levels[top - j])
    BY <1>8, <2>2
  <2>4. PICK a \in Nodes(levels[top - (j + 1)]), b \in Nodes(levels[top - (j + 1)]) :
             hash[n - j] = HashMerkleBranch(a, b)
    <3> DEFINE k == top - j
    <3>1. k \in 1..top /\ hash[n - j] \in Nodes(levels[k]) /\ k - 1 = top - (j + 1)
      BY <2>2, <2>3
    <3> HIDE DEF k
    <3>2. \E a, b \in Nodes(levels[k - 1]) : hash[n - j] = HashMerkleBranch(a, b)
      BY <1>6, <3>1
    <3> QED
      BY <3>1, <3>2
  <2>5. PICK s : \/ hash[n - j] = HashMerkleBranch(hash[n - (j + 1)], s)
                 \/ hash[n - j] = HashMerkleBranch(s, hash[n - (j + 1)])
    BY <1>1, <2>2
  <2> QED
    BY <2>4, <2>5, BranchInjective
<1> HIDE DEF S
<1>9. \A j \in Nat : j \in S
  BY <1>7, <1>8, Induction
<1>10. CASE n = top
  <2>1. n <= n /\ n <= top /\ n - n = 0 /\ top - n = 0
    BY <1>2, <1>10
  <2>2. Under(n)
    BY <1>2, <1>9, <2>1 DEF S
  <2> QED
    BY <1>1, <1>5, <2>1, <2>2
<1>11. CASE n < top
  <2>1. n <= n /\ n <= top /\ n - n = 0 /\ top - n \in 1..top
    BY <1>2, <1>5, <1>11
  <2>2. hash[0] \in Nodes(levels[top - n])
    BY <1>2, <1>9, <2>1 DEF S
  <2> QED
    BY <1>1, <1>6, <2>1, <2>2 DEF IsBranch
<1>12. CASE top < n
  <2>1. top <= n /\ top <= top /\ top - top = 0 /\ n - top \in 1..n
    BY <1>2, <1>5, <1>12
  <2>2. hash[n - top] \in Nodes(levels[0])
    BY <1>5, <1>9, <2>1 DEF S
  <2> QED
    BY <1>3, <1>5, <2>1, <2>2
<1> QED
  BY <1>2, <1>5, <1>10, <1>11, <1>12

-----------------------------------------------------------------------------
(* The trees of a registry state *)

\* A list in order, without duplicates.
Increasing(list, n) == \A i, j \in 1..n : i < j => list[i] < list[j]

\* A finite set of naturals can be listed in order.
LEMMA Orderable ==
    ASSUME NEW S, IsFiniteSet(S), S \subseteq Nat
    PROVE  \E list \in [1..Cardinality(S) -> S] : Increasing(list, Cardinality(S))
<1> DEFINE Listed(T, n) == \E list \in [1..n -> T] : Increasing(list, n)
           P(n) == \A T \in SUBSET S : Cardinality(T) = n => Listed(T, n)
           R == {n \in Nat : P(n)}
<1>1. 0 \in R
  <2> SUFFICES ASSUME NEW T \in SUBSET S PROVE Listed(T, 0)
    OBVIOUS
  <2> DEFINE list == [i \in 1..0 |-> 0]
  <2>1. list \in [1..0 -> T] /\ Increasing(list, 0)
    BY DEF Increasing
  <2> HIDE DEF list
  <2> QED
    BY <2>1
<1>2. ASSUME NEW n \in Nat, n \in R PROVE n + 1 \in R
  <2> SUFFICES ASSUME NEW T \in SUBSET S, Cardinality(T) = n + 1
               PROVE  Listed(T, n + 1)
    OBVIOUS
  <2>1. IsFiniteSet(T) /\ T # {} /\ T \subseteq Nat
    <3>1. IsFiniteSet(T)
      BY FS_Subset
    <3>2. T # {}
      <4>1. n + 1 # 0
        OBVIOUS
      <4> QED
        BY <3>1, <4>1, FS_EmptySet
    <3> QED
      BY <3>1, <3>2
  <2>2. PICK x \in T : \A y \in T : x <= y
    BY <2>1, LeastNatural
  <2> DEFINE U == T \ {x}
  <2>3. Cardinality(U) = n /\ U \in SUBSET S
    <3>1. Cardinality(U) = Cardinality(T) - 1
      BY <2>1, <2>2, FS_RemoveElement
    <3>2. Cardinality(U) = n
      BY <3>1
    <3> QED
      BY <3>2
  <2>4. PICK rest \in [1..n -> U] : Increasing(rest, n)
    <3> HIDE DEF U
    <3>1. P(n)
      BY <1>2
    <3> QED
      BY <2>3, <3>1
  <2> DEFINE list == [i \in 1..(n + 1) |-> IF i = 1 THEN x ELSE rest[i - 1]]
  <2>5. \A i \in 1..(n + 1) : i # 1 => i - 1 \in 1..n /\ list[i] = rest[i - 1]
    OBVIOUS
  <2>6. list \in [1..(n + 1) -> T]
    <3>1. ASSUME NEW i \in 1..(n + 1)
          PROVE  (IF i = 1 THEN x ELSE rest[i - 1]) \in T
      BY <2>2, <2>4, <2>5
    <3> QED
      BY <3>1
  <2>7. Increasing(list, n + 1)
    <3> SUFFICES ASSUME NEW i \in 1..(n + 1), NEW j \in 1..(n + 1), i < j
                 PROVE  list[i] < list[j]
      BY DEF Increasing
    <3>1. j # 1 /\ j - 1 \in 1..n /\ list[j] = rest[j - 1] /\ rest[j - 1] \in U
      BY <2>4, <2>5
    <3>2. CASE i = 1
      <4>1. list[i] = x
        BY <3>2
      <4>2. rest[j - 1] \in Nat /\ x \in Nat /\ x <= rest[j - 1] /\ rest[j - 1] # x
        BY <2>1, <2>2, <3>1
      <4> HIDE DEF list
      <4> QED
        BY <3>1, <4>1, <4>2
    <3>3. CASE i # 1
      <4>1. i - 1 \in 1..n /\ list[i] = rest[i - 1] /\ i - 1 < j - 1
        BY <2>5, <3>3
      <4>2. rest[i - 1] < rest[j - 1]
        BY <2>4, <3>1, <4>1 DEF Increasing
      <4> HIDE DEF list
      <4> QED
        BY <3>1, <4>1, <4>2
    <3> QED
      BY <3>2, <3>3
  <2> HIDE DEF list
  <2> QED
    BY <2>6, <2>7
<1> HIDE DEF P
<1>3. \A n \in Nat : n \in R
  <2> HIDE DEF R
  <2> QED
    BY <1>1, <1>2, Induction
<1>4. Cardinality(S) \in Nat
  BY FS_CardinalityType
<1>5. P(Cardinality(S))
  BY <1>3, <1>4
<1> QED
  BY <1>5 DEF P

\* Sorted lists each member of a finite set, once.
LEMMA SortedLists ==
    ASSUME NEW S, IsFiniteSet(S), S \subseteq Nat
    PROVE  /\ Cardinality(S) \in Nat
           /\ Sorted(S) \in [1..Cardinality(S) -> S]
           /\ \A x \in S : \E i \in 1..Cardinality(S) : Sorted(S)[i] = x
<1> DEFINE n == Cardinality(S)
           list == Sorted(S)
<1>1. n \in Nat
  BY FS_CardinalityType
<1>2. list \in [1..n -> S] /\ Increasing(list, n)
  BY Orderable DEF Sorted, Increasing
<1> HIDE DEF list
<1>3. ASSUME NEW x \in S, \A i \in 1..n : list[i] # x PROVE FALSE
  <2> DEFINE T == S \ {x}
  <2>1. IsFiniteSet(T) /\ Cardinality(T) = n - 1
    BY FS_RemoveElement
  <2>2. list \in [1..n -> T]
    BY <1>2, <1>3
  <2>3. IsFiniteSet(1..n) /\ Cardinality(1..n) = n
    <3>1. 1 \in Int /\ n \in Int /\ (1 > n => n = 0) /\ (n - 1 + 1 = n)
      BY <1>1
    <3>2. IsFiniteSet(1..n)
          /\ Cardinality(1..n) = IF 1 > n THEN 0 ELSE n - 1 + 1
      BY <3>1, FS_Interval
    <3> HIDE DEF n
    <3> QED
      BY <3>1, <3>2
  <2>4. Cardinality(T) < Cardinality(1..n)
    <3>0. n - 1 < n
      BY <1>1
    <3> HIDE DEF n, T
    <3> QED
      BY <2>1, <2>3, <3>0
  <2> HIDE DEF n, T
  <2>5. PICK i \in 1..n, j \in 1..n : i # j /\ list[i] = list[j]
    BY <2>1, <2>2, <2>3, <2>4, FS_PigeonHole
  <2>6. list[i] \in Nat /\ list[j] \in Nat
    BY <1>2
  <2>7. CASE i < j
    BY <1>2, <2>5, <2>6, <2>7 DEF Increasing
  <2>8. CASE j < i
    BY <1>2, <2>5, <2>6, <2>8 DEF Increasing
  <2> QED
    BY <1>1, <2>5, <2>7, <2>8
<1> QED
  BY <1>1, <1>2, <1>3 DEF list

\* The status of a commitment, as the revocation tree has it.
RevocationLeaf(state, c) == [commitment |-> c, revoked |-> c \in state.revoked]

\* The leaves of the two trees are the published commitments and the statuses.
LEMMA LeavesOfState ==
    ASSUME NEW state \in RegistryState
    PROVE  /\ Len(CredentialLeaves(state)) \in Nat
           /\ DOMAIN CredentialLeaves(state) = 1..Len(CredentialLeaves(state))
           /\ CredentialLeaves(state) = <<>> \/ Len(CredentialLeaves(state)) # 0
           /\ Nodes(CredentialLeaves(state))
                 = {HashCredentialLeaf(c) : c \in state.listed}
           /\ Len(RevocationLeaves(state)) \in Nat
           /\ DOMAIN RevocationLeaves(state) = 1..Len(RevocationLeaves(state))
           /\ RevocationLeaves(state) = <<>> \/ Len(RevocationLeaves(state)) # 0
           /\ Nodes(RevocationLeaves(state)) =
                 {HashRevocationLeaf(RevocationLeaf(state, c)) :
                     c \in state.cleared \cup state.revoked}
<1>1. /\ IsFiniteSet(state.listed) /\ state.listed \subseteq Nat
      /\ IsFiniteSet(state.cleared \cup state.revoked)
      /\ state.cleared \cup state.revoked \subseteq Nat
  <2>1. /\ state.listed \subseteq Commitment
        /\ state.cleared \cup state.revoked \subseteq Commitment
        /\ IsFiniteSet(Commitment) /\ Commitment \subseteq Nat
    BY RegistryBounds DEF RegistryState
  <2>2. IsFiniteSet(state.listed) /\ IsFiniteSet(state.cleared \cup state.revoked)
    BY <2>1, FS_Subset
  <2> QED
    BY <2>1, <2>2
<1>2. /\ Len(CredentialLeaves(state)) \in Nat
      /\ DOMAIN CredentialLeaves(state) = 1..Len(CredentialLeaves(state))
      /\ CredentialLeaves(state) = <<>> \/ Len(CredentialLeaves(state)) # 0
      /\ Nodes(CredentialLeaves(state))
            = {HashCredentialLeaf(c) : c \in state.listed}
  <2> DEFINE n == Cardinality(state.listed)
             list == Sorted(state.listed)
             leaves == CredentialLeaves(state)
  <2>1. /\ n \in Nat /\ list \in [1..n -> state.listed]
        /\ \A x \in state.listed : \E i \in 1..n : list[i] = x
    BY <1>1, SortedLists
  <2> HIDE DEF list
  <2>2. leaves = [i \in 1..n |-> HashCredentialLeaf(list[i])]
    BY <2>1 DEF CredentialLeaves, list
  <2> HIDE DEF leaves, n
  <2>3. Len(leaves) = n /\ DOMAIN leaves = 1..n
    BY <2>1, <2>2
  <2>4. n = 0 => leaves = <<>>
    BY <2>2
  <2>5. Nodes(leaves) = {HashCredentialLeaf(c) : c \in state.listed}
    BY <2>1, <2>2, <2>3 DEF Nodes
  <2> QED
    BY <2>1, <2>3, <2>4, <2>5 DEF leaves
<1>3. /\ Len(RevocationLeaves(state)) \in Nat
      /\ DOMAIN RevocationLeaves(state) = 1..Len(RevocationLeaves(state))
      /\ RevocationLeaves(state) = <<>> \/ Len(RevocationLeaves(state)) # 0
      /\ Nodes(RevocationLeaves(state)) =
            {HashRevocationLeaf(RevocationLeaf(state, c)) :
                c \in state.cleared \cup state.revoked}
  <2> DEFINE both == state.cleared \cup state.revoked
             n == Cardinality(both)
             list == Sorted(both)
             leaves == RevocationLeaves(state)
  <2>1. /\ n \in Nat /\ list \in [1..n -> both]
        /\ \A x \in both : \E i \in 1..n : list[i] = x
    BY <1>1, SortedLists
  <2> HIDE DEF list
  <2>2. Statuses(state) = [i \in 1..n |-> RevocationLeaf(state, list[i])]
    BY <2>1 DEF Statuses, RevocationLeaf, list
  <2>3. leaves = [i \in 1..n |-> HashRevocationLeaf(RevocationLeaf(state, list[i]))]
    BY <2>2 DEF RevocationLeaves
  <2> HIDE DEF leaves, n, both
  <2>4. Len(leaves) = n /\ DOMAIN leaves = 1..n
    BY <2>1, <2>3
  <2>5. n = 0 => leaves = <<>>
    BY <2>3
  <2>6. Nodes(leaves) = {HashRevocationLeaf(RevocationLeaf(state, c)) : c \in both}
    BY <2>1, <2>3, <2>4 DEF Nodes
  <2> QED
    BY <2>1, <2>4, <2>5, <2>6 DEF leaves, both
<1> QED
  BY <1>2, <1>3

\* Position finds a leaf that is there.
LEMMA PositionFinds ==
    ASSUME NEW leaves, Len(leaves) \in Nat, DOMAIN leaves = 1..Len(leaves),
           NEW x \in Nodes(leaves)
    PROVE  /\ Len(leaves) \in Nat \ {0}
           /\ Position(leaves, x) \in Nat
           /\ Position(leaves, x) < Len(leaves)
           /\ leaves[Position(leaves, x) + 1] = x
<1> DEFINE n == Len(leaves)
           found == CHOOSE i \in DOMAIN leaves : leaves[i] = x
<1>1. n \in Nat /\ found \in 1..n /\ leaves[found] = x
  BY DEF Nodes
<1> HIDE DEF n, found
<1>2. /\ n # 0 /\ found - 1 \in Nat /\ found - 1 < n /\ (found - 1) + 1 = found
  BY <1>1
<1> QED
  BY <1>1, <1>2 DEF n, found, Position

\* The Merkle proof of a leaf that is there is of that leaf, and verifies.
LEMMA LeafProof ==
    ASSUME NEW leaves, Len(leaves) \in Nat, DOMAIN leaves = 1..Len(leaves),
           NEW x \in Nodes(leaves)
    PROVE  LET proof == CreateMerkleProof(leaves, Position(leaves, x))
           IN  /\ proof.leafHash = x
               /\ proof.root = MerkleRoot(leaves)
               /\ Len(proof.siblings) \in Nat
               /\ VerifyMerkleProof(proof)
<1> DEFINE i == Position(leaves, x)
           proof == CreateMerkleProof(leaves, i)
<1>1. /\ Len(leaves) \in Nat \ {0} /\ i \in Nat /\ i < Len(leaves)
      /\ leaves[i + 1] = x
  BY PositionFinds
<1> HIDE DEF i
<1>2. VerifyMerkleProof(proof)
  BY <1>1, MadeProofVerifies
<1>3. proof.leafHash = x /\ proof.root = MerkleRoot(leaves)
  BY <1>1 DEF CreateMerkleProof
<1>4. Len(proof.siblings) \in Nat
  <2> DEFINE top == RootLevel(Levels(leaves))
  <2>1. top \in Nat
    BY <1>1, TreeShape
  <2>2. proof.siblings = [k \in 1..top |->
            Sibling(Levels(leaves)[k - 1], Indices(i, top)[k - 1])]
    BY DEF CreateMerkleProof, Siblings
  <2> HIDE DEF top, proof
  <2> QED
    BY <2>1, <2>2
<1> QED
  BY <1>2, <1>3, <1>4 DEF i

\* A leaf hash is of one leaf.
LEMMA LeafHashInjective ==
    /\ \A c, d : HashCredentialLeaf(c) = HashCredentialLeaf(d) => c = d
    /\ \A l, m : HashRevocationLeaf(l) = HashRevocationLeaf(m) =>
          l.commitment = m.commitment /\ l.revoked = m.revoked
BY DEF HashCredentialLeaf, HashRevocationLeaf

\* verifyRegistryClaimProof and the two root checks: a claim proof, whoever
\* made it and with whatever siblings and indices, that verifies against the
\* roots of a state is of a commitment that is active in that state.
THEOREM ClaimProofIsOfActive ==
    ASSUME NEW state \in RegistryState, NEW proof,
           Len(proof.inclusionProof.siblings) \in Nat,
           Len(proof.revocationProof.siblings) \in Nat,
           VerifyRegistryClaimProof(proof),
           proof.inclusionProof.root = CredentialRoot(state),
           proof.revocationProof.root = RevocationRoot(state)
    PROVE  proof.commitment \in state.listed /\ proof.commitment \in state.cleared
<1> DEFINE c == proof.commitment
           inclusion == proof.inclusionProof
           revocation == proof.revocationProof
           credentials == CredentialLeaves(state)
           revocations == RevocationLeaves(state)
<1>1. /\ HashCredentialLeaf(c) = inclusion.leafHash
      /\ VerifyMerkleProof(inclusion)
      /\ HashRevocationLeaf(proof.revocationLeaf) = revocation.leafHash
      /\ proof.revocationLeaf.commitment = c
      /\ VerifyMerkleProof(revocation)
      /\ ~proof.revocationLeaf.revoked
  BY DEF VerifyRegistryClaimProof
<1>2. /\ Len(credentials) \in Nat
      /\ credentials = <<>> \/ Len(credentials) # 0
      /\ Nodes(credentials) = {HashCredentialLeaf(x) : x \in state.listed}
      /\ Len(revocations) \in Nat
      /\ revocations = <<>> \/ Len(revocations) # 0
      /\ Nodes(revocations) = {HashRevocationLeaf(RevocationLeaf(state, x)) :
                                  x \in state.cleared \cup state.revoked}
  BY LeavesOfState
<1>3. /\ inclusion.root = MerkleRoot(credentials)
      /\ revocation.root = MerkleRoot(revocations)
  BY DEF CredentialRoot, RevocationRoot
<1>4. Len(inclusion.siblings) \in Nat /\ Len(revocation.siblings) \in Nat
  OBVIOUS
<1> HIDE DEF credentials, revocations, inclusion, revocation
<1>5. inclusion.leafHash \in Nodes(credentials)
  <2>1. \A x \in Nodes(credentials) : ~IsBranch(x)
    BY <1>2, LeavesAreNoBranches
  <2>2. ~IsBranch(inclusion.leafHash) /\ inclusion.leafHash # ZeroDigest
    BY <1>1, LeavesAreNoBranches
  <2>3. credentials = <<>> \/ Len(credentials) \in Nat \ {0}
    BY <1>2
  <2> QED
    BY <1>1, <1>3, <1>4, <2>1, <2>2, <2>3, VerifiedLeafIsInTree
<1>6. revocation.leafHash \in Nodes(revocations)
  <2>1. \A x \in Nodes(revocations) : ~IsBranch(x)
    BY <1>2, LeavesAreNoBranches
  <2>2. ~IsBranch(revocation.leafHash) /\ revocation.leafHash # ZeroDigest
    BY <1>1, LeavesAreNoBranches
  <2>3. revocations = <<>> \/ Len(revocations) \in Nat \ {0}
    BY <1>2
  <2> QED
    BY <1>1, <1>3, <1>4, <2>1, <2>2, <2>3, VerifiedLeafIsInTree
<1>7. c \in state.listed
  BY <1>1, <1>2, <1>5, LeafHashInjective
<1>8. c \in state.cleared
  <2>1. PICK x \in state.cleared \cup state.revoked :
             HashRevocationLeaf(proof.revocationLeaf)
                 = HashRevocationLeaf(RevocationLeaf(state, x))
    BY <1>1, <1>2, <1>6
  <2>2. /\ proof.revocationLeaf.commitment = RevocationLeaf(state, x).commitment
        /\ proof.revocationLeaf.revoked = RevocationLeaf(state, x).revoked
    BY <2>1, LeafHashInjective
  <2>3. RevocationLeaf(state, x).commitment = x
    BY DEF RevocationLeaf
  <2>4. RevocationLeaf(state, x).revoked = (x \in state.revoked)
    BY DEF RevocationLeaf
  <2>5. x = c
    BY <1>1, <2>2, <2>3
  <2>6. ~(x \in state.revoked)
    BY <1>1, <2>2, <2>4
  <2> QED
    BY <2>1, <2>5, <2>6
<1> QED
  BY <1>7, <1>8

\* createRegistryClaimProof: a commitment that is published and cleared in a
\* state gets a proof that verifies, against the roots of that state.
THEOREM ActiveHasClaimProof ==
    ASSUME NEW state \in RegistryState, Sound(state),
           NEW c \in state.listed \cap state.cleared
    PROVE  LET proof == CreateRegistryClaimProof(state, c)
           IN  /\ VerifyRegistryClaimProof(proof)
               /\ proof.inclusionProof.root = CredentialRoot(state)
               /\ proof.revocationProof.root = RevocationRoot(state)
<1> DEFINE proof == CreateRegistryClaimProof(state, c)
           credentials == CredentialLeaves(state)
           revocations == RevocationLeaves(state)
           leaf == RevocationLeaf(state, c)
           inclusion == CreateMerkleProof(credentials,
                            Position(credentials, HashCredentialLeaf(c)))
           revocation == CreateMerkleProof(revocations,
                             Position(revocations, HashRevocationLeaf(leaf)))
<1>1. proof = [commitment |-> c, inclusionProof |-> inclusion,
               revocationLeaf |-> leaf, revocationProof |-> revocation]
  BY DEF CreateRegistryClaimProof, RevocationLeaf
<1>2. /\ Len(credentials) \in Nat /\ DOMAIN credentials = 1..Len(credentials)
      /\ Nodes(credentials) = {HashCredentialLeaf(x) : x \in state.listed}
      /\ Len(revocations) \in Nat /\ DOMAIN revocations = 1..Len(revocations)
      /\ Nodes(revocations) = {HashRevocationLeaf(RevocationLeaf(state, x)) :
                                  x \in state.cleared \cup state.revoked}
  BY LeavesOfState
<1>3. /\ HashCredentialLeaf(c) \in Nodes(credentials)
      /\ HashRevocationLeaf(leaf) \in Nodes(revocations)
  BY <1>2
<1>4. leaf.commitment = c /\ ~leaf.revoked
  BY DEF RevocationLeaf, Sound
<1> HIDE DEF credentials, revocations, leaf
<1>5. /\ inclusion.leafHash = HashCredentialLeaf(c)
      /\ inclusion.root = MerkleRoot(credentials)
      /\ VerifyMerkleProof(inclusion)
  BY <1>2, <1>3, LeafProof
<1>6. /\ revocation.leafHash = HashRevocationLeaf(leaf)
      /\ revocation.root = MerkleRoot(revocations)
      /\ VerifyMerkleProof(revocation)
  BY <1>2, <1>3, LeafProof
<1> HIDE DEF inclusion, revocation, proof
<1>7. VerifyRegistryClaimProof(proof)
  BY <1>1, <1>4, <1>5, <1>6 DEF VerifyRegistryClaimProof
<1>8. /\ proof.inclusionProof.root = CredentialRoot(state)
      /\ proof.revocationProof.root = RevocationRoot(state)
  BY <1>1, <1>5, <1>6 DEF CredentialRoot, RevocationRoot, credentials, revocations
<1> QED
  BY <1>7, <1>8 DEF proof

\* The claim proof of the holder was made from a state that has a status for
\* each commitment, and its own among them.
HeldHolds ==
    held = None \/ (Provable(held.state, held.commitment) /\ Sound(held.state))

\* What is asked of claim proofs follows from what the holder has.
LEMMA HeldSpeaks ==
    ASSUME TypeOK, HeldHolds
    PROVE  ProofSpeaksForAccount
<1> SUFFICES ASSUME held # None
             PROVE  /\ HeldProofFits => HeldIsActive
                    /\ (held.state = account.state /\ HeldIsActive) => HeldProofFits
  BY DEF ProofSpeaksForAccount
<1> DEFINE c == held.commitment
           proof == CreateRegistryClaimProof(held.state, c)
<1>1. /\ held.state \in RegistryState /\ account.state \in RegistryState
      /\ Provable(held.state, c) /\ Sound(held.state)
  BY DEF TypeOK, HeldHolds, Account
<1>2. proof.commitment = c
  BY DEF CreateRegistryClaimProof
<1>3. /\ Len(proof.inclusionProof.siblings) \in Nat
      /\ Len(proof.revocationProof.siblings) \in Nat
  <2> DEFINE credentials == CredentialLeaves(held.state)
             revocations == RevocationLeaves(held.state)
             leaf == RevocationLeaf(held.state, c)
  <2>1. /\ Len(credentials) \in Nat /\ DOMAIN credentials = 1..Len(credentials)
        /\ HashCredentialLeaf(c) \in Nodes(credentials)
        /\ Len(revocations) \in Nat /\ DOMAIN revocations = 1..Len(revocations)
        /\ HashRevocationLeaf(leaf) \in Nodes(revocations)
    BY <1>1, LeavesOfState DEF Provable
  <2>2. /\ proof.inclusionProof = CreateMerkleProof(credentials,
                Position(credentials, HashCredentialLeaf(c)))
        /\ proof.revocationProof = CreateMerkleProof(revocations,
                Position(revocations, HashRevocationLeaf(leaf)))
    BY DEF CreateRegistryClaimProof, RevocationLeaf
  <2> HIDE DEF credentials, revocations, leaf, proof
  <2> QED
    BY <2>1, <2>2, LeafProof
<1>4. ASSUME HeldProofFits PROVE HeldIsActive
  <2>1. /\ VerifyRegistryClaimProof(proof)
        /\ proof.inclusionProof.root = CredentialRoot(account.state)
        /\ proof.revocationProof.root = RevocationRoot(account.state)
    BY <1>4 DEF HeldProofFits
  <2> HIDE DEF proof
  <2>2. /\ proof.commitment \in account.state.listed
        /\ proof.commitment \in account.state.cleared
    BY <1>1, <1>3, <2>1, ClaimProofIsOfActive
  <2> QED
    BY <1>2, <2>2 DEF HeldIsActive
<1>5. ASSUME held.state = account.state, HeldIsActive PROVE HeldProofFits
  <2>1. c \in held.state.listed \cap held.state.cleared
    BY <1>5 DEF HeldIsActive
  <2>2. /\ VerifyRegistryClaimProof(proof)
        /\ proof.inclusionProof.root = CredentialRoot(held.state)
        /\ proof.revocationProof.root = RevocationRoot(held.state)
    BY <1>1, <2>1, ActiveHasClaimProof
  <2> QED
    BY <1>5, <2>2 DEF HeldProofFits
<1> QED
  BY <1>4, <1>5

\* Only taking a proof changes what the holder has.
LEMMA HeldStep ==
    ASSUME TypeOK, HeldHolds, [Next]_vars
    PROVE  HeldHolds'
<1>1. CASE TakeProof
  BY <1>1 DEF TakeProof, TypeOK, HeldHolds
<1>2. CASE held' = held
  BY <1>2 DEF HeldHolds
<1>3. TakeProof \/ held' = held
  BY DEF Next, ReadState, Truncate, WriteState, UpdateRegistry, SendUpdate,
         DeployRegistry, SendInitialize, FinishWait, FailScript, Include, Drop,
         StartVerifier, readers, vars
<1> QED
  BY <1>1, <1>2, <1>3

(* However old a claim proof is and whatever scripts overlap, crash or fail: *)
(* if it verifies against the roots of the account, its commitment is active *)
(* there; and if it was taken from the state the account is in, it verifies. *)
THEOREM ProofSpeaks == Spec => []ProofSpeaksForAccount
<1>1. Init => HeldHolds
  BY DEF Init, HeldHolds
<1>2. TypeOK /\ HeldHolds /\ [Next]_vars => HeldHolds'
  BY HeldStep
<1>3. TypeOK /\ HeldHolds => ProofSpeaksForAccount
  BY HeldSpeaks
<1> QED
  BY <1>1, <1>2, <1>3, TypeCorrect, PTL DEF Spec

-----------------------------------------------------------------------------
(* Roots and the states they are of *)


\* Two trees with one root are over the same leaves: each leaf of one has a
\* proof that verifies against the root of the other.
LEMMA RootFixesLeaves ==
    ASSUME NEW a, Len(a) \in Nat, DOMAIN a = 1..Len(a),
           \A x \in Nodes(a) : ~IsBranch(x) /\ x # ZeroDigest,
           NEW b, b = <<>> \/ Len(b) \in Nat \ {0},
           \A x \in Nodes(b) : ~IsBranch(x),
           MerkleRoot(a) = MerkleRoot(b)
    PROVE  Nodes(a) \subseteq Nodes(b)
<1> SUFFICES ASSUME NEW x \in Nodes(a)
             PROVE  x \in Nodes(b)
  OBVIOUS
<1> DEFINE proof == CreateMerkleProof(a, Position(a, x))
<1>1. /\ proof.leafHash = x
      /\ proof.root = MerkleRoot(b)
      /\ Len(proof.siblings) \in Nat
      /\ VerifyMerkleProof(proof)
  BY LeafProof
<1> HIDE DEF proof
<1>2. ~IsBranch(proof.leafHash) /\ proof.leafHash # ZeroDigest
  BY <1>1
<1>3. proof.leafHash \in Nodes(b)
  BY <1>1, <1>2, VerifiedLeafIsInTree
<1> QED
  BY <1>1, <1>3

\* The leaves of a revocation tree say which commitments have a status, and
\* which of them are revoked.
LEMMA StatusLeaves ==
    ASSUME NEW s \in RegistryState, NEW t \in RegistryState,
           Nodes(RevocationLeaves(s)) \subseteq Nodes(RevocationLeaves(t)),
           NEW c \in s.cleared \cup s.revoked
    PROVE  /\ c \in t.cleared \cup t.revoked
           /\ c \in s.revoked <=> c \in t.revoked
<1>1. /\ Nodes(RevocationLeaves(s)) =
            {HashRevocationLeaf(RevocationLeaf(s, x)) : x \in s.cleared \cup s.revoked}
      /\ Nodes(RevocationLeaves(t)) =
            {HashRevocationLeaf(RevocationLeaf(t, x)) : x \in t.cleared \cup t.revoked}
  BY LeavesOfState
<1>2. PICK x \in t.cleared \cup t.revoked :
         HashRevocationLeaf(RevocationLeaf(s, c))
             = HashRevocationLeaf(RevocationLeaf(t, x))
  BY <1>1
<1>3. /\ RevocationLeaf(s, c).commitment = RevocationLeaf(t, x).commitment
      /\ RevocationLeaf(s, c).revoked = RevocationLeaf(t, x).revoked
  BY <1>2, LeafHashInjective
<1>4. RevocationLeaf(s, c).commitment = c /\ RevocationLeaf(t, x).commitment = x
  BY DEF RevocationLeaf
<1>5. /\ RevocationLeaf(s, c).revoked = (c \in s.revoked)
      /\ RevocationLeaf(t, x).revoked = (x \in t.revoked)
  BY DEF RevocationLeaf
<1>6. c = x
  BY <1>3, <1>4
<1>7. (c \in s.revoked) = (x \in t.revoked)
  BY <1>3, <1>5
<1> QED
  BY <1>2, <1>6, <1>7

\* buildRegistryState: the two roots fix what is published, what has a status
\* and what is revoked.  No two states an operator can have pass for one
\* another on the account.
THEOREM RootsFixState ==
    ASSUME NEW s \in RegistryState, NEW t \in RegistryState,
           CredentialRoot(s) = CredentialRoot(t),
           RevocationRoot(s) = RevocationRoot(t)
    PROVE  /\ s.listed = t.listed
           /\ s.cleared \cup s.revoked = t.cleared \cup t.revoked
           /\ s.revoked = t.revoked
<1>1. ASSUME NEW u \in RegistryState, NEW v \in RegistryState,
             CredentialRoot(u) = CredentialRoot(v),
             RevocationRoot(u) = RevocationRoot(v)
      PROVE  /\ u.listed \subseteq v.listed
             /\ \A c \in u.cleared \cup u.revoked :
                   /\ c \in v.cleared \cup v.revoked
                   /\ c \in u.revoked <=> c \in v.revoked
  <2> DEFINE a == CredentialLeaves(u)
             b == CredentialLeaves(v)
             p == RevocationLeaves(u)
             q == RevocationLeaves(v)
  <2>1. MerkleRoot(a) = MerkleRoot(b) /\ MerkleRoot(p) = MerkleRoot(q)
    BY <1>1 DEF CredentialRoot, RevocationRoot
  <2>2. /\ Len(a) \in Nat /\ DOMAIN a = 1..Len(a)
        /\ Nodes(a) = {HashCredentialLeaf(c) : c \in u.listed}
        /\ Len(p) \in Nat /\ DOMAIN p = 1..Len(p)
        /\ Nodes(p) = {HashRevocationLeaf(RevocationLeaf(u, c)) :
                          c \in u.cleared \cup u.revoked}
    BY <1>1, LeavesOfState
  <2>3. /\ Len(b) \in Nat /\ (b = <<>> \/ Len(b) # 0)
        /\ Nodes(b) = {HashCredentialLeaf(c) : c \in v.listed}
        /\ Len(q) \in Nat /\ (q = <<>> \/ Len(q) # 0)
        /\ Nodes(q) = {HashRevocationLeaf(RevocationLeaf(v, c)) :
                          c \in v.cleared \cup v.revoked}
    BY <1>1, LeavesOfState
  <2> HIDE DEF a, b, p, q
  <2>4. /\ \A x \in Nodes(a) : ~IsBranch(x) /\ x # ZeroDigest
        /\ \A x \in Nodes(b) : ~IsBranch(x)
        /\ \A x \in Nodes(p) : ~IsBranch(x) /\ x # ZeroDigest
        /\ \A x \in Nodes(q) : ~IsBranch(x)
    BY <2>2, <2>3, LeavesAreNoBranches
  <2>5. (b = <<>> \/ Len(b) \in Nat \ {0}) /\ (q = <<>> \/ Len(q) \in Nat \ {0})
    BY <2>3
  <2>6. Nodes(a) \subseteq Nodes(b)
    BY <2>1, <2>2, <2>4, <2>5, RootFixesLeaves
  <2>7. Nodes(p) \subseteq Nodes(q)
    BY <2>1, <2>2, <2>4, <2>5, RootFixesLeaves
  <2>8. u.listed \subseteq v.listed
    BY <2>2, <2>3, <2>6, LeafHashInjective
  <2> QED
    BY <1>1, <2>7, <2>8, StatusLeaves DEF p, q
<1>2. /\ s.listed \subseteq t.listed
      /\ \A c \in s.cleared \cup s.revoked :
            c \in t.cleared \cup t.revoked /\ (c \in s.revoked <=> c \in t.revoked)
  BY <1>1
<1>3. /\ t.listed \subseteq s.listed
      /\ \A c \in t.cleared \cup t.revoked :
            c \in s.cleared \cup s.revoked /\ (c \in t.revoked <=> c \in s.revoked)
  BY <1>1
<1> QED
  BY <1>2, <1>3

\* A claim proof that fits is of the very state the account carries, if that is
\* of a publish or revoke; the roots of update:registry may be of two states.
ProofIsCurrent ==
    (held # None /\ account.via # "update" /\ HeldProofFits)
        => held.state = account.state

\* docs/registry-attestations.md has a verifier accept an active attestation
\* with a proof of the account's state that agrees with it in subject, issuer,
\* expiry and value.  verifyPresentationWithRegistry refuses every such one, and
\* for no reason but its two comparisons of a hexadecimal root with the decimal
\* form the node reports.
THEOREM RefusedByRootsAlone ==
    ASSUME NEW state \in RegistryState, Sound(state),
           NEW c \in state.listed \cap state.cleared,
           NEW anchors \in Anchors, NEW owner, NEW value,
           NEW expiresAt \in Nat, NEW now \in 0..expiresAt
    PROVE  LET checks ==
                   RegistryClaimChecks(
                       CreateRegistryClaimProof(state, c),
                       [subject |-> owner, issuer |-> anchors.issuer,
                        expiresAt |-> expiresAt, value |-> value],
                       [anchors |-> anchors, state |-> state],
                       [owner |-> owner, value |-> value], now)
           IN  {checks[i][1] : i \in {k \in DOMAIN checks : ~checks[k][2]}} =
                   {"registry_root_mismatch", "registry_revocation_root_mismatch"}
<1> DEFINE proof == CreateRegistryClaimProof(state, c)
           att == [subject |-> owner, issuer |-> anchors.issuer,
                   expiresAt |-> expiresAt, value |-> value]
           onChain == [anchors |-> anchors, state |-> state]
           shown == [owner |-> owner, value |-> value]
           checks == RegistryClaimChecks(proof, att, onChain, shown, now)
<1>1. VerifyRegistryClaimProof(proof)
  BY ActiveHasClaimProof
<1>2. /\ ~(att.expiresAt < now) /\ att.issuer = onChain.anchors.issuer
      /\ att.subject = shown.owner /\ att.value = shown.value
  OBVIOUS
<1>3. \A a, b : Hex(a) # Decimal(b)
  BY DEF Hex, Decimal
<1> HIDE DEF proof, att, onChain, shown
<1> DEFINE verifies == VerifyRegistryClaimProof(proof)
           subject == att.subject = shown.owner
           issuer == att.issuer = onChain.anchors.issuer
           valid == ~(att.expiresAt < now)
           credential == Hex(proof.inclusionProof.root)
                             = Decimal(CredentialRoot(onChain.state))
           revocation == Hex(proof.revocationProof.root)
                             = Decimal(RevocationRoot(onChain.state))
           same == att.value = shown.value
<1>7. verifies /\ subject /\ issuer /\ valid /\ ~credential /\ ~revocation /\ same
  BY <1>1, <1>2, <1>3
<1>8. checks = << <<"registry_proof_invalid", verifies>>,
                  <<"registry_subject_mismatch", subject>>,
                  <<"registry_issuer_mismatch", issuer>>,
                  <<"registry_attestation_expired", valid>>,
                  <<"registry_root_mismatch", credential>>,
                  <<"registry_revocation_root_mismatch", revocation>>,
                  <<"registry_claim_value_mismatch", same>> >>
  BY DEF RegistryClaimChecks
<1> HIDE DEF checks, verifies, subject, issuer, valid, credential, revocation, same
<1>4. /\ DOMAIN checks = 1..7
      /\ checks[1][2] /\ checks[2][2] /\ checks[3][2] /\ checks[4][2]
      /\ ~checks[5][2] /\ ~checks[6][2] /\ checks[7][2]
      /\ checks[5][1] = "registry_root_mismatch"
      /\ checks[6][1] = "registry_revocation_root_mismatch"
  <2>1. /\ DOMAIN checks = 1..7
        /\ checks[1][2] = verifies /\ checks[2][2] = subject
        /\ checks[3][2] = issuer /\ checks[4][2] = valid
        /\ checks[5] = <<"registry_root_mismatch", credential>>
        /\ checks[6] = <<"registry_revocation_root_mismatch", revocation>>
        /\ checks[7][2] = same
    BY <1>8
  <2>2. /\ checks[5][1] = "registry_root_mismatch" /\ checks[5][2] = credential
        /\ checks[6][1] = "registry_revocation_root_mismatch"
        /\ checks[6][2] = revocation
    BY <2>1
  <2> QED
    BY <1>7, <2>1, <2>2
<1>5. {k \in DOMAIN checks : ~checks[k][2]} = {5, 6}
  BY <1>4
<1>6. {checks[i][1] : i \in {5, 6}} = {checks[5][1], checks[6][1]}
  OBVIOUS
<1> QED
  BY <1>4, <1>5, <1>6 DEF checks, proof, att, onChain, shown

\* A claim proof fits the account only while the account carries the state it
\* was taken from: once a publish or revoke changes anything, of whichever
\* commitment, every claim proof taken before stops verifying.
THEOREM ProofsAgeWithState == Spec => []ProofIsCurrent
<1>1. Init => HeldHolds
  BY DEF Init, HeldHolds
<1>2. TypeOK /\ HeldHolds /\ [Next]_vars => HeldHolds'
  BY HeldStep
<1>3. TypeOK /\ HeldHolds => ProofIsCurrent
  <2> SUFFICES ASSUME TypeOK, HeldHolds, held # None, account.via # "update",
                      HeldProofFits
               PROVE  held.state = account.state
    BY DEF ProofIsCurrent
  <2> DEFINE s == held.state
             t == account.state
             c == held.commitment
             proof == CreateRegistryClaimProof(s, c)
  <2>1. /\ s \in RegistryState /\ Sound(s) /\ t \in RegistryState /\ Sound(t)
    BY DEF TypeOK, HeldHolds, Account
  <2>2. /\ proof.inclusionProof.root = CredentialRoot(t)
        /\ proof.revocationProof.root = RevocationRoot(t)
    BY DEF HeldProofFits
  <2>3. /\ proof.inclusionProof.root = CredentialRoot(s)
        /\ proof.revocationProof.root = RevocationRoot(s)
    BY DEF CreateRegistryClaimProof, CreateMerkleProof, CredentialRoot,
           RevocationRoot
  <2> HIDE DEF s, t, proof
  <2>4. /\ s.listed = t.listed
        /\ s.cleared \cup s.revoked = t.cleared \cup t.revoked
        /\ s.revoked = t.revoked
    BY <2>1, <2>2, <2>3, RootsFixState
  <2>5. s.cleared = t.cleared
    BY <2>1, <2>4 DEF Sound
  <2>6. s = t
    BY <2>1, <2>4, <2>5 DEF RegistryState
  <2> QED
    BY <2>6 DEF s, t
<1> QED
  BY <1>1, <1>2, <1>3, TypeCorrect, PTL DEF Spec
=============================================================================
