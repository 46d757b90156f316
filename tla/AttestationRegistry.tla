------------------------ MODULE AttestationRegistry ------------------------
(* The scripts of packages/zk-age-gate-contract with which operators keep the*)
(* MintraRegistry account: deploy:registry, publish:attestation,             *)
(* revoke:attestation and update:registry, over one state file and one       *)
(* account; the holder who takes claim proofs from the state file; and the   *)
(* verifier service, which resolves its trust once, when it starts.          *)
(* A script is a process: it may crash or fail between any two of its steps, *)
(* and a transaction it has sent may be included later, or never.            *)
(* A definition named X_Y is X with the plausible bug Y: no action uses it,  *)
(* the README says what it is for.                                           *)
EXTENDS RegistryReaders

CONSTANTS
    Commitment,     \* attestation commitments, finitely many digests
    Operator,       \* operators with the keys, sharing one checkout
    EnvOf,          \* Operator -> the issuer it is given and the programs it builds
    Wishes,         \* what the operators want published or revoked
    Histories,      \* sets of commitments published before the model begins
    Presented,      \* commitments whose holder asks for a claim proof
    Settings,       \* settings the verifier may be started with
    None,
    MaxRuns,        \* bound: script runs
    MaxReads        \* bound: claim proofs taken and starts of the verifier

\* deploy is the first transaction of deploy:registry, initialize the second.
Kinds == {"deploy", "initialize", "publish", "revoke", "update"}

ASSUME RegistryBounds ==
    /\ None \notin Kinds
    /\ Commitment \subseteq Nat /\ IsFiniteSet(Commitment)
    /\ EnvOf \in [Operator -> [issuer : Issuer, program : Program]]
    /\ Unset \notin Issuer \cup Program
    /\ Histories \subseteq SUBSET Commitment
    /\ Presented \subseteq Commitment
    /\ Settings \subseteq TrustSettings
    /\ Wishes \subseteq [kind : {"publish", "revoke"}, commitment : Commitment]
    /\ MaxRuns \in Nat /\ MaxReads \in Nat

VARIABLES
    file,           \* REGISTRY_ATTESTATIONS_FILE
    run,            \* Operator -> the state of its script
    runs,           \* script runs so far
    pending,        \* transactions sent, neither included nor dropped
    account,        \* the MintraRegistry account
    held,           \* the claim proof of the holder, or None
    verifier,       \* the verifier service, or None
    reads,          \* claim proofs taken and starts of the verifier so far
    log,            \* history: what was written to the file: [wish, state]
    overlapped,     \* history: a script started while another was under way
    anchored        \* history: the trust anchors the account has had

scripts == <<file, run, runs, log, overlapped>>
chain == <<pending, account, anchored>>
readers == <<held, verifier, reads>>
vars == <<scripts, chain, readers>>

RegistryState ==
    [listed : SUBSET Commitment, cleared : SUBSET Commitment,
     revoked : SUBSET Commitment]

\* Bug: a commitment that is published is given no status.
Fulfil_NoStatus(state, wish) ==
    IF wish.kind = "publish"
    THEN UpsertCredentialCommitment(state, wish.commitment)
    ELSE SetRevocationStatus(state, wish.commitment, TRUE)

\* The state a script makes of the state it has read.
Fulfil(state, wish) ==
    IF wish.kind = "publish"
    THEN SetRevocationStatus(
             UpsertCredentialCommitment(state, wish.commitment),
             wish.commitment, FALSE)
    ELSE SetRevocationStatus(state, wish.commitment, TRUE)

\* "missing" reads as an empty state (ENOENT); "empty" (truncated) and
\* "garbled" do not parse.
File ==
    [form : {"missing", "json", "empty", "garbled"}, state : RegistryState]

\* version is the entry of the log the roots belong to, 0 for roots from
\* the environment.
Transaction ==
    [by : Operator, nonce : Nat, kind : Kinds, anchors : Anchors,
     state : RegistryState, version : Nat]

Stages ==
    {"idle", "read", "truncated", "written", "deploying", "deployed", "sent",
     "ok", "failed"}

Run ==
    [pc : Stages, kind : Kinds \cup {None}, wish : Wishes \cup {None},
     state : RegistryState, version : Nat, nonce : Nat, landed : BOOLEAN]

Account ==
    [deployed : BOOLEAN, anchors : Anchors, state : RegistryState,
     version : Nat, via : Kinds \cup {None}]

Sound(state) ==
    /\ state.listed \subseteq state.cleared \cup state.revoked
    /\ state.cleared \cap state.revoked = {}

\* A published commitment has exactly one status, in the file and on chain
\* (createRegistryClaimProof throws without one); only roots from the
\* environment need not fit each other.
TypeOK ==
    /\ file \in File
    /\ run \in [Operator -> Run]
    /\ runs \in 0..MaxRuns
    /\ pending \subseteq Transaction
    /\ account \in Account
    /\ held = None \/ (held.commitment \in Commitment
                       /\ held.state \in RegistryState)
    /\ verifier = None \/ verifier.settings \in Settings
    /\ reads \in 0..MaxReads
    /\ log \in Seq([wish : Wishes \cup {None}, state : RegistryState])
    /\ overlapped \in BOOLEAN
    /\ anchored \subseteq Anchors
    /\ Sound(file.state)
    /\ account.via # "update" => Sound(account.state)

NoAnchors == [issuer |-> Unset, program |-> Unset]

Published(S) == [listed |-> S, cleared |-> S, revoked |-> {}]

\* Nothing yet, or a registry that has been in use for a while.
Init ==
    /\ \E old \in Histories :
         /\ file = [form  |-> IF old = {} THEN "missing" ELSE "json",
                    state |-> Published(old)]
         /\ log = <<[wish |-> None, state |-> Published(old)]>>
         /\ IF old = {}
            THEN /\ account = [deployed |-> FALSE, anchors |-> NoAnchors,
                               state |-> EmptyState, version |-> 0,
                               via |-> None]
                 /\ anchored = {}
            ELSE \E o \in Operator :
                   /\ account = [deployed |-> TRUE, anchors |-> EnvOf[o],
                                 state |-> Published(old), version |-> 1,
                                 via |-> "publish"]
                   /\ anchored = {EnvOf[o]}
    /\ run = [o \in Operator |->
                 [pc |-> "idle", kind |-> None, wish |-> None,
                  state |-> EmptyState, version |-> 0, nonce |-> 0,
                  landed |-> FALSE]]
    /\ runs = 0
    /\ pending = {}
    /\ held = None /\ verifier = None /\ reads = 0
    /\ overlapped = FALSE

-----------------------------------------------------------------------------
(* Scripts *)

Resting == {"idle", "ok", "failed"}

UnderWay(o) ==
    \/ run[o].pc \notin Resting
    \/ \E t \in pending : t.by = o

Start(o, r) ==
    /\ run[o].pc \in Resting
    /\ runs < MaxRuns
    /\ runs' = runs + 1
    /\ run' = [run EXCEPT ![o] = [r EXCEPT !.nonce = @ + 1]]
    /\ overlapped' = (overlapped \/ \E p \in Operator \ {o} : UnderWay(p))

Fresh(o, pc, kind) ==
    [pc |-> pc, kind |-> kind, wish |-> None, state |-> EmptyState,
     version |-> 0, nonce |-> run[o].nonce, landed |-> FALSE]

\* Bug: a file that does not parse is taken for a missing one.
ReadState_EmptyOnError(o) ==
    /\ \E w \in Wishes :
         Start(o, [Fresh(o, "read", w.kind) EXCEPT
                      !.wish = w, !.state = Fulfil(file.state, w)])
    /\ UNCHANGED <<file, log, chain, readers>>

\* publish:attestation and revoke:attestation up to the await of readFile.
ReadState(o) ==
    /\ \E w \in Wishes :
         Start(o, IF file.form \in {"missing", "json"}
                  THEN [Fresh(o, "read", w.kind) EXCEPT
                           !.wish = w, !.state = Fulfil(file.state, w)]
                  ELSE Fresh(o, "failed", w.kind))
    /\ UNCHANGED <<file, log, chain, readers>>

\* writeFile opens the file, which empties it, ...
Truncate(o) ==
    /\ run[o].pc = "read"
    /\ file' = [form |-> "empty", state |-> EmptyState]
    /\ run' = [run EXCEPT ![o].pc = "truncated"]
    /\ UNCHANGED <<runs, log, overlapped, chain, readers>>

\* ... and writes from its beginning; what another script has put there
\* meanwhile may stick out behind.
WriteState(o) ==
    /\ run[o].pc = "truncated"
    /\ \E form \in IF file.form = "empty" THEN {"json"} ELSE {"json", "garbled"} :
         file' = [form  |-> form,
                  state |-> IF form = "json" THEN run[o].state ELSE EmptyState]
    /\ log' = Append(log, [wish |-> run[o].wish, state |-> run[o].state])
    /\ run' = [run EXCEPT ![o].pc = "written", ![o].version = Len(log) + 1]
    /\ UNCHANGED <<runs, overlapped, chain, readers>>

\* update:registry takes the roots from the environment; an operator leaves
\* them out (0, the root of nothing) or passes those of the account.
UpdateRegistry(o) ==
    /\ account.deployed
    /\ \E credentials, revocations \in {EmptyState, account.state} :
         Start(o, [Fresh(o, "written", "update") EXCEPT
                      !.state = [listed  |-> credentials.listed,
                                 cleared |-> revocations.cleared,
                                 revoked |-> revocations.revoked]])
    /\ UNCHANGED <<file, log, chain, readers>>

\* Bug: the hashes are read from programs that are not compiled yet.
Sent_NotCompiled(o, kind, anchors) ==
    [by |-> o, nonce |-> run[o].nonce, kind |-> kind,
     anchors |-> [anchors EXCEPT !.program = None],
     state |-> run[o].state, version |-> run[o].version]

Sent(o, kind, anchors) ==
    [by |-> o, nonce |-> run[o].nonce, kind |-> kind, anchors |-> anchors,
     state |-> run[o].state, version |-> run[o].version]

\* The transaction with updateTrustAnchors, after the programs are compiled;
\* without an account sending fails (FailScript).
SendUpdate(o) ==
    /\ run[o].pc = "written"
    /\ account.deployed
    /\ pending' = pending \cup {Sent(o, run[o].kind, EnvOf[o])}
    /\ run' = [run EXCEPT ![o].pc = "sent"]
    /\ UNCHANGED <<file, runs, log, overlapped, account, anchored,
                   readers>>

\* deploy:registry sends the account first ...
DeployRegistry(o) ==
    /\ ~account.deployed
    /\ Start(o, Fresh(o, "deploying", "deploy"))
    /\ pending' = pending \cup
           {[by |-> o, nonce |-> run[o].nonce + 1, kind |-> "deploy",
             anchors |-> NoAnchors, state |-> EmptyState, version |-> 0]}
    /\ UNCHANGED <<file, log, account, anchored, readers>>

\* ... waits for it, and then initializes it: assertEquals looks at the
\* account now, getAndRequireEquals makes it a condition of the transaction.
SendInitialize(o) ==
    /\ run[o].pc = "deployed"
    /\ account.anchors.program = Unset
    /\ pending' = pending \cup {Sent(o, "initialize", EnvOf[o])}
    /\ run' = [run EXCEPT ![o].pc = "sent"]
    /\ UNCHANGED <<file, runs, log, overlapped, account, anchored,
                   readers>>

\* Bug: the transaction is sent, and not waited for.
FinishWait_NotAwaited(o) ==
    /\ run[o].pc \in {"deploying", "sent"}
    /\ run' = [run EXCEPT ![o] =
                  [Fresh(o, IF @.pc = "sent" THEN "ok" ELSE "deployed", @.kind)
                      EXCEPT !.version = run[o].version]]
    /\ UNCHANGED <<file, runs, log, overlapped, chain, readers>>

\* result.wait() sees the transaction included.
FinishWait(o) ==
    /\ run[o].pc \in {"deploying", "sent"}
    /\ run[o].landed
    /\ run' = [run EXCEPT ![o] =
                  [Fresh(o, IF @.pc = "sent" THEN "ok" ELSE "deployed", @.kind)
                      EXCEPT !.version = run[o].version]]
    /\ UNCHANGED <<file, runs, log, overlapped, chain, readers>>

\* Any await fails, or the process dies: exit code 1, nothing is undone.
FailScript(o) ==
    /\ run[o].pc \notin Resting
    /\ run' = [run EXCEPT ![o] = Fresh(o, "failed", None)]
    /\ UNCHANGED <<file, runs, log, overlapped, chain, readers>>

-----------------------------------------------------------------------------
(* The account *)

\* Bug: initialize reads the hashes without requiring them.
Precondition_InitializeAnyway(t) ==
    IF t.kind = "deploy" THEN ~account.deployed ELSE account.deployed

\* What a transaction needs of the account when it is included.
Precondition(t) ==
    CASE t.kind = "deploy" -> ~account.deployed
      [] t.kind = "initialize" -> account.deployed
                                  /\ account.anchors.program = Unset
      [] OTHER -> account.deployed

\* Transactions of one fee payer are included in the order they were sent:
\* the ones before t that are still pending have lost their nonce.
Include(t) ==
    /\ Precondition(t)
    /\ account' = [deployed |-> TRUE, anchors |-> t.anchors, state |-> t.state,
                   version |-> t.version, via |-> t.kind]
    /\ anchored' = IF t.kind = "deploy" THEN anchored
                   ELSE anchored \cup {t.anchors}
    /\ pending' = {u \in pending : u.by = t.by => u.nonce > t.nonce}
    /\ run' = [run EXCEPT ![t.by].landed =
                  @ \/ (t.nonce = run[t.by].nonce /\ run[t.by].pc =
                            IF t.kind = "deploy" THEN "deploying" ELSE "sent")]
    /\ UNCHANGED <<file, runs, log, overlapped, readers>>

Drop(t) ==
    /\ pending' = pending \ {t}
    /\ UNCHANGED <<scripts, account, anchored, readers>>

-----------------------------------------------------------------------------
(* Readers *)

\* The holder gets the lists of the state file and makes a claim proof.
TakeProof ==
    /\ reads < MaxReads
    /\ file.form = "json"
    /\ \E c \in Presented :
         /\ Provable(file.state, c)
         /\ held' = [commitment |-> c, state |-> file.state]
    /\ reads' = reads + 1
    /\ UNCHANGED <<scripts, chain, verifier>>

\* buildVerifierApp; the node may not answer.
StartVerifier ==
    /\ reads < MaxReads
    /\ reads' = reads + 1
    /\ \E s \in Settings, reachable \in BOOLEAN :
         LET found == reachable /\ account.deployed
         IN  verifier' = [settings |-> s,
                          trust    |-> ResolveTrust(s, found, account.anchors)]
    /\ UNCHANGED <<scripts, chain, held>>

Next ==
    \/ \E o \in Operator :
         \/ ReadState(o) \/ Truncate(o) \/ WriteState(o)
         \/ UpdateRegistry(o) \/ SendUpdate(o)
         \/ DeployRegistry(o) \/ SendInitialize(o)
         \/ FinishWait(o) \/ FailScript(o)
    \/ \E t \in pending : Include(t) \/ Drop(t)
    \/ TakeProof \/ StartVerifier

Spec == Init /\ [][Next]_vars

-----------------------------------------------------------------------------
(* Properties *)

\* A publish or revoke that ended well is on the account, whatever runs died
\* or lost their transaction before it or after it (the file is written
\* first, so that the next run carries what this one did not deliver).
SuccessIsAnchored ==
    \A o \in Operator :
        (run[o].pc = "ok" /\ run[o].kind \in {"publish", "revoke"}) =>
            \/ overlapped
            \/ account.via = "update"
            \/ account.version >= run[o].version

\* Nothing published leaves the account, and a revocation leaves it only with
\* a publish of that commitment: not because a run died, a transaction was
\* lost or came late.  Roots from the environment and overlapping scripts may
\* undo either, but an initialize, whose roots are those of nothing, never
\* lands on a publish, even where scripts overlap.
DecisionsStick ==
    [][/\ \/ overlapped
          \/ account'.via = "update"
          \/ /\ account.state.listed \subseteq account'.state.listed
             /\ \A c \in account.state.revoked \ account'.state.revoked :
                   \E i \in (account.version + 1)..account'.version :
                      log[i].wish = [kind |-> "publish", commitment |-> c]
       /\ (account'.via = "initialize" /\ account' # account) =>
             account.via = "deploy"]_vars

Ledger == INSTANCE RegistryLedger WITH Wish <- Wishes, at <- account.version

\* While scripts do not overlap, file and account are the ledger of the
\* operators' wishes.
FollowsLedger == [][overlapped' \/ Ledger!LedgerNext]_<<log, account.version>>

HeldIsActive ==
    held.commitment \in account.state.listed \cap account.state.cleared

HeldProofFits ==
    LET proof == CreateRegistryClaimProof(held.state, held.commitment)
    IN  /\ VerifyRegistryClaimProof(proof)
        /\ proof.inclusionProof.root = CredentialRoot(account.state)
        /\ proof.revocationProof.root = RevocationRoot(account.state)

\* A claim proof that verifies against the roots of the account speaks of a
\* commitment that is active there, however old the proof is; and one taken
\* from the state the account is in verifies.
ProofSpeaksForAccount ==
    held # None =>
        /\ HeldProofFits => HeldIsActive
        /\ (held.state = account.state /\ HeldIsActive) => HeldProofFits

\* The issuer a verifier takes from the registry was anchored there for exactly
\* the programs it compiled, and under TRUST_SOURCE=registry it takes no other
\* if the account's address and an endpoint are set; if they are not, it falls
\* back to TRUSTED_ISSUER_PUBLIC_KEY, as RegistryModeIsMandatory shows.  What is
\* anchored after the start does not reach the verifier.
RegistryTrustIsAnchored ==
    verifier # None =>
        /\ verifier.trust.source = "registry" =>
             [issuer  |-> verifier.trust.issuer,
              program |-> verifier.settings.program] \in anchored
        /\ verifier.settings.mode = "registry" =>
             \/ verifier.trust.source \in {"registry", "failed"}
             \/ /\ verifier.trust.source = "env"
                /\ ~verifier.settings.configured

\* README.md, TRUST_SOURCE=registry: "registry lookup and VK-hash matching" are
\* "mandatory at startup".
RegistryModeIsMandatory ==
    (verifier # None /\ verifier.settings.mode = "registry") =>
        verifier.trust.source \in {"registry", "failed"}
=============================================================================
