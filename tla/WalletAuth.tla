----------------------------- MODULE WalletAuth -----------------------------
(* WalletAuthStore of services/api/src/auth.ts, the three routes over it     *)
(* (routes/auth.ts) and the onRequest hook of app.ts with the fresh-wallet   *)
(* check of the handler behind it.  The store is synchronous: a call is one  *)
(* action, except that it reads the time more than once.  Ids and tokens are *)
(* fresh, so a key of a map is the position of its record among all those    *)
(* ever made, and the insertion order of a map is the order of its keys.     *)
(* A definition named X_Y is X with the plausible bug Y: no action uses it,  *)
(* the README says what it is for.                                           *)
EXTENDS Naturals, Sequences, FiniteSets

CONSTANTS
    Wallet,
    Origin,         \* the origins of AUTH_ALLOWED_ORIGINS
    Request,        \* authenticated calls of the API
    None,
    ChallengeTtl,   \* CHALLENGE_TTL_MS
    SessionTtl,     \* SESSION_TTL_MS
    FreshWindow,    \* FRESH_AUTH_WINDOW_MS
    MaxChallenges,  \* MAX_CHALLENGES
    MaxSessions,    \* MAX_SESSIONS
    MaxIssued,      \* bound: challenges ever created
    MaxOpened,      \* bound: sessions ever created
    MaxClock        \* bound: the last instant of the clock

ASSUME AuthBounds ==
    /\ None \notin Wallet \cup Nat
    /\ ChallengeTtl \in Nat \ {0}
    /\ SessionTtl \in Nat \ {0}
    /\ FreshWindow \in 0 .. SessionTtl
    /\ MaxChallenges \in Nat \ {0}
    /\ MaxSessions \in Nat \ {0}
    /\ MaxIssued \in Nat
    /\ MaxOpened \in Nat
    /\ MaxClock \in Nat

VARIABLES
    clock,
    issued,         \* Seq of what createChallenge returned, oldest first
    opened,         \* Seq of what createSession stored, oldest first
    challenges,     \* the map challenges: positions in issued
    sessions,       \* the map sessions: positions in opened
    tried,          \* history: challenges a wallet tried to sign in with
    revoked,        \* history: sessions logged out
    req             \* Request -> the state of its handler

maps == <<challenges, sessions>>
histories == <<issued, opened, tried, revoked>>
vars == <<clock, maps, histories, req>>

ChallengeRecord == [wallet : Wallet, origin : Origin, expiresAt : Nat]
SessionRecord ==
    [wallet : Wallet, challenge : Nat, createdAt : Nat, expiresAt : Nat]

RequestState ==
    [pc : {"idle", "routed", "done"}, session : Nat \cup {None},
     wallet : Wallet \cup {None}, fresh : BOOLEAN,
     answer : {None, "unauthenticated", "reauthenticate", "accepted"}]

(* Neither map outgrows its limit, whatever expires or is revoked meanwhile. *)
TypeOK ==
    /\ clock \in Nat
    /\ issued \in Seq(ChallengeRecord)
    /\ opened \in Seq(SessionRecord)
    /\ challenges \subseteq DOMAIN issued
    /\ sessions \subseteq DOMAIN opened
    /\ Cardinality(challenges) <= MaxChallenges
    /\ Cardinality(sessions) <= MaxSessions
    /\ tried \subseteq DOMAIN issued
    /\ revoked \subseteq DOMAIN opened
    /\ req \in [Request -> RequestState]

Init ==
    /\ clock = 0
    /\ issued = <<>>
    /\ opened = <<>>
    /\ challenges = {}
    /\ sessions = {}
    /\ tried = {}
    /\ revoked = {}
    /\ req = [r \in Request |-> [pc |-> "idle", session |-> None,
                 wallet |-> None, fresh |-> FALSE, answer |-> None]]

-----------------------------------------------------------------------------
(* The maps                                                                  *)

\* Bug: an entry is kept through the instant it expires.
Expired_LastInstant(record, t) == record.expiresAt < t

Expired(record, t) == record.expiresAt <= t

\* evictExpired at time t.
LiveChallenges(t) == {c \in challenges : ~Expired(issued[c], t)}
LiveSessions(t) == {k \in sessions : ~Expired(opened[k], t)}

Older(keys, k) == {j \in keys : j < k}
EvictCount(max) == IF max < 20 THEN 1 ELSE max \div 10

\* Bug: room is only made once the map is over its limit.
EvictOverflow_OneTooMany(keys, max) ==
    IF Cardinality(keys) <= max THEN keys
    ELSE {k \in keys : Cardinality(Older(keys, k)) >= EvictCount(max)}

\* Bug: room is made at the wrong end.
EvictOverflow_Newest(keys, max) ==
    IF Cardinality(keys) < max THEN keys
    ELSE {k \in keys : Cardinality(Older(keys, k))
                         < Cardinality(keys) - EvictCount(max)}

\* evictOverflow: a full map gives up the oldest tenth of its size.
EvictOverflow(keys, max) ==
    IF Cardinality(keys) < max THEN keys
    ELSE {k \in keys : Cardinality(Older(keys, k)) >= EvictCount(max)}

-----------------------------------------------------------------------------
(* The routes                                                                *)

\* POST /api/auth/challenge
CreateChallenge(w, o) ==
    /\ Len(issued) < MaxIssued
    /\ issued' = Append(issued, [wallet |-> w, origin |-> o,
                                 expiresAt |-> clock + ChallengeTtl])
    /\ challenges' = EvictOverflow(LiveChallenges(clock), MaxChallenges)
                        \cup {Len(issued) + 1}
    /\ sessions' = LiveSessions(clock)
    /\ UNCHANGED <<clock, opened, tried, revoked, req>>

\* createSession at time t, for a wallet that proved challenge c; `kept` is
\* what is left of the challenges.
CreateSession(w, c, kept, t) ==
    /\ Len(opened) < MaxOpened
    /\ opened' = Append(opened, [wallet |-> w, challenge |-> c,
                                 createdAt |-> t, expiresAt |-> t + SessionTtl])
    /\ challenges' = {k \in kept : ~Expired(issued[k], t)}
    /\ sessions' = EvictOverflow(LiveSessions(t), MaxSessions)
                      \cup {Len(opened) + 1}

\* Bug: the challenge is only deleted when the sign-in succeeds.
VerifySigned_KeepsOnFailure(c, w, o, genuine, later) ==
    LET live == LiveChallenges(clock)
        record == issued[c]
        proven == genuine /\ record.wallet = w /\ record.origin = o
    IN
    /\ c \in live
    /\ tried' = tried \cup {c}
    /\ \/ /\ proven
          /\ CreateSession(w, c, live \ {c}, later)
       \/ /\ ~proven
          /\ challenges' = live
          /\ sessions' = LiveSessions(clock)
          /\ UNCHANGED opened
    /\ clock' = later
    /\ UNCHANGED <<issued, revoked, req>>

\* POST /api/auth/verify: verifySignedChallenge. The challenge is deleted
\* before anything is checked; genuine says whether message and signature are
\* the wallet's. Signature checking takes time: createSession runs `later`.
VerifySigned(c, w, o, genuine, later) ==
    LET live == LiveChallenges(clock)
        record == issued[c]
        proven == genuine /\ record.wallet = w /\ record.origin = o
    IN
    /\ c \in live
    /\ tried' = tried \cup {c}
    /\ \/ /\ proven
          /\ CreateSession(w, c, live \ {c}, later)
       \/ /\ ~proven
          /\ challenges' = live \ {c}
          /\ sessions' = LiveSessions(clock)
          /\ UNCHANGED opened
    /\ clock' = later
    /\ UNCHANGED <<issued, revoked, req>>

\* The same call with a challenge that is unknown, tried or expired.
VerifyUnknown(c) ==
    /\ c \notin LiveChallenges(clock)
    /\ challenges' = LiveChallenges(clock)
    /\ sessions' = LiveSessions(clock)
    /\ UNCHANGED <<clock, histories, req>>

\* POST /api/auth/logout
Logout(k) ==
    /\ sessions' = sessions \ {k}
    /\ revoked' = revoked \cup {k}
    /\ UNCHANGED <<clock, challenges, issued, opened, tried, req>>

\* Bug: the session of a token is looked up without evicting first.
HasSession_NoEviction(k, t) == k \in sessions

\* getSession at time t finds the session k of a token.
HasSession(k, t) == k \in LiveSessions(t)

\* onRequest: getSession and, if there is one, isFreshSession, which reads the
\* clock and the map again; a call without a session is refused.
OnRequest(r, k, later) ==
    LET found == HasSession(k, clock) IN
    /\ req[r].pc = "idle"
    /\ ~found => later = clock
    /\ clock' = later
    /\ challenges' = LiveChallenges(later)
    /\ sessions' = LiveSessions(later)
    /\ req' = [req EXCEPT ![r] =
                 IF ~found
                 THEN [@ EXCEPT !.pc = "done", !.answer = "unauthenticated"]
                 ELSE [@ EXCEPT !.pc = "routed", !.session = k,
                          !.wallet = opened[k].wallet,
                          !.fresh = /\ HasSession(k, later)
                                    /\ later - opened[k].createdAt <= FreshWindow]]
    /\ UNCHANGED histories

\* The handler behind the hook, once the body has arrived: the fresh-wallet
\* check of issue-credential trusts what the hook found.
RequireFreshWalletAuth(r) ==
    /\ req[r].pc = "routed"
    /\ req' = [req EXCEPT ![r].pc = "done",
                 ![r].answer = IF req[r].fresh THEN "accepted"
                               ELSE "reauthenticate"]
    /\ UNCHANGED <<clock, maps, histories>>

Tick ==
    /\ clock < MaxClock
    /\ clock' = clock + 1
    /\ UNCHANGED <<maps, histories, req>>

Soon == {t \in {clock, clock + 1} : t <= MaxClock}

Next ==
    \/ Tick
    \/ \E w \in Wallet, o \in Origin : CreateChallenge(w, o)
    \/ \E c \in DOMAIN issued, w \in Wallet, o \in Origin,
          genuine \in BOOLEAN, later \in Soon : VerifySigned(c, w, o, genuine, later)
    \/ \E c \in DOMAIN issued : VerifyUnknown(c)
    \/ \E k \in DOMAIN opened : Logout(k)
    \/ \E r \in Request, k \in DOMAIN opened, later \in Soon : OnRequest(r, k, later)
    \/ \E r \in Request : RequireFreshWalletAuth(r)

Spec == Init /\ [][Next]_vars

-----------------------------------------------------------------------------
(* Correctness                                                               *)

(* A challenge that is in time and was never tried is only ever missing      *)
(* because so many newer ones were issued that it was in the oldest tenth of *)
(* a full map; the same for a session that is in time and not logged out.    *)
EvictedOnlyByNewer ==
    /\ \A c \in DOMAIN issued :
          \/ c \in tried \cup challenges
          \/ Expired(issued[c], clock)
          \/ Len(issued) - c > MaxChallenges - EvictCount(MaxChallenges)
    /\ \A k \in DOMAIN opened :
          \/ k \in revoked \cup sessions
          \/ Expired(opened[k], clock)
          \/ Len(opened) - k > MaxSessions - EvictCount(MaxSessions)

(* A sign-in challenge is good for one attempt: it opens one session at most,*)
(* none once an attempt failed, and only for the wallet it was issued to.    *)
OneAttemptPerChallenge ==
    [][\A k \in DOMAIN opened' \ DOMAIN opened :
          /\ opened'[k].challenge \notin tried
          /\ opened'[k].wallet = issued[opened'[k].challenge].wallet]_vars

(* A call is only routed with a session that is in time and not logged out,  *)
(* and only taken for fresh within FRESH_AUTH_WINDOW_MS of the sign-in.      *)
RoutedWhileLive ==
    [][\A r \in Request :
          req[r].pc = "idle" /\ req'[r].pc = "routed" =>
              LET k == req'[r].session IN
              /\ clock < opened[k].expiresAt
              /\ k \notin revoked
              /\ req'[r].fresh => clock' - opened[k].createdAt <= FreshWindow]_vars
=============================================================================
