-------------------------- MODULE WalletAuth_proofs --------------------------
(* Proofs about WalletAuth, for any wallets, origins, requests and limits.   *)
EXTENDS WalletAuth, FiniteSetTheorems, WellFoundedInduction, TLAPS

-----------------------------------------------------------------------------
(* Room in a map *)

\* A map gives up an entry at least when it is full.
LEMMA EvictCountPositive ==
    ASSUME NEW max \in Nat
    PROVE  EvictCount(max) \in Nat /\ EvictCount(max) >= 1
BY DEF EvictCount

\* One entry of a map is older than all others.
LEMMA OldestExists ==
    ASSUME NEW keys \in SUBSET Nat, keys # {}
    PROVE  \E k \in keys : \A j \in keys : k <= j
<1> DEFINE less == {pair \in Nat \X Nat : pair[1] < pair[2]}
<1>1. IsWellFoundedOn(less, Nat)
  BY NatLessThanWellFounded DEF OpToRel
<1>2. \A i, j \in Nat : <<i, j>> \in less <=> i < j
  OBVIOUS
<1> HIDE DEF less
<1>3. keys \subseteq Nat
  OBVIOUS
<1>4. \E k \in keys : \A j \in keys : <<j, k>> \notin less
  BY ONLY <1>1, <1>3, keys # {}, WFMin
<1>5. PICK k \in keys : \A j \in keys : <<j, k>> \notin less
  BY <1>4
<1>6. ASSUME NEW j \in keys
      PROVE  k <= j
  <2>1. j \in Nat /\ k \in Nat
    BY <1>3
  <2>2. ~(j < k)
    BY <1>2, <1>5, <2>1
  <2> QED
    BY <2>1, <2>2
<1> QED
  BY <1>6

\* evictOverflow keeps less than the limit, and gives up none of the newest
\* max - EvictCount(max) of the n keys there have ever been.
LEMMA EvictOverflowKeeps ==
    ASSUME NEW n \in Nat, NEW max \in Nat \ {0}, NEW keys \in SUBSET (1 .. n),
           Cardinality(keys) <= max
    PROVE  LET kept == EvictOverflow(keys, max) IN
           /\ kept \subseteq keys
           /\ IsFiniteSet(kept)
           /\ Cardinality(kept) < max
           /\ \A k \in keys \ kept : n - k >= max - EvictCount(max)
<1> DEFINE kept == EvictOverflow(keys, max)
<1>0. /\ keys \subseteq 1 .. n
      /\ \A k \in keys : k \in Nat /\ 1 <= k /\ k <= n
  OBVIOUS
<1>1. /\ kept \subseteq keys
      /\ IsFiniteSet(keys) /\ Cardinality(keys) \in Nat
      /\ EvictCount(max) \in Nat /\ EvictCount(max) >= 1
  <2>1. IsFiniteSet(keys)
    <3>1. IsFiniteSet(1 .. n)
      BY FS_Interval
    <3> QED
      BY <1>0, <3>1, FS_Subset
  <2> QED
    BY <2>1, FS_CardinalityType, EvictCountPositive DEF EvictOverflow
<1>2. CASE Cardinality(keys) < max
  BY <1>1, <1>2 DEF EvictOverflow
<1>3. CASE ~(Cardinality(keys) < max)
  <2>1. /\ Cardinality(keys) = max /\ keys # {}
        /\ kept = {k \in keys : Cardinality(Older(keys, k)) >= EvictCount(max)}
    <3>1. Cardinality(keys) = max
      BY <1>1, <1>3
    <3>2. keys # {}
      BY <3>1, FS_EmptySet
    <3> QED
      BY <1>3, <3>1, <3>2 DEF EvictOverflow
  <2> HIDE DEF kept
  <2>2. PICK k \in keys : \A j \in keys : k <= j
    <3>1. keys \in SUBSET Nat
      BY <1>0
    <3> QED
      BY <2>1, <3>1, OldestExists
  <2>3. k \notin kept
    <3>1. Older(keys, k) = {}
      <4>1. \A j \in keys : j \in Nat /\ k \in Nat /\ ~(j < k)
        BY <1>0, <2>2
      <4> QED
        BY <4>1 DEF Older
    <3>2. Cardinality(Older(keys, k)) = 0
      BY <3>1, FS_EmptySet
    <3> QED
      BY <1>1, <2>1, <3>2
  <2>4. IsFiniteSet(keys \ {k}) /\ Cardinality(keys \ {k}) = Cardinality(keys) - 1
    BY <1>1, FS_RemoveElement
  <2>5. IsFiniteSet(kept) /\ Cardinality(kept) <= Cardinality(keys \ {k})
    BY <1>1, <2>3, <2>4, FS_Subset
  <2>6. Cardinality(kept) \in Nat
    BY <2>5, FS_CardinalityType
  <2>7. ASSUME NEW q \in keys \ kept
        PROVE  n - q >= max - EvictCount(max)
    <3> DEFINE older == Older(keys, q)
               newer == {j \in keys : j > q}
    <3>1. /\ IsFiniteSet(older) /\ Cardinality(older) \in Nat
          /\ Cardinality(older) < EvictCount(max)
      BY <1>1, <2>1, FS_Subset, FS_CardinalityType DEF Older
    <3>2. /\ IsFiniteSet(newer) /\ Cardinality(newer) \in Nat
          /\ Cardinality(newer) <= n - q
      <4>1. newer \subseteq (q + 1) .. n
        <5>1. ASSUME NEW j \in newer PROVE j \in (q + 1) .. n
          <6>1. j \in Nat /\ q \in Nat /\ j > q /\ j <= n
            BY <1>0
          <6> QED
            BY <6>1
        <5> QED
          BY <5>1
      <4>2. /\ IsFiniteSet((q + 1) .. n)
            /\ Cardinality((q + 1) .. n) = IF q + 1 > n THEN 0 ELSE n - (q + 1) + 1
        BY <1>0, FS_Interval
      <4>3. Cardinality((q + 1) .. n) <= n - q
        BY <1>0, <4>2
      <4>4. /\ IsFiniteSet(newer)
            /\ Cardinality(newer) <= Cardinality((q + 1) .. n)
        BY <4>1, <4>2, FS_Subset
      <4>5. Cardinality(newer) \in Nat /\ Cardinality((q + 1) .. n) \in Nat
        BY <4>2, <4>4, FS_CardinalityType
      <4> HIDE DEF newer
      <4> QED
        BY <1>0, <4>3, <4>4, <4>5
    <3>3. keys = (older \cup {q}) \cup newer
      <4>1. \A j \in keys : j < q \/ j = q \/ j > q
        BY <1>0
      <4> QED
        BY <4>1 DEF Older
    <3> HIDE DEF older, newer
    <3>4. /\ IsFiniteSet(older \cup {q})
          /\ Cardinality(older \cup {q}) <= Cardinality(older) + 1
      BY <3>1, FS_AddElement
    <3>5. Cardinality(keys) <= Cardinality(older \cup {q}) + Cardinality(newer)
      <4>1. Cardinality((older \cup {q}) \cup newer)
              = Cardinality(older \cup {q}) + Cardinality(newer)
                  - Cardinality((older \cup {q}) \cap newer)
        BY <3>2, <3>4, FS_Union
      <4>2. IsFiniteSet((older \cup {q}) \cap newer)
        BY <3>4, FS_Intersection, <3>2
      <4>3. Cardinality((older \cup {q}) \cap newer) \in Nat
        BY <4>2, FS_CardinalityType
      <4>4. Cardinality(older \cup {q}) \in Nat
        BY <3>4, FS_CardinalityType
      <4> QED
        BY <3>2, <3>3, <4>1, <4>3, <4>4
    <3>6. Cardinality(older \cup {q}) \in Nat
      BY <3>4, FS_CardinalityType
    <3> QED
      BY <1>1, <2>1, <3>1, <3>2, <3>4, <3>5, <3>6
  <2> QED
    BY <1>1, <2>1, <2>4, <2>5, <2>6, <2>7 DEF kept
<1> QED
  BY <1>2, <1>3

\* So the next key finds room.
LEMMA NextKeyFits ==
    ASSUME NEW n \in Nat, NEW max \in Nat \ {0}, NEW keys \in SUBSET (1 .. n),
           Cardinality(keys) <= max
    PROVE  Cardinality(EvictOverflow(keys, max) \cup {n + 1}) <= max
<1> DEFINE kept == EvictOverflow(keys, max)
<1>1. IsFiniteSet(kept) /\ Cardinality(kept) < max
  BY EvictOverflowKeeps
<1> HIDE DEF kept
<1>2. Cardinality(kept \cup {n + 1}) <= Cardinality(kept) + 1
      /\ IsFiniteSet(kept \cup {n + 1})
  <2>1. Cardinality(kept) \in Nat
    BY <1>1, FS_CardinalityType
  <2> QED
    BY <1>1, <2>1, FS_AddElement
<1>3. Cardinality(kept) \in Nat /\ Cardinality(kept \cup {n + 1}) \in Nat
  BY <1>1, <1>2, FS_CardinalityType
<1> QED
  BY <1>1, <1>2, <1>3 DEF kept

-----------------------------------------------------------------------------
(* One map *)

\* A map holds, of the records ever made, within its limit and without those
\* that are gone, all that are in time but for the oldest of a full map.
Map(records, keys, gone, t, max) ==
    /\ keys \subseteq DOMAIN records /\ gone \subseteq DOMAIN records
    /\ keys \cap gone = {}
    /\ Cardinality(keys) <= max
    /\ \A k \in DOMAIN records :
          \/ k \in gone \cup keys
          \/ Expired(records[k], t)
          \/ Len(records) - k > max - EvictCount(max)

\* evictExpired
Live(records, keys, t) == {k \in keys : ~Expired(records[k], t)}

\* Keys of a map are finitely many.
LEMMA FewerFit ==
    ASSUME NEW n \in Nat, NEW max \in Nat, NEW keys \in SUBSET (1 .. n),
           NEW some \in SUBSET keys, Cardinality(keys) <= max
    PROVE  Cardinality(some) <= max
<1>1. IsFiniteSet(1 .. n)
  BY FS_Interval
<1>2. IsFiniteSet(keys)
  BY <1>1, FS_Subset
<1>3. IsFiniteSet(some) /\ Cardinality(some) <= Cardinality(keys)
  BY <1>2, FS_Subset
<1>4. Cardinality(some) \in Nat /\ Cardinality(keys) \in Nat
  BY <1>2, <1>3, FS_CardinalityType
<1> QED
  BY <1>3, <1>4

\* Time passes, with or without eviction of what has expired.
LEMMA MapLater ==
    ASSUME NEW R, NEW records \in Seq(R), \A k \in DOMAIN records : records[k].expiresAt \in Nat,
           NEW keys, NEW gone, NEW t \in Nat, NEW t2 \in Nat, t <= t2, NEW max \in Nat,
           Map(records, keys, gone, t, max)
    PROVE  /\ Map(records, keys, gone, t2, max)
           /\ Map(records, Live(records, keys, t2), gone, t2, max)
<1>1. \A k \in DOMAIN records : Expired(records[k], t) => Expired(records[k], t2)
  BY DEF Expired
<1>2. Map(records, keys, gone, t2, max)
  BY <1>1 DEF Map
<1>3. DOMAIN records = 1 .. Len(records) /\ Len(records) \in Nat
  OBVIOUS
<1>4. Cardinality(Live(records, keys, t2)) <= max
  BY <1>2, <1>3, FewerFit DEF Map, Live
<1> QED
  BY <1>2, <1>4 DEF Map, Live

\* An entry is deleted.
LEMMA MapDrops ==
    ASSUME NEW R, NEW records \in Seq(R), NEW keys, NEW gone, NEW t, NEW max \in Nat,
           NEW k \in DOMAIN records, Map(records, keys, gone, t, max)
    PROVE  Map(records, keys \ {k}, gone \cup {k}, t, max)
<1>1. DOMAIN records = 1 .. Len(records) /\ Len(records) \in Nat
  OBVIOUS
<1>2. Cardinality(keys \ {k}) <= max
  BY <1>1, FewerFit DEF Map
<1> QED
  BY <1>2 DEF Map

\* A record is added, and room is made for it.
LEMMA MapAdds ==
    ASSUME NEW R, NEW records \in Seq(R), NEW keys, NEW gone, NEW t, NEW max \in Nat \ {0},
           NEW r \in R, Map(records, keys, gone, t, max)
    PROVE  Map(Append(records, r), EvictOverflow(keys, max) \cup {Len(records) + 1},
               gone, t, max)
<1> DEFINE n == Len(records)
           more == Append(records, r)
           kept == EvictOverflow(keys, max)
<1>1. /\ n \in Nat /\ DOMAIN records = 1 .. n
      /\ Len(more) = n + 1 /\ DOMAIN more = 1 .. n + 1
      /\ \A k \in 1 .. n : more[k] = records[k]
  OBVIOUS
<1>2. keys \in SUBSET (1 .. n) /\ gone \subseteq 1 .. n /\ Cardinality(keys) <= max
  BY <1>1 DEF Map
<1> HIDE DEF n
<1>3. /\ kept \subseteq keys
      /\ \A k \in keys \ kept : n - k >= max - EvictCount(max)
  BY <1>1, <1>2, EvictOverflowKeeps
<1>4. Cardinality(kept \cup {n + 1}) <= max
  BY <1>1, <1>2, NextKeyFits
<1>5. EvictCount(max) \in Nat
  BY EvictCountPositive
<1> HIDE DEF kept, more
<1>6. ASSUME NEW k \in 1 .. n + 1
      PROVE  \/ k \in gone \cup (kept \cup {n + 1})
             \/ Expired(more[k], t)
             \/ Len(more) - k > max - EvictCount(max)
  <2>1. CASE k = n + 1
    BY <2>1
  <2>2. CASE k # n + 1
    <3>1. k \in 1 .. n /\ k \in Nat
      BY <1>1, <2>2
    <3>2. CASE k \in keys \ kept
      <4>1. n - k >= max - EvictCount(max)
        BY <1>3, <3>2
      <4> QED
        BY <1>1, <1>5, <3>1, <4>1
    <3>3. CASE k \in gone \cup kept
      BY <3>3
    <3>4. CASE Expired(records[k], t)
      BY <1>1, <3>1, <3>4
    <3>5. CASE n - k > max - EvictCount(max)
      BY <1>1, <1>5, <3>1, <3>5
    <3> QED
      BY <1>1, <3>1, <3>2, <3>3, <3>4, <3>5 DEF Map, n
  <2> QED
    BY <2>1, <2>2
<1>7. /\ kept \cup {n + 1} \subseteq 1 .. n + 1
      /\ gone \subseteq 1 .. n + 1
      /\ (kept \cup {n + 1}) \cap gone = {}
  <2>1. 1 .. n \subseteq 1 .. n + 1 /\ n + 1 \in 1 .. n + 1 /\ n + 1 \notin 1 .. n
    BY <1>1
  <2> QED
    BY <1>2, <1>3, <2>1 DEF Map
<1>8. Map(more, kept \cup {n + 1}, gone, t, max)
  BY <1>1, <1>4, <1>6, <1>7 DEF Map
<1> QED
  BY <1>8 DEF n, more, kept

-----------------------------------------------------------------------------
(* The invariant *)

Inv ==
    /\ clock \in Nat
    /\ issued \in Seq(ChallengeRecord)
    /\ opened \in Seq(SessionRecord)
    /\ req \in [Request -> RequestState]
    /\ Map(issued, challenges, tried, clock, MaxChallenges)
    /\ Map(opened, sessions, revoked, clock, MaxSessions)

\* The limits are numbers, and the records dated.
LEMMA Numbers ==
    ASSUME Inv
    PROVE  /\ MaxChallenges \in Nat \ {0} /\ MaxSessions \in Nat \ {0}
           /\ ChallengeTtl \in Nat /\ SessionTtl \in Nat
           /\ \A c \in DOMAIN issued : issued[c].expiresAt \in Nat
           /\ \A k \in DOMAIN opened : /\ opened[k].expiresAt \in Nat
                                       /\ opened[k].wallet \in Wallet
<1>1. /\ MaxChallenges \in Nat \ {0} /\ MaxSessions \in Nat \ {0}
      /\ ChallengeTtl \in Nat /\ SessionTtl \in Nat
  BY AuthBounds DEF AuthBounds
<1>2. /\ \A c \in DOMAIN issued : issued[c] \in ChallengeRecord
      /\ \A k \in DOMAIN opened : opened[k] \in SessionRecord
  BY DEF Inv
<1> QED
  BY <1>1, <1>2 DEF ChallengeRecord, SessionRecord

\* What evictExpired leaves of the maps at t.
LEMMA LiveMaps ==
    ASSUME Inv, NEW t \in Nat, clock <= t
    PROVE  /\ Map(issued, LiveChallenges(t), tried, t, MaxChallenges)
           /\ Map(opened, LiveSessions(t), revoked, t, MaxSessions)
           /\ LiveChallenges(t) \subseteq challenges
           /\ LiveSessions(t) \subseteq sessions
<1>1. Map(issued, Live(issued, challenges, t), tried, t, MaxChallenges)
  BY Numbers, MapLater DEF Inv
<1>2. Map(opened, Live(opened, sessions, t), revoked, t, MaxSessions)
  BY Numbers, MapLater DEF Inv
<1> QED
  BY <1>1, <1>2 DEF Live, LiveChallenges, LiveSessions

\* Empty maps.
LEMMA InitInv == Init => Inv
<1> SUFFICES ASSUME Init PROVE Inv
  OBVIOUS
<1>1. Cardinality({}) = 0
  BY FS_EmptySet
<1>2. /\ issued = <<>> /\ opened = <<>> /\ challenges = {} /\ sessions = {}
      /\ tried = {} /\ revoked = {} /\ clock = 0
      /\ req = [r \in Request |-> [pc |-> "idle", session |-> None,
                  wallet |-> None, fresh |-> FALSE, answer |-> None]]
  BY DEF Init
<1>3. MaxChallenges >= 0 /\ MaxSessions >= 0
  BY AuthBounds DEF AuthBounds
<1>4. req \in [Request -> RequestState]
  BY <1>2 DEF RequestState
<1>5. /\ Map(issued, challenges, tried, clock, MaxChallenges)
      /\ Map(opened, sessions, revoked, clock, MaxSessions)
  BY <1>1, <1>2, <1>3 DEF Map
<1>6. issued \in Seq(ChallengeRecord) /\ opened \in Seq(SessionRecord)
  BY <1>2
<1> QED
  BY <1>2, <1>4, <1>5, <1>6 DEF Inv

\* createChallenge.
LEMMA ChallengeKeeps ==
    ASSUME Inv, NEW w \in Wallet, NEW o \in Origin, CreateChallenge(w, o)
    PROVE  Inv'
<1> DEFINE r == [wallet |-> w, origin |-> o, expiresAt |-> clock + ChallengeTtl]
<1>1. r \in ChallengeRecord
  BY Numbers DEF ChallengeRecord, Inv
<1>2. /\ issued' = Append(issued, r)
      /\ challenges' = EvictOverflow(LiveChallenges(clock), MaxChallenges)
                         \cup {Len(issued) + 1}
      /\ sessions' = LiveSessions(clock)
      /\ UNCHANGED <<clock, opened, tried, revoked, req>>
  BY DEF CreateChallenge
<1> HIDE DEF r
<1>3. /\ Map(issued, LiveChallenges(clock), tried, clock, MaxChallenges)
      /\ Map(opened, LiveSessions(clock), revoked, clock, MaxSessions)
  BY LiveMaps DEF Inv
<1>4. Map(issued', challenges', tried, clock, MaxChallenges)
  BY <1>1, <1>2, <1>3, Numbers, MapAdds DEF Inv
<1>5. issued' \in Seq(ChallengeRecord)
  BY <1>1, <1>2 DEF Inv
<1> QED
  BY <1>2, <1>3, <1>4, <1>5 DEF Inv

\* verifySignedChallenge, and createSession when it succeeds.
LEMMA VerifyKeeps ==
    ASSUME Inv, NEW c \in DOMAIN issued, NEW w \in Wallet, NEW o \in Origin,
           NEW genuine \in BOOLEAN, NEW later \in Soon,
           VerifySigned(c, w, o, genuine, later)
    PROVE  Inv'
<1> DEFINE live == LiveChallenges(clock)
           r == [wallet |-> w, challenge |-> c, createdAt |-> later,
                 expiresAt |-> later + SessionTtl]
<1>1. later \in Nat /\ clock \in Nat /\ clock <= later /\ c \in Nat
  BY DEF Soon, Inv
<1>2. /\ tried' = tried \cup {c} /\ clock' = later
      /\ UNCHANGED <<issued, revoked, req>>
      /\ \/ /\ challenges' = live \ {c}
            /\ sessions' = LiveSessions(clock)
            /\ UNCHANGED opened
         \/ /\ opened' = Append(opened, r)
            /\ challenges' = {k \in live \ {c} : ~Expired(issued[k], later)}
            /\ sessions' = EvictOverflow(LiveSessions(later), MaxSessions)
                             \cup {Len(opened) + 1}
  BY DEF VerifySigned, CreateSession
<1>3. r \in SessionRecord
  BY <1>1, Numbers DEF SessionRecord
<1> HIDE DEF r
<1>4. Map(issued, live \ {c}, tried \cup {c}, clock, MaxChallenges)
  BY <1>1, LiveMaps, Numbers, MapDrops DEF Inv
<1>5. /\ Map(issued, live \ {c}, tried \cup {c}, later, MaxChallenges)
      /\ Map(issued, Live(issued, live \ {c}, later), tried \cup {c}, later, MaxChallenges)
  BY <1>1, <1>4, Numbers, MapLater DEF Inv
<1>6. Map(issued', challenges', tried', clock', MaxChallenges)
  BY <1>2, <1>5 DEF Live
<1>7. CASE sessions' = LiveSessions(clock) /\ UNCHANGED opened
  <2>1. Map(opened, LiveSessions(clock), revoked, clock, MaxSessions)
    BY <1>1, LiveMaps
  <2>2. Map(opened, LiveSessions(clock), revoked, later, MaxSessions)
    BY <1>1, <2>1, Numbers, MapLater DEF Inv
  <2> QED
    BY <1>1, <1>2, <1>6, <1>7, <2>2 DEF Inv
<1>8. CASE /\ opened' = Append(opened, r)
           /\ sessions' = EvictOverflow(LiveSessions(later), MaxSessions)
                            \cup {Len(opened) + 1}
  <2>1. Map(opened, LiveSessions(later), revoked, later, MaxSessions)
    BY <1>1, LiveMaps
  <2>2. Map(opened', sessions', revoked, later, MaxSessions)
    BY <1>3, <1>8, <2>1, Numbers, MapAdds DEF Inv
  <2>3. opened' \in Seq(SessionRecord)
    BY <1>3, <1>8 DEF Inv
  <2> QED
    BY <1>1, <1>2, <1>6, <2>2, <2>3 DEF Inv
<1> QED
  BY <1>2, <1>7, <1>8

\* The onRequest hook.
LEMMA RequestKeeps ==
    ASSUME Inv, NEW q \in Request, NEW k \in DOMAIN opened, NEW later \in Soon,
           OnRequest(q, k, later)
    PROVE  Inv'
<1>1. later \in Nat /\ clock <= later /\ k \in Nat
  BY DEF Soon, Inv
<1>2. /\ clock' = later
      /\ challenges' = LiveChallenges(later)
      /\ sessions' = LiveSessions(later)
      /\ UNCHANGED <<issued, opened, tried, revoked>>
  BY DEF OnRequest, histories
<1>3. /\ Map(issued, LiveChallenges(later), tried, later, MaxChallenges)
      /\ Map(opened, LiveSessions(later), revoked, later, MaxSessions)
  BY <1>1, LiveMaps
<1>4. req' \in [Request -> RequestState]
  <2> DEFINE fresh == HasSession(k, later) /\ later - opened[k].createdAt <= FreshWindow
  <2>1. fresh \in BOOLEAN
    OBVIOUS
  <2>2. opened[k].wallet \in Wallet
    BY Numbers
  <2>3. req' = [req EXCEPT ![q] =
                 IF ~HasSession(k, clock)
                 THEN [@ EXCEPT !.pc = "done", !.answer = "unauthenticated"]
                 ELSE [@ EXCEPT !.pc = "routed", !.session = k,
                          !.wallet = opened[k].wallet, !.fresh = fresh]]
    BY DEF OnRequest
  <2> HIDE DEF fresh
  <2>4. req \in [Request -> RequestState]
    BY DEF Inv
  <2> QED
    BY <1>1, <2>1, <2>2, <2>3, <2>4 DEF RequestState
<1> QED
  BY <1>1, <1>2, <1>3, <1>4 DEF Inv

\* One call after the other.
LEMMA NextInv == Inv /\ [Next]_vars => Inv'
<1> SUFFICES ASSUME Inv, [Next]_vars PROVE Inv'
  OBVIOUS
<1>1. CASE Tick
  <2>1. /\ clock' = clock + 1 /\ clock' \in Nat /\ clock <= clock' /\ clock \in Nat
        /\ UNCHANGED <<issued, opened, challenges, sessions, tried, revoked, req>>
    BY <1>1 DEF Tick, maps, histories, Inv
  <2>2. /\ Map(issued, challenges, tried, clock', MaxChallenges)
        /\ Map(opened, sessions, revoked, clock', MaxSessions)
    BY <2>1, Numbers, MapLater DEF Inv
  <2> QED
    BY <2>1, <2>2 DEF Inv
<1>2. CASE \E c \in DOMAIN issued : VerifyUnknown(c)
  <2>1. /\ challenges' = LiveChallenges(clock)
        /\ sessions' = LiveSessions(clock)
        /\ UNCHANGED <<clock, issued, opened, tried, revoked, req>>
    BY <1>2 DEF VerifyUnknown, histories
  <2> QED
    BY <2>1, LiveMaps DEF Inv
<1>3. ASSUME NEW k \in DOMAIN opened, Logout(k) PROVE Inv'
  <2>1. /\ sessions' = sessions \ {k} /\ revoked' = revoked \cup {k}
        /\ UNCHANGED <<clock, challenges, issued, opened, tried, req>>
    BY <1>3 DEF Logout
  <2>2. Map(opened, sessions \ {k}, revoked \cup {k}, clock, MaxSessions)
    BY Numbers, MapDrops DEF Inv
  <2> QED
    BY <2>1, <2>2 DEF Inv
<1>4. ASSUME NEW q \in Request, RequireFreshWalletAuth(q) PROVE Inv'
  <2>1. UNCHANGED <<clock, issued, opened, challenges, sessions, tried, revoked>>
    BY <1>4 DEF RequireFreshWalletAuth, maps, histories
  <2>2. req' \in [Request -> RequestState]
    BY <1>4 DEF RequireFreshWalletAuth, Inv, RequestState
  <2> QED
    BY <2>1, <2>2 DEF Inv
<1>5. CASE UNCHANGED vars
  BY <1>5 DEF vars, maps, histories, Inv
<1> QED
  BY <1>1, <1>2, <1>3, <1>4, <1>5, ChallengeKeeps, VerifyKeeps, RequestKeeps DEF Next

-----------------------------------------------------------------------------
(* The theorems *)

\* The invariant of the maps and the requests.
THEOREM InvHolds == Spec => []Inv
<1> QED
  BY InitInv, NextInv, PTL DEF Spec

(* The maps and the handlers have their types, and neither map outgrows its  *)
(* limit.                                                                    *)
THEOREM TypeCorrect == Spec => []TypeOK
<1>1. Inv => TypeOK
  BY DEF Inv, Map, TypeOK
<1> QED
  BY <1>1, InvHolds, PTL

(* A challenge or a session that is in time, untried and not logged out, is  *)
(* only ever missing because so many newer ones were made that it was in the *)
(* oldest tenth of a full map: for any limits and any number of either.      *)
THEOREM EvictionHolds == Spec => []EvictedOnlyByNewer
<1>1. Inv => EvictedOnlyByNewer
  BY DEF Inv, Map, EvictedOnlyByNewer
<1> QED
  BY <1>1, InvHolds, PTL

\* The only step that opens a session.
LEMMA OneOpens ==
    ASSUME Inv, [Next]_vars, NEW k \in DOMAIN opened' \ DOMAIN opened
    PROVE  \E c \in DOMAIN issued, w \in Wallet, o \in Origin, genuine \in BOOLEAN,
              later \in Soon :
              /\ VerifySigned(c, w, o, genuine, later)
              /\ w = issued[c].wallet
              /\ opened'[k] = [wallet |-> w, challenge |-> c, createdAt |-> later,
                               expiresAt |-> later + SessionTtl]
<1>1. opened' # opened
  OBVIOUS
<1>2. PICK c \in DOMAIN issued, w \in Wallet, o \in Origin, genuine \in BOOLEAN,
           later \in Soon : VerifySigned(c, w, o, genuine, later)
  BY <1>1 DEF Next, Tick, CreateChallenge, VerifyUnknown, Logout, OnRequest,
              RequireFreshWalletAuth, histories, vars
<1> DEFINE r == [wallet |-> w, challenge |-> c, createdAt |-> later,
                 expiresAt |-> later + SessionTtl]
<1>3. w = issued[c].wallet /\ opened' = Append(opened, r)
  BY <1>1, <1>2 DEF VerifySigned, CreateSession
<1> HIDE DEF r
<1>4. opened \in Seq(SessionRecord)
  BY DEF Inv
<1>5. opened'[k] = r
  BY <1>3, <1>4
<1> QED
  BY <1>2, <1>3, <1>5 DEF r

(* A challenge opens one session at most, none once an attempt with it has   *)
(* failed, and only for the wallet it was issued to.                         *)
THEOREM OneAttempt == Spec => OneAttemptPerChallenge
<1>1. ASSUME Inv, [Next]_vars, NEW k \in DOMAIN opened' \ DOMAIN opened
      PROVE  /\ opened'[k].challenge \notin tried
             /\ opened'[k].wallet = issued[opened'[k].challenge].wallet
  <2>1. PICK c \in DOMAIN issued, w \in Wallet, o \in Origin, genuine \in BOOLEAN,
             later \in Soon :
              /\ VerifySigned(c, w, o, genuine, later)
              /\ w = issued[c].wallet
              /\ opened'[k] = [wallet |-> w, challenge |-> c, createdAt |-> later,
                               expiresAt |-> later + SessionTtl]
    BY <1>1, OneOpens
  <2>2. c \in LiveChallenges(clock)
    BY <2>1 DEF VerifySigned
  <2>3. c \notin tried
    BY <1>1, <2>2 DEF LiveChallenges, Inv, Map
  <2> QED
    BY <2>1, <2>3
<1>2. Inv /\ [Next]_vars =>
        [\A k \in DOMAIN opened' \ DOMAIN opened :
          /\ opened'[k].challenge \notin tried
          /\ opened'[k].wallet = issued[opened'[k].challenge].wallet]_vars
  BY <1>1
<1> QED
  BY <1>2, InvHolds, PTL DEF Spec, OneAttemptPerChallenge

(* A call is only routed with a session that is in time and not logged out,  *)
(* and only taken for fresh within FRESH_AUTH_WINDOW_MS of the sign-in.      *)
THEOREM RoutedLive == Spec => RoutedWhileLive
<1> DEFINE Routes ==
      \A r \in Request :
          req[r].pc = "idle" /\ req'[r].pc = "routed" =>
              LET k == req'[r].session IN
              /\ clock < opened[k].expiresAt
              /\ k \notin revoked
              /\ req'[r].fresh => clock' - opened[k].createdAt <= FreshWindow
<1>1. ASSUME Inv, [Next]_vars, NEW r \in Request,
             req[r].pc = "idle", req'[r].pc = "routed"
      PROVE  LET k == req'[r].session IN
             /\ clock < opened[k].expiresAt
             /\ k \notin revoked
             /\ req'[r].fresh => clock' - opened[k].createdAt <= FreshWindow
  <2>1. req \in [Request -> RequestState]
    BY <1>1 DEF Inv
  <2>2. ASSUME NEW q \in Request, RequireFreshWalletAuth(q) PROVE req'[r].pc # "routed"
    BY <1>1, <2>1, <2>2 DEF RequireFreshWalletAuth, RequestState
  <2>3. PICK q \in Request, k \in DOMAIN opened, later \in Soon : OnRequest(q, k, later)
    BY <1>1, <2>2 DEF Next, Tick, CreateChallenge, VerifySigned, VerifyUnknown, Logout, vars
  <2> DEFINE fresh == HasSession(k, later) /\ later - opened[k].createdAt <= FreshWindow
  <2>4. /\ clock' = later
        /\ req' = [req EXCEPT ![q] =
                 IF ~HasSession(k, clock)
                 THEN [@ EXCEPT !.pc = "done", !.answer = "unauthenticated"]
                 ELSE [@ EXCEPT !.pc = "routed", !.session = k,
                          !.wallet = opened[k].wallet, !.fresh = fresh]]
    BY <2>3 DEF OnRequest
  <2> HIDE DEF fresh
  <2>5. q = r /\ HasSession(k, clock) /\ req'[r].session = k /\ req'[r].fresh = fresh
    BY <1>1, <2>1, <2>4 DEF RequestState
  <2>6. /\ k \notin revoked /\ ~(opened[k].expiresAt <= clock)
        /\ opened[k].expiresAt \in Nat /\ clock \in Nat
    BY <1>1, <2>5, Numbers DEF HasSession, LiveSessions, Expired, Inv, Map
  <2>7. clock < opened[k].expiresAt
    BY <2>6
  <2>8. req'[r].fresh => fresh
    BY <2>5
  <2>9. req'[r].fresh => clock' - opened[k].createdAt <= FreshWindow
    BY <2>4, <2>8, Zenon DEF fresh
  <2> QED
    BY <2>5, <2>6, <2>7, <2>9, Zenon
<1>2. Inv /\ [Next]_vars => [Routes]_vars
  BY <1>1
<1> QED
  BY <1>2, InvHolds, PTL DEF Spec, RoutedWhileLive
=============================================================================
