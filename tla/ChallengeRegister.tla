------------------------- MODULE ChallengeRegister -------------------------
(* What a presentation-challenge store promises its callers, whatever keeps  *)
(* the records (PresentationChallengeStore in challenges/types.ts): a        *)
(* challenge is issued once, may lapse, and is granted to at most one of the *)
(* presentations that quote it.  The memory and the Redis verifiers are      *)
(* checked to implement this specification.                                  *)

CONSTANTS Challenge, Request

VARIABLES
    phase,      \* Challenge -> what the verifier still accepts for it
    granted     \* Challenge -> the requests whose consume() said ok

vars == <<phase, granted>>

Phase == {"fresh", "open", "spent", "lapsed"}

TypeOK ==
    /\ phase \in [Challenge -> Phase]
    /\ granted \in [Challenge -> SUBSET Request]

Init ==
    /\ phase = [c \in Challenge |-> "fresh"]
    /\ granted = [c \in Challenge |-> {}]

(* Time passes in every step: any of the open challenges may lapse in it.    *)
Lapsing(late) ==
    [c \in Challenge |->
        IF c \in late /\ phase[c] = "open" THEN "lapsed" ELSE phase[c]]

(* A challenge that reaches the store past its expiry is lapsed at once.     *)
Issue(c, late) ==
    /\ phase[c] = "fresh"
    /\ \E p \in {"open", "lapsed"} :
          phase' = [Lapsing(late) EXCEPT ![c] = p]
    /\ UNCHANGED granted

Grant(c, r, late) ==
    /\ phase[c] = "open"
    /\ phase' = [Lapsing(late) EXCEPT ![c] = "spent"]
    /\ granted' = [granted EXCEPT ![c] = @ \cup {r}]

Lapse(late) ==
    /\ phase' = Lapsing(late)
    /\ UNCHANGED granted

Next ==
    \E late \in SUBSET Challenge :
        \/ Lapse(late)
        \/ \E c \in Challenge : Issue(c, late)
        \/ \E c \in Challenge, r \in Request : Grant(c, r, late)

Spec == Init /\ [][Next]_vars

-----------------------------------------------------------------------------

(* A presentation challenge authorises one presentation and no more: of all  *)
(* the requests that quote it, at most one is told to go on to the proof.    *)
SingleUse ==
    \A c \in Challenge : \A r, s \in granted[c] : r = s
=============================================================================
