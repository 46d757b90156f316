--------------------------- MODULE RegistryLedger ---------------------------
(* What the registry of attestations promises while its operators work one   *)
(* after the other: the wishes of the operators form a sequence, each state  *)
(* made of the one before, and the account moves forward along it.  It may   *)
(* skip wishes whose transaction was lost, because a later state contains    *)
(* them.  An operator may also put other roots in place.                     *)
EXTENDS Naturals, Sequences

CONSTANTS Wish,             \* what an operator may ask for
          Fulfil(_, _)      \* the state a wish makes of a state

VARIABLES log,              \* the states wished for so far: [wish, state]
          at                \* the one the account is in, 0 for none

lvars == <<log, at>>

Ask ==
    /\ \E w \in Wish :
         log' = Append(log, [wish  |-> w,
                             state |-> Fulfil(log[Len(log)].state, w)])
    /\ UNCHANGED at

Advance ==
    /\ at' \in (at + 1)..Len(log)
    /\ UNCHANGED log

Replace ==
    /\ at' = 0
    /\ UNCHANGED log

LedgerNext == Ask \/ Advance \/ Replace
=============================================================================
