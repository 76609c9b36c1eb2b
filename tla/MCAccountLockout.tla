-------------------------- MODULE MCAccountLockout --------------------------
(* Small instances of AccountLockout for TLC. *)
EXTENDS AccountLockout, TLC

CONSTANTS a1, a2, a3

\* The four durations in their order, in as few ticks as tell them apart.
ShortLockouts == <<1, 2, 3, 4>>
=============================================================================
