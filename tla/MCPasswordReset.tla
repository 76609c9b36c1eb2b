--------------------------- MODULE MCPasswordReset ---------------------------
(***************************************************************************)
(* Instances of PasswordReset and OldPasswordReset for TLC: the reset links*)
(* of the app or those of the old tree, which never meet.                  *)
(***************************************************************************)
EXTENDS PasswordReset, Naturals, Sequences, TLC

CONSTANTS OldConfirms, SignIns, CooldownSteps, MaxPerDay, LinkLife, DayLength, Horizon

TwoSteps == <<1, 2>>

VARIABLES part,
    tick, link, linkUsed, linkEnd, count, cooldownUntil, windowEnd, stage, at, got,
    carried, password, chosen, sessions, verified, late, sent, minted,
    overlapped, clashed, spentOld

Old == INSTANCE OldPasswordReset WITH Confirms <- OldConfirms, spent <- spentOld

ASSUME OldConstantsFit == Old!ConstantsFit

oldVars == <<tick, link, linkUsed, linkEnd, count, cooldownUntil, windowEnd, stage, at,
             got, carried, password, chosen, sessions, verified, late, sent, minted,
             overlapped, clashed, spentOld>>

TreesInit == Init /\ Old!OldInit /\ part \in {"app", "old"}

TreesNext ==
    /\ UNCHANGED part
    /\ \/ part = "app" /\ Next /\ UNCHANGED oldVars
       \/ part = "old" /\ Old!OldNext /\ UNCHANGED vars

TreesSpec == TreesInit /\ [][TreesNext]_<<part, vars, oldVars>>

\* The cooldown and the daily maximum hold unless two requests overlap.
RateKept == Old!RateKept

\* A link of the old tree resets the password once but for the gap of two commits.
OldSpentOnce == Old!OldSpentOnce

\* In the old tree every variable keeps its type, a link is dead without use only by an
\* overlap, and no session outlives a password that a confirmation has changed.
OldResetSound == Old!OldTypeOK /\ Old!OldLinkGood /\ Old!SessionsFollowPassword

Symmetry == Permutations(Requests \ CrashProne) \cup Permutations(OldConfirms \ CrashProne)
=============================================================================
