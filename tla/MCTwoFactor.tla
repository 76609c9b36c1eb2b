----------------------------- MODULE MCTwoFactor -----------------------------
(***************************************************************************)
(* Instances of TwoFactor and OldTwoFactor for TLC: the second factor of   *)
(* the app or of the old tree, which never meet.  In the old tree either   *)
(* few requests sign in, or few set up.                                    *)
(***************************************************************************)
EXTENDS TwoFactor, Naturals, TLC

CONSTANTS Setups, Confirms, Regenerates, CodeCount, OldCrashProne,
    AmongSetups, AmongCodes  \* the tasks of the old tree that stay away

VARIABLES part,
    oldSecret, oldStatus, codes, used, oldPc, oldLoaded, oldCode, doomed, oldShown,
    given, oldConfirmed, oldCrossed, overtaken, rivals

Old == INSTANCE OldTwoFactor WITH
    CrashProne <- OldCrashProne, secret <- oldSecret, status <- oldStatus, pc <- oldPc,
    loaded <- oldLoaded, code <- oldCode, shown <- oldShown, confirmed <- oldConfirmed,
    crossed <- oldCrossed

ASSUME OldKindsApart == Old!KindsApart

oldVars == <<oldSecret, oldStatus, codes, used, oldPc, oldLoaded, oldCode, doomed,
             oldShown, given, oldConfirmed, oldCrossed, overtaken, rivals>>

Away == IF part = "setups" THEN AmongSetups ELSE AmongCodes

TreesInit == Init /\ Old!Init /\ part \in {"app", "setups", "codes"}

TreesNext ==
    /\ UNCHANGED part
    /\ \/ part = "app" /\ Next /\ UNCHANGED oldVars
       \/ /\ part # "app" /\ Old!Next /\ \A t \in Away : oldPc'[t] = "idle"
          /\ UNCHANGED vars

TreesSpec == TreesInit /\ [][TreesNext]_<<part, vars, oldVars>>

\* A recovery code opens two sessions only if both requests had found it in time.
CodeOnce == Old!CodeOnce

\* Two batches of recovery codes live side by side only by an overlap.
OneBatch == Old!OneBatch

\* In the old tree every variable keeps its type, 2FA is on only with a secret that a
\* confirm has confirmed, but for a setup that overlapped a confirmation, and recovery
\* codes outlive 2FA only if they were drawn while it was turned off.
OldFactorSound == Old!TypeOK /\ Old!EnabledConfirmed /\ Old!CodesNeedFactor

Symmetry == Permutations(Enables \ CrashProne)
=============================================================================
