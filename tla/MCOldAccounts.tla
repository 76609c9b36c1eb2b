---------------------------- MODULE MCOldAccounts ----------------------------
(***************************************************************************)
(* Instances of OldAccounts for TLC: either the requests that race for the *)
(* user and the verification row are many, or those that race for the      *)
(* password and the sessions.                                              *)
(***************************************************************************)
EXTENDS OldAccounts

CONSTANTS AmongLinks, AmongPasswords  \* the tasks that stay away

VARIABLE crowd

Away == IF crowd = "links" THEN AmongLinks ELSE AmongPasswords

CrowdInit == Init /\ crowd \in {"links", "passwords"}
CrowdNext == Next /\ UNCHANGED crowd /\ \A t \in Away : stage'[t] = "idle"
CrowdSpec == CrowdInit /\ [][CrowdNext]_<<vars, crowd>>

=============================================================================
