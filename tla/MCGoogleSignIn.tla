---------------------------- MODULE MCGoogleSignIn ----------------------------
(* Instances of GoogleSignIn for TLC. *)
EXTENDS GoogleSignIn, TLC

Symmetry == Permutations(Emails) \cup Permutations(Accounts)
              \cup Permutations(Callbacks \ CrashProne) \cup Permutations(Exchanges)
              \cup Permutations(Starts)
=============================================================================
