--------------------------- MODULE MCUserSessions ---------------------------
(***************************************************************************)
(* Small instances of UserSessions for TLC, and a bound on the requests    *)
(* that arrive: any number of logins and nothing else, or a few logins     *)
(* among requests of every kind.                                           *)
(***************************************************************************)
EXTENDS UserSessions, TLC

CONSTANT MixedBound  \* bound: the logins that arrive among other requests

CrowdBound ==
    LET arrived == {r \in Requests : pc'[r] # "idle"}
    IN  arrived \subseteq Logins \/ Cardinality(arrived \cap Logins) <= MixedBound

\* Requests of one kind are interchangeable, and so are devices.
Symmetry == Permutations(Devices) \cup Permutations(Logins)
              \cup Permutations(Refreshes) \cup Permutations(PasswordChanges \ Resets)
=============================================================================
