------------------------- MODULE MCSessionLifecycle -------------------------
(***************************************************************************)
(* Instances of SessionLifecycle for TLC.                                  *)
(***************************************************************************)
EXTENDS SessionLifecycle, TLC

CONSTANTS n1, n2,      \* namespaces
          a0, a1, b0   \* a0 and b0 are the default clients of n1 and n2

\* One tenant with a client of its own only, or with its default only.
OneClient == a1 :> n1
OneDefault == a0 :> n1

\* Two tenants, one with a client of its own and one with its default.
TwoClients == (a1 :> n1) @@ (b0 :> n2)

\* The requests are interchangeable; so are the sessions and the keys.
ReqSymmetry == Permutations(Reqs)
IdSymmetry == Permutations(Reqs) \cup Permutations(Sessions) \cup Permutations(Keys)
=============================================================================
