---------------------------- MODULE MCCredentials ----------------------------
(* Small instances of Credentials.                                          *)
EXTENDS Credentials, TLC

CONSTANTS s1, k1, k2, c1, c2, c3, l1, l2, n1, n2

MCSiteOf == [k \in {k1, k2} |-> s1]

\* Two calls on one client and one on a client of its own.
MCClientOf == c1 :> k1 @@ c2 :> k1 @@ c3 :> k2

MCSymmetry == Permutations({c1, c2})
=============================================================================
