---------------------------- MODULE MCLoginLimit ----------------------------
(* Instances of LoginLimit for TLC.                                        *)
EXTENDS LoginLimit, TLC

\* Addresses and goroutines are interchangeable.
Symmetry == Permutations(IPs) \cup Permutations(Logins)
=============================================================================
