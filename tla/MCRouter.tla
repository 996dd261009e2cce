------------------------------- MODULE MCRouter -------------------------------
(* CspRouter on small instances. *)
EXTENDS CspRouter, TLC

CONSTANTS k1, k2, k3

MCKeys == {k1, k2, k3}
MCEphemeral == {k3}
Symmetry == Permutations({k1, k2})
=============================================================================
