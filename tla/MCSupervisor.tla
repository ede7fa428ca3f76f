----------------------------- MODULE MCSupervisor -----------------------------
(* Instances of Supervisor for TLC.                                        *)
EXTENDS Supervisor, TLC

CONSTANTS k1, k2, a1, a2, a3, c1

OneKey == {k1}

TwoKeys == {k1, k2}

ThreeAddrs == {a1, a2, a3}

TwoAddrs == {a1, a2}

OneCaller == {c1}

AllPolicies == {"Always", "OnFailure", "Never"}

NoRestarts == {"Never"}

Symmetry == Permutations(Keys) \cup Permutations(Addrs) \cup Permutations(Callers)
===============================================================================
