------------------------------ MODULE Router_MC ------------------------------
(* Small instances of Router: one sticky key, a policy with a fallback, a *)
(* preferred provider, and a model that only one provider supports.       *)
EXTENDS Router, TLC

CONSTANTS p1, p2, k1
Ask(capable, key, target, fallback, preferred) ==
    [capable |-> capable, key |-> key, target |-> target,
     fallback |-> fallback, preferred |-> preferred]
MCKinds ==
    {Ask({p1, p2}, k1, None, <<>>, None), Ask({p1}, k1, None, <<>>, None),
     Ask({p1, p2}, None, p1, <<p2>>, None), Ask({p1, p2}, k1, None, <<>>, p2)}
MCSymmetry == Permutations(Requests)
=============================================================================
