------------------------------- MODULE MCSlit -------------------------------
(* A named slit with two plugins of the same gravity and an unnamed one.   *)
EXTENDS Slit
CONSTANTS a, b, k1, k2, k3
Home == (k1 :> a) @@ (k2 :> a) @@ (k3 :> b)
Grav == (k1 :> "lo") @@ (k2 :> "lo") @@ (k3 :> "hi")
Pri == (k1 :> 1) @@ (k2 :> 0) @@ (k3 :> 0)
MCSizes == {[w |-> 1, h |-> 2], [w |-> 2, h |-> 1]}

(* The plugins have one size to begin with.                                *)
MCInit == InitSlit /\ \A k \in Kids : size[k] = [w |-> 1, h |-> 2]
MCSpec == MCInit /\ [][NextSlit]_slit_vars /\ SlitFairness
=============================================================================
