----------------------------- MODULE MCGateway -----------------------------
(* Instances of the gateway.  Keys a1 and a2 are addresses, c1 is          *)
(* configured, u1 is unknown to both routers.                              *)
EXTENDS Gateway, TLC
CONSTANTS m1, m2, w1, a1, a2, c1, u1

TwoSites == m1 :> {a1, a2} @@ m2 :> {u1}
MixedSites == m1 :> {a1, c1}
PostedToOne == w1 :> a1
PostedToNone == [w \in {} |-> a1]
=============================================================================
