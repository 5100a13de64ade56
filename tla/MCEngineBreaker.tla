-------------------------- MODULE MCEngineBreaker --------------------------
(* Instances of EngineBreaker for TLC: one router with one request, or two *)
(* routers with one each.                                                  *)
EXTENDS EngineBreaker, TLC

CONSTANTS p1, p2, q1, q2

Alone == (q1 :> p1)
Apart == (q1 :> p1 @@ q2 :> p2)

(* Tokens are interchangeable, and so are the requests with their routers. *)
Symmetric == Permutations(Tokens)
SwapRequests == (q1 :> q2 @@ q2 :> q1)
SwapRouters == (p1 :> p2 @@ p2 :> p1) @@ SwapRequests
SymmetricApart == Symmetric \cup {SwapRouters @@ t : t \in Symmetric}
=============================================================================
