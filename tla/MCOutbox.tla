------------------------------ MODULE MCOutbox ------------------------------
(* Instances of Outbox for TLC: two payloads behind one singleton key with *)
(* one relay loop, or one payload with two.                                *)
EXTENDS Outbox, TLC

CONSTANTS k1, k2, s1, r1, r2, t1, t2, t3

OneSingleton == (k1 :> s1 @@ k2 :> s1)
OneKey == (k1 :> s1)

(* Tokens are interchangeable, and so are the payloads of one singleton. *)
Symmetric == Permutations({k1, k2}) \cup Permutations({t1, t2, t3})
=============================================================================
