---------------------------- MODULE MCFeedFetch ----------------------------
(* An instance of FeedFetch for TLC: two feeds at two of three URLs and    *)
(* two interchangeable sessions.                                           *)
EXTENDS FeedFetch, TLC

CONSTANTS f1, f2, x, y, z, s1, s2

TwoHomes == (f1 :> x @@ f2 :> y)

Symmetric == Permutations(Sessions)
=============================================================================
