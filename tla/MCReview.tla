----------------------------- MODULE MCReview ------------------------------
(* A disk with nothing, with just the 500 MB of the margin, with enough for  *)
(* each item, each two and all of them, and short of it by one.              *)
EXTENDS Review

Sizes == [driver |-> 300, flatpak |-> 150, other |-> 1000]
AroundTheLimits ==
  {0} \cup UNION {{WithBuffer(n) - 1, WithBuffer(n)} : n \in {0, 300, 350, 650, 1000, 1300, 1350, 1650}}
=============================================================================
