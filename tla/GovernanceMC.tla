---------------------------- MODULE GovernanceMC ----------------------------
(* Instances of Governance for TLC. *)
EXTENDS Governance, TLC

CONSTANTS c1, c2, h1, h2, a1, a2, t1, t2, ann, bob, on, s1, s2

High == [c \in Changesets |-> "HIGH"]
Low == [c \in Changesets |-> "LOW"]
AskedByAnn == [c \in Changesets |-> ann]
AllToS2 == [c \in Changesets |-> s2]
Interchangeable ==
  Permutations(Handlers) \cup Permutations(Tickets) \cup Permutations(Approvals)
=============================================================================
