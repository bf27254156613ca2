---------------------------- MODULE ChangeSetsMC ----------------------------
(* Instances of ChangeSets for TLC. *)
EXTENDS ChangeSetsClaims, TLC

CONSTANTS c1, c2, h1, h2, h3, a1, a2, a3, t1, t2, ann, bob, eve, on, off, s1

OnePlan == {c1}
High == [c \in Changesets |-> "HIGH"]
CriticalThenHigh == [c \in Changesets |-> IF c = c1 THEN "CRITICAL" ELSE "HIGH"]
AskedByAnn == [c \in Changesets |-> ann]

\* Handlers, tickets and approval identifiers are interchangeable; people are
\* not, since one of them is the author of the plans.
Interchangeable ==
  Permutations(Handlers) \cup Permutations(Tickets) \cup Permutations(Approvals)
\* Where bob and eve are both people, neither of them author, so are they.
InterchangeableApprovers == Interchangeable \cup Permutations({bob, eve})
\* The second plan is written as a rollback of the first and goes no further.
SecondIsDraft ==
  /\ state[c2] = "PLANNED" /\ c2 \notin overdue
  /\ \A h \in Handlers :
       req[h].cs = c2 => req[h].op = "create" /\ req[h].source # None
=============================================================================
