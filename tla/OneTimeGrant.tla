---------------------------- MODULE OneTimeGrant ----------------------------
(***************************************************************************)
(* What the ChangeSet service promises about approvals, with no requests,  *)
(* rows or event loop in sight.  An approval is given once.  It can be     *)
(* revoked until a dispatch has used it.  A dispatch first claims the      *)
(* approvals it will rest on, and it can claim only approvals that are     *)
(* neither revoked nor used; a revocation that comes after the claim does  *)
(* not stop that dispatch, but it stops every later one.                   *)
(***************************************************************************)
CONSTANTS Approvals, Tickets

VARIABLES
  given, revoked,  \* approvals
  claims,          \* the claim being held, at most one
  issued, backs    \* dispatches, and the approvals each rests on

grantVars == <<given, revoked, claims, issued, backs>>

Used == UNION {backs[t] : t \in issued}

GrantInit ==
  /\ given = {} /\ revoked = {} /\ issued = {}
  /\ claims = {}
  /\ backs = [t \in Tickets |-> {}]

Give ==
  /\ \E a \in Approvals \ given : given' = given \cup {a}
  /\ UNCHANGED <<revoked, claims, issued, backs>>

Revoke ==
  /\ \E withdrawn \in SUBSET (given \ Used) : revoked' = revoked \cup withdrawn
  /\ UNCHANGED <<given, claims, issued, backs>>

Claim ==
  /\ claims = {}
  /\ \E grants \in SUBSET (given \ (revoked \cup Used)) : claims' = {grants}
  /\ UNCHANGED <<given, revoked, issued, backs>>

\* The process that claimed them died before it dispatched.
Abandon ==
  /\ claims' = {}
  /\ UNCHANGED <<given, revoked, issued, backs>>

Issue ==
  /\ \E t \in Tickets \ issued, grants \in claims :
       issued' = issued \cup {t} /\ backs' = [backs EXCEPT ![t] = grants]
  /\ claims' = {}
  /\ UNCHANGED <<given, revoked>>

GrantNext == Give \/ Revoke \/ Claim \/ Abandon \/ Issue

GrantSpec == GrantInit /\ [][GrantNext]_grantVars
=============================================================================
