---------------------------- MODULE CheckedGrant ----------------------------
(***************************************************************************)
(* What operation jobs promise about approvals.  It is stricter than       *)
(* OneTimeGrant: there is no claim before a use.  At the moment a job      *)
(* starts, none of its approvals is revoked and none was used before.      *)
(***************************************************************************)
EXTENDS Sequences

CONSTANT Approvals

VARIABLES
  given, revoked,  \* approvals
  uses             \* the approvals each start has used, in order

checkedVars == <<given, revoked, uses>>

Used == UNION {uses[i] : i \in DOMAIN uses}

CheckedInit == given = {} /\ revoked = {} /\ uses = <<>>

Give ==
  /\ \E a \in Approvals \ given : given' = given \cup {a}
  /\ UNCHANGED <<revoked, uses>>

Revoke ==
  /\ \E withdrawn \in SUBSET (given \ Used) : revoked' = revoked \cup withdrawn
  /\ UNCHANGED <<given, uses>>

Use ==
  /\ \E grants \in SUBSET (given \ (revoked \cup Used)) : uses' = Append(uses, grants)
  /\ UNCHANGED <<given, revoked>>

CheckedNext == Give \/ Revoke \/ Use

CheckedSpec == CheckedInit /\ [][CheckedNext]_checkedVars
=============================================================================
