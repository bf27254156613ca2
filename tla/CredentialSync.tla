--------------------------- MODULE CredentialSync ---------------------------
(***************************************************************************)
(* Credentials: the Credential Service keeps the encrypted secrets, the    *)
(* Control Plane a reference to each (name, status, version), which is all *)
(* it looks at when a plan uses the credential.  The service writes its    *)
(* row, posts the reference while its transaction is open, and commits     *)
(* only if the Control Plane accepted it.                                  *)
(*                                                                         *)
(* Both are processes with a SQLite file and threaded handlers.  The first *)
(* UPDATE or INSERT of a handler takes the file's write lock, and here the *)
(* lock is held while the call is out; the SELECT before it saw the last   *)
(* commit, without the lock.  sync and delete call first and write later.  *)
(* A call that timed out may still be served afterwards.                   *)
(*                                                                         *)
(* An operator whose comment starts with "Fault" is not part of the model: *)
(* it is the definition after it with a mistake in it.                     *)
(***************************************************************************)
EXTENDS Naturals, FiniteSets

CONSTANTS
  Credentials,  \* identifiers cred_... either side can hand out
  Local,        \* those with the local-encrypted backend
  Names,        \* credential names
  Handlers,     \* requests the service serves together
  None,         \* no row, no request, no answer
  MaxVersion,   \* bound: rotations of one credential
  MaxLate,      \* bound: calls under way together whose caller is gone
  MaxCrashes    \* bound: crashes of the service

ASSUME LocalAssumption == Local \subseteq Credentials
ASSUME NoneAssumption == None \notin Credentials \cup Handlers
ASSUME BoundsAssumption == MaxVersion \in Nat \ {0} /\ MaxLate \in Nat /\ MaxCrashes \in Nat

VARIABLES
  cred,     \* the service's committed credentials rows
  ref,      \* the Control Plane's credential_refs rows
  taken,    \* identifiers handed out: uuids, never handed out again
  req,      \* the request each handler of the service is serving
  lock,     \* the handler that holds the service's write lock
  wire,     \* calls from the service to the Control Plane, under way
  accepted, \* those of the rows on file, or being written, that it accepted
  removed,  \* credentials whose reference it has deleted at some time
  crashes

vars == <<cred, ref, taken, req, lock, wire, accepted, removed,
          crashes>>

-----------------------------------------------------------------------------
Versions == Nat \ {0}
\* sealed: the ciphertext of the secret is on file.
Rows == [stored: BOOLEAN, name: Names \cup {None}, status: {"ACTIVE", "REVOKED"},
         version: Versions, sealed: BOOLEAN]
NoRow == [stored |-> FALSE, name |-> None, status |-> "ACTIVE", version |-> 1,
          sealed |-> FALSE]

\* "disabled" and "rotating" are treated like "configured" everywhere.
Statuses == {"configured", "revoked"}
Refs == [stored: BOOLEAN, name: Names \cup {None}, version: Versions, status: Statuses]
NoRef == [stored |-> FALSE, name |-> None, version |-> 1, status |-> "configured"]

\* _sync_payload: what the Control Plane is told of a row.
\* Fault: the service's own word for a status is sent.
UntranslatedPayload(row) ==
  [stored |-> TRUE, name |-> row.name, version |-> row.version, status |-> row.status]
Payload(row) ==
  [stored |-> TRUE, name |-> row.name, version |-> row.version,
   status |-> IF row.status = "ACTIVE" THEN "configured" ELSE "revoked"]

Locking == {"create", "update", "rotate", "test", "revoke"}
Ops == Locking \cup {"idle", "save", "sync", "delete"}
Stages == {"read", "sent", "ok", "error"}
Requests == [op: Ops, c: Credentials \cup {None}, name: Names \cup {None},
             row: Rows, stage: Stages]
Request(op, c, name, row, stage) ==
  [op |-> op, c |-> c, name |-> name, row |-> row, stage |-> stage]
Idle == Request("idle", None, None, NoRow, "read")

\* by: the handler that waits for the answer, None once it has given up.
Calls == [by: Handlers \cup {None}, delete: BOOLEAN, c: Credentials, ref: Refs]

Stored(c) == cred[c].stored
Late == {k \in wire : k.by = None}
Serve(h, r) == req[h] = Idle /\ req' = [req EXCEPT ![h] = r]
Answer(h) == req' = [req EXCEPT ![h] = Idle]
Release(h) == lock' = IF lock = h THEN None ELSE lock
Call(h, delete, c, payload) ==
  wire' = wire \cup {[by |-> h, delete |-> delete, c |-> c, ref |-> payload]}

\* Of what was accepted, the references of these rows.
Forget(rows) ==
  accepted' = {p \in accepted : rows[p[1]].stored /\ p[2] = Payload(rows[p[1]])}

\* The row the transaction will leave, from the row on file at its first write;
\* a revoked credential loses its ciphertext in the same transaction.
\* Fault: update writes the whole row it had read back.
UpdatedFromRead(r, now) ==
  CASE r.op = "create" -> [stored |-> TRUE, name |-> r.name, status |-> "ACTIVE",
                           version |-> 1, sealed |-> r.c \in Local]
    [] r.op = "update" -> [r.row EXCEPT !.name = r.name]
    [] r.op = "rotate" -> [stored |-> TRUE, name |-> now.name, status |-> now.status,
                           version |-> now.version + 1, sealed |-> r.c \in Local]
    [] r.op = "revoke" -> [stored |-> TRUE, name |-> now.name, status |-> "REVOKED",
                           version |-> now.version, sealed |-> FALSE]
    [] OTHER -> now
Updated(r, now) ==
  CASE r.op = "create" -> [stored |-> TRUE, name |-> r.name, status |-> "ACTIVE",
                           version |-> 1, sealed |-> r.c \in Local]
    [] r.op = "update" -> [now EXCEPT !.name = r.name]
    [] r.op = "rotate" -> [stored |-> TRUE, name |-> now.name, status |-> now.status,
                           version |-> now.version + 1, sealed |-> r.c \in Local]
    [] r.op = "revoke" -> [stored |-> TRUE, name |-> now.name, status |-> "REVOKED",
                           version |-> now.version, sealed |-> FALSE]
    [] OTHER -> now

Init ==
  /\ cred = [c \in Credentials |-> NoRow]
  /\ ref = [c \in Credentials |-> NoRef]
  /\ taken = {}
  /\ req = [h \in Handlers |-> Idle]
  /\ lock = None
  /\ wire = {}
  /\ accepted = {}
  /\ removed = {}
  /\ crashes = 0

-----------------------------------------------------------------------------
(* The service's handlers, up to their first write or call *)

Remote == <<ref, accepted, removed>>

Create(h, c, n) ==
  /\ c \notin taken
  /\ taken' = taken \cup {c}
  /\ Serve(h, Request("create", c, n, NoRow, "read"))
  /\ UNCHANGED <<cred, lock, wire, crashes, Remote>>

\* A rename, or new metadata and the name as it was read.
Update(h, c, n) ==
  /\ Stored(c) /\ cred[c].status # "REVOKED"
  /\ Serve(h, Request("update", c, n, cred[c], "read"))
  /\ UNCHANGED <<cred, taken, lock, wire, crashes, Remote>>

\* rotate does not look at the status; test and revoke do.
Lifecycle(h, c, op) ==
  /\ Stored(c)
  /\ op \in {"test", "revoke"} => cred[c].status # "REVOKED"
  /\ op = "rotate" => cred[c].version < MaxVersion
  /\ Serve(h, Request(op, c, None, NoRow, "read"))
  /\ UNCHANGED <<cred, taken, lock, wire, crashes, Remote>>

\* The INSERT or UPDATE takes the lock, finds the row and the names as they
\* are by now, and the reference goes out from inside the transaction.
Write(h) ==
  LET r == req[h]
      row == Updated(r, cred[r.c])
  IN
  /\ r.op \in Locking /\ r.stage = "read"
  /\ lock = None
  /\ IF /\ r.op = "create" \/ Stored(r.c)
        /\ \A d \in Credentials : Stored(d) /\ d # r.c => cred[d].name # row.name
       THEN /\ lock' = h
            /\ req' = [req EXCEPT ![h] = Request("save", r.c, None, row, "sent")]
            /\ Call(h, FALSE, r.c, Payload(row))
       ELSE /\ Answer(h)
            /\ UNCHANGED <<lock, wire>>
  /\ UNCHANGED <<cred, taken, crashes, Remote>>

\* retry_sync and delete_credential call with the row as they read it.
CallFirst(h, c, op) ==
  /\ Stored(c)
  /\ Serve(h, Request(op, c, None, NoRow, "sent"))
  /\ Call(h, op = "delete", c, IF op = "delete" THEN NoRef ELSE Payload(cred[c]))
  /\ UNCHANGED <<cred, taken, lock, crashes, Remote>>

\* SQLite waits five seconds for another handler's lock, then raises.
LockedOut(h) ==
  /\ lock \notin {None, h}
  /\ \/ req[h].op \in Locking /\ req[h].stage = "read"
     \/ req[h].op \in {"sync", "delete"} /\ req[h].stage = "ok"
  /\ Answer(h)
  /\ UNCHANGED <<cred, taken, lock, wire, crashes, Remote>>

-----------------------------------------------------------------------------
(* The answer *)

\* The last UPDATE, the audit event and the commit.
Commit(h) ==
  LET r == req[h] IN
  /\ r.op = "save" /\ r.stage = "ok"
  /\ cred' = [cred EXCEPT ![r.c] = r.row]
  /\ Forget(cred')
  /\ Release(h)
  /\ Answer(h)
  /\ UNCHANGED <<ref, taken, wire, removed, crashes>>

\* sync has only its own bookkeeping to write.
\* Fault: a failed delete at the Control Plane is taken for "already gone".
CommitAfterAnyAnswer(h) ==
  LET r == req[h] IN
  /\ r.op \in {"sync", "delete"} /\ r.stage \in {"ok", "error"}
  /\ lock = None
  /\ cred' = IF r.op = "delete" THEN [cred EXCEPT ![r.c] = NoRow] ELSE cred
  /\ Forget(cred')
  /\ Answer(h)
  /\ UNCHANGED <<ref, taken, lock, wire, removed, crashes>>
CommitAfterCall(h) ==
  LET r == req[h] IN
  /\ r.op \in {"sync", "delete"} /\ r.stage = "ok"
  /\ lock = None
  /\ cred' = IF r.op = "delete" THEN [cred EXCEPT ![r.c] = NoRow] ELSE cred
  /\ Forget(cred')
  /\ Answer(h)
  /\ UNCHANGED <<ref, taken, lock, wire, removed, crashes>>

\* Fault: the row is kept as PENDING, for a later sync to repair.
KeepPending(h) ==
  /\ req[h].stage = "error"
  /\ cred' = IF req[h].op = "save" THEN [cred EXCEPT ![req[h].c] = req[h].row] ELSE cred
  /\ Release(h)
  /\ Answer(h)
  /\ UNCHANGED <<taken, wire, crashes, Remote>>
RollBack(h) ==
  /\ req[h].stage = "error"
  /\ Release(h)
  /\ Answer(h)
  /\ UNCHANGED <<cred, taken, wire, crashes, Remote>>

\* httpx gives up after ten seconds; what was sent may still be served.
TimeOut(h) ==
  /\ req[h].stage = "sent"
  /\ Cardinality(Late) < MaxLate
  /\ req' = [req EXCEPT ![h].stage = "error"]
  /\ wire' = {IF k.by = h THEN [k EXCEPT !.by = None] ELSE k : k \in wire}
  /\ UNCHANGED <<cred, taken, lock, crashes, Remote>>

Crash ==
  /\ crashes < MaxCrashes /\ Cardinality(wire) <= MaxLate
  /\ crashes' = crashes + 1
  /\ req' = [h \in Handlers |-> Idle]
  /\ lock' = None
  /\ wire' = {[k EXCEPT !.by = None] : k \in wire}
  /\ Forget(cred)
  /\ UNCHANGED <<cred, ref, taken, removed>>

-----------------------------------------------------------------------------
(* The Control Plane *)

Service == <<cred, taken, lock, crashes>>

\* The call ends, and its caller, if it still waits, learns how.
Reply(k, stage) ==
  /\ wire' = wire \ {k}
  /\ req' = IF k.by = None THEN req ELSE [req EXCEPT ![k.by].stage = stage]

\* Not reached, or refused: the name belongs to another reference, or a target,
\* an integration or a server still uses this one (who does is not modelled).
Lost(k) ==
  /\ k \in wire
  /\ Reply(k, "error")
  /\ UNCHANGED <<Service, Remote>>

\* The UPDATE of the reference, or the INSERT of a new one.  The SELECTs before
\* it can be out of date by then, but a wrong guess fails: an INSERT meets the
\* PRIMARY KEY or UNIQUE constraint, an UPDATE that finds no row ends in a 500.
Sync(k) ==
  /\ k \in wire /\ ~k.delete
  /\ \A d \in Credentials : d # k.c /\ ref[d].stored => ref[d].name # k.ref.name
  /\ ref' = [ref EXCEPT ![k.c] = k.ref]
  /\ accepted' = IF k.by # None /\ req[k.by].op = "save"
                   THEN accepted \cup {<<k.c, k.ref>>} ELSE accepted
  /\ Reply(k, "ok")
  /\ UNCHANGED <<removed, Service>>

\* A reference that is gone is a 404, which the service takes for a failure.
Remove(k) ==
  /\ k \in wire /\ k.delete
  /\ ref' = [ref EXCEPT ![k.c] = NoRef]
  /\ removed' = IF ref[k.c].stored THEN removed \cup {k.c} ELSE removed
  /\ Reply(k, IF ref[k.c].stored THEN "ok" ELSE "error")
  /\ UNCHANGED <<accepted, Service>>

ServiceSide == <<cred, taken, req, lock, wire, accepted, crashes>>

\* The administrator's own routes to the references.
AdminCreate(c, n) ==
  /\ c \notin taken
  /\ \A d \in Credentials : ref[d].stored => ref[d].name # n
  /\ taken' = taken \cup {c}
  /\ ref' = [ref EXCEPT ![c] = [stored |-> TRUE, name |-> n, version |-> 1,
                                 status |-> "configured"]]
  /\ UNCHANGED <<cred, req, lock, wire, accepted, removed, crashes>>

\* PATCH sets any status; rotate sets "configured", whatever it was.
AdminSet(c, s) ==
  /\ ref[c].stored
  /\ ref' = [ref EXCEPT ![c].status = s]
  /\ UNCHANGED <<removed, ServiceSide>>

AdminDelete(c) ==
  /\ ref[c].stored
  /\ ref' = [ref EXCEPT ![c] = NoRef]
  /\ removed' = removed \cup {c}
  /\ UNCHANGED ServiceSide

-----------------------------------------------------------------------------
Begin(h) ==
  \E c \in Credentials :
    \/ \E n \in Names : Create(h, c, n) \/ Update(h, c, n)
    \/ \E op \in {"rotate", "test", "revoke"} : Lifecycle(h, c, op)
    \/ \E op \in {"sync", "delete"} : CallFirst(h, c, op)

End(h) == Commit(h) \/ CommitAfterCall(h) \/ RollBack(h)

ControlPlane ==
  \/ \E k \in wire : Lost(k) \/ Sync(k) \/ Remove(k)
  \/ \E c \in Credentials :
       \/ \E n \in Names : AdminCreate(c, n)
       \/ \E s \in Statuses : AdminSet(c, s)
       \/ AdminDelete(c)

Next ==
  \/ \E h \in Handlers : Begin(h) \/ Write(h) \/ LockedOut(h) \/ End(h) \/ TimeOut(h)
  \/ Crash
  \/ ControlPlane

Spec == Init /\ [][Next]_vars

-----------------------------------------------------------------------------
(* Properties *)

(* Rows, requests and calls keep their shape.                              *)
TypeOK ==
  /\ cred \in [Credentials -> Rows]
  /\ ref \in [Credentials -> Refs]
  /\ taken \subseteq Credentials
  /\ req \in [Handlers -> Requests]
  /\ lock \in Handlers \cup {None}
  /\ wire \subseteq Calls
  /\ accepted \subseteq Credentials \X Refs
  /\ removed \subseteq Credentials
  /\ crashes \in Nat

(* DEV2-TRUST-BOOTSTRAP.md: create, update, rotate and revoke "synchronize *)
(* with the Control Plane before committing".  Whatever is on file at the  *)
(* service was once accepted, as it stands, by the Control Plane: through  *)
(* lost and late answers, crashes inside the transaction and requests that *)
(* race, no secret, rotation or erasure is committed on the service alone. *)
CommittedWasAccepted ==
  \A c \in Credentials : Stored(c) => <<c, Payload(cred[c])>> \in accepted

(* A credential that was revoked is never active again, though an update,  *)
(* a test or a rotation that read it while it was active may still write.  *)
RevokedStaysRevoked ==
  [][\A c \in Credentials :
       Stored(c) /\ cred[c].status = "REVOKED" /\ cred'[c].stored
         => cred'[c].status = "REVOKED"]_vars

(* A secret is only erased with its row once the Control Plane has no more *)
(* reference to it: a delete that fails, is lost or crashes half-way       *)
(* leaves a secret without a reference, never a target with a reference to *)
(* a secret that is gone.                                                  *)
DeletedThereFirst ==
  [][\A c \in Credentials : Stored(c) /\ ~cred'[c].stored => c \in removed]_vars

=============================================================================
