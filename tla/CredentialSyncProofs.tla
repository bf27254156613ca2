------------------------ MODULE CredentialSyncProofs ------------------------
(***************************************************************************)
(* Proofs about CredentialSync, for any credentials, names and handlers.   *)
(*                                                                         *)
(* The argument: a row is only ever committed by the handler that holds    *)
(* the write lock (SaveHasLock), so from its first write to its commit     *)
(* nothing else changes the row it started from (KeepsRevoked), the only   *)
(* call that can answer it carries that very row (CallMatches, OneCall),   *)
(* and what the answer says stays true until then (AcceptedOnOk).          *)
(***************************************************************************)
EXTENDS CredentialSync, TLAPS

SaveHasLock ==
  \A h \in Handlers : req[h].op = "save" =>
    /\ lock = h /\ req[h].c \in Credentials /\ req[h].c \in taken
    /\ req[h].row.stored

CreateIsFresh ==
  \A h \in Handlers : req[h].op = "create" =>
    /\ req[h].c \in taken /\ ~cred[req[h].c].stored
    /\ \A g \in Handlers : req[g].c = req[h].c => g = h

KeepsRevoked ==
  \A h \in Handlers :
    req[h].op = "save" /\ cred[req[h].c].stored /\ cred[req[h].c].status = "REVOKED"
      => req[h].row.status = "REVOKED"

AcceptedOnOk ==
  \A h \in Handlers : req[h].op = "save" /\ req[h].stage = "ok" =>
    <<req[h].c, Payload(req[h].row)>> \in accepted

RemovedOnOk ==
  \A h \in Handlers : req[h].op = "delete" /\ req[h].stage = "ok" =>
    req[h].c \in removed

CallMatches ==
  \A k \in wire : k.by # None =>
    /\ req[k.by].stage = "sent" /\ req[k.by].c = k.c
    /\ req[k.by].op = "save" => ~k.delete /\ k.ref = Payload(req[k.by].row)
    /\ req[k.by].op = "delete" => k.delete

OneCall == \A j, k \in wire : j.by = k.by /\ k.by # None => j = k

OpsHaveCredential ==
  \A h \in Handlers : /\ req[h].op # "idle" => req[h].c \in Credentials
                      /\ req[h].c = None \/ req[h].c \in taken

StoredIsTaken == \A c \in Credentials : cred[c].stored => c \in taken

IInv ==
  /\ TypeOK
  /\ SaveHasLock /\ CreateIsFresh /\ KeepsRevoked
  /\ AcceptedOnOk /\ RemovedOnOk
  /\ CallMatches /\ OneCall
  /\ OpsHaveCredential /\ StoredIsTaken
  /\ CommittedWasAccepted

USE NoneAssumption, LocalAssumption, BoundsAssumption

LEMMA PayloadType == ASSUME NEW row \in Rows PROVE Payload(row) \in Refs
  BY DEF Payload, Rows, Refs, Statuses

\* What a handler writes is a row, and a revoked one if it started from one.
LEMMA UpdatedType ==
  ASSUME NEW r \in Requests, r.op = "create" => r.name \in Names \cup {None},
         NEW now \in Rows
  PROVE  /\ Updated(r, now) \in Rows
         /\ r.op = "create" \/ now.stored => Updated(r, now).stored
         /\ r.op # "create" => Updated(r, now).status = "REVOKED" \/
                               Updated(r, now).status = now.status
<1>1. CASE r.op = "update"
  <2>1. Updated(r, now) = [now EXCEPT !.name = r.name]
    BY <1>1 DEF Updated
  <2> QED BY <1>1, <2>1 DEF Rows, Requests
<1>2. CASE r.op # "update"
  BY <1>2 DEF Updated, Rows, Requests, Versions
<1> QED BY <1>1, <1>2

LEMMA CreateKeeps ==
  ASSUME IInv, NEW h \in Handlers, NEW c \in Credentials, NEW n \in Names,
      Create(h, c, n)
  PROVE  IInv'
<1>1. TypeOK'
  BY DEF IInv, TypeOK, SaveHasLock, OpsHaveCredential, Create, Serve, Remote,
      Rows, NoRow, Refs, NoRef, Statuses, Versions, Requests, Ops, Locking,
      Stages, Idle, Request, Calls, Payload, Stored
<1>2. SaveHasLock'
  BY DEF IInv, TypeOK, SaveHasLock, StoredIsTaken, CreateIsFresh,
      OpsHaveCredential, Create, Serve, Remote, Rows, NoRow, Requests, Ops,
      Locking, Stages, Idle, Request, Calls, Stored
<1>3. CreateIsFresh'
  <2>1. \A g \in Handlers : req[g].c # c
    BY DEF IInv, OpsHaveCredential, Create
  <2>2. /\ req' = [req EXCEPT ![h] = Request("create", c, n, NoRow, "read")]
        /\ ~cred[c].stored
    BY DEF IInv, StoredIsTaken, Create, Serve
  <2> QED
    BY <2>1, <2>2 DEF IInv, TypeOK, CreateIsFresh, Create, Request, Remote
<1>4. KeepsRevoked'
  BY DEF IInv, TypeOK, KeepsRevoked, SaveHasLock, CreateIsFresh, Create,
      Serve, Remote, Rows, NoRow, Requests, Ops, Locking, Stages, Idle,
      Request, Calls, Stored
<1>5. AcceptedOnOk'
  BY DEF IInv, TypeOK, AcceptedOnOk, SaveHasLock, CallMatches, Create, Serve,
      Remote, Rows, NoRow, Refs, NoRef, Statuses, Versions, Requests, Ops,
      Locking, Stages, Idle, Request, Calls, Payload, Stored
<1>6. RemovedOnOk'
  BY DEF IInv, TypeOK, RemovedOnOk, CallMatches, Create, Serve, Remote, Rows,
      NoRow, Requests, Ops, Locking, Stages, Idle, Request, Calls, Stored
<1>7. CallMatches'
  BY DEF IInv, TypeOK, CallMatches, OneCall, SaveHasLock, Create, Serve,
      Remote, Rows, NoRow, Refs, NoRef, Statuses, Versions, Requests, Ops,
      Locking, Stages, Idle, Request, Calls, Payload, Stored
<1>8. OneCall'
  BY DEF IInv, TypeOK, OneCall, CallMatches, Create, Serve, Remote, Rows,
      NoRow, Requests, Ops, Locking, Stages, Idle, Request, Calls, Stored
<1>9. OpsHaveCredential'
  BY DEF IInv, TypeOK, OpsHaveCredential, StoredIsTaken, CreateIsFresh,
      SaveHasLock, Create, Serve, Remote, Rows, NoRow, Requests, Ops,
      Locking, Stages, Idle, Request, Calls, Stored
<1>10. StoredIsTaken'
  BY DEF IInv, TypeOK, StoredIsTaken, SaveHasLock, CreateIsFresh, Create,
      Serve, Remote, Rows, NoRow, Requests, Ops, Locking, Stages, Idle,
      Request, Calls, Stored
<1>11. CommittedWasAccepted'
  BY DEF IInv, TypeOK, CommittedWasAccepted, AcceptedOnOk, SaveHasLock,
      Create, Serve, Remote, Rows, NoRow, Refs, NoRef, Statuses, Versions,
      Requests, Ops, Locking, Stages, Idle, Request, Calls, Payload, Stored
<1> QED BY <1>1, <1>2, <1>3, <1>4, <1>5, <1>6, <1>7, <1>8, <1>9, <1>10, <1>11
    DEF IInv

LEMMA UpdateKeeps ==
  ASSUME IInv, NEW h \in Handlers, NEW c \in Credentials, NEW n \in Names,
      Update(h, c, n)
  PROVE  IInv'
<1>1. TypeOK'
  BY DEF IInv, TypeOK, SaveHasLock, OpsHaveCredential, Update, Serve, Remote,
      Rows, NoRow, Refs, NoRef, Statuses, Versions, Requests, Ops, Locking,
      Stages, Idle, Request, Calls, Payload, Stored
<1>2. SaveHasLock'
  BY DEF IInv, TypeOK, SaveHasLock, StoredIsTaken, CreateIsFresh,
      OpsHaveCredential, Update, Serve, Remote, Rows, NoRow, Requests, Ops,
      Locking, Stages, Idle, Request, Calls, Stored
<1>3. CreateIsFresh'
  BY DEF IInv, TypeOK, CreateIsFresh, OpsHaveCredential, Update, Serve,
      Remote, Rows, NoRow, Requests, Ops, Locking, Stages, Idle, Request,
      Calls, Stored
<1>4. KeepsRevoked'
  BY DEF IInv, TypeOK, KeepsRevoked, SaveHasLock, CreateIsFresh, Update,
      Serve, Remote, Rows, NoRow, Requests, Ops, Locking, Stages, Idle,
      Request, Calls, Stored
<1>5. AcceptedOnOk'
  BY DEF IInv, TypeOK, AcceptedOnOk, SaveHasLock, CallMatches, Update, Serve,
      Remote, Rows, NoRow, Refs, NoRef, Statuses, Versions, Requests, Ops,
      Locking, Stages, Idle, Request, Calls, Payload, Stored
<1>6. RemovedOnOk'
  BY DEF IInv, TypeOK, RemovedOnOk, CallMatches, Update, Serve, Remote, Rows,
      NoRow, Requests, Ops, Locking, Stages, Idle, Request, Calls, Stored
<1>7. CallMatches'
  <2>1. \A k \in wire : k.by # h
    BY DEF IInv, CallMatches, Update, Serve, Idle, Request
  <2> QED
    BY <2>1 DEF IInv, TypeOK, CallMatches, Calls, Update, Serve, Remote
<1>8. OneCall'
  BY DEF IInv, TypeOK, OneCall, CallMatches, Update, Serve, Remote, Rows,
      NoRow, Requests, Ops, Locking, Stages, Idle, Request, Calls, Stored
<1>9. OpsHaveCredential'
  BY DEF IInv, TypeOK, OpsHaveCredential, StoredIsTaken, CreateIsFresh,
      SaveHasLock, Update, Serve, Remote, Rows, NoRow, Requests, Ops,
      Locking, Stages, Idle, Request, Calls, Stored
<1>10. StoredIsTaken'
  BY DEF IInv, TypeOK, StoredIsTaken, SaveHasLock, CreateIsFresh, Update,
      Serve, Remote, Rows, NoRow, Requests, Ops, Locking, Stages, Idle,
      Request, Calls, Stored
<1>11. CommittedWasAccepted'
  BY DEF IInv, TypeOK, CommittedWasAccepted, AcceptedOnOk, SaveHasLock,
      Update, Serve, Remote, Rows, NoRow, Refs, NoRef, Statuses, Versions,
      Requests, Ops, Locking, Stages, Idle, Request, Calls, Payload, Stored
<1> QED BY <1>1, <1>2, <1>3, <1>4, <1>5, <1>6, <1>7, <1>8, <1>9, <1>10, <1>11
    DEF IInv

LEMMA LifecycleKeeps ==
  ASSUME IInv, NEW h \in Handlers, NEW c \in Credentials, NEW op \in
      {"rotate", "test", "revoke"}, Lifecycle(h, c, op)
  PROVE  IInv'
<1>1. TypeOK'
  BY DEF IInv, TypeOK, SaveHasLock, OpsHaveCredential, Lifecycle, Serve,
      Remote, Rows, NoRow, Refs, NoRef, Statuses, Versions, Requests, Ops,
      Locking, Stages, Idle, Request, Calls, Payload, Stored
<1>2. SaveHasLock'
  BY DEF IInv, TypeOK, SaveHasLock, StoredIsTaken, CreateIsFresh,
      OpsHaveCredential, Lifecycle, Serve, Remote, Rows, NoRow, Requests,
      Ops, Locking, Stages, Idle, Request, Calls, Stored
<1>3. CreateIsFresh'
  BY DEF IInv, TypeOK, CreateIsFresh, OpsHaveCredential, Lifecycle, Serve,
      Remote, Rows, NoRow, Requests, Ops, Locking, Stages, Idle, Request,
      Calls, Stored
<1>4. KeepsRevoked'
  BY DEF IInv, TypeOK, KeepsRevoked, SaveHasLock, CreateIsFresh, Lifecycle,
      Serve, Remote, Rows, NoRow, Requests, Ops, Locking, Stages, Idle,
      Request, Calls, Stored
<1>5. AcceptedOnOk'
  BY DEF IInv, TypeOK, AcceptedOnOk, SaveHasLock, CallMatches, Lifecycle,
      Serve, Remote, Rows, NoRow, Refs, NoRef, Statuses, Versions, Requests,
      Ops, Locking, Stages, Idle, Request, Calls, Payload, Stored
<1>6. RemovedOnOk'
  BY DEF IInv, TypeOK, RemovedOnOk, CallMatches, Lifecycle, Serve, Remote,
      Rows, NoRow, Requests, Ops, Locking, Stages, Idle, Request, Calls,
      Stored
<1>7. CallMatches'
  BY DEF IInv, TypeOK, CallMatches, OneCall, SaveHasLock, Lifecycle, Serve,
      Remote, Rows, NoRow, Refs, NoRef, Statuses, Versions, Requests, Ops,
      Locking, Stages, Idle, Request, Calls, Payload, Stored
<1>8. OneCall'
  BY DEF IInv, TypeOK, OneCall, CallMatches, Lifecycle, Serve, Remote, Rows,
      NoRow, Requests, Ops, Locking, Stages, Idle, Request, Calls, Stored
<1>9. OpsHaveCredential'
  BY DEF IInv, TypeOK, OpsHaveCredential, StoredIsTaken, CreateIsFresh,
      SaveHasLock, Lifecycle, Serve, Remote, Rows, NoRow, Requests, Ops,
      Locking, Stages, Idle, Request, Calls, Stored
<1>10. StoredIsTaken'
  BY DEF IInv, TypeOK, StoredIsTaken, SaveHasLock, CreateIsFresh, Lifecycle,
      Serve, Remote, Rows, NoRow, Requests, Ops, Locking, Stages, Idle,
      Request, Calls, Stored
<1>11. CommittedWasAccepted'
  BY DEF IInv, TypeOK, CommittedWasAccepted, AcceptedOnOk, SaveHasLock,
      Lifecycle, Serve, Remote, Rows, NoRow, Refs, NoRef, Statuses, Versions,
      Requests, Ops, Locking, Stages, Idle, Request, Calls, Payload, Stored
<1> QED BY <1>1, <1>2, <1>3, <1>4, <1>5, <1>6, <1>7, <1>8, <1>9, <1>10, <1>11
    DEF IInv

LEMMA CallFirstKeeps ==
  ASSUME IInv, NEW h \in Handlers, NEW c \in Credentials, NEW op \in {"sync",
      "delete"}, CallFirst(h, c, op)
  PROVE  IInv'
<1>1. TypeOK'
  <2>1. req' \in [Handlers -> Requests]
    BY DEF IInv, TypeOK, CallFirst, Serve, Requests, Ops, Locking, Stages,
        Request, Rows, NoRow, Versions
  <2>2. wire' \subseteq Calls
    <3>1. (IF op = "delete" THEN NoRef ELSE Payload(cred[c])) \in Refs
      BY PayloadType DEF IInv, TypeOK, NoRef, Refs, Versions, Statuses
    <3>2. (op = "delete") \in BOOLEAN
      OBVIOUS
    <3>3. [by |-> h, delete |-> op = "delete", c |-> c,
           ref |-> IF op = "delete" THEN NoRef ELSE Payload(cred[c])] \in Calls
      BY <3>1, <3>2 DEF Calls
    <3> QED
      BY <3>3 DEF IInv, TypeOK, CallFirst, Call
  <2> QED
    BY <2>1, <2>2 DEF IInv, TypeOK, CallFirst, Remote
<1>2. SaveHasLock'
  BY DEF IInv, TypeOK, SaveHasLock, StoredIsTaken, CreateIsFresh,
      OpsHaveCredential, CallFirst, Serve, Call, Remote, Rows, NoRow,
      Requests, Ops, Locking, Stages, Idle, Request, Calls, Stored
<1>3. CreateIsFresh'
  BY DEF IInv, TypeOK, CreateIsFresh, OpsHaveCredential, CallFirst, Serve,
      Call, Remote, Rows, NoRow, Requests, Ops, Locking, Stages, Idle,
      Request, Calls, Stored
<1>4. KeepsRevoked'
  BY DEF IInv, TypeOK, KeepsRevoked, SaveHasLock, CreateIsFresh, CallFirst,
      Serve, Call, Remote, Rows, NoRow, Requests, Ops, Locking, Stages, Idle,
      Request, Calls, Stored
<1>5. AcceptedOnOk'
  BY DEF IInv, TypeOK, AcceptedOnOk, SaveHasLock, CallMatches, CallFirst,
      Serve, Call, Remote, Rows, NoRow, Refs, NoRef, Statuses, Versions,
      Requests, Ops, Locking, Stages, Idle, Request, Calls, Payload, Stored
<1>6. RemovedOnOk'
  BY DEF IInv, TypeOK, RemovedOnOk, CallMatches, CallFirst, Serve, Call,
      Remote, Rows, NoRow, Requests, Ops, Locking, Stages, Idle, Request,
      Calls, Stored
<1>7. CallMatches'
  BY DEF IInv, TypeOK, CallMatches, OneCall, SaveHasLock, CallFirst, Serve,
      Call, Remote, Rows, NoRow, Refs, NoRef, Statuses, Versions, Requests,
      Ops, Locking, Stages, Idle, Request, Calls, Payload, Stored
<1>8. OneCall'
  BY DEF IInv, TypeOK, OneCall, CallMatches, CallFirst, Serve, Call, Remote,
      Rows, NoRow, Requests, Ops, Locking, Stages, Idle, Request, Calls,
      Stored
<1>9. OpsHaveCredential'
  BY DEF IInv, TypeOK, OpsHaveCredential, StoredIsTaken, CreateIsFresh,
      SaveHasLock, CallFirst, Serve, Call, Remote, Rows, NoRow, Requests,
      Ops, Locking, Stages, Idle, Request, Calls, Stored
<1>10. StoredIsTaken'
  BY DEF IInv, TypeOK, StoredIsTaken, SaveHasLock, CreateIsFresh, CallFirst,
      Serve, Call, Remote, Rows, NoRow, Requests, Ops, Locking, Stages, Idle,
      Request, Calls, Stored
<1>11. CommittedWasAccepted'
  BY DEF IInv, TypeOK, CommittedWasAccepted, AcceptedOnOk, SaveHasLock,
      CallFirst, Serve, Call, Remote, Rows, NoRow, Refs, NoRef, Statuses,
      Versions, Requests, Ops, Locking, Stages, Idle, Request, Calls,
      Payload, Stored
<1> QED BY <1>1, <1>2, <1>3, <1>4, <1>5, <1>6, <1>7, <1>8, <1>9, <1>10, <1>11
    DEF IInv

LEMMA WriteKeeps ==
  ASSUME IInv, NEW h \in Handlers, Write(h)
  PROVE  IInv'
<1> DEFINE r == req[h]
           row == Updated(r, cred[r.c])
           sent == Request("save", r.c, None, row, "sent")
           k == [by |-> h, delete |-> FALSE, c |-> r.c, ref |-> Payload(row)]
<1>1. /\ r \in Requests /\ r.c \in Credentials /\ r.c \in taken /\ r.stage = "read"
      /\ cred[r.c] \in Rows
  BY DEF IInv, TypeOK, OpsHaveCredential, Write, Locking
<1>2. /\ row \in Rows
      /\ r.op = "create" \/ cred[r.c].stored => row.stored
      /\ r.op # "create" => row.status = "REVOKED" \/ row.status = cred[r.c].status
  BY <1>1, UpdatedType DEF Requests
<1>3. CASE Answer(h) /\ UNCHANGED <<lock, wire>>
  <2>0. UNCHANGED <<cred, taken, crashes, Remote>> /\ \A j \in wire : j.by # h
    BY <1>1 DEF Write, IInv, CallMatches
  <2>1. TypeOK'
    BY <1>1, <1>3, <2>0 DEF IInv, TypeOK, SaveHasLock, OpsHaveCredential,
        Answer, Remote, Rows, NoRow, Refs, NoRef, Statuses, Versions,
        Requests, Ops, Locking, Stages, Idle, Request, Calls, Payload, Stored
  <2>2. SaveHasLock'
    BY <1>1, <1>3, <2>0 DEF IInv, TypeOK, SaveHasLock, StoredIsTaken,
        CreateIsFresh, OpsHaveCredential, Answer, Remote, Rows, NoRow,
        Requests, Ops, Locking, Stages, Idle, Request, Calls, Stored
  <2>3. CreateIsFresh'
    BY <1>1, <1>3, <2>0 DEF IInv, TypeOK, CreateIsFresh, OpsHaveCredential,
        Answer, Remote, Rows, NoRow, Requests, Ops, Locking, Stages, Idle,
        Request, Calls, Stored
  <2>4. KeepsRevoked'
    BY <1>1, <1>3, <2>0 DEF IInv, TypeOK, KeepsRevoked, SaveHasLock,
        CreateIsFresh, Answer, Remote, Rows, NoRow, Requests, Ops, Locking,
        Stages, Idle, Request, Calls, Stored
  <2>5. AcceptedOnOk'
    BY <1>1, <1>3, <2>0 DEF IInv, TypeOK, AcceptedOnOk, SaveHasLock,
        CallMatches, Answer, Remote, Rows, NoRow, Refs, NoRef, Statuses,
        Versions, Requests, Ops, Locking, Stages, Idle, Request, Calls,
        Payload, Stored
  <2>6. RemovedOnOk'
    BY <1>1, <1>3, <2>0 DEF IInv, TypeOK, RemovedOnOk, CallMatches, Answer,
        Remote, Rows, NoRow, Requests, Ops, Locking, Stages, Idle, Request,
        Calls, Stored
  <2>7. CallMatches'
    BY <1>1, <1>3, <2>0 DEF IInv, TypeOK, CallMatches, OneCall, SaveHasLock,
        Answer, Remote, Rows, NoRow, Refs, NoRef, Statuses, Versions,
        Requests, Ops, Locking, Stages, Idle, Request, Calls, Payload, Stored
  <2>8. OneCall'
    BY <1>1, <1>3, <2>0 DEF IInv, TypeOK, OneCall, CallMatches, Answer,
        Remote, Rows, NoRow, Requests, Ops, Locking, Stages, Idle, Request,
        Calls, Stored
  <2>9. OpsHaveCredential'
    BY <1>1, <1>3, <2>0 DEF IInv, TypeOK, OpsHaveCredential, StoredIsTaken,
        CreateIsFresh, SaveHasLock, Answer, Remote, Rows, NoRow, Requests,
        Ops, Locking, Stages, Idle, Request, Calls, Stored
  <2>10. StoredIsTaken'
    BY <1>1, <1>3, <2>0 DEF IInv, TypeOK, StoredIsTaken, SaveHasLock,
        CreateIsFresh, Answer, Remote, Rows, NoRow, Requests, Ops, Locking,
        Stages, Idle, Request, Calls, Stored
  <2>11. CommittedWasAccepted'
    BY <1>1, <1>3, <2>0 DEF IInv, TypeOK, CommittedWasAccepted, AcceptedOnOk,
        SaveHasLock, Answer, Remote, Rows, NoRow, Refs, NoRef, Statuses,
        Versions, Requests, Ops, Locking, Stages, Idle, Request, Calls,
        Payload, Stored
  <2> QED BY <2>1, <2>2, <2>3, <2>4, <2>5, <2>6, <2>7, <2>8, <2>9, <2>10, <2>11 DEF IInv
<1>4. ASSUME r.op = "create" \/ cred[r.c].stored,
             lock' = h, req' = [req EXCEPT ![h] = sent], wire' = wire \cup {k}
      PROVE  IInv'
  <2>0. /\ UNCHANGED <<cred, taken, crashes, Remote>>
        /\ \A j \in wire : j.by # h
        /\ \A g \in Handlers : req[g].op # "save"
        /\ k \in Calls /\ sent \in Requests
        /\ req'[h] = sent /\ \A g \in Handlers : g # h => req'[g] = req[g]
    <3>1. UNCHANGED <<cred, taken, crashes, Remote>>
      BY DEF Write
    <3>2. (\A j \in wire : j.by # h) /\ lock = None
      BY <1>1 DEF Write, IInv, CallMatches
    <3>3. k \in Calls
      BY <1>1, <1>2, PayloadType DEF Calls
    <3>4. sent \in Requests
      BY <1>1, <1>2 DEF Requests, Request, Ops, Stages
    <3> QED BY <1>4, <3>1, <3>2, <3>3, <3>4 DEF IInv, TypeOK, SaveHasLock
  <2>1. TypeOK'
    BY <1>4, <2>0 DEF IInv, TypeOK, Remote
  <2>2. SaveHasLock'
    <3>1. row.stored
      <4> HIDE DEF row, r, sent, k
      <4> QED BY <1>2, <1>4
    <3>3. sent.c = r.c /\ sent.row = row
      BY DEF Request
    <3>2. \A g \in Handlers : req'[g].op = "save" => g = h
      BY <2>0
    <3> QED
      BY <1>1, <1>4, <2>0, <3>1, <3>2, <3>3 DEF SaveHasLock
  <2>3. CreateIsFresh'
    BY <1>1, <1>2, <1>4, <2>0 DEF IInv, TypeOK, CreateIsFresh,
        OpsHaveCredential, Request, Remote, Stored
  <2>4. KeepsRevoked'
    BY <1>1, <1>2, <1>4, <2>0 DEF IInv, TypeOK, KeepsRevoked, SaveHasLock,
        CreateIsFresh, Request, Remote, Stored
  <2>5. AcceptedOnOk'
    BY <1>1, <1>2, <1>4, <2>0 DEF IInv, TypeOK, AcceptedOnOk, SaveHasLock,
        CallMatches, Request, Remote, Stored
  <2>6. RemovedOnOk'
    BY <1>1, <1>2, <1>4, <2>0 DEF IInv, TypeOK, RemovedOnOk, CallMatches,
        Request, Remote, Stored
  <2>7. CallMatches'
    BY <1>1, <1>2, <1>4, <2>0 DEF IInv, TypeOK, CallMatches, OneCall,
        SaveHasLock, Request, Remote, Stored
  <2>8. OneCall'
    <3>1. k.by = h /\ \A j \in wire' : j.by = h => j = k
      BY <1>4, <2>0
    <3> QED
      BY <1>4, <3>1 DEF IInv, OneCall
  <2>9. OpsHaveCredential'
    BY <1>1, <1>2, <1>4, <2>0 DEF IInv, TypeOK, OpsHaveCredential,
        StoredIsTaken, CreateIsFresh, SaveHasLock, Request, Remote, Stored
  <2>10. StoredIsTaken'
    BY <1>1, <1>2, <1>4, <2>0 DEF IInv, TypeOK, StoredIsTaken, SaveHasLock,
        CreateIsFresh, Request, Remote, Stored
  <2>11. CommittedWasAccepted'
    BY <1>1, <1>2, <1>4, <2>0 DEF IInv, TypeOK, CommittedWasAccepted,
        AcceptedOnOk, SaveHasLock, Request, Remote, Stored
  <2> QED BY <2>1, <2>2, <2>3, <2>4, <2>5, <2>6, <2>7, <2>8, <2>9, <2>10, <2>11 DEF IInv
<1> QED BY <1>1, <1>3, <1>4 DEF Write, Call, Stored

LEMMA LockedOutKeeps ==
  ASSUME IInv, NEW h \in Handlers, LockedOut(h)
  PROVE  IInv'
<1>1. TypeOK'
  BY DEF IInv, TypeOK, SaveHasLock, OpsHaveCredential, LockedOut, Locking,
      Answer, Remote, Rows, NoRow, Refs, NoRef, Statuses, Versions, Requests,
      Ops, Stages, Idle, Request, Calls, Payload, Stored
<1>2. SaveHasLock'
  BY DEF IInv, TypeOK, SaveHasLock, StoredIsTaken, CreateIsFresh,
      OpsHaveCredential, LockedOut, Locking, Answer, Remote, Rows, NoRow,
      Requests, Ops, Stages, Idle, Request, Calls, Stored
<1>3. CreateIsFresh'
  BY DEF IInv, TypeOK, CreateIsFresh, OpsHaveCredential, LockedOut, Locking,
      Answer, Remote, Rows, NoRow, Requests, Ops, Stages, Idle, Request,
      Calls, Stored
<1>4. KeepsRevoked'
  BY DEF IInv, TypeOK, KeepsRevoked, SaveHasLock, CreateIsFresh, LockedOut,
      Locking, Answer, Remote, Rows, NoRow, Requests, Ops, Stages, Idle,
      Request, Calls, Stored
<1>5. AcceptedOnOk'
  BY DEF IInv, TypeOK, AcceptedOnOk, SaveHasLock, CallMatches, LockedOut,
      Locking, Answer, Remote, Rows, NoRow, Refs, NoRef, Statuses, Versions,
      Requests, Ops, Stages, Idle, Request, Calls, Payload, Stored
<1>6. RemovedOnOk'
  BY DEF IInv, TypeOK, RemovedOnOk, CallMatches, LockedOut, Locking, Answer,
      Remote, Rows, NoRow, Requests, Ops, Stages, Idle, Request, Calls,
      Stored
<1>7. CallMatches'
  BY DEF IInv, TypeOK, CallMatches, OneCall, SaveHasLock, LockedOut, Locking,
      Answer, Remote, Rows, NoRow, Refs, NoRef, Statuses, Versions, Requests,
      Ops, Stages, Idle, Request, Calls, Payload, Stored
<1>8. OneCall'
  BY DEF IInv, TypeOK, OneCall, CallMatches, LockedOut, Locking, Answer,
      Remote, Rows, NoRow, Requests, Ops, Stages, Idle, Request, Calls,
      Stored
<1>9. OpsHaveCredential'
  BY DEF IInv, TypeOK, OpsHaveCredential, StoredIsTaken, CreateIsFresh,
      SaveHasLock, LockedOut, Locking, Answer, Remote, Rows, NoRow, Requests,
      Ops, Stages, Idle, Request, Calls, Stored
<1>10. StoredIsTaken'
  BY DEF IInv, TypeOK, StoredIsTaken, SaveHasLock, CreateIsFresh, LockedOut,
      Locking, Answer, Remote, Rows, NoRow, Requests, Ops, Stages, Idle,
      Request, Calls, Stored
<1>11. CommittedWasAccepted'
  BY DEF IInv, TypeOK, CommittedWasAccepted, AcceptedOnOk, SaveHasLock,
      LockedOut, Locking, Answer, Remote, Rows, NoRow, Refs, NoRef, Statuses,
      Versions, Requests, Ops, Stages, Idle, Request, Calls, Payload, Stored
<1> QED BY <1>1, <1>2, <1>3, <1>4, <1>5, <1>6, <1>7, <1>8, <1>9, <1>10, <1>11
    DEF IInv

LEMMA RollBackKeeps ==
  ASSUME IInv, NEW h \in Handlers, RollBack(h)
  PROVE  IInv'
<1>1. TypeOK'
  BY DEF IInv, TypeOK, SaveHasLock, OpsHaveCredential, RollBack, Answer,
      Release, Remote, Rows, NoRow, Refs, NoRef, Statuses, Versions,
      Requests, Ops, Locking, Stages, Idle, Request, Calls, Payload, Stored
<1>2. SaveHasLock'
  BY DEF IInv, TypeOK, SaveHasLock, StoredIsTaken, CreateIsFresh,
      OpsHaveCredential, RollBack, Answer, Release, Remote, Rows, NoRow,
      Requests, Ops, Locking, Stages, Idle, Request, Calls, Stored
<1>3. CreateIsFresh'
  BY DEF IInv, TypeOK, CreateIsFresh, OpsHaveCredential, RollBack, Answer,
      Release, Remote, Rows, NoRow, Requests, Ops, Locking, Stages, Idle,
      Request, Calls, Stored
<1>4. KeepsRevoked'
  BY DEF IInv, TypeOK, KeepsRevoked, SaveHasLock, CreateIsFresh, RollBack,
      Answer, Release, Remote, Rows, NoRow, Requests, Ops, Locking, Stages,
      Idle, Request, Calls, Stored
<1>5. AcceptedOnOk'
  BY DEF IInv, TypeOK, AcceptedOnOk, SaveHasLock, CallMatches, RollBack,
      Answer, Release, Remote, Rows, NoRow, Refs, NoRef, Statuses, Versions,
      Requests, Ops, Locking, Stages, Idle, Request, Calls, Payload, Stored
<1>6. RemovedOnOk'
  BY DEF IInv, TypeOK, RemovedOnOk, CallMatches, RollBack, Answer, Release,
      Remote, Rows, NoRow, Requests, Ops, Locking, Stages, Idle, Request,
      Calls, Stored
<1>7. CallMatches'
  BY DEF IInv, TypeOK, CallMatches, OneCall, SaveHasLock, RollBack, Answer,
      Release, Remote, Rows, NoRow, Refs, NoRef, Statuses, Versions,
      Requests, Ops, Locking, Stages, Idle, Request, Calls, Payload, Stored
<1>8. OneCall'
  BY DEF IInv, TypeOK, OneCall, CallMatches, RollBack, Answer, Release,
      Remote, Rows, NoRow, Requests, Ops, Locking, Stages, Idle, Request,
      Calls, Stored
<1>9. OpsHaveCredential'
  BY DEF IInv, TypeOK, OpsHaveCredential, StoredIsTaken, CreateIsFresh,
      SaveHasLock, RollBack, Answer, Release, Remote, Rows, NoRow, Requests,
      Ops, Locking, Stages, Idle, Request, Calls, Stored
<1>10. StoredIsTaken'
  BY DEF IInv, TypeOK, StoredIsTaken, SaveHasLock, CreateIsFresh, RollBack,
      Answer, Release, Remote, Rows, NoRow, Requests, Ops, Locking, Stages,
      Idle, Request, Calls, Stored
<1>11. CommittedWasAccepted'
  BY DEF IInv, TypeOK, CommittedWasAccepted, AcceptedOnOk, SaveHasLock,
      RollBack, Answer, Release, Remote, Rows, NoRow, Refs, NoRef, Statuses,
      Versions, Requests, Ops, Locking, Stages, Idle, Request, Calls,
      Payload, Stored
<1> QED BY <1>1, <1>2, <1>3, <1>4, <1>5, <1>6, <1>7, <1>8, <1>9, <1>10, <1>11
    DEF IInv

LEMMA CommitKeeps ==
  ASSUME IInv, NEW h \in Handlers, Commit(h)
  PROVE  IInv'
<1>1. TypeOK'
  BY DEF IInv, TypeOK, SaveHasLock, OpsHaveCredential, Commit, Answer,
      Release, Forget, Rows, NoRow, Refs, NoRef, Statuses, Versions,
      Requests, Ops, Locking, Stages, Idle, Request, Calls, Payload, Stored
<1>2. SaveHasLock'
  BY DEF IInv, TypeOK, SaveHasLock, StoredIsTaken, CreateIsFresh,
      OpsHaveCredential, Commit, Answer, Release, Forget, Rows, NoRow,
      Requests, Ops, Locking, Stages, Idle, Request, Calls, Stored
<1>3. CreateIsFresh'
  BY DEF IInv, TypeOK, CreateIsFresh, OpsHaveCredential, Commit, Answer,
      Release, Forget, Rows, NoRow, Requests, Ops, Locking, Stages, Idle,
      Request, Calls, Stored
<1>4. KeepsRevoked'
  BY DEF IInv, TypeOK, KeepsRevoked, SaveHasLock, CreateIsFresh, Commit,
      Answer, Release, Forget, Rows, NoRow, Requests, Ops, Locking, Stages,
      Idle, Request, Calls, Stored
<1>5. AcceptedOnOk'
  BY DEF IInv, TypeOK, AcceptedOnOk, SaveHasLock, CallMatches, Commit,
      Answer, Release, Forget, Rows, NoRow, Refs, NoRef, Statuses, Versions,
      Requests, Ops, Locking, Stages, Idle, Request, Calls, Payload, Stored
<1>6. RemovedOnOk'
  BY DEF IInv, TypeOK, RemovedOnOk, CallMatches, Commit, Answer, Release,
      Forget, Rows, NoRow, Requests, Ops, Locking, Stages, Idle, Request,
      Calls, Stored
<1>7. CallMatches'
  BY DEF IInv, TypeOK, CallMatches, OneCall, SaveHasLock, Commit, Answer,
      Release, Forget, Rows, NoRow, Refs, NoRef, Statuses, Versions,
      Requests, Ops, Locking, Stages, Idle, Request, Calls, Payload, Stored
<1>8. OneCall'
  BY DEF IInv, TypeOK, OneCall, CallMatches, Commit, Answer, Release, Forget,
      Rows, NoRow, Requests, Ops, Locking, Stages, Idle, Request, Calls,
      Stored
<1>9. OpsHaveCredential'
  BY DEF IInv, TypeOK, OpsHaveCredential, StoredIsTaken, CreateIsFresh,
      SaveHasLock, Commit, Answer, Release, Forget, Rows, NoRow, Requests,
      Ops, Locking, Stages, Idle, Request, Calls, Stored
<1>10. StoredIsTaken'
  BY DEF IInv, TypeOK, StoredIsTaken, SaveHasLock, CreateIsFresh, Commit,
      Answer, Release, Forget, Rows, NoRow, Requests, Ops, Locking, Stages,
      Idle, Request, Calls, Stored
<1>11. CommittedWasAccepted'
  BY DEF IInv, TypeOK, CommittedWasAccepted, AcceptedOnOk, SaveHasLock,
      Commit, Answer, Release, Forget, Rows, NoRow, Refs, NoRef, Statuses,
      Versions, Requests, Ops, Locking, Stages, Idle, Request, Calls,
      Payload, Stored
<1> QED BY <1>1, <1>2, <1>3, <1>4, <1>5, <1>6, <1>7, <1>8, <1>9, <1>10, <1>11
    DEF IInv

LEMMA CommitAfterCallKeeps ==
  ASSUME IInv, NEW h \in Handlers, CommitAfterCall(h)
  PROVE  IInv'
<1>1. TypeOK'
  BY DEF IInv, TypeOK, SaveHasLock, OpsHaveCredential, CommitAfterCall,
      Answer, Forget, Rows, NoRow, Refs, NoRef, Statuses, Versions, Requests,
      Ops, Locking, Stages, Idle, Request, Calls, Payload, Stored
<1>2. SaveHasLock'
  BY DEF IInv, TypeOK, SaveHasLock, StoredIsTaken, CreateIsFresh,
      OpsHaveCredential, CommitAfterCall, Answer, Forget, Rows, NoRow,
      Requests, Ops, Locking, Stages, Idle, Request, Calls, Stored
<1>3. CreateIsFresh'
  BY DEF IInv, TypeOK, CreateIsFresh, OpsHaveCredential, CommitAfterCall,
      Answer, Forget, Rows, NoRow, Requests, Ops, Locking, Stages, Idle,
      Request, Calls, Stored
<1>4. KeepsRevoked'
  BY DEF IInv, TypeOK, KeepsRevoked, SaveHasLock, CreateIsFresh,
      CommitAfterCall, Answer, Forget, Rows, NoRow, Requests, Ops, Locking,
      Stages, Idle, Request, Calls, Stored
<1>5. AcceptedOnOk'
  BY DEF IInv, TypeOK, AcceptedOnOk, SaveHasLock, CallMatches,
      CommitAfterCall, Answer, Forget, Rows, NoRow, Refs, NoRef, Statuses,
      Versions, Requests, Ops, Locking, Stages, Idle, Request, Calls,
      Payload, Stored
<1>6. RemovedOnOk'
  BY DEF IInv, TypeOK, RemovedOnOk, CallMatches, CommitAfterCall, Answer,
      Forget, Rows, NoRow, Requests, Ops, Locking, Stages, Idle, Request,
      Calls, Stored
<1>7. CallMatches'
  <2>1. \A k \in wire : k.by # h
    BY DEF IInv, CallMatches, CommitAfterCall
  <2> QED
    BY <2>1 DEF IInv, TypeOK, CallMatches, Calls, CommitAfterCall, Answer
<1>8. OneCall'
  BY DEF IInv, TypeOK, OneCall, CallMatches, CommitAfterCall, Answer, Forget,
      Rows, NoRow, Requests, Ops, Locking, Stages, Idle, Request, Calls,
      Stored
<1>9. OpsHaveCredential'
  BY DEF IInv, TypeOK, OpsHaveCredential, StoredIsTaken, CreateIsFresh,
      SaveHasLock, CommitAfterCall, Answer, Forget, Rows, NoRow, Requests,
      Ops, Locking, Stages, Idle, Request, Calls, Stored
<1>10. StoredIsTaken'
  BY DEF IInv, TypeOK, StoredIsTaken, SaveHasLock, CreateIsFresh,
      CommitAfterCall, Answer, Forget, Rows, NoRow, Requests, Ops, Locking,
      Stages, Idle, Request, Calls, Stored
<1>11. CommittedWasAccepted'
  BY DEF IInv, TypeOK, CommittedWasAccepted, AcceptedOnOk, SaveHasLock,
      CommitAfterCall, Answer, Forget, Rows, NoRow, Refs, NoRef, Statuses,
      Versions, Requests, Ops, Locking, Stages, Idle, Request, Calls,
      Payload, Stored
<1> QED BY <1>1, <1>2, <1>3, <1>4, <1>5, <1>6, <1>7, <1>8, <1>9, <1>10, <1>11
    DEF IInv

LEMMA TimeOutKeeps ==
  ASSUME IInv, NEW h \in Handlers, TimeOut(h)
  PROVE  IInv'
<1>1. TypeOK'
  <2>1. req' \in [Handlers -> Requests]
    BY DEF IInv, TypeOK, TimeOut, Requests, Stages
  <2>2. wire' \subseteq Calls
    BY DEF IInv, TypeOK, TimeOut, Calls
  <2> QED
    BY <2>1, <2>2 DEF IInv, TypeOK, TimeOut, Remote
<1>2. SaveHasLock'
  BY DEF IInv, TypeOK, SaveHasLock, StoredIsTaken, CreateIsFresh,
      OpsHaveCredential, TimeOut, Remote, Rows, NoRow, Requests, Ops,
      Locking, Stages, Idle, Request, Calls, Stored
<1>3. CreateIsFresh'
  BY DEF IInv, TypeOK, CreateIsFresh, OpsHaveCredential, TimeOut, Remote,
      Rows, NoRow, Requests, Ops, Locking, Stages, Idle, Request, Calls,
      Stored
<1>4. KeepsRevoked'
  BY DEF IInv, TypeOK, KeepsRevoked, SaveHasLock, CreateIsFresh, TimeOut,
      Remote, Rows, NoRow, Requests, Ops, Locking, Stages, Idle, Request,
      Calls, Stored
<1>5. AcceptedOnOk'
  BY DEF IInv, TypeOK, AcceptedOnOk, SaveHasLock, CallMatches, TimeOut,
      Remote, Rows, NoRow, Refs, NoRef, Statuses, Versions, Requests, Ops,
      Locking, Stages, Idle, Request, Calls, Payload, Stored
<1>6. RemovedOnOk'
  BY DEF IInv, TypeOK, RemovedOnOk, CallMatches, TimeOut, Remote, Rows,
      NoRow, Requests, Ops, Locking, Stages, Idle, Request, Calls, Stored
<1>7. CallMatches'
  BY DEF IInv, TypeOK, CallMatches, OneCall, SaveHasLock, TimeOut, Remote,
      Rows, NoRow, Refs, NoRef, Statuses, Versions, Requests, Ops, Locking,
      Stages, Idle, Request, Calls, Payload, Stored
<1>8. OneCall'
  BY DEF IInv, TypeOK, OneCall, CallMatches, TimeOut, Remote, Rows, NoRow,
      Requests, Ops, Locking, Stages, Idle, Request, Calls, Stored
<1>9. OpsHaveCredential'
  BY DEF IInv, TypeOK, OpsHaveCredential, StoredIsTaken, CreateIsFresh,
      SaveHasLock, TimeOut, Remote, Rows, NoRow, Requests, Ops, Locking,
      Stages, Idle, Request, Calls, Stored
<1>10. StoredIsTaken'
  BY DEF IInv, TypeOK, StoredIsTaken, SaveHasLock, CreateIsFresh, TimeOut,
      Remote, Rows, NoRow, Requests, Ops, Locking, Stages, Idle, Request,
      Calls, Stored
<1>11. CommittedWasAccepted'
  BY DEF IInv, TypeOK, CommittedWasAccepted, AcceptedOnOk, SaveHasLock,
      TimeOut, Remote, Rows, NoRow, Refs, NoRef, Statuses, Versions,
      Requests, Ops, Locking, Stages, Idle, Request, Calls, Payload, Stored
<1> QED BY <1>1, <1>2, <1>3, <1>4, <1>5, <1>6, <1>7, <1>8, <1>9, <1>10, <1>11
    DEF IInv

LEMMA CrashKeeps ==
  ASSUME IInv, Crash
  PROVE  IInv'
<1>1. TypeOK'
  <2>1. req' \in [Handlers -> Requests]
    BY DEF Crash, Requests, Ops, Locking, Stages, Idle, Request, Rows, NoRow,
        Versions
  <2>2. wire' \subseteq Calls
    BY DEF IInv, TypeOK, Crash, Calls
  <2> QED
    BY <2>1, <2>2 DEF IInv, TypeOK, Crash, Forget
<1>2. SaveHasLock'
  BY DEF IInv, TypeOK, SaveHasLock, StoredIsTaken, CreateIsFresh,
      OpsHaveCredential, Crash, Forget, Rows, NoRow, Requests, Ops, Locking,
      Stages, Idle, Request, Calls, Stored
<1>3. CreateIsFresh'
  BY DEF IInv, TypeOK, CreateIsFresh, OpsHaveCredential, Crash, Forget, Rows,
      NoRow, Requests, Ops, Locking, Stages, Idle, Request, Calls, Stored
<1>4. KeepsRevoked'
  BY DEF IInv, TypeOK, KeepsRevoked, SaveHasLock, CreateIsFresh, Crash,
      Forget, Rows, NoRow, Requests, Ops, Locking, Stages, Idle, Request,
      Calls, Stored
<1>5. AcceptedOnOk'
  BY DEF IInv, TypeOK, AcceptedOnOk, SaveHasLock, CallMatches, Crash, Forget,
      Rows, NoRow, Refs, NoRef, Statuses, Versions, Requests, Ops, Locking,
      Stages, Idle, Request, Calls, Payload, Stored
<1>6. RemovedOnOk'
  BY DEF IInv, TypeOK, RemovedOnOk, CallMatches, Crash, Forget, Rows, NoRow,
      Requests, Ops, Locking, Stages, Idle, Request, Calls, Stored
<1>7. CallMatches'
  BY DEF IInv, TypeOK, CallMatches, OneCall, SaveHasLock, Crash, Forget,
      Rows, NoRow, Refs, NoRef, Statuses, Versions, Requests, Ops, Locking,
      Stages, Idle, Request, Calls, Payload, Stored
<1>8. OneCall'
  BY DEF IInv, TypeOK, OneCall, CallMatches, Crash, Forget, Rows, NoRow,
      Requests, Ops, Locking, Stages, Idle, Request, Calls, Stored
<1>9. OpsHaveCredential'
  BY DEF IInv, TypeOK, OpsHaveCredential, StoredIsTaken, CreateIsFresh,
      SaveHasLock, Crash, Forget, Rows, NoRow, Requests, Ops, Locking,
      Stages, Idle, Request, Calls, Stored
<1>10. StoredIsTaken'
  BY DEF IInv, TypeOK, StoredIsTaken, SaveHasLock, CreateIsFresh, Crash,
      Forget, Rows, NoRow, Requests, Ops, Locking, Stages, Idle, Request,
      Calls, Stored
<1>11. CommittedWasAccepted'
  BY DEF IInv, TypeOK, CommittedWasAccepted, AcceptedOnOk, SaveHasLock,
      Crash, Forget, Rows, NoRow, Refs, NoRef, Statuses, Versions, Requests,
      Ops, Locking, Stages, Idle, Request, Calls, Payload, Stored
<1> QED BY <1>1, <1>2, <1>3, <1>4, <1>5, <1>6, <1>7, <1>8, <1>9, <1>10, <1>11
    DEF IInv

LEMMA LostKeeps ==
  ASSUME IInv, NEW k \in wire, Lost(k)
  PROVE  IInv'
<1>1. TypeOK'
  BY DEF IInv, TypeOK, SaveHasLock, OpsHaveCredential, Lost, Reply, Service,
      Remote, Rows, NoRow, Refs, NoRef, Statuses, Versions, Requests, Ops,
      Locking, Stages, Idle, Request, Calls, Payload, Stored
<1>2. SaveHasLock'
  BY DEF IInv, TypeOK, SaveHasLock, StoredIsTaken, CreateIsFresh,
      OpsHaveCredential, Lost, Reply, Service, Remote, Rows, NoRow, Requests,
      Ops, Locking, Stages, Idle, Request, Calls, Stored
<1>3. CreateIsFresh'
  BY DEF IInv, TypeOK, CreateIsFresh, OpsHaveCredential, Lost, Reply,
      Service, Remote, Rows, NoRow, Requests, Ops, Locking, Stages, Idle,
      Request, Calls, Stored
<1>4. KeepsRevoked'
  BY DEF IInv, TypeOK, KeepsRevoked, SaveHasLock, CreateIsFresh, Lost, Reply,
      Service, Remote, Rows, NoRow, Requests, Ops, Locking, Stages, Idle,
      Request, Calls, Stored
<1>5. AcceptedOnOk'
  BY DEF IInv, TypeOK, AcceptedOnOk, SaveHasLock, CallMatches, Lost, Reply,
      Service, Remote, Rows, NoRow, Refs, NoRef, Statuses, Versions,
      Requests, Ops, Locking, Stages, Idle, Request, Calls, Payload, Stored
<1>6. RemovedOnOk'
  BY DEF IInv, TypeOK, RemovedOnOk, CallMatches, Lost, Reply, Service,
      Remote, Rows, NoRow, Requests, Ops, Locking, Stages, Idle, Request,
      Calls, Stored
<1>7. CallMatches'
  BY DEF IInv, TypeOK, CallMatches, OneCall, SaveHasLock, Lost, Reply,
      Service, Remote, Rows, NoRow, Refs, NoRef, Statuses, Versions,
      Requests, Ops, Locking, Stages, Idle, Request, Calls, Payload, Stored
<1>8. OneCall'
  BY DEF IInv, TypeOK, OneCall, CallMatches, Lost, Reply, Service, Remote,
      Rows, NoRow, Requests, Ops, Locking, Stages, Idle, Request, Calls,
      Stored
<1>9. OpsHaveCredential'
  BY DEF IInv, TypeOK, OpsHaveCredential, StoredIsTaken, CreateIsFresh,
      SaveHasLock, Lost, Reply, Service, Remote, Rows, NoRow, Requests, Ops,
      Locking, Stages, Idle, Request, Calls, Stored
<1>10. StoredIsTaken'
  BY DEF IInv, TypeOK, StoredIsTaken, SaveHasLock, CreateIsFresh, Lost,
      Reply, Service, Remote, Rows, NoRow, Requests, Ops, Locking, Stages,
      Idle, Request, Calls, Stored
<1>11. CommittedWasAccepted'
  BY DEF IInv, TypeOK, CommittedWasAccepted, AcceptedOnOk, SaveHasLock, Lost,
      Reply, Service, Remote, Rows, NoRow, Refs, NoRef, Statuses, Versions,
      Requests, Ops, Locking, Stages, Idle, Request, Calls, Payload, Stored
<1> QED BY <1>1, <1>2, <1>3, <1>4, <1>5, <1>6, <1>7, <1>8, <1>9, <1>10, <1>11
    DEF IInv

LEMMA SyncKeeps ==
  ASSUME IInv, NEW k \in wire, Sync(k)
  PROVE  IInv'
<1>1. TypeOK'
  <2>1. req' \in [Handlers -> Requests]
    BY DEF IInv, TypeOK, Sync, Reply, Calls, Requests, Stages
  <2>2. wire' \subseteq Calls
    BY DEF IInv, TypeOK, Sync, Reply
  <2>3. ref' \in [Credentials -> Refs]
    BY DEF IInv, TypeOK, Sync, Calls, NoRef, Refs, Versions, Statuses
  <2>4. accepted' \subseteq Credentials \X Refs
    BY DEF IInv, TypeOK, Sync, Calls
  <2>5. removed' \subseteq Credentials
    BY DEF IInv, TypeOK, Sync, Calls, Service
  <2> QED
    BY <2>1, <2>2, <2>3, <2>4, <2>5 DEF IInv, TypeOK, Sync, Service
<1>2. SaveHasLock'
  BY DEF IInv, TypeOK, SaveHasLock, StoredIsTaken, CreateIsFresh,
      OpsHaveCredential, Sync, Reply, Service, Rows, NoRow, Requests, Ops,
      Locking, Stages, Idle, Request, Calls, Stored
<1>3. CreateIsFresh'
  BY DEF IInv, TypeOK, CreateIsFresh, OpsHaveCredential, Sync, Reply,
      Service, Rows, NoRow, Requests, Ops, Locking, Stages, Idle, Request,
      Calls, Stored
<1>4. KeepsRevoked'
  BY DEF IInv, TypeOK, KeepsRevoked, SaveHasLock, CreateIsFresh, Sync, Reply,
      Service, Rows, NoRow, Requests, Ops, Locking, Stages, Idle, Request,
      Calls, Stored
<1>5. AcceptedOnOk'
  BY DEF IInv, TypeOK, AcceptedOnOk, SaveHasLock, CallMatches, Sync, Reply,
      Service, Rows, NoRow, Refs, NoRef, Statuses, Versions, Requests, Ops,
      Locking, Stages, Idle, Request, Calls, Payload, Stored
<1>6. RemovedOnOk'
  BY DEF IInv, TypeOK, RemovedOnOk, CallMatches, Sync, Reply, Service, Rows,
      NoRow, Requests, Ops, Locking, Stages, Idle, Request, Calls, Stored
<1>7. CallMatches'
  BY DEF IInv, TypeOK, CallMatches, OneCall, SaveHasLock, Sync, Reply,
      Service, Rows, NoRow, Refs, NoRef, Statuses, Versions, Requests, Ops,
      Locking, Stages, Idle, Request, Calls, Payload, Stored
<1>8. OneCall'
  BY DEF IInv, TypeOK, OneCall, CallMatches, Sync, Reply, Service, Rows,
      NoRow, Requests, Ops, Locking, Stages, Idle, Request, Calls, Stored
<1>9. OpsHaveCredential'
  BY DEF IInv, TypeOK, OpsHaveCredential, StoredIsTaken, CreateIsFresh,
      SaveHasLock, Sync, Reply, Service, Rows, NoRow, Requests, Ops, Locking,
      Stages, Idle, Request, Calls, Stored
<1>10. StoredIsTaken'
  BY DEF IInv, TypeOK, StoredIsTaken, SaveHasLock, CreateIsFresh, Sync,
      Reply, Service, Rows, NoRow, Requests, Ops, Locking, Stages, Idle,
      Request, Calls, Stored
<1>11. CommittedWasAccepted'
  BY DEF IInv, TypeOK, CommittedWasAccepted, AcceptedOnOk, SaveHasLock, Sync,
      Reply, Service, Rows, NoRow, Refs, NoRef, Statuses, Versions, Requests,
      Ops, Locking, Stages, Idle, Request, Calls, Payload, Stored
<1> QED BY <1>1, <1>2, <1>3, <1>4, <1>5, <1>6, <1>7, <1>8, <1>9, <1>10, <1>11
    DEF IInv

LEMMA RemoveKeeps ==
  ASSUME IInv, NEW k \in wire, Remove(k)
  PROVE  IInv'
<1>1. TypeOK'
  <2>1. req' \in [Handlers -> Requests]
    BY DEF IInv, TypeOK, Remove, Reply, Calls, Requests, Stages
  <2>2. wire' \subseteq Calls
    BY DEF IInv, TypeOK, Remove, Reply
  <2>3. ref' \in [Credentials -> Refs]
    BY DEF IInv, TypeOK, Remove, Calls, NoRef, Refs, Versions, Statuses
  <2>4. accepted' \subseteq Credentials \X Refs
    BY DEF IInv, TypeOK, Remove, Calls
  <2>5. removed' \subseteq Credentials
    BY DEF IInv, TypeOK, Remove, Calls, Service
  <2> QED
    BY <2>1, <2>2, <2>3, <2>4, <2>5 DEF IInv, TypeOK, Remove, Service
<1>2. SaveHasLock'
  BY DEF IInv, TypeOK, SaveHasLock, StoredIsTaken, CreateIsFresh,
      OpsHaveCredential, Remove, Reply, Service, Rows, NoRow, Requests, Ops,
      Locking, Stages, Idle, Request, Calls, Stored
<1>3. CreateIsFresh'
  BY DEF IInv, TypeOK, CreateIsFresh, OpsHaveCredential, Remove, Reply,
      Service, Rows, NoRow, Requests, Ops, Locking, Stages, Idle, Request,
      Calls, Stored
<1>4. KeepsRevoked'
  BY DEF IInv, TypeOK, KeepsRevoked, SaveHasLock, CreateIsFresh, Remove,
      Reply, Service, Rows, NoRow, Requests, Ops, Locking, Stages, Idle,
      Request, Calls, Stored
<1>5. AcceptedOnOk'
  BY DEF IInv, TypeOK, AcceptedOnOk, SaveHasLock, CallMatches, Remove, Reply,
      Service, Rows, NoRow, Refs, NoRef, Statuses, Versions, Requests, Ops,
      Locking, Stages, Idle, Request, Calls, Payload, Stored
<1>6. RemovedOnOk'
  BY DEF IInv, TypeOK, RemovedOnOk, CallMatches, Remove, Reply, Service,
      Rows, NoRow, Requests, Ops, Locking, Stages, Idle, Request, Calls,
      Stored
<1>7. CallMatches'
  BY DEF IInv, TypeOK, CallMatches, OneCall, SaveHasLock, Remove, Reply,
      Service, Rows, NoRow, Refs, NoRef, Statuses, Versions, Requests, Ops,
      Locking, Stages, Idle, Request, Calls, Payload, Stored
<1>8. OneCall'
  BY DEF IInv, TypeOK, OneCall, CallMatches, Remove, Reply, Service, Rows,
      NoRow, Requests, Ops, Locking, Stages, Idle, Request, Calls, Stored
<1>9. OpsHaveCredential'
  BY DEF IInv, TypeOK, OpsHaveCredential, StoredIsTaken, CreateIsFresh,
      SaveHasLock, Remove, Reply, Service, Rows, NoRow, Requests, Ops,
      Locking, Stages, Idle, Request, Calls, Stored
<1>10. StoredIsTaken'
  BY DEF IInv, TypeOK, StoredIsTaken, SaveHasLock, CreateIsFresh, Remove,
      Reply, Service, Rows, NoRow, Requests, Ops, Locking, Stages, Idle,
      Request, Calls, Stored
<1>11. CommittedWasAccepted'
  BY DEF IInv, TypeOK, CommittedWasAccepted, AcceptedOnOk, SaveHasLock,
      Remove, Reply, Service, Rows, NoRow, Refs, NoRef, Statuses, Versions,
      Requests, Ops, Locking, Stages, Idle, Request, Calls, Payload, Stored
<1> QED BY <1>1, <1>2, <1>3, <1>4, <1>5, <1>6, <1>7, <1>8, <1>9, <1>10, <1>11
    DEF IInv

LEMMA AdminCreateKeeps ==
  ASSUME IInv, NEW c \in Credentials, NEW n \in Names, AdminCreate(c, n)
  PROVE  IInv'
<1>1. TypeOK'
  BY DEF IInv, TypeOK, AdminCreate, Refs, NoRef, Statuses, Versions
<1>2. /\ SaveHasLock' /\ CreateIsFresh' /\ KeepsRevoked' /\ AcceptedOnOk' /\ RemovedOnOk'
      /\ CallMatches' /\ OneCall' /\ OpsHaveCredential' /\ StoredIsTaken' /\ CommittedWasAccepted'
  BY DEF IInv, SaveHasLock, CreateIsFresh, KeepsRevoked, AcceptedOnOk,
      RemovedOnOk, CallMatches, OneCall, OpsHaveCredential, StoredIsTaken,
      CommittedWasAccepted, AdminCreate, Stored
<1> QED BY <1>1, <1>2 DEF IInv

LEMMA AdminSetKeeps ==
  ASSUME IInv, NEW c \in Credentials, NEW s \in Statuses, AdminSet(c, s)
  PROVE  IInv'
<1>1. TypeOK'
  <2>1. ref' \in [Credentials -> Refs]
    BY DEF IInv, TypeOK, AdminSet, Refs
  <2> QED
    BY <2>1 DEF IInv, TypeOK, AdminSet, ServiceSide
<1>2. /\ SaveHasLock' /\ CreateIsFresh' /\ KeepsRevoked' /\ AcceptedOnOk' /\ RemovedOnOk'
      /\ CallMatches' /\ OneCall' /\ OpsHaveCredential' /\ StoredIsTaken' /\ CommittedWasAccepted'
  BY DEF IInv, SaveHasLock, CreateIsFresh, KeepsRevoked, AcceptedOnOk,
      RemovedOnOk, CallMatches, OneCall, OpsHaveCredential, StoredIsTaken,
      CommittedWasAccepted, AdminSet, ServiceSide, Stored
<1> QED BY <1>1, <1>2 DEF IInv

LEMMA AdminDeleteKeeps ==
  ASSUME IInv, NEW c \in Credentials, AdminDelete(c)
  PROVE  IInv'
<1>1. TypeOK'
  BY DEF IInv, TypeOK, AdminDelete, ServiceSide, Refs, NoRef, Statuses,
      Versions
<1>2. /\ SaveHasLock' /\ CreateIsFresh' /\ KeepsRevoked' /\ AcceptedOnOk' /\ RemovedOnOk'
      /\ CallMatches' /\ OneCall' /\ OpsHaveCredential' /\ StoredIsTaken' /\ CommittedWasAccepted'
  BY DEF IInv, SaveHasLock, CreateIsFresh, KeepsRevoked, AcceptedOnOk,
      RemovedOnOk, CallMatches, OneCall, OpsHaveCredential, StoredIsTaken,
      CommittedWasAccepted, AdminDelete, ServiceSide, Stored
<1> QED BY <1>1, <1>2 DEF IInv

LEMMA InitHolds == Init => IInv
  BY DEF Init, IInv, TypeOK, SaveHasLock, CreateIsFresh, KeepsRevoked, AcceptedOnOk,
         RemovedOnOk, CallMatches, OneCall, OpsHaveCredential, StoredIsTaken,
         CommittedWasAccepted, Rows, NoRow, Refs, NoRef, Statuses, Versions,
         Requests, Ops, Locking, Stages, Idle, Request, Stored

LEMMA StutterKeeps == ASSUME IInv, UNCHANGED vars PROVE IInv'
  BY DEF vars, IInv, TypeOK, SaveHasLock, CreateIsFresh, KeepsRevoked, AcceptedOnOk,
         RemovedOnOk, CallMatches, OneCall, OpsHaveCredential, StoredIsTaken,
         CommittedWasAccepted, Stored

LEMMA StepKeeps == ASSUME IInv, [Next]_vars PROVE IInv'
<1>1. ASSUME NEW h \in Handlers, Begin(h) PROVE IInv'
  BY <1>1, CreateKeeps, UpdateKeeps, LifecycleKeeps, CallFirstKeeps DEF Begin
<1>2. ASSUME NEW h \in Handlers, Write(h) \/ LockedOut(h) \/ End(h) \/ TimeOut(h)
      PROVE  IInv'
  BY <1>2, WriteKeeps, LockedOutKeeps, CommitKeeps, CommitAfterCallKeeps,
     RollBackKeeps, TimeOutKeeps DEF End
<1>3. CASE ControlPlane
  BY <1>3, LostKeeps, SyncKeeps, RemoveKeeps, AdminCreateKeeps, AdminSetKeeps,
     AdminDeleteKeeps DEF ControlPlane
<1> QED BY <1>1, <1>2, <1>3, CrashKeeps, StutterKeeps DEF Next

LEMMA Invariance == Spec => []IInv
  BY InitHolds, StepKeeps, PTL DEF Spec

(* Rows, requests and calls keep their shape in every behaviour.           *)
THEOREM TypeCorrect == Spec => []TypeOK
  BY Invariance, PTL DEF IInv

(* Nothing is on file at the service that the Control Plane did not accept *)
(* first, however many requests, late calls and crashes there are.         *)
THEOREM CommitsOnlyAccepted == Spec => []CommittedWasAccepted
  BY Invariance, PTL DEF IInv

(* Only the handler that holds the write lock changes a row, and it starts *)
(* from the row on file: no step takes a revocation back.                  *)
LEMMA StepKeepsRevoked ==
  ASSUME IInv, [Next]_vars, NEW c \in Credentials,
         cred[c].stored, cred[c].status = "REVOKED", cred'[c].stored
  PROVE  cred'[c].status = "REVOKED"
<1>1. ASSUME NEW h \in Handlers, Commit(h) PROVE cred'[c].status = "REVOKED"
  BY <1>1 DEF IInv, TypeOK, KeepsRevoked, Commit
<1>2. ASSUME NEW h \in Handlers, CommitAfterCall(h) PROVE cred'[c].status = "REVOKED"
  BY <1>2 DEF IInv, TypeOK, CommitAfterCall, NoRow
<1>3. CASE UNCHANGED cred
  BY <1>3
<1> QED
  BY <1>1, <1>2, <1>3 DEF Next, vars, Begin, End, ControlPlane, Create, Update,
     Lifecycle, CallFirst, Write, LockedOut, RollBack, TimeOut, Crash, Lost, Sync,
     Remove, AdminCreate, AdminSet, AdminDelete, Service, ServiceSide

THEOREM RevocationIsFinal == Spec => RevokedStaysRevoked
<1>1. IInv /\ [Next]_vars => [\A c \in Credentials :
        Stored(c) /\ cred[c].status = "REVOKED" /\ cred'[c].stored
          => cred'[c].status = "REVOKED"]_vars
  BY StepKeepsRevoked DEF Stored
<1> QED BY <1>1, Invariance, PTL DEF Spec, RevokedStaysRevoked

(* A row goes only after its reference went.                               *)
LEMMA StepDeletesThereFirst ==
  ASSUME IInv, [Next]_vars, NEW c \in Credentials, cred[c].stored, ~cred'[c].stored
  PROVE  c \in removed
<1>1. ASSUME NEW h \in Handlers, CommitAfterCall(h) PROVE c \in removed
  BY <1>1 DEF IInv, TypeOK, RemovedOnOk, CommitAfterCall
<1>2. ASSUME NEW h \in Handlers, Commit(h) PROVE c \in removed
  BY <1>2 DEF IInv, TypeOK, Commit, SaveHasLock
<1>3. CASE UNCHANGED cred
  BY <1>3
<1> QED
  BY <1>1, <1>2, <1>3 DEF Next, vars, Begin, End, ControlPlane, Create, Update,
     Lifecycle, CallFirst, Write, LockedOut, RollBack, TimeOut, Crash, Lost, Sync,
     Remove, AdminCreate, AdminSet, AdminDelete, Service, ServiceSide

THEOREM ReferenceGoesFirst == Spec => DeletedThereFirst
<1>1. IInv /\ [Next]_vars => [\A c \in Credentials :
        Stored(c) /\ ~cred'[c].stored => c \in removed]_vars
  BY StepDeletesThereFirst DEF Stored
<1> QED BY <1>1, Invariance, PTL DEF Spec, DeletedThereFirst
=============================================================================
