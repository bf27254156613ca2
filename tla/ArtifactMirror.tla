--------------------------- MODULE ArtifactMirror ---------------------------
(***************************************************************************)
(* The artifact mirror.  A job that execute_operation_job has started runs *)
(* artifact_mirror.execute in a thread of its own; several jobs may be for *)
(* one artifact, and several artifacts may name one destination.  A step   *)
(* is one look at the destination, one fetch, or one change of the file    *)
(* system or registry.  Blueprints and PXE plans rest on what was          *)
(* mirrored; the worker that installs from the mirror is another process.  *)
(***************************************************************************)
EXTENDS Naturals, Sequences, FiniteSets, SequencesExt

CONSTANTS
  Items,        \* rows of artifact_mirror_items
  Jobs,         \* jobs with the executor artifact-mirror-worker
  Plans,        \* PXE plans
  Places,       \* destinations: paths below the mirror root, OCI tags
  Digests,      \* sha256 of a file, of a snapshot's archive, of a manifest
  Genuine,      \* the digests whose content passes its own metadata
  Rank,         \* sort_key of the manifest: component, name, key, id
  MaxCrashes,   \* bound: crashes of the Control Plane
  None

ASSUME MirrorAssumption ==
  /\ IsFiniteSet(Items) /\ Genuine \subseteq Digests
  /\ Rank \in [Items -> Nat]
  /\ \A i, j \in Items : Rank[i] = Rank[j] => i = j
  /\ MaxCrashes \in Nat
  /\ None \notin Jobs \cup Digests
  /\ Jobs \cap Plans = {}

Kinds == {"blob", "git-release", "ansible-collection", "repository", "oci"}
FileKinds == {"blob", "git-release", "ansible-collection"}
Forms == {"file", "tree", "tag"}

VARIABLES
  artifact,   \* the columns of an item that no handler changes
  shown,      \* shown[i]: verification_json of item i
  blueprint,  \* artifact_dependencies of a blueprint: a set of items
  dest,       \* what is at each destination
  aside,      \* aside[j]: what job j has renamed to its backup
  job,        \* the jobs and where their threads are
  install,    \* PXE plans: what they are bound to, what was checked
  stood,      \* history: items whose content was at its destination at some
              \* time since a job, or the worker's part of a plan, began
  crashes

vars == <<artifact, shown, blueprint, dest, aside, job, install, stood, crashes>>

\* mark: the digest that the marker file of a tree claims.
Nothing == [form |-> "none", digest |-> None, mark |-> None]
Contents == [form : Forms, digest : Digests, mark : Digests \cup {None}]
Unverified == [ok |-> FALSE, by |-> None]

Stages == {"new", "look", "marked", "fetch", "publish", "see", "aside", "rename",
           "rescue", "drop", "clean", "verify", "marker", "judged", "ended", "lost"}
NewJob == [item |-> None, replace |-> FALSE, stage |-> "new", got |-> None, ok |-> FALSE]
Verdicts == [ok : BOOLEAN, by : Jobs \cup {None}]
Installs == [roles : SUBSET Items, bound : [Items -> Verdicts], checked : SUBSET Items,
             stage : {"new", "planned", "started", "installed", "refused"}]
NewPlan == [roles |-> {}, bound |-> shown, stage |-> "new", checked |-> {}]

Form(kind) == CASE kind = "repository" -> "tree" [] kind = "oci" -> "tag" [] OTHER -> "file"
Bytes(kind, digest, mark) ==
  [form |-> Form(kind), digest |-> digest,
   mark |-> IF kind = "repository" THEN mark ELSE None]
Content(i) == Bytes(artifact[i].kind, artifact[i].digest, artifact[i].digest)
Place(i) == artifact[i].place
ItemOf(j) == job[j].item
PlaceOf(j) == Place(job[j].item)
Kind(j) == artifact[job[j].item].kind
There(j) == dest[PlaceOf(j)]
Wanted(j) == Content(job[j].item)
\* What the job has fetched; a repository's marker is written from the plan.
Fetched(j) == Bytes(Kind(j), job[j].got, Wanted(j).digest)

\* What a look at the destination compares: a tree is known by its marker.
LooksRight(j) ==
  IF Kind(j) = "repository" THEN There(j).form = "tree" /\ There(j).mark = Wanted(j).mark
                            ELSE There(j) = Wanted(j)

-----------------------------------------------------------------------------
(* What a step does *)

Running(j) == job[j].stage \notin {"new", "judged", "ended", "lost"}
Standing(d, S) == {i \in S : d[Place(i)] = Content(i)}
\* A plan asks for files, whatever kind the artifact has.
Files(d, S) == {i \in S : d[Place(i)].form = "file" /\ d[Place(i)].digest = artifact[i].digest}

Go(j, s) == job' = [job EXCEPT ![j].stage = s]
Judge(j, ok) == job' = [job EXCEPT ![j].stage = "judged", ![j].ok = ok]

\* The content of the destination of job j becomes c.
Put(j, c) ==
  LET d == [dest EXCEPT ![PlaceOf(j)] = c] IN
  /\ dest' = d
  /\ stood' = [k \in Jobs \cup Plans |->
       CASE k \in Jobs /\ Running(k) -> stood[k] \cup Standing(d, {ItemOf(k)})
         [] k \in Plans /\ install[k].stage = "started" ->
              stood[k] \cup Files(d, install[k].roles)
         [] OTHER -> stood[k]]

Rows == <<artifact, shown, blueprint, install, crashes>>
Disk == <<dest, aside, stood>>

-----------------------------------------------------------------------------
(* A job *)

\* The transaction that makes the job RUNNING; what authorised it is the
\* business of OperationJobs.
Start(j, i, replace) ==
  /\ job[j] = NewJob
  /\ job' = [job EXCEPT ![j] = [NewJob EXCEPT !.item = i, !.replace = replace,
                                              !.stage = "look"]]
  /\ stood' = [stood EXCEPT ![j] = Standing(dest, {i})]
  /\ UNCHANGED <<Rows, dest, aside>>

\* Source or destination is out of reach, the disk is full, a limit is passed.
Fails(j) ==
  /\ job[j].stage \in {"look", "marked", "fetch", "publish", "see", "verify", "marker"}
  /\ Judge(j, FALSE)
  /\ UNCHANGED <<Rows, Disk>>

\* A collection's archive and a repository's snapshot also carry their identity
\* and the digest of each of their files.
SoundCollection(served) == served \in Genuine
SoundSnapshot(served) == served \in Genuine

\* The destination holds what is wanted.  A repository is recognised by its
\* marker and validated in a second look.
LookHit(j) ==
  /\ job[j].stage = "look" /\ LooksRight(j)
  /\ CASE Kind(j) = "repository" -> Go(j, "marked")
       [] Kind(j) = "ansible-collection" -> Judge(j, SoundCollection(Wanted(j).digest))
       [] OTHER -> Judge(j, TRUE)
  /\ UNCHANGED <<Rows, Disk>>

\* validate_repository_tree: every file of the tree hashes to what the signed
\* metadata says, and nothing else is in it.
TreeVerifies(c) == c.form = "tree" /\ c.digest \in Genuine

ValidateMarked(j) ==
  /\ job[j].stage = "marked"
  /\ Judge(j, TreeVerifies(There(j)))
  /\ UNCHANGED <<Rows, Disk>>

\* Something of another form than the job's cannot be hashed or replaced.
Replaceable(j) ==
  There(j) = Nothing \/ (There(j).form = Wanted(j).form /\ job[j].replace)

LookOn(j) ==
  /\ job[j].stage = "look" /\ ~LooksRight(j)
  /\ CASE ~Replaceable(j) -> Judge(j, FALSE)
       [] Kind(j) = "oci" -> Go(j, "publish")
       [] OTHER -> Go(j, "fetch")
  /\ UNCHANGED <<Rows, Disk>>

\* The fetched bytes must have the pinned digest, whatever the source served,
\* before anything at the destination is touched.
\* Fault: the digest is not compared.
Unchecked(j, served) == served \in Digests
Pinned(j, served) == served = Wanted(j).digest

TakeIn(j, served, ok) ==
  /\ IF ok THEN job' = [job EXCEPT ![j].got = served,
                          ![j].stage = IF Kind(j) = "repository" THEN "see" ELSE "publish"]
           ELSE Judge(j, FALSE)
  /\ UNCHANGED <<Rows, Disk>>

Fetches(j, kind) == job[j].stage = "fetch" /\ Kind(j) = kind

FetchBlob(j, served) == Fetches(j, "blob") /\ TakeIn(j, served, Pinned(j, served))

\* The tag must still resolve to the pinned commit, whose archive is hashed.
FetchRelease(j, served, tagKept) ==
  Fetches(j, "git-release") /\ TakeIn(j, served, tagKept /\ Pinned(j, served))

FetchCollection(j, served) ==
  /\ Fetches(j, "ansible-collection")
  /\ TakeIn(j, served, Pinned(j, served) /\ SoundCollection(served))

FetchSnapshot(j, served) ==
  /\ Fetches(j, "repository")
  /\ TakeIn(j, served, Pinned(j, served) /\ SoundSnapshot(served))

Fetch(j, served) ==
  \/ FetchBlob(j, served) \/ FetchCollection(j, served) \/ FetchSnapshot(j, served)
  \/ \E tagKept \in BOOLEAN : FetchRelease(j, served, tagKept)

-----------------------------------------------------------------------------
(* Publishing a file or a tag: one atomic step *)

PublishFile(j) ==
  /\ job[j].stage = "publish" /\ Kind(j) \in FileKinds
  /\ IF There(j).form = "tree"
       THEN Judge(j, FALSE) /\ UNCHANGED Disk
       ELSE Put(j, Fetched(j)) /\ Go(j, "verify") /\ UNCHANGED aside
  /\ UNCHANGED Rows

\* The registry addresses the source by its digest, and skopeo keeps digests.
CopyTag(j) ==
  /\ job[j].stage = "publish" /\ Kind(j) = "oci"
  /\ Put(j, Wanted(j)) /\ Go(j, "verify")
  /\ UNCHANGED <<Rows, aside>>

\* The destination is read again and hashed.
VerifyFile(j) ==
  /\ job[j].stage = "verify" /\ Kind(j) # "repository"
  /\ Judge(j, LooksRight(j))
  /\ UNCHANGED <<Rows, Disk>>

-----------------------------------------------------------------------------
(* Publishing a repository: the old tree is renamed to a hidden backup, the *)
(* new one is renamed into its place, the backup is removed.                *)

SeeOld(j) ==
  /\ job[j].stage = "see"
  /\ Go(j, IF There(j) = Nothing THEN "rename" ELSE "aside")
  /\ UNCHANGED <<Rows, Disk>>

MoveAside(j) ==
  /\ job[j].stage = "aside"
  /\ IF There(j) = Nothing
       THEN Judge(j, FALSE) /\ UNCHANGED Disk
       ELSE /\ aside' = [aside EXCEPT ![j] = There(j)]
            /\ Put(j, Nothing)
            /\ Go(j, "rename")
  /\ UNCHANGED Rows

\* A directory replaces nothing but an empty one.
Rename(j) ==
  /\ job[j].stage = "rename" /\ There(j) = Nothing
  /\ Put(j, Fetched(j))
  /\ Go(j, IF aside[j] = Nothing THEN "verify" ELSE "drop")
  /\ UNCHANGED <<Rows, aside>>

RenameFails(j) ==
  /\ job[j].stage = "rename"
  /\ IF aside[j] = Nothing THEN Judge(j, FALSE) ELSE Go(j, "rescue")
  /\ UNCHANGED <<Rows, Disk>>

\* Fault: the backup is removed and the destination not looked at.
DropUnseen(j) ==
  /\ aside' = [aside EXCEPT ![j] = Nothing]
  /\ Judge(j, FALSE)
  /\ UNCHANGED <<dest, stood>>
PutBack(j) ==
  /\ aside' = IF There(j) # Nothing /\ aside[j].form # "tree"
                 THEN aside   \* rmtree removes trees only
                 ELSE [aside EXCEPT ![j] = Nothing]
  /\ IF There(j) = Nothing THEN Put(j, aside[j]) ELSE UNCHANGED <<dest, stood>>
  /\ Judge(j, FALSE)

\* The except clause looks first, and the finally clause once more.
Rescue(j) ==
  /\ job[j].stage = "rescue"
  /\ IF There(j) = Nothing THEN PutBack(j) ELSE Go(j, "clean") /\ UNCHANGED Disk
  /\ UNCHANGED Rows

Clean(j) ==
  /\ job[j].stage = "clean"
  /\ PutBack(j)
  /\ UNCHANGED Rows

Drop(j) ==
  /\ job[j].stage = "drop" /\ aside[j].form = "tree"
  /\ aside' = [aside EXCEPT ![j] = Nothing]
  /\ Go(j, "verify")
  /\ UNCHANGED <<Rows, dest, stood>>

DropFails(j) == job[j].stage = "drop" /\ Go(j, "clean") /\ UNCHANGED <<Rows, Disk>>

\* The tree is validated, and then its marker is read.
VerifyTree(j) ==
  /\ job[j].stage = "verify" /\ Kind(j) = "repository"
  /\ IF TreeVerifies(There(j)) THEN Go(j, "marker") ELSE Judge(j, FALSE)
  /\ UNCHANGED <<Rows, Disk>>

ReadMarker(j) ==
  /\ job[j].stage = "marker"
  /\ Judge(j, LooksRight(j))
  /\ UNCHANGED <<Rows, Disk>>

-----------------------------------------------------------------------------
(* The answer of the thread, in one transaction *)

\* Fault: the artifact's own id is stored for the id of the verification.
VerdictOfItem(j) == [ok |-> job[j].ok, by |-> ItemOf(j)]
Verdict(j) == [ok |-> job[j].ok, by |-> j]

Record(j) ==
  /\ job[j].stage = "judged"
  /\ Go(j, "ended")
  /\ shown' = [shown EXCEPT ![ItemOf(j)] = Verdict(j)]
  /\ UNCHANGED <<artifact, install, crashes, blueprint, Disk>>

\* Threads end, jobs stay RUNNING, and what was set aside stays where it is.
Crash ==
  /\ crashes < MaxCrashes
  /\ crashes' = crashes + 1
  /\ job' = [j \in Jobs |-> IF Running(j) \/ job[j].stage = "judged"
                              THEN [job[j] EXCEPT !.stage = "lost"] ELSE job[j]]
  /\ UNCHANGED <<artifact, shown, blueprint, install, Disk>>

-----------------------------------------------------------------------------
(* PXE plans *)

\* The manifest is READY: every role's item was mirrored to a file:// place.
ManifestReady(S) == S # {} /\ \A i \in S : shown[i].ok /\ Content(i).form # "tag"

PlanInstall(x, S) ==
  /\ install[x].stage = "new" /\ ManifestReady(S)
  /\ install' = [install EXCEPT ![x] = [roles |-> S, bound |-> shown,
                                        stage |-> "planned", checked |-> {}]]
  /\ UNCHANGED <<artifact, shown, blueprint, job, crashes, Disk>>

\* The hash of the manifest covers the verification of each of its items.
AsPlanned(x) == \A i \in install[x].roles : shown[i] = install[x].bound[i]

StartInstall(x) ==
  /\ install[x].stage = "planned" /\ AsPlanned(x)
  /\ install' = [install EXCEPT ![x].stage = "started"]
  /\ stood' = [stood EXCEPT ![x] = Files(dest, install[x].roles)]
  /\ UNCHANGED <<artifact, shown, blueprint, job, crashes, dest, aside>>

\* The worker hashes the files one after the other.
\* Fault: it looks whether a file is there.
FileThere(i) == dest[Place(i)].form = "file"
FileMatches(i) == FileThere(i) /\ dest[Place(i)].digest = artifact[i].digest

CheckFile(x, i) ==
  /\ install[x].stage = "started" /\ i \in install[x].roles \ install[x].checked
  /\ install' = IF FileMatches(i)
                  THEN [install EXCEPT ![x].checked = @ \cup {i}]
                  ELSE [install EXCEPT ![x].stage = "refused"]
  /\ UNCHANGED <<artifact, shown, blueprint, job, crashes, Disk>>

Install(x) ==
  /\ install[x].stage = "started" /\ install[x].checked = install[x].roles
  /\ install' = [install EXCEPT ![x].stage = "installed"]
  /\ UNCHANGED <<artifact, shown, blueprint, job, crashes, Disk>>

-----------------------------------------------------------------------------
(* The manifest of a blueprint *)

Needs(i) == (artifact[i].needs \cap blueprint) \ {i}
Followers(i) == {k \in blueprint : i \in Needs(k)}
Before(i, k) == Rank[i] < Rank[k]
Least(S) == CHOOSE i \in S : \A k \in S \ {i} : Before(i, k)

\* Fault: an item is released by the first of its dependencies.
ReleasedByAny(followers, left) == followers
Released(followers, left) == {k \in followers : left[k] = 0}

\* One round of the loop: the least ready item goes out, and its followers wait
\* for one dependency less.
Round(p) ==
  IF p.ready = {} THEN p
  ELSE LET i == Least(p.ready)
           left == [k \in blueprint |-> IF k \in Followers(i) THEN p.left[k] - 1
                                                              ELSE p.left[k]]
       IN  [left |-> left,
            ready |-> (p.ready \ {i}) \cup Released(Followers(i), left),
            out |-> Append(p.out, i)]

\* Before the first round, and after each.
Unsorted ==
  LET left == [i \in blueprint |-> Cardinality(Needs(i))]
  IN  [left |-> left, ready |-> {i \in blueprint : left[i] = 0}, out |-> <<>>]

Pass[n \in 0..Cardinality(blueprint)] == IF n = 0 THEN Unsorted ELSE Round(Pass[n - 1])

Sorted == Pass[Cardinality(blueprint)].out

Cyclic(out) == Len(out) # Cardinality(blueprint)

\* dependency_order: what a cycle holds back comes last, by sort_key.
Ahead(S, i) == Cardinality({k \in S : Before(k, i)})
ByRank(S) == [n \in 1..Cardinality(S) |-> CHOOSE i \in S : Ahead(S, i) = n - 1]
Order(out) == out \o ByRank(blueprint \ ToSet(out))

Trouble(i) ==
  \/ ~shown[i].ok
  \/ i \in artifact[i].needs
  \/ ~(artifact[i].needs \subseteq blueprint)

Ready(out) == ~Cyclic(out) /\ \A i \in blueprint : ~Trouble(i)

\* resume_from_artifact_id, as a position; one past the end when it is None.
ResumeAt(order) ==
  LET stops == {n \in DOMAIN order : Trouble(order[n])} IN
  IF stops = {} THEN Len(order) + 1 ELSE CHOOSE n \in stops : \A m \in stops : n <= m

-----------------------------------------------------------------------------
Init ==
  /\ artifact \in [Items -> [kind : Kinds, place : Places, digest : Digests,
                             needs : SUBSET Items]]
  /\ \A i, k \in Items : artifact[i].place = artifact[k].place =>
                           (artifact[i].kind = "oci" <=> artifact[k].kind = "oci")
  /\ blueprint \in SUBSET Items
  /\ shown = [i \in Items |-> Unverified]
  /\ dest \in [Places -> Contents \cup {Nothing}]
  /\ \A i \in Items : dest[Place(i)] # Nothing =>
                        /\ dest[Place(i)].form = "tag" <=> artifact[i].kind = "oci"
                        /\ dest[Place(i)].mark = IF dest[Place(i)].form = "tree"
                                                   THEN dest[Place(i)].digest ELSE None
  /\ aside = [j \in Jobs |-> Nothing]
  /\ job = [j \in Jobs |-> NewJob]
  /\ install = [x \in Plans |-> NewPlan]
  /\ stood = [k \in Jobs \cup Plans |-> {}]
  /\ crashes = 0

Look(j) == LookHit(j) \/ ValidateMarked(j) \/ LookOn(j)
Publish(j) ==
  PublishFile(j) \/ CopyTag(j) \/ SeeOld(j) \/ MoveAside(j) \/ Rename(j) \/ RenameFails(j)
Tidy(j) == Rescue(j) \/ Clean(j) \/ Drop(j) \/ DropFails(j)
Verify(j) == VerifyFile(j) \/ VerifyTree(j) \/ ReadMarker(j)

MirrorStep(j) ==
  \/ \E i \in Items, replace \in BOOLEAN : Start(j, i, replace)
  \/ \E d \in Digests : Fetch(j, d)
  \/ Look(j) \/ Publish(j) \/ Tidy(j) \/ Verify(j) \/ Fails(j) \/ Record(j)

InstallStep(x) ==
  \/ \E S \in SUBSET Items : PlanInstall(x, S)
  \/ \E i \in Items : CheckFile(x, i)
  \/ StartInstall(x) \/ Install(x)

Next == Crash \/ (\E j \in Jobs : MirrorStep(j)) \/ (\E x \in Plans : InstallStep(x))

Spec == Init /\ [][Next]_vars

-----------------------------------------------------------------------------
(* Properties *)

(* Items, jobs, plans and destinations keep their shape.                   *)
TypeOK ==
  /\ artifact \in [Items -> [kind : Kinds, place : Places, digest : Digests,
                             needs : SUBSET Items]]
  /\ shown \in [Items -> Verdicts]
  /\ blueprint \subseteq Items
  /\ dest \in [Places -> Contents \cup {Nothing}]
  /\ aside \in [Jobs -> Contents \cup {Nothing}]
  /\ job \in [Jobs -> [item : Items \cup {None}, replace : BOOLEAN,
                       stage : Stages, got : Digests \cup {None}, ok : BOOLEAN]]
  /\ install \in [Plans -> Installs]
  /\ \A x \in Plans : install[x].checked \subseteq install[x].roles
  /\ stood \in [Jobs \cup Plans -> SUBSET Items]
  /\ crashes \in 0..MaxCrashes

(* Publishing never loses what a destination held: once there is content,  *)
(* either the destination holds some or a backup does, whatever other jobs *)
(* rename meanwhile and whenever the process dies.                         *)
Keeps(j, p) == aside[j] # Nothing /\ PlaceOf(j) = p
Kept(p) == dest[p] # Nothing \/ \E j \in Jobs : Keeps(j, p)
NothingLost == [][\A p \in Places : Kept(p) => Kept(p)']_<<dest, aside, job>>

(* An artifact is called mirrored on what the job saw: its pinned content  *)
(* stood at the destination at some time between the job's start and end,  *)
(* although other jobs may put theirs there between any two of its steps.  *)
MirroredWasThere ==
  \A j \in Jobs : job[j].stage \in {"judged", "ended"} /\ job[j].ok =>
                    ItemOf(j) \in stood[j]

(* A plan installs from files that had the approved digest after the plan  *)
(* was started, even when another artifact took over the destination of an *)
(* artifact that is still shown as mirrored.                               *)
InstallsApprovedFiles ==
  \A x \in Plans : install[x].stage = "installed" => install[x].roles \subseteq stood[x]

(* The order of a blueprint's artifacts: each bound artifact once; before  *)
(* the point of resumption everything is mirrored and stands after all it  *)
(* needs; a cycle is reported exactly when some artifacts wait for each    *)
(* other.                                                                  *)
OrderIsSafe ==
  LET out == Sorted
      order == Order(out)
      Knotted(S) == S # {} /\ \A i \in S : Needs(i) \cap S # {}
  IN  /\ Len(order) = Cardinality(blueprint) /\ ToSet(order) = blueprint
      /\ Cyclic(out) <=> \E S \in SUBSET blueprint : Knotted(S)
      /\ ~Cyclic(out) => \A n \in 1..(ResumeAt(order) - 1) :
           /\ shown[order[n]].ok
           /\ artifact[order[n]].needs \subseteq {order[m] : m \in 1..(n - 1)}
      /\ Ready(out) => ResumeAt(order) = Len(order) + 1
=============================================================================
