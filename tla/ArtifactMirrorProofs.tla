------------------------- MODULE ArtifactMirrorProofs -------------------------
(***************************************************************************)
(* Proofs about ArtifactMirror, for any number of artifacts, jobs, PXE     *)
(* plans, destinations and crashes: MIRRORED is said of content that stood *)
(* at the destination, a plan installs files with the approved digests,    *)
(* publishing a repository never loses what was there, and the order of a  *)
(* blueprint's artifacts is right for every graph of dependencies.         *)
(*                                                                         *)
(* Several jobs rename trees to and from one destination.  What keeps the  *)
(* old content is that a job removes its backup when it has put something  *)
(* in its place, or sees something there; and the one step that removes a  *)
(* backup without looking, after the new tree has been renamed into place, *)
(* can only find the destination empty again when another job has moved    *)
(* that tree to a backup of its own, which it will not remove unseen.      *)
(***************************************************************************)
EXTENDS ArtifactMirror, FiniteSetTheorems, SequenceTheorems, WellFoundedInduction, TLAPS

-----------------------------------------------------------------------------
(* The inductive invariant                                                 *)

\* A job has an item from its start on, a backup where it will deal with one,
\* and publishes what it has compared with the pinned digest.
JobKnown(j) ==
  /\ job[j].stage = "new" => job[j] = NewJob /\ aside[j] = Nothing
  /\ job[j].stage # "new" => ItemOf(j) \in Items
  /\ job[j].stage \in {"rescue", "drop", "clean"} => aside[j] # Nothing
  /\ job[j].stage \in {"see", "aside", "rename"}
       \/ (job[j].stage = "publish" /\ Kind(j) # "oci") => job[j].got = Wanted(j).digest

\* The marker of a tree tells the digest of the snapshot it was made from.
Honest(c) == c.form = "tree" => c.mark = c.digest
MarksTrue ==
  /\ \A i \in Items : Honest(dest[Place(i)])
  /\ \A j \in Jobs : Honest(aside[j])

JobsKnown == (\A j \in Jobs : JobKnown(j)) /\ MarksTrue

\* What a job may go on to call mirrored, it has had at its destination.
SawIt(j) ==
  /\ Running(j) /\ There(j) = Wanted(j) => ItemOf(j) \in stood[j]
  /\ job[j].stage = "marked" => ItemOf(j) \in stood[j]
  /\ job[j].stage \in {"judged", "ended"} /\ job[j].ok => ItemOf(j) \in stood[j]

PlanSaw(x) ==
  /\ install[x].stage \in {"new", "planned"} => install[x].checked = {}
  /\ install[x].stage = "started" =>
       Files(dest, install[x].roles) \cup install[x].checked \subseteq stood[x]
  /\ install[x].stage = "installed" => install[x].roles \subseteq stood[x]

\* A job that is about to drop its backup unseen is not the last to hold
\* something of its destination.
Backed(j) ==
  job[j].stage = "drop" =>
    There(j) # Nothing \/ \E m \in Jobs : Keeps(m, PlaceOf(j)) /\ job[m].stage # "drop"

MirrorInv == TypeOK /\ JobsKnown

-----------------------------------------------------------------------------
(* How a job moves on                                                      *)

JobRows == [item : Items \cup {None}, replace : BOOLEAN, stage : Stages,
            got : Digests \cup {None}, ok : BOOLEAN]
Others(j) == \A k \in Jobs \ {j} : job'[k] = job[k]

LEMMA Went ==
  ASSUME TypeOK, NEW j \in Jobs, NEW s \in Stages, Go(j, s)
  PROVE  /\ job' \in [Jobs -> JobRows] /\ Others(j)
         /\ job'[j].stage = s /\ job'[j].item = job[j].item
         /\ job'[j].got = job[j].got /\ job'[j].ok = job[j].ok
  BY DEF TypeOK, Go, JobRows, Others

LEMMA WasJudged ==
  ASSUME TypeOK, NEW j \in Jobs, NEW ok \in BOOLEAN, Judge(j, ok)
  PROVE  /\ job' \in [Jobs -> JobRows] /\ Others(j)
         /\ job'[j].stage = "judged" /\ job'[j].item = job[j].item
         /\ job'[j].got = job[j].got /\ job'[j].ok = ok
  BY DEF TypeOK, Judge, JobRows, Others, Stages

LEMMA NothingFacts ==
  Nothing.form = "none" /\ Nothing \notin Contents /\ Honest(Nothing)
  BY DEF Nothing, Contents, Forms, Honest

LEMMA ContentFacts ==
  ASSUME TypeOK, NEW i \in Items
  PROVE  /\ Content(i) \in Contents /\ Content(i) # Nothing /\ Honest(Content(i))
         /\ Place(i) \in Places /\ artifact[i].kind \in Kinds
         /\ Content(i).digest = artifact[i].digest
         /\ artifact[i].kind = "repository" =>
              Content(i).form = "tree" /\ Content(i).mark = artifact[i].digest
  BY NothingFacts DEF TypeOK, Content, Bytes, Contents, Form, Forms, Honest, Place

\* One look at the destination recognises what the job wants; a tree has been
\* recognised by its marker.
LEMMA Recognised ==
  ASSUME MirrorInv, NEW j \in Jobs, ItemOf(j) \in Items, LooksRight(j)
  PROVE  There(j) = Wanted(j)
<1>1. CASE Kind(j) = "repository"
  <2>1. There(j) \in Contents /\ There(j).form = "tree" /\ There(j).mark = Wanted(j).mark
    BY <1>1, ContentFacts DEF LooksRight, MirrorInv, TypeOK, There, PlaceOf, Place, ItemOf,
       Nothing, Contents
  <2>2. There(j).digest = There(j).mark
    BY <2>1 DEF MirrorInv, JobsKnown, MarksTrue, Honest, There, PlaceOf, Place, ItemOf
  <2>3. Wanted(j) \in Contents /\ Wanted(j).form = "tree"
        /\ Wanted(j).digest = Wanted(j).mark
    BY <1>1, ContentFacts DEF MirrorInv, Wanted, ItemOf, Kind
  <2> QED BY <2>1, <2>2, <2>3 DEF Contents
<1>2. CASE Kind(j) # "repository"
  BY <1>2 DEF LooksRight
<1> QED BY <1>1, <1>2

\* What is published is what was wanted.
LEMMA FetchedIsWanted ==
  ASSUME NEW j \in Jobs, job[j].got = Wanted(j).digest
  PROVE  Fetched(j) = Wanted(j)
  BY DEF Fetched, Wanted, Content, Bytes, Kind, ItemOf

-----------------------------------------------------------------------------
(* What a change of a destination does to the history                      *)

LEMMA Subsets ==
  ASSUME NEW d, NEW S
  PROVE  Standing(d, S) \in SUBSET S /\ Files(d, S) \in SUBSET S
  BY DEF Standing, Files

LEMMA PutFacts ==
  ASSUME TypeOK, NEW j \in Jobs, ItemOf(j) \in Items, NEW c \in Contents \cup {Nothing},
         Put(j, c), UNCHANGED artifact
  PROVE  /\ dest' \in [Places -> Contents \cup {Nothing}]
         /\ dest'[PlaceOf(j)] = c
         /\ \A p \in Places \ {PlaceOf(j)} : dest'[p] = dest[p]
         /\ \A k \in Jobs : stood'[k] = IF Running(k)
                                          THEN stood[k] \cup Standing(dest', {ItemOf(k)})
                                          ELSE stood[k]
         /\ \A x \in Plans : stood'[x] = IF install[x].stage = "started"
                                           THEN stood[x] \cup Files(dest', install[x].roles)
                                           ELSE stood[x]
         /\ stood' = [k \in Jobs \cup Plans |-> stood'[k]]
<1>1. PlaceOf(j) \in Places
  BY ContentFacts DEF PlaceOf, ItemOf, Place
<1>2. dest' = [dest EXCEPT ![PlaceOf(j)] = c]
  BY DEF Put
<1>3. /\ dest' \in [Places -> Contents \cup {Nothing}] /\ dest'[PlaceOf(j)] = c
      /\ \A p \in Places \ {PlaceOf(j)} : dest'[p] = dest[p]
  BY <1>1, <1>2 DEF TypeOK
<1>4. stood' = [k \in Jobs \cup Plans |->
         CASE k \in Jobs /\ Running(k) -> stood[k] \cup Standing(dest', {ItemOf(k)})
           [] k \in Plans /\ install[k].stage = "started" ->
                stood[k] \cup Files(dest', install[k].roles)
           [] OTHER -> stood[k]]
  BY <1>2 DEF Put
<1>5. \A k \in Jobs : k \notin Plans
  BY MirrorAssumption
<1>6. \A k \in Jobs : stood'[k] = IF Running(k)
                                    THEN stood[k] \cup Standing(dest', {ItemOf(k)})
                                    ELSE stood[k]
  BY <1>4, <1>5
<1>7. \A x \in Plans : stood'[x] = IF install[x].stage = "started"
                                     THEN stood[x] \cup Files(dest', install[x].roles)
                                     ELSE stood[x]
  BY <1>4, <1>5
<1>8. stood' = [k \in Jobs \cup Plans |-> stood'[k]]
  BY <1>4
<1> QED BY <1>3, <1>6, <1>7, <1>8

LEMMA PutType ==
  ASSUME TypeOK, JobsKnown, NEW j \in Jobs, ItemOf(j) \in Items,
         NEW c \in Contents \cup {Nothing}, Put(j, c), UNCHANGED artifact
  PROVE  /\ dest' \in [Places -> Contents \cup {Nothing}]
         /\ stood' \in [Jobs \cup Plans -> SUBSET Items]
<1>1. ASSUME NEW k \in Jobs
      PROVE  stood'[k] \in SUBSET Items
  <2>1. Running(k) => ItemOf(k) \in Items
    BY DEF JobsKnown, JobKnown, Running
  <2>2. Standing(dest', {ItemOf(k)}) \in SUBSET {ItemOf(k)}
    BY Subsets
  <2>3. stood[k] \in SUBSET Items
    BY DEF TypeOK
  <2>4. stood'[k] = stood[k] \/ (Running(k) /\ stood'[k] = stood[k] \cup Standing(dest', {ItemOf(k)}))
    BY PutFacts
  <2> QED BY <2>1, <2>2, <2>3, <2>4
<1>2. ASSUME NEW x \in Plans
      PROVE  stood'[x] \in SUBSET Items
  <2>1. Files(dest', install[x].roles) \in SUBSET install[x].roles
    BY Subsets
  <2>2. stood[x] \in SUBSET Items /\ install[x].roles \in SUBSET Items
    BY DEF TypeOK, Installs
  <2>3. stood'[x] = stood[x] \/ stood'[x] = stood[x] \cup Files(dest', install[x].roles)
    BY PutFacts
  <2> QED BY <2>1, <2>2, <2>3
<1>3. \A k \in Jobs \cup Plans : stood'[k] \in SUBSET Items
  BY <1>1, <1>2
<1>4. stood' = [k \in Jobs \cup Plans |-> stood'[k]]
  BY PutFacts
<1>5. stood' \in [Jobs \cup Plans -> SUBSET Items]
  BY <1>3, <1>4
<1> QED BY <1>5, PutFacts

-----------------------------------------------------------------------------
(* The steps of a running job all have one shape                           *)

Moves(j) ==
  /\ (\E c \in {Wanted(j), Nothing, aside[j]} : Put(j, c)) \/ UNCHANGED <<dest, stood>>
  /\ \E c \in {Nothing, There(j), aside[j]} : aside' = [aside EXCEPT ![j] = c]

Works(j) ==
  /\ Running(j) /\ UNCHANGED Rows /\ Moves(j)
  /\ job' \in [Jobs -> JobRows] /\ Others(j)
  /\ job'[j].item = job[j].item /\ job'[j].stage \notin {"new", "ended", "lost"}

LEMMA Answers ==
  ASSUME NEW j \in Jobs, NEW c, NEW d
  PROVE  LooksRight(j) \in BOOLEAN /\ SoundCollection(d) \in BOOLEAN /\ TreeVerifies(c) \in BOOLEAN
<1>1. LooksRight(j) \in BOOLEAN
  <2>1. CASE Kind(j) = "repository"
    BY <2>1 DEF LooksRight
  <2>2. CASE Kind(j) # "repository"
    BY <2>2 DEF LooksRight
  <2> QED BY <2>1, <2>2
<1>2. SoundCollection(d) \in BOOLEAN
  BY DEF SoundCollection
<1>3. TreeVerifies(c) \in BOOLEAN
  BY DEF TreeVerifies
<1> QED BY <1>1, <1>2, <1>3

LEMMA Shape ==
  ASSUME MirrorInv, NEW j \in Jobs, MirrorStep(j)
  PROVE  \/ \E i \in Items, replace \in BOOLEAN : Start(j, i, replace)
         \/ Record(j)
         \/ Works(j)
<1> USE DEF MirrorInv
<1> DEFINE Busy == Stages \ {"new", "judged", "ended", "lost"}
<1>1. ASSUME UNCHANGED Disk
      PROVE  Moves(j)
  BY <1>1 DEF Disk, Moves, TypeOK
<1>2. ASSUME job[j].stage \in Busy, UNCHANGED Rows, Moves(j),
             (\E s \in Busy : Go(j, s)) \/ (\E ok \in BOOLEAN : Judge(j, ok))
      PROVE  Works(j)
  BY <1>2, Went, WasJudged DEF Works, Running
<1>3. \A s : s \in {"look", "marked", "fetch", "publish", "see", "aside", "rename", "rescue",
                    "drop", "clean", "verify", "marker"} => s \in Busy
  BY DEF Stages
<1> HIDE DEF Busy
<1>4. CASE Look(j)
  <2>1. LooksRight(j) \in BOOLEAN /\ SoundCollection(Wanted(j).digest) \in BOOLEAN
        /\ TreeVerifies(There(j)) \in BOOLEAN
    BY Answers
  <2>2. job[j].stage \in Busy /\ UNCHANGED Rows /\ UNCHANGED Disk
    BY <1>3, <1>4 DEF Look, LookHit, ValidateMarked, LookOn
  <2>3. (\E s \in Busy : Go(j, s)) \/ (\E ok \in BOOLEAN : Judge(j, ok))
    BY <1>3, <1>4, <2>1 DEF Look, LookHit, ValidateMarked, LookOn
  <2> QED BY <1>1, <1>2, <2>2, <2>3
<1>5. CASE \E d \in Digests : Fetch(j, d)
  <2>1. PICK d \in Digests, ok \in BOOLEAN : job[j].stage = "fetch" /\ TakeIn(j, d, ok)
    <3>1. PICK d \in Digests : Fetch(j, d)
      BY <1>5
    <3>2. /\ Pinned(j, d) \in BOOLEAN /\ SoundCollection(d) \in BOOLEAN
          /\ SoundSnapshot(d) \in BOOLEAN
      BY DEF Pinned, SoundCollection, SoundSnapshot
    <3>3. CASE FetchBlob(j, d)
      BY <3>2, <3>3 DEF FetchBlob, Fetches
    <3>4. CASE FetchCollection(j, d)
      BY <3>2, <3>4 DEF FetchCollection, Fetches
    <3>5. CASE FetchSnapshot(j, d)
      BY <3>2, <3>5 DEF FetchSnapshot, Fetches
    <3>6. ASSUME NEW tagKept \in BOOLEAN, FetchRelease(j, d, tagKept)
          PROVE  job[j].stage = "fetch" /\ TakeIn(j, d, tagKept /\ Pinned(j, d))
      BY <3>6 DEF FetchRelease, Fetches
    <3> QED BY <3>1, <3>2, <3>3, <3>4, <3>5, <3>6 DEF Fetch
  <2>2. CASE ~ok
    BY <1>1, <1>2, <1>3, <2>1, <2>2 DEF TakeIn
  <2>3. CASE ok
    <3>1. PICK s \in {"see", "publish"} :
            job' = [job EXCEPT ![j].got = d, ![j].stage = s]
      BY <2>1, <2>3 DEF TakeIn
    <3>2. /\ job' \in [Jobs -> JobRows] /\ Others(j)
          /\ job'[j].item = job[j].item /\ job'[j].stage = s
      BY <3>1 DEF TypeOK, JobRows, Others, Stages
    <3>3. UNCHANGED Rows /\ UNCHANGED Disk
      BY <2>1 DEF TakeIn
    <3> QED BY <1>1, <2>1, <3>2, <3>3 DEF Works, Running
  <2> QED BY <2>2, <2>3
<1>6. ASSUME UNCHANGED aside, job[j].stage \in {"publish", "rename"},
             (\E c \in {Wanted(j), Nothing, aside[j]} : Put(j, c))
      PROVE  Moves(j)
  BY <1>6 DEF Moves, TypeOK
<1>7. job[j].stage = "rename" \/ (job[j].stage = "publish" /\ Kind(j) # "oci")
        => Fetched(j) = Wanted(j)
  BY FetchedIsWanted DEF JobsKnown, JobKnown
<1>8. CASE PublishFile(j)
  <2>1. CASE There(j).form = "tree"
    BY <1>1, <1>2, <1>3, <1>8, <2>1 DEF PublishFile
  <2>2. CASE There(j).form # "tree"
    <3>1. Put(j, Wanted(j)) /\ Go(j, "verify") /\ UNCHANGED aside
      BY <1>7, <1>8, <2>2 DEF PublishFile, FileKinds
    <3> QED BY <1>2, <1>3, <1>6, <1>8, <3>1 DEF PublishFile
  <2> QED BY <2>1, <2>2
<1>9. CASE CopyTag(j)
  BY <1>2, <1>3, <1>6, <1>9 DEF CopyTag, Rows
<1>10. CASE Rename(j)
  <2>1. Put(j, Wanted(j)) /\ UNCHANGED aside /\ job[j].stage = "rename" /\ UNCHANGED Rows
    BY <1>7, <1>10 DEF Rename, Rows
  <2> QED BY <1>2, <1>3, <1>6, <1>10, <2>1 DEF Rename
<1>11. CASE SeeOld(j) \/ RenameFails(j)
  BY <1>1, <1>2, <1>3, <1>11 DEF SeeOld, RenameFails
<1>12. CASE MoveAside(j)
  <2>1. Moves(j)
    BY <1>1, <1>12 DEF MoveAside, Moves
  <2> QED BY <1>2, <1>3, <1>12, <2>1 DEF MoveAside
<1>13. ASSUME job[j].stage \in Busy, UNCHANGED Rows, PutBack(j)
       PROVE  Works(j)
  <2>1. UNCHANGED <<dest, stood>> \/ Put(j, aside[j])
    BY <1>13 DEF PutBack
  <2>2. aside' = [aside EXCEPT ![j] = Nothing] \/ aside' = [aside EXCEPT ![j] = aside[j]]
    BY <1>13 DEF PutBack, TypeOK
  <2>3. Moves(j)
    BY <2>1, <2>2 DEF Moves
  <2> QED BY <1>2, <1>13, <2>3 DEF PutBack
<1>14. CASE Rescue(j) \/ Clean(j)
  <2>1. CASE PutBack(j)
    BY <1>3, <1>13, <1>14, <2>1 DEF Rescue, Clean
  <2>2. CASE ~PutBack(j)
    BY <1>1, <1>2, <1>3, <1>14, <2>2 DEF Rescue, Clean
  <2> QED BY <2>1, <2>2
<1>15. CASE Drop(j)
  <2>1. Moves(j) /\ UNCHANGED Rows
    BY <1>15 DEF Drop, Moves, Rows
  <2> QED BY <1>2, <1>3, <1>15, <2>1 DEF Drop
<1>16. CASE DropFails(j) \/ Fails(j)
  BY <1>1, <1>2, <1>3, <1>16 DEF DropFails, Fails
<1>17. CASE Verify(j)
  <2>1. LooksRight(j) \in BOOLEAN
    BY Answers
  <2> QED BY <1>1, <1>2, <1>3, <1>17, <2>1 DEF Verify, VerifyFile, VerifyTree, ReadMarker
<1> QED BY <1>4, <1>5, <1>8, <1>9, <1>10, <1>11, <1>12, <1>14, <1>15, <1>16, <1>17
        DEF MirrorStep, Publish, Tidy

-----------------------------------------------------------------------------
(* Shapes are kept                                                         *)

\* What a step of a job moves is content that has its place there, and trees
\* with true markers.
LEMMA Moved ==
  ASSUME MirrorInv, NEW j \in Jobs, Works(j)
  PROVE  /\ ItemOf(j) \in Items /\ UNCHANGED artifact
         /\ dest' \in [Places -> Contents \cup {Nothing}]
         /\ stood' \in [Jobs \cup Plans -> SUBSET Items]
         /\ aside' \in [Jobs -> Contents \cup {Nothing}]
         /\ MarksTrue'
         /\ \A k \in Jobs \ {j} : aside'[k] = aside[k]
<1> USE DEF MirrorInv
<1>1. ItemOf(j) \in Items /\ UNCHANGED artifact
  BY DEF JobsKnown, JobKnown, Works, Running, Rows
<1>2. /\ There(j) \in Contents \cup {Nothing} /\ Honest(There(j))
      /\ Wanted(j) \in Contents \cup {Nothing} /\ Honest(Wanted(j))
      /\ aside[j] \in Contents \cup {Nothing} /\ Honest(aside[j])
      /\ Nothing \in Contents \cup {Nothing} /\ Honest(Nothing)
  BY <1>1, ContentFacts, NothingFacts
     DEF JobsKnown, MarksTrue, There, Wanted, PlaceOf, ItemOf, Place, TypeOK
<1>3. /\ aside' \in [Jobs -> Contents \cup {Nothing}]
      /\ \A k \in Jobs \ {j} : aside'[k] = aside[k]
      /\ \A k \in Jobs : Honest(aside'[k])
  <2>1. PICK c \in {Nothing, There(j), aside[j]} : aside' = [aside EXCEPT ![j] = c]
    BY DEF Works, Moves
  <2>2. aside'[j] = c /\ Honest(c) /\ \A k \in Jobs \ {j} : aside'[k] = aside[k]
    BY <1>2, <2>1 DEF TypeOK
  <2> QED BY <1>2, <2>1, <2>2 DEF TypeOK, JobsKnown, MarksTrue
<1>4. /\ dest' \in [Places -> Contents \cup {Nothing}]
      /\ stood' \in [Jobs \cup Plans -> SUBSET Items]
      /\ \A i \in Items : Honest(dest'[Place(i)])
  <2>1. CASE UNCHANGED <<dest, stood>>
    BY <2>1 DEF TypeOK, JobsKnown, MarksTrue
  <2>2. CASE \E c \in {Wanted(j), Nothing, aside[j]} : Put(j, c)
    <3>1. PICK c \in {Wanted(j), Nothing, aside[j]} : Put(j, c)
      BY <2>2
    <3>2. c \in Contents \cup {Nothing} /\ Honest(c)
      BY <1>2
    <3>3. dest'[PlaceOf(j)] = c /\ \A p \in Places \ {PlaceOf(j)} : dest'[p] = dest[p]
      BY <1>1, <3>1, <3>2, PutFacts
    <3>4. \A i \in Items : Honest(dest'[Place(i)])
      BY <3>2, <3>3, ContentFacts DEF JobsKnown, MarksTrue
    <3> QED BY <1>1, <3>1, <3>2, <3>4, PutType
  <2> QED BY <2>1, <2>2 DEF Works, Moves
<1>5. MarksTrue'
  BY <1>1, <1>3, <1>4 DEF MarksTrue, Place
<1> QED BY <1>1, <1>3, <1>4, <1>5

\* How a plan moves on.
PlanStages == {"new", "planned", "started", "installed", "refused"}

LEMMA StageSet ==
  ASSUME NEW q \in Installs, NEW s \in PlanStages, NEW r, r = [q EXCEPT !.stage = s]
  PROVE  r \in Installs /\ r.stage = s /\ r.roles = q.roles /\ r.checked = q.checked
  BY DEF Installs, PlanStages

LEMMA PlanWent ==
  ASSUME TypeOK, NEW x \in Plans,
         NEW s \in PlanStages,
         install' = [install EXCEPT ![x].stage = s]
  PROVE  /\ install' \in [Plans -> Installs]
         /\ install'[x].stage = s /\ install'[x].roles = install[x].roles
         /\ install'[x].checked = install[x].checked
         /\ \A y \in Plans \ {x} : install'[y] = install[y]
         /\ \A y \in Plans : install'[y].checked \subseteq install'[y].roles
<1>1. install[x] \in Installs
  BY DEF TypeOK
<1>2. install'[x] = [install[x] EXCEPT !.stage = s]
      /\ install' = [install EXCEPT ![x] = [install[x] EXCEPT !.stage = s]]
      /\ \A y \in Plans \ {x} : install'[y] = install[y]
  BY DEF TypeOK
<1>3. install'[x] \in Installs /\ install'[x].stage = s /\ install'[x].roles = install[x].roles
      /\ install'[x].checked = install[x].checked
  BY <1>1, <1>2, StageSet
<1>4. install' \in [Plans -> Installs]
  BY <1>2, <1>3 DEF TypeOK
<1> QED BY <1>2, <1>3, <1>4 DEF TypeOK

LEMMA PlanChecked ==
  ASSUME TypeOK, NEW x \in Plans, NEW i \in install[x].roles,
         install' = [install EXCEPT ![x].checked = @ \cup {i}]
  PROVE  /\ install' \in [Plans -> Installs]
         /\ install'[x].stage = install[x].stage /\ install'[x].roles = install[x].roles
         /\ install'[x].checked = install[x].checked \cup {i}
         /\ \A y \in Plans \ {x} : install'[y] = install[y]
         /\ \A y \in Plans : install'[y].checked \subseteq install'[y].roles
<1>0. PICK C : C = install[x].checked \cup {i}
  OBVIOUS
<1>1. install[x] \in Installs /\ C \in SUBSET Items /\ C \subseteq install[x].roles
  BY <1>0 DEF TypeOK, Installs
<1>2. install'[x] = [install[x] EXCEPT !.checked = C]
      /\ install' = [install EXCEPT ![x] = [install[x] EXCEPT !.checked = C]]
      /\ \A y \in Plans \ {x} : install'[y] = install[y]
  BY <1>0 DEF TypeOK
<1>3. install'[x] \in Installs /\ install'[x].stage = install[x].stage
      /\ install'[x].roles = install[x].roles /\ install'[x].checked = C
  BY <1>1, <1>2 DEF Installs
<1>4. install' \in [Plans -> Installs]
  BY <1>2, <1>3 DEF TypeOK
<1> QED BY <1>0, <1>1, <1>2, <1>3, <1>4 DEF TypeOK

LEMMA TypeStep ==
  ASSUME MirrorInv, [Next]_vars
  PROVE  TypeOK'
<1> USE DEF MirrorInv, TypeOK
<1>1. ASSUME NEW j \in Jobs, MirrorStep(j)
      PROVE  TypeOK'
  <2>1. CASE Works(j)
    BY <2>1, Moved DEF Works, Rows, JobRows
  <2>2. CASE Record(j)
    <3>1. Verdict(j) \in Verdicts
      BY DEF Verdict, Verdicts
    <3>2. job' \in [Jobs -> JobRows]
      BY <2>2, Went DEF Record, Stages
    <3> QED BY <2>2, <3>1, <3>2 DEF Record, Disk, JobRows
  <2>3. ASSUME NEW i \in Items, NEW replace \in BOOLEAN, Start(j, i, replace)
        PROVE  TypeOK'
    <3>1. job' \in [Jobs -> JobRows]
      BY <2>3 DEF Start, NewJob, JobRows, Stages
    <3>2. Standing(dest, {i}) \in SUBSET Items
      BY Subsets
    <3> QED BY <2>3, <3>1, <3>2 DEF Start, Rows, JobRows
  <2> QED BY <1>1, <2>1, <2>2, <2>3, Shape
<1>2. CASE Crash
  <2>0. job \in [Jobs -> JobRows]
    BY DEF JobRows
  <2>1. job' \in [Jobs -> JobRows]
    <3>1. job' = [j \in Jobs |->
                    IF Running(j) \/ job[j].stage = "judged"
                      THEN [job[j] EXCEPT !.stage = "lost"] ELSE job[j]]
      BY <1>2 DEF Crash
    <3> HIDE DEF MirrorInv, TypeOK
    <3>2. ASSUME NEW j \in Jobs
          PROVE  /\ job[j] \in JobRows
                 /\ [job[j] EXCEPT !.stage = "lost"] \in JobRows
      BY <2>0 DEF JobRows, Stages
    <3> QED BY <3>1, <3>2
  <2>2. crashes' \in 0 .. MaxCrashes
    BY <1>2, MirrorAssumption DEF Crash
  <2> QED BY <1>2, <2>1, <2>2 DEF Crash, Disk, JobRows
<1>3. ASSUME NEW x \in Plans, NEW S \in SUBSET Items, PlanInstall(x, S)
      PROVE  TypeOK'
  BY <1>3 DEF PlanInstall, Installs, Disk
<1>4. ASSUME NEW x \in Plans, NEW i \in Items, CheckFile(x, i)
      PROVE  TypeOK'
  <2>1. install' \in [Plans -> Installs]
        /\ \A y \in Plans : install'[y].checked \subseteq install'[y].roles
    BY <1>4, PlanWent, PlanChecked DEF CheckFile, PlanStages
  <2> QED BY <1>4, <2>1 DEF CheckFile, Disk
<1>5. ASSUME NEW x \in Plans, StartInstall(x)
      PROVE  TypeOK'
  <2>1. Files(dest, install[x].roles) \in SUBSET Items
    BY Subsets DEF Installs
  <2>2. stood' \in [Jobs \cup Plans -> SUBSET Items]
    BY <1>5, <2>1 DEF StartInstall
  <2>3. install' \in [Plans -> Installs]
        /\ \A y \in Plans : install'[y].checked \subseteq install'[y].roles
    BY <1>5, PlanWent DEF StartInstall, PlanStages
  <2> QED BY <1>5, <2>2, <2>3 DEF StartInstall
<1>6. ASSUME NEW x \in Plans, Install(x)
      PROVE  TypeOK'
  <2>1. install' \in [Plans -> Installs]
        /\ \A y \in Plans : install'[y].checked \subseteq install'[y].roles
    BY <1>6, PlanWent DEF Install, PlanStages
  <2> QED BY <1>6, <2>1 DEF Install, Disk
<1>7. CASE UNCHANGED vars
  BY <1>7 DEF vars
<1> QED BY <1>1, <1>2, <1>3, <1>4, <1>5, <1>6, <1>7 DEF Next, InstallStep

-----------------------------------------------------------------------------
(* A job knows its item, its backup and what it publishes                  *)

\* What a job has fetched, and a backup where it will be dealt with.
LEMMA KnownOfWork ==
  ASSUME MirrorInv, NEW j \in Jobs, MirrorStep(j), Works(j)
  PROVE  JobKnown(j)'
<1> USE DEF MirrorInv
<1> DEFINE Fetching(s) == s \in {"see", "aside", "rename"} \/ (s = "publish" /\ Kind(j) # "oci")
           Holding(s) == s \in {"rescue", "drop", "clean"}
<1>1. /\ ItemOf(j) \in Items /\ Wanted(j)' = Wanted(j) /\ Kind(j)' = Kind(j)
      /\ job'[j].item = job[j].item /\ job'[j].stage \notin {"new", "ended", "lost"}
  BY Moved DEF Works, Wanted, Content, Bytes, Kind, ItemOf
<1>2. /\ Fetching(job[j].stage) => job[j].got = Wanted(j).digest
      /\ Holding(job[j].stage) => aside[j] # Nothing
  BY DEF JobsKnown, JobKnown
<1>3. ASSUME Fetching(job'[j].stage) => job'[j].got = Wanted(j).digest,
             Holding(job'[j].stage) => aside'[j] # Nothing
      PROVE  JobKnown(j)'
  BY <1>1, <1>3 DEF JobKnown, ItemOf
<1>4. ASSUME job'[j].got = job[j].got,
             Fetching(job'[j].stage) => Fetching(job[j].stage),
             Holding(job'[j].stage) => aside'[j] # Nothing
      PROVE  JobKnown(j)'
  BY <1>2, <1>3, <1>4
<1>5. ASSUME NEW ok \in BOOLEAN, Judge(j, ok)
      PROVE  JobKnown(j)'
  BY <1>4, <1>5, WasJudged
<1>6. ASSUME NEW s \in {"marked", "fetch", "verify", "marker"}, Go(j, s)
      PROVE  JobKnown(j)'
  BY <1>4, <1>6, Went DEF Stages
<1>7. CASE Look(j)
  <2>1. CASE job'[j].stage = "publish"
    <3>1. Kind(j) = "oci" /\ job'[j].got = job[j].got
      BY <1>7, <2>1, WasJudged, Went, Answers
         DEF Look, LookHit, ValidateMarked, LookOn, Stages
    <3> QED BY <1>3, <2>1, <3>1
  <2>2. CASE job'[j].stage # "publish"
    <3>1. (\E s \in {"marked", "fetch"} : Go(j, s)) \/ (\E ok \in BOOLEAN : Judge(j, ok))
      BY <1>7, <2>2, Answers, Went DEF Look, LookHit, ValidateMarked, LookOn, Stages
    <3> QED BY <1>5, <1>6, <3>1
  <2> QED BY <2>1, <2>2
<1>8. CASE \E d \in Digests : Fetch(j, d)
  <2>1. PICK d \in Digests, ok \in BOOLEAN :
          TakeIn(j, d, ok) /\ (ok => d = Wanted(j).digest)
    BY <1>8 DEF Fetch, FetchBlob, FetchCollection, FetchSnapshot, FetchRelease, Fetches,
       Pinned, SoundCollection, SoundSnapshot
  <2>2. CASE ~ok
    BY <1>5, <2>1, <2>2 DEF TakeIn
  <2>3. CASE ok
    <3>1. PICK s \in {"see", "publish"} : job' = [job EXCEPT ![j].got = d, ![j].stage = s]
      BY <2>1, <2>3 DEF TakeIn
    <3>2. job'[j].got = d /\ job'[j].stage = s
      BY <3>1 DEF TypeOK
    <3> QED BY <1>3, <2>1, <2>3, <3>2
  <2> QED BY <2>2, <2>3
<1>9. CASE PublishFile(j) \/ CopyTag(j) \/ Fails(j) \/ Verify(j)
  <2>1. (\E s \in {"verify", "marker"} : Go(j, s)) \/ (\E ok \in BOOLEAN : Judge(j, ok))
    BY <1>9, Answers
       DEF PublishFile, CopyTag, Fails, Verify, VerifyFile, VerifyTree, ReadMarker
  <2> QED BY <1>5, <1>6, <2>1
<1>10. CASE SeeOld(j)
  <2>1. job'[j].stage \in {"aside", "rename"} /\ job'[j].got = job[j].got
        /\ job[j].stage = "see"
    BY <1>10, Went DEF SeeOld, Stages
  <2> QED BY <1>4, <2>1
<1>11. CASE MoveAside(j)
  <2>1. CASE There(j) = Nothing
    BY <1>5, <1>11, <2>1 DEF MoveAside
  <2>2. CASE There(j) # Nothing
    <3>1. job'[j].stage = "rename" /\ job'[j].got = job[j].got /\ job[j].stage = "aside"
      BY <1>11, <2>2, Went DEF MoveAside, Stages
    <3> QED BY <1>4, <3>1
  <2> QED BY <2>1, <2>2
<1>12. CASE Rename(j)
  <2>1. CASE aside[j] = Nothing
    BY <1>6, <1>12, <2>1 DEF Rename
  <2>2. CASE aside[j] # Nothing
    <3>1. job'[j].stage = "drop" /\ job'[j].got = job[j].got /\ aside' = aside
      BY <1>12, <2>2, Went DEF Rename, Stages
    <3> QED BY <1>4, <2>2, <3>1
  <2> QED BY <2>1, <2>2
<1>13. CASE RenameFails(j)
  <2>1. CASE aside[j] = Nothing
    BY <1>5, <1>13, <2>1 DEF RenameFails
  <2>2. CASE aside[j] # Nothing
    <3>1. job'[j].stage = "rescue" /\ job'[j].got = job[j].got /\ aside' = aside
      BY <1>13, <2>2, Went DEF RenameFails, Stages, Disk
    <3> QED BY <1>4, <2>2, <3>1
  <2> QED BY <2>1, <2>2
<1>14. CASE Rescue(j) \/ Clean(j) \/ DropFails(j)
  <2>1. CASE PutBack(j)
    BY <1>5, <2>1 DEF PutBack
  <2>2. CASE ~PutBack(j)
    <3>1. job'[j].stage = "clean" /\ job'[j].got = job[j].got /\ aside' = aside
          /\ job[j].stage \in {"rescue", "drop"}
      BY <1>14, <2>2, Went DEF Rescue, Clean, DropFails, Stages, Disk
    <3> QED BY <1>2, <1>4, <3>1
  <2> QED BY <2>1, <2>2
<1>15. CASE Drop(j)
  BY <1>6, <1>15 DEF Drop
<1>16. ASSUME Record(j) \/ \E i \in Items, replace \in BOOLEAN : Start(j, i, replace)
       PROVE  FALSE
  <2>1. NewJob.stage = "new"
    BY DEF NewJob
  <2> QED BY <1>16, <2>1 DEF Record, Start, Works, Running
<1> QED BY <1>7, <1>8, <1>9, <1>10, <1>11, <1>12, <1>13, <1>14, <1>15, <1>16
        DEF MirrorStep, Publish, Tidy

\* The steps of a job that are not work: it starts, its verdict is recorded.
LEMMA Started ==
  ASSUME MirrorInv, NEW j \in Jobs, NEW i \in Items, NEW replace \in BOOLEAN,
         Start(j, i, replace)
  PROVE  /\ job[j].stage = "new" /\ aside[j] = Nothing
         /\ Others(j) /\ UNCHANGED <<artifact, install, dest, aside>>
         /\ job'[j].stage = "look" /\ job'[j].item = i
         /\ stood' \in [Jobs \cup Plans -> SUBSET Items]
         /\ stood'[j] = Standing(dest, {i})
         /\ \A k \in (Jobs \cup Plans) \ {j} : stood'[k] = stood[k]
<1>1. NewJob.stage = "new"
  BY DEF NewJob
<1>2. [NewJob EXCEPT !.item = i, !.replace = replace, !.stage = "look"].stage = "look"
      /\ [NewJob EXCEPT !.item = i, !.replace = replace, !.stage = "look"].item = i
  BY DEF NewJob
<1>3. aside[j] = Nothing
  BY <1>1 DEF Start, MirrorInv, JobsKnown, JobKnown
<1>4. Standing(dest, {i}) \in SUBSET Items
  BY Subsets
<1> QED BY <1>1, <1>2, <1>3, <1>4 DEF Start, MirrorInv, TypeOK, Others, Rows

LEMMA Recorded ==
  ASSUME MirrorInv, NEW j \in Jobs, Record(j)
  PROVE  /\ job[j].stage = "judged" /\ job'[j].stage = "ended"
         /\ job'[j].item = job[j].item /\ job'[j].ok = job[j].ok
         /\ Others(j) /\ UNCHANGED <<artifact, install, dest, aside, stood>>
  BY Went DEF Record, MirrorInv, Disk, Stages

LEMMA Lost ==
  ASSUME MirrorInv, Crash
  PROVE  /\ UNCHANGED <<artifact, install, dest, aside, stood>>
         /\ \A k \in Jobs : \/ job'[k] = job[k] /\ ~Running(k)
                            \/ /\ Running(k) \/ job[k].stage = "judged"
                               /\ job'[k].stage = "lost" /\ job'[k].item = job[k].item
  BY DEF Crash, MirrorInv, TypeOK, Disk, Running

\* A plan's steps leave the jobs and what is on disk alone.
LEMMA PlanStepFacts ==
  ASSUME MirrorInv, NEW x \in Plans, InstallStep(x)
  PROVE  /\ UNCHANGED <<artifact, job, dest, aside>>
         /\ \A k \in (Jobs \cup Plans) \ {x} : stood'[k] = stood[k]
<1>1. ASSUME StartInstall(x)
      PROVE  /\ UNCHANGED <<artifact, job, dest, aside>>
             /\ \A k \in (Jobs \cup Plans) \ {x} : stood'[k] = stood[k]
  BY <1>1 DEF StartInstall, MirrorInv, TypeOK
<1>2. ASSUME (\E S \in SUBSET Items : PlanInstall(x, S)) \/ Install(x)
               \/ (\E i \in Items : CheckFile(x, i))
      PROVE  UNCHANGED <<artifact, job, dest, aside, stood>>
  BY <1>2 DEF PlanInstall, Install, CheckFile, Disk
<1> QED BY <1>1, <1>2 DEF InstallStep

LEMMA StaysKnown ==
  ASSUME NEW j \in Jobs, JobKnown(j), UNCHANGED artifact, job'[j] = job[j], aside'[j] = aside[j]
  PROVE  JobKnown(j)'
  BY DEF JobKnown, ItemOf, Kind, Wanted, Content, Bytes

LEMMA KnownStep ==
  ASSUME MirrorInv, [Next]_vars
  PROVE  JobsKnown'
<1> USE DEF MirrorInv
<1>1. ASSUME UNCHANGED <<artifact, dest, aside>>
      PROVE  MarksTrue'
  BY <1>1 DEF JobsKnown, MarksTrue, Place
<1>2. ASSUME NEW j \in Jobs, UNCHANGED artifact, MarksTrue', JobKnown(j)', Others(j),
             \A k \in Jobs \ {j} : aside'[k] = aside[k]
      PROVE  JobsKnown'
  BY <1>2, StaysKnown DEF JobsKnown, Others
<1>3. ASSUME NEW j \in Jobs, MirrorStep(j), Works(j)
      PROVE  JobsKnown'
  BY <1>2, <1>3, KnownOfWork, Moved DEF Works
<1>4. ASSUME NEW j \in Jobs, NEW i \in Items, NEW replace \in BOOLEAN, Start(j, i, replace)
      PROVE  JobsKnown'
  <2>1. JobKnown(j)'
    BY <1>4, Started DEF JobKnown, ItemOf
  <2> QED BY <1>1, <1>2, <1>4, <2>1, Started
<1>5. ASSUME NEW j \in Jobs, Record(j)
      PROVE  JobsKnown'
  <2>1. JobKnown(j)'
    BY <1>5, Recorded DEF JobKnown, JobsKnown, ItemOf
  <2> QED BY <1>1, <1>2, <1>5, <2>1, Recorded
<1>6. CASE Crash
  <2>1. UNCHANGED <<artifact, dest, aside>>
    BY <1>6, Lost
  <2>2. ASSUME NEW k \in Jobs
        PROVE  JobKnown(k)'
    <3>1. CASE job'[k] = job[k]
      BY <2>1, <3>1, StaysKnown DEF JobsKnown
    <3>2. CASE job'[k] # job[k]
      <4>1. job'[k].stage = "lost" /\ job'[k].item = job[k].item /\ job[k].stage # "new"
        BY <1>6, <3>2, Lost DEF Running
      <4> QED BY <4>1 DEF JobKnown, JobsKnown, ItemOf
    <3> QED BY <3>1, <3>2
  <2> QED BY <1>1, <2>1, <2>2 DEF JobsKnown
<1>7. CASE UNCHANGED <<artifact, job, dest, aside>>
  BY <1>1, <1>7, StaysKnown DEF JobsKnown
<1>8. CASE (\E x \in Plans : InstallStep(x)) \/ UNCHANGED vars
  BY <1>7, <1>8, PlanStepFacts DEF vars
<1> QED BY <1>3, <1>4, <1>5, <1>6, <1>8, Shape DEF Next

-----------------------------------------------------------------------------
(* What is called mirrored was there                                       *)

\* Whatever a job puts anywhere, the others see it.
LEMMA Watched ==
  ASSUME MirrorInv, NEW j \in Jobs, Works(j), NEW k \in Jobs, SawIt(k)
  PROVE  /\ stood[k] \subseteq stood'[k]
         /\ Running(k) /\ dest'[PlaceOf(k)] = Wanted(k) => ItemOf(k) \in stood'[k]
<1>1. CASE UNCHANGED <<dest, stood>>
  BY <1>1 DEF SawIt, There
<1>2. CASE \E c \in {Wanted(j), Nothing, aside[j]} : Put(j, c)
  <2>1. PICK c \in {Wanted(j), Nothing, aside[j]} : Put(j, c)
    BY <1>2
  <2>2. c \in Contents \cup {Nothing} /\ ItemOf(j) \in Items /\ UNCHANGED artifact
    BY Moved, ContentFacts DEF MirrorInv, TypeOK, Wanted, ItemOf
  <2>3. stood'[k] = IF Running(k) THEN stood[k] \cup Standing(dest', {ItemOf(k)}) ELSE stood[k]
    BY <2>1, <2>2, PutFacts DEF MirrorInv
  <2>4. dest'[PlaceOf(k)] = Wanted(k) => ItemOf(k) \in Standing(dest', {ItemOf(k)})
    BY DEF Standing, PlaceOf, Place, Wanted, ItemOf
  <2> QED BY <2>3, <2>4
<1> QED BY <1>1, <1>2 DEF Works, Moves

\* A job says that its artifact is mirrored when it sees it.
LEMMA Witnessed ==
  ASSUME MirrorInv, NEW j \in Jobs, SawIt(j), MirrorStep(j), Works(j),
         job'[j].stage = "marked" \/ (job'[j].stage = "judged" /\ job'[j].ok)
  PROVE  ItemOf(j) \in stood[j]
<1> USE DEF MirrorInv
<1>1. ASSUME LooksRight(j)
      PROVE  ItemOf(j) \in stood[j]
  BY <1>1, Recognised, Moved DEF Works, SawIt
<1>2. ASSUME Judge(j, FALSE)
      PROVE  FALSE
  BY <1>2, WasJudged
<1>3. ASSUME NEW s \in Stages \ {"marked", "judged"}, Go(j, s)
      PROVE  FALSE
  BY <1>3, Went
<1>4. CASE Look(j)
  <2>1. CASE LookHit(j)
    BY <1>1, <2>1 DEF LookHit
  <2>2. CASE ValidateMarked(j)
    BY <2>2 DEF ValidateMarked, SawIt
  <2>3. CASE LookOn(j)
    BY <1>2, <1>3, <2>3 DEF LookOn, Stages
  <2> QED BY <1>4, <2>1, <2>2, <2>3 DEF Look
<1>5. CASE Verify(j)
  <2>1. CASE VerifyFile(j) \/ ReadMarker(j)
    <3>1. Judge(j, LooksRight(j))
      BY <2>1 DEF VerifyFile, ReadMarker
    <3>2. job'[j].ok = LooksRight(j) /\ job'[j].stage = "judged"
      BY <3>1, WasJudged, Answers
    <3> QED BY <1>1, <3>2
  <2>2. CASE VerifyTree(j)
    BY <1>2, <1>3, <2>2 DEF VerifyTree, Stages
  <2> QED BY <1>5, <2>1, <2>2 DEF Verify
<1>6. CASE \E d \in Digests : Fetch(j, d)
  <2>1. PICK d \in Digests, ok \in BOOLEAN : TakeIn(j, d, ok)
    BY <1>6 DEF Fetch, FetchBlob, FetchCollection, FetchSnapshot, FetchRelease, Fetches,
       Pinned, SoundCollection, SoundSnapshot
  <2>2. CASE ~ok
    BY <1>2, <2>1, <2>2 DEF TakeIn
  <2>3. CASE ok
    <3>1. PICK s \in {"see", "publish"} : job' = [job EXCEPT ![j].got = d, ![j].stage = s]
      BY <2>1, <2>3 DEF TakeIn
    <3>2. job'[j].stage = s
      BY <3>1 DEF TypeOK
    <3> QED BY <3>2
  <2> QED BY <2>2, <2>3
<1>7. CASE PublishFile(j) \/ CopyTag(j) \/ SeeOld(j) \/ MoveAside(j) \/ Rename(j)
             \/ RenameFails(j)
  <2>1. Judge(j, FALSE) \/ \E s \in Stages \ {"marked", "judged"} : Go(j, s)
    BY <1>7 DEF PublishFile, CopyTag, SeeOld, MoveAside, Rename, RenameFails, Stages
  <2> QED BY <1>2, <1>3, <2>1
<1>8. CASE Tidy(j) \/ Fails(j)
  <2>1. Judge(j, FALSE) \/ \E s \in Stages \ {"marked", "judged"} : Go(j, s)
    BY <1>8 DEF Tidy, Rescue, Clean, PutBack, Drop, DropFails, Fails, Stages
  <2> QED BY <1>2, <1>3, <2>1
<1>9. ASSUME Record(j) \/ \E i \in Items, replace \in BOOLEAN : Start(j, i, replace)
      PROVE  FALSE
  BY <1>9, Started, Recorded DEF Works, Running
<1> QED BY <1>4, <1>5, <1>6, <1>7, <1>8, <1>9 DEF MirrorStep, Publish

LEMMA SawStep ==
  ASSUME MirrorInv, \A j \in Jobs : SawIt(j), [Next]_vars
  PROVE  \A j \in Jobs : SawIt(j)'
<1> USE DEF MirrorInv
<1>1. ASSUME NEW k \in Jobs, UNCHANGED artifact, job'[k] = job[k],
             stood[k] \subseteq stood'[k],
             Running(k) /\ dest'[PlaceOf(k)] = Wanted(k) => ItemOf(k) \in stood'[k]
      PROVE  SawIt(k)'
  BY <1>1 DEF SawIt, Running, There, PlaceOf, Place, Wanted, Content, Bytes, ItemOf
<1>2. ASSUME NEW k \in Jobs, UNCHANGED artifact, job'[k] = job[k], stood'[k] = stood[k],
             UNCHANGED dest
      PROVE  SawIt(k)'
  BY <1>1, <1>2 DEF SawIt, There
<1>3. ASSUME NEW j \in Jobs, MirrorStep(j), Works(j)
      PROVE  \A k \in Jobs : SawIt(k)'
  <2>1. SawIt(j)'
    <3>1. /\ ItemOf(j)' = ItemOf(j) /\ Wanted(j)' = Wanted(j) /\ PlaceOf(j)' = PlaceOf(j)
          /\ Running(j)
      BY <1>3, Moved DEF Works, ItemOf, Wanted, Content, Bytes, PlaceOf, Place
    <3>2. There(j)' = Wanted(j)' => ItemOf(j)' \in stood'[j]
      BY <1>3, <3>1, Watched DEF There
    <3>3. job'[j].stage = "marked" \/ (job'[j].stage = "judged" /\ job'[j].ok)
            => ItemOf(j)' \in stood'[j]
      BY <1>3, <3>1, Watched, Witnessed
    <3> QED BY <1>3, <3>2, <3>3 DEF SawIt, Works
  <2>2. ASSUME NEW k \in Jobs \ {j}
        PROVE  SawIt(k)'
    BY <1>1, <1>3, <2>2, Moved, Watched DEF Works, Others
  <2> QED BY <2>1, <2>2
<1>4. ASSUME NEW j \in Jobs, NEW i \in Items, NEW replace \in BOOLEAN, Start(j, i, replace)
      PROVE  \A k \in Jobs : SawIt(k)'
  <2>1. SawIt(j)'
    BY <1>4, Started DEF SawIt, There, Wanted, Standing, PlaceOf, Place, Content, Bytes, ItemOf
  <2> QED BY <1>2, <1>4, <2>1, Started DEF Others
<1>5. ASSUME NEW j \in Jobs, Record(j)
      PROVE  \A k \in Jobs : SawIt(k)'
  <2>1. SawIt(j)'
    BY <1>5, Recorded DEF SawIt, Running, ItemOf
  <2> QED BY <1>2, <1>5, <2>1, Recorded DEF Others
<1>6. CASE Crash
  <2>1. ASSUME NEW k \in Jobs, job'[k] # job[k]
        PROVE  SawIt(k)'
    BY <1>6, <2>1, Lost DEF SawIt, Running
  <2> QED BY <1>2, <1>6, <2>1, Lost
<1>7. CASE \E x \in Plans : InstallStep(x)
  <2>1. PICK x \in Plans : InstallStep(x)
    BY <1>7
  <2>2. \A k \in Jobs : k # x
    BY MirrorAssumption
  <2> QED BY <1>2, <2>1, <2>2, PlanStepFacts
<1>8. CASE UNCHANGED vars
  BY <1>2, <1>8 DEF vars
<1> QED BY <1>3, <1>4, <1>5, <1>6, <1>7, <1>8, Shape DEF Next

-----------------------------------------------------------------------------
(* What a plan installs has had the approved digests                       *)

LEMMA PlanSawStep ==
  ASSUME MirrorInv, \A x \in Plans : PlanSaw(x), [Next]_vars
  PROVE  \A x \in Plans : PlanSaw(x)'
<1> USE DEF MirrorInv
<1>1. ASSUME NEW x \in Plans, UNCHANGED <<artifact, install, dest>>, stood'[x] = stood[x]
      PROVE  PlanSaw(x)'
  BY <1>1 DEF PlanSaw, Files, Place
<1>2. ASSUME NEW x \in Plans, UNCHANGED <<artifact, dest>>, stood'[x] = stood[x],
             install'[x] = install[x]
      PROVE  PlanSaw(x)'
  BY <1>2 DEF PlanSaw, Files, Place
<1>3. ASSUME NEW j \in Jobs, Works(j), NEW x \in Plans
      PROVE  PlanSaw(x)'
  <2>1. UNCHANGED <<artifact, install>>
    BY <1>3 DEF Works, Rows
  <2>2. CASE UNCHANGED <<dest, stood>>
    BY <1>1, <2>1, <2>2
  <2>3. CASE \E c \in {Wanted(j), Nothing, aside[j]} : Put(j, c)
    <3>1. PICK c \in {Wanted(j), Nothing, aside[j]} : Put(j, c)
      BY <2>3
    <3>2. c \in Contents \cup {Nothing} /\ ItemOf(j) \in Items
      BY <1>3, Moved, ContentFacts DEF TypeOK, Wanted, ItemOf
    <3>3. stood'[x] = IF install[x].stage = "started"
                        THEN stood[x] \cup Files(dest', install[x].roles) ELSE stood[x]
      BY <2>1, <3>1, <3>2, PutFacts
    <3>4. Files(dest, install[x].roles)' = Files(dest', install[x].roles)
      BY <2>1 DEF Files, Place
    <3> QED BY <2>1, <3>3, <3>4 DEF PlanSaw
  <2> QED BY <1>3, <2>2, <2>3 DEF Works, Moves
<1>4. ASSUME NEW j \in Jobs, MirrorStep(j), ~Works(j), NEW x \in Plans
      PROVE  PlanSaw(x)'
  <2>1. x # j
    BY MirrorAssumption
  <2>2. UNCHANGED <<artifact, install, dest>> /\ stood'[x] = stood[x]
    BY <1>4, <2>1, Shape, Started, Recorded
  <2> QED BY <1>1, <2>2
<1>5. ASSUME NEW x \in Plans, InstallStep(x)
      PROVE  PlanSaw(x)'
  <2>1. UNCHANGED <<artifact, dest>>
    BY <1>5, PlanStepFacts
  <2>2. ASSUME NEW S \in SUBSET Items, PlanInstall(x, S)
        PROVE  PlanSaw(x)'
    <3>1. install'[x].stage = "planned" /\ install'[x].checked = {}
      BY <2>2 DEF PlanInstall, TypeOK
    <3> QED BY <3>1 DEF PlanSaw
  <2>3. ASSUME StartInstall(x)
        PROVE  PlanSaw(x)'
    <3>1. /\ install'[x].stage = "started" /\ install'[x].checked = install[x].checked
          /\ install'[x].roles = install[x].roles /\ install[x].stage = "planned"
      BY <2>3, PlanWent DEF StartInstall, PlanStages
    <3>2. stood'[x] = Files(dest, install[x].roles) /\ install[x].checked = {}
      BY <2>3, <3>1 DEF StartInstall, TypeOK, PlanSaw
    <3>3. Files(dest, install[x].roles)' = Files(dest, install[x].roles)
      BY <2>1, <3>1 DEF Files, Place
    <3> QED BY <3>1, <3>2, <3>3 DEF PlanSaw
  <2>4. ASSUME NEW i \in Items, CheckFile(x, i)
        PROVE  PlanSaw(x)'
    <3>1. CASE FileMatches(i)
      <4>1. /\ install[x].stage = "started" /\ i \in install[x].roles
            /\ stood' = stood
            /\ install'[x].stage = "started" /\ install'[x].roles = install[x].roles
            /\ install'[x].checked = install[x].checked \cup {i}
        BY <2>4, <3>1, PlanChecked DEF CheckFile, Disk
      <4>2. i \in Files(dest, install[x].roles)
        BY <3>1, <4>1 DEF FileMatches, FileThere, Files
      <4>3. Files(dest, install[x].roles)' = Files(dest, install[x].roles)
        BY <2>1, <4>1 DEF Files, Place
      <4> QED BY <4>1, <4>2, <4>3 DEF PlanSaw
    <3>2. CASE ~FileMatches(i)
      <4>1. install'[x].stage = "refused"
        BY <2>4, <3>2, PlanWent DEF CheckFile, PlanStages
      <4> QED BY <4>1 DEF PlanSaw
    <3> QED BY <3>1, <3>2
  <2>5. ASSUME Install(x)
        PROVE  PlanSaw(x)'
    <3>1. /\ install[x].stage = "started" /\ install[x].checked = install[x].roles
          /\ stood' = stood
          /\ install'[x].stage = "installed" /\ install'[x].roles = install[x].roles
      BY <2>5, PlanWent DEF Install, PlanStages, Disk
    <3> QED BY <3>1 DEF PlanSaw
  <2> QED BY <1>5, <2>2, <2>3, <2>4, <2>5 DEF InstallStep
<1>6. ASSUME NEW x \in Plans, NEW y \in Plans \ {x}, InstallStep(y)
      PROVE  PlanSaw(x)'
  <2>1. UNCHANGED <<artifact, dest>> /\ stood'[x] = stood[x]
    BY <1>6, PlanStepFacts
  <2>2. install'[x] = install[x]
    BY <1>6, PlanWent, PlanChecked
       DEF InstallStep, PlanInstall, StartInstall, Install, CheckFile, PlanStages, TypeOK
  <2> QED BY <1>2, <2>1, <2>2
<1>7. CASE Crash \/ UNCHANGED vars
  BY <1>1, <1>7, Lost DEF vars
<1> QED BY <1>3, <1>4, <1>5, <1>6, <1>7 DEF Next

-----------------------------------------------------------------------------
(* Nothing is lost                                                         *)

\* A job that takes its backup away sees something in its place, unless it
\* drops it unseen; and what it takes from a destination it keeps as a backup.
TakesCare(j) ==
  /\ aside[j] # Nothing /\ aside'[j] = Nothing =>
       dest'[PlaceOf(j)] # Nothing \/ job[j].stage = "drop"
  /\ There(j) # Nothing /\ dest'[PlaceOf(j)] = Nothing =>
       aside'[j] # Nothing /\ job'[j].stage # "drop"
  /\ job'[j].stage = "drop" => dest'[PlaceOf(j)] # Nothing

LEMMA CareTaken ==
  ASSUME MirrorInv, NEW j \in Jobs, MirrorStep(j), Works(j)
  PROVE  TakesCare(j)
<1> USE DEF MirrorInv
<1>1. ASSUME dest'[PlaceOf(j)] # Nothing
      PROVE  TakesCare(j)
  BY <1>1 DEF TakesCare
<1>2. ASSUME UNCHANGED <<dest, aside>>, job'[j].stage # "drop"
      PROVE  TakesCare(j)
  BY <1>2 DEF TakesCare, There
<1>3. ASSUME UNCHANGED Disk, (\E ok \in BOOLEAN : Judge(j, ok))
                             \/ \E s \in Stages \ {"drop"} : Go(j, s)
      PROVE  TakesCare(j)
  BY <1>2, <1>3, Went, WasJudged DEF Disk
<1>4. ASSUME NEW c \in Contents, Put(j, c)
      PROVE  TakesCare(j)
  BY <1>1, <1>4, Moved, PutFacts, NothingFacts
<1>5. Wanted(j) \in Contents
  BY Moved, ContentFacts DEF Wanted, ItemOf
<1>6. CASE Look(j) \/ Verify(j) \/ Fails(j) \/ DropFails(j)
  <2>1. /\ UNCHANGED Disk
        /\ (\E ok \in BOOLEAN : Judge(j, ok)) \/ \E s \in Stages \ {"drop"} : Go(j, s)
    BY <1>6, Answers DEF Look, LookHit, ValidateMarked, LookOn, Verify, VerifyFile, VerifyTree,
       ReadMarker, Fails, DropFails, Stages
  <2> QED BY <1>3, <2>1
<1>7. CASE \E d \in Digests : Fetch(j, d)
  <2>1. PICK d \in Digests, ok \in BOOLEAN : TakeIn(j, d, ok)
    BY <1>7 DEF Fetch, FetchBlob, FetchCollection, FetchSnapshot, FetchRelease, Fetches,
       Pinned, SoundCollection, SoundSnapshot
  <2>2. job'[j].stage # "drop"
    BY <2>1, WasJudged DEF TakeIn, TypeOK
  <2> QED BY <1>2, <2>1, <2>2 DEF TakeIn, Disk
<1>8. CASE PublishFile(j)
  <2>1. CASE There(j).form = "tree"
    BY <1>3, <1>8, <2>1 DEF PublishFile
  <2>2. CASE There(j).form # "tree"
    <3>1. Put(j, Fetched(j)) /\ Fetched(j) = Wanted(j)
      BY <1>8, <2>2, FetchedIsWanted DEF PublishFile, FileKinds, JobsKnown, JobKnown
    <3> QED BY <1>4, <1>5, <3>1
  <2> QED BY <2>1, <2>2
<1>9. CASE CopyTag(j)
  BY <1>4, <1>5, <1>9 DEF CopyTag
<1>10. CASE Rename(j)
  <2>1. Put(j, Fetched(j)) /\ Fetched(j) = Wanted(j)
    BY <1>10, FetchedIsWanted DEF Rename, JobsKnown, JobKnown
  <2> QED BY <1>4, <1>5, <2>1
<1>11. CASE SeeOld(j) \/ RenameFails(j)
  <2>1. /\ UNCHANGED Disk
        /\ (\E ok \in BOOLEAN : Judge(j, ok)) \/ \E s \in Stages \ {"drop"} : Go(j, s)
    BY <1>11 DEF SeeOld, RenameFails, Stages
  <2> QED BY <1>3, <2>1
<1>12. CASE MoveAside(j)
  <2>1. CASE There(j) = Nothing
    BY <1>3, <1>12, <2>1 DEF MoveAside
  <2>2. CASE There(j) # Nothing
    <3>1. aside'[j] # Nothing /\ job'[j].stage = "rename"
      BY <1>12, <2>2, Went DEF MoveAside, Stages, TypeOK
    <3> QED BY <3>1 DEF TakesCare
  <2> QED BY <2>1, <2>2
<1>13. ASSUME PutBack(j), aside[j] # Nothing
       PROVE  TakesCare(j)
  <2>1. CASE There(j) = Nothing
    BY <1>4, <1>13, <2>1 DEF PutBack, TypeOK
  <2>2. CASE There(j) # Nothing
    BY <1>1, <1>13, <2>2 DEF PutBack, There
  <2> QED BY <2>1, <2>2
<1>14. CASE Rescue(j) \/ Clean(j)
  <2>1. aside[j] # Nothing
    BY <1>14 DEF Rescue, Clean, JobsKnown, JobKnown
  <2>2. PutBack(j) \/ (UNCHANGED Disk /\ Go(j, "clean"))
    BY <1>14 DEF Rescue, Clean
  <2>3. "clean" \in Stages \ {"drop"}
    BY DEF Stages
  <2> QED BY <1>3, <1>13, <2>1, <2>2, <2>3
<1>15. CASE Drop(j)
  <2>1. job[j].stage = "drop" /\ dest' = dest /\ job'[j].stage = "verify"
    BY <1>15, Went DEF Drop, Stages
  <2> QED BY <2>1 DEF TakesCare, There
<1>16. ASSUME Record(j) \/ \E i \in Items, replace \in BOOLEAN : Start(j, i, replace)
       PROVE  FALSE
  BY <1>16, Started, Recorded DEF Works, Running
<1> QED BY <1>6, <1>7, <1>8, <1>9, <1>10, <1>11, <1>12, <1>14, <1>15, <1>16
        DEF MirrorStep, Publish, Tidy

\* What a step of a job leaves alone.
LEMMA Elsewhere ==
  ASSUME MirrorInv, NEW j \in Jobs, Works(j)
  PROVE  /\ \A k \in Jobs : PlaceOf(k)' = PlaceOf(k)
         /\ \A p \in Places \ {PlaceOf(j)} : dest'[p] = dest[p]
         /\ \A k \in Jobs \ {j}, p \in Places : Keeps(k, p) => Keeps(k, p)'
<1>1. ItemOf(j) \in Items /\ UNCHANGED artifact
      /\ \A k \in Jobs \ {j} : aside'[k] = aside[k]
  BY Moved
<1>2. \A k \in Jobs : PlaceOf(k)' = PlaceOf(k)
  BY <1>1 DEF Works, Others, PlaceOf, Place
<1>3. \A p \in Places \ {PlaceOf(j)} : dest'[p] = dest[p]
  <2>1. CASE UNCHANGED <<dest, stood>>
    BY <2>1
  <2>2. CASE \E c \in {Wanted(j), Nothing, aside[j]} : Put(j, c)
    <3>1. PICK c : Put(j, c)
      BY <2>2
    <3> QED BY <3>1 DEF Put, MirrorInv, TypeOK
  <2> QED BY <2>1, <2>2 DEF Works, Moves
<1> QED BY <1>1, <1>2, <1>3 DEF Keeps

\* Jobs start, end and are lost with their backups, or without any.
LEMMA Untouched ==
  ASSUME MirrorInv, [Next]_vars, \A j \in Jobs : ~(MirrorStep(j) /\ Works(j))
  PROVE  /\ UNCHANGED <<dest, aside>>
         /\ \A k \in Jobs : aside[k] # Nothing => PlaceOf(k)' = PlaceOf(k)
         /\ \A k \in Jobs : job'[k].stage = "drop" => job[k].stage = "drop" /\ PlaceOf(k)' = PlaceOf(k)
         /\ \A k \in Jobs : job[k].stage # "drop" => job'[k].stage # "drop"
<1>1. ASSUME NEW j \in Jobs, NEW i \in Items, NEW replace \in BOOLEAN, Start(j, i, replace)
      PROVE  /\ UNCHANGED <<artifact, dest, aside>> /\ Others(j)
             /\ aside[j] = Nothing /\ job'[j].stage = "look"
  BY <1>1, Started
<1>2. ASSUME NEW j \in Jobs, Record(j)
      PROVE  /\ UNCHANGED <<artifact, dest, aside>> /\ Others(j)
             /\ job'[j].item = job[j].item /\ job'[j].stage = "ended"
  BY <1>2, Recorded
<1>3. CASE Crash
  BY <1>3, Lost DEF PlaceOf, Place
<1>4. CASE (\E x \in Plans : InstallStep(x)) \/ UNCHANGED vars
  <2>1. UNCHANGED <<artifact, job, dest, aside>>
    BY <1>4, PlanStepFacts DEF vars
  <2> QED BY <2>1 DEF PlaceOf, Place
<1>5. ASSUME NEW j \in Jobs, MirrorStep(j)
      PROVE  Record(j) \/ \E i \in Items, replace \in BOOLEAN : Start(j, i, replace)
  BY <1>5, Shape
<1> QED BY <1>1, <1>2, <1>3, <1>4, <1>5 DEF Next, Others, PlaceOf, Place

LEMMA BackedStep ==
  ASSUME MirrorInv, \A j \in Jobs : Backed(j), [Next]_vars
  PROVE  \A j \in Jobs : Backed(j)'
<1> USE DEF MirrorInv
<1>1. ASSUME NEW j \in Jobs, MirrorStep(j), Works(j), NEW i \in Jobs
      PROVE  Backed(i)'
  <2> DEFINE p == PlaceOf(i)
  <2>1. PlaceOf(i)' = p /\ TakesCare(j)
    BY <1>1, CareTaken, Elsewhere
  <2>2. CASE i = j
    BY <2>1, <2>2 DEF TakesCare, Backed, There
  <2>3. CASE i # j /\ job'[i].stage = "drop"
    <3>1. /\ job'[i] = job[i] /\ p \in Places
          /\ There(i) # Nothing \/ \E m \in Jobs : Keeps(m, p) /\ job[m].stage # "drop"
      BY <1>1, <2>3, ContentFacts
         DEF Works, Others, Backed, JobsKnown, JobKnown, PlaceOf, Place, ItemOf
    <3>2. CASE \E m \in Jobs \ {j} : Keeps(m, p) /\ job[m].stage # "drop"
      <4>1. PICK m \in Jobs \ {j} : Keeps(m, p) /\ job[m].stage # "drop"
        BY <3>2
      <4>2. Keeps(m, p)' /\ job'[m].stage # "drop"
        BY <1>1, <3>1, <4>1, Elsewhere DEF Works, Others
      <4> QED BY <2>1, <4>2 DEF Backed
    <3>3. CASE PlaceOf(j) # p
      <4>1. dest'[p] = dest[p] /\ ~Keeps(j, p)
        BY <1>1, <3>1, <3>3, Elsewhere DEF Keeps
      <4> QED BY <2>1, <3>1, <3>2, <4>1 DEF Backed, There
    <3>4. CASE PlaceOf(j) = p /\ dest'[p] = Nothing
      <4>1. CASE aside'[j] # Nothing /\ job'[j].stage # "drop"
        <5>1. Keeps(j, p)'
          BY <1>1, <3>4, <4>1, Elsewhere DEF Keeps
        <5> QED BY <2>1, <4>1, <5>1 DEF Backed
      <4>2. CASE ~(aside'[j] # Nothing /\ job'[j].stage # "drop")
        <5>1. There(i) = Nothing
          BY <2>1, <3>4, <4>2 DEF TakesCare, There
        <5>2. ~(aside[j] # Nothing /\ job[j].stage # "drop")
          BY <2>1, <3>4, <4>2 DEF TakesCare
        <5> QED BY <3>1, <3>2, <5>1, <5>2 DEF Keeps
      <4> QED BY <4>1, <4>2
    <3> QED BY <2>1, <3>3, <3>4 DEF Backed, There
  <2> QED BY <2>2, <2>3 DEF Backed
<1>2. CASE \A j \in Jobs : ~(MirrorStep(j) /\ Works(j))
  <2>1. \A k \in Jobs, p \in Places : Keeps(k, p) => Keeps(k, p)'
    BY <1>2, Untouched DEF Keeps
  <2>2. ASSUME NEW i \in Jobs, job'[i].stage = "drop"
        PROVE  Backed(i)'
    <3>1. /\ job[i].stage = "drop" /\ PlaceOf(i)' = PlaceOf(i) /\ dest' = dest
          /\ \A k \in Jobs : job[k].stage # "drop" => job'[k].stage # "drop"
      BY <1>2, <2>2, Untouched
    <3>2. PlaceOf(i) \in Places
      BY <3>1, ContentFacts DEF JobsKnown, JobKnown, PlaceOf, Place, ItemOf
    <3> QED BY <2>1, <3>1, <3>2 DEF Backed, There
  <2> QED BY <2>2 DEF Backed
<1> QED BY <1>1, <1>2

LEMMA KeptStep ==
  ASSUME MirrorInv, \A j \in Jobs : Backed(j), [Next]_vars, NEW p \in Places, Kept(p)
  PROVE  Kept(p)'
<1> USE DEF MirrorInv
<1>1. ASSUME NEW j \in Jobs, MirrorStep(j), Works(j)
      PROVE  Kept(p)'
  <2>1. TakesCare(j) /\ PlaceOf(j)' = PlaceOf(j)
    BY <1>1, CareTaken, Elsewhere
  <2>2. CASE \E k \in Jobs \ {j} : Keeps(k, p)
    BY <1>1, <2>2, Elsewhere DEF Kept
  <2>3. CASE PlaceOf(j) # p
    BY <1>1, <2>2, <2>3, Elsewhere DEF Kept, Keeps
  <2>4. CASE PlaceOf(j) = p /\ dest'[p] = Nothing /\ aside'[j] = Nothing
    <3>1. There(j) = Nothing
      BY <2>1, <2>4 DEF TakesCare
    <3>2. CASE aside[j] = Nothing
      BY <2>2, <2>4, <3>1, <3>2 DEF Kept, Keeps, There
    <3>3. CASE aside[j] # Nothing
      <4>1. job[j].stage = "drop"
        BY <2>1, <2>4, <3>3 DEF TakesCare
      <4>2. \E m \in Jobs : Keeps(m, p) /\ job[m].stage # "drop"
        BY <2>4, <3>1, <4>1 DEF Backed
      <4> QED BY <2>2, <4>1, <4>2
    <3> QED BY <3>2, <3>3
  <2>5. CASE PlaceOf(j) = p /\ (dest'[p] # Nothing \/ aside'[j] # Nothing)
    BY <2>1, <2>5 DEF Kept, Keeps
  <2> QED BY <2>3, <2>4, <2>5
<1>2. CASE \A j \in Jobs : ~(MirrorStep(j) /\ Works(j))
  BY <1>2, Untouched DEF Kept, Keeps
<1> QED BY <1>1, <1>2

-----------------------------------------------------------------------------
(* The theorems                                                            *)

AllSaw == (\A j \in Jobs : SawIt(j)) /\ (\A x \in Plans : PlanSaw(x))
AllBacked == \A j \in Jobs : Backed(j)

LEMMA Initially == Init => MirrorInv /\ AllSaw /\ AllBacked
<1> SUFFICES ASSUME Init
             PROVE  MirrorInv /\ AllSaw /\ AllBacked
  OBVIOUS
<1>1. /\ NewJob \in JobRows /\ NewJob.stage = "new" /\ Unverified \in Verdicts
  BY DEF NewJob, JobRows, Stages, Unverified, Verdicts
<1>2. shown \in [Items -> Verdicts]
  BY <1>1 DEF Init
<1>3. NewPlan \in Installs /\ NewPlan.stage = "new" /\ NewPlan.checked = {}
  BY <1>2 DEF NewPlan, Installs
<1>4. TypeOK
  BY <1>1, <1>2, <1>3, MirrorAssumption DEF Init, TypeOK, JobRows
<1>5. \A i \in Items : Honest(dest[Place(i)])
  BY NothingFacts DEF Init, Honest
<1>6. JobsKnown
  BY <1>1, <1>5, NothingFacts DEF Init, JobsKnown, JobKnown, MarksTrue
<1>7. AllSaw
  BY <1>1, <1>3 DEF Init, AllSaw, SawIt, PlanSaw, Running
<1>8. AllBacked
  BY <1>1 DEF Init, AllBacked, Backed
<1> QED BY <1>4, <1>6, <1>7, <1>8 DEF MirrorInv

LEMMA MirrorHolds == Spec => [](MirrorInv /\ AllSaw /\ AllBacked)
<1>1. MirrorInv /\ AllSaw /\ AllBacked /\ [Next]_vars => (MirrorInv /\ AllSaw /\ AllBacked)'
  BY TypeStep, KnownStep, SawStep, PlanSawStep, BackedStep DEF MirrorInv, AllSaw, AllBacked
<1> QED BY <1>1, Initially, PTL DEF Spec

\* Items, jobs, plans and destinations keep their shape.
THEOREM MirrorTypeCorrect == Spec => []TypeOK
<1>1. MirrorInv => TypeOK
  BY DEF MirrorInv
<1> QED BY <1>1, MirrorHolds, PTL

\* What a job of execute reports as mirrored stood at the destination between
\* its start and its end, whatever other jobs renamed there in the meantime.
THEOREM MirroredMeansThere == Spec => []MirroredWasThere
<1>1. AllSaw => MirroredWasThere
  BY DEF AllSaw, SawIt, MirroredWasThere
<1> QED BY <1>1, MirrorHolds, PTL

\* Every file that a PXE plan installs has had its approved digest at its place
\* since _execute_pxe began to check.
THEOREM InstalledMeansApproved == Spec => []InstallsApprovedFiles
<1>1. AllSaw => InstallsApprovedFiles
  BY DEF AllSaw, PlanSaw, InstallsApprovedFiles
<1> QED BY <1>1, MirrorHolds, PTL

\* Once a destination has held something, it or a backup holds something after
\* every step of _execute_repository_snapshot, of any job and any crash.
THEOREM PublishingLosesNothing == Spec => NothingLost
<1>1. MirrorInv /\ AllBacked /\ [Next]_vars
        => [\A p \in Places : Kept(p) => Kept(p)']_<<dest, aside, job>>
  BY KeptStep DEF AllBacked
<1> QED BY <1>1, MirrorHolds, PTL DEF Spec, NothingLost

-----------------------------------------------------------------------------
(* The order of a blueprint's artifacts                                    *)

(* A set of numbers has a least one: what induction on the rounds, on the  *)
(* positions of the order and on the sort keys rests on.                   *)
LEMMA MinNat ==
  ASSUME NEW S \in SUBSET Nat, S # {}
  PROVE  \E n \in S : \A m \in S : n <= m
<1> DEFINE Less == {pair \in Nat \X Nat : pair[1] < pair[2]}
<1>1. IsWellFoundedOn(Less, Nat)
  BY NatLessThanWellFounded DEF OpToRel
<1>2. \A m, n \in Nat : m < n => <<m, n>> \in Less
  OBVIOUS
<1> HIDE DEF Less
<1>3. PICK n \in S : \A m \in S : ~(<<m, n>> \in Less)
  BY <1>1, WFMin
<1>4. \A m \in S : ~(m < n)
  BY <1>2, <1>3
<1> QED BY <1>4

\* What holds between two rounds of the loop.
Loop(p) ==
  /\ p.out \in Seq(blueprint)
  /\ \A m, n \in 1..Len(p.out) : p.out[m] = p.out[n] => m = n
  /\ p.left = [k \in blueprint |-> Cardinality(Needs(k) \ ToSet(p.out))]
  /\ p.ready = {k \in blueprint \ ToSet(p.out) : Needs(k) \subseteq ToSet(p.out)}
  /\ \A n \in 1..Len(p.out) : Needs(p.out[n]) \subseteq {p.out[m] : m \in 1..(n - 1)}

\* A blueprint binds finitely many artifacts, and they need each other only.
LEMMA NeedsAreFinite ==
  ASSUME TypeOK
  PROVE  /\ IsFiniteSet(blueprint) /\ Cardinality(blueprint) \in Nat
         /\ \A k \in blueprint : Needs(k) \subseteq blueprint /\ IsFiniteSet(Needs(k))
<1>1. IsFiniteSet(blueprint)
  BY MirrorAssumption, FS_Subset DEF TypeOK
<1>2. \A k \in blueprint : Needs(k) \subseteq blueprint
  BY DEF Needs
<1> QED BY <1>1, <1>2, FS_Subset, FS_CardinalityType

\* The sort keys differ, so one of the ready items comes first.
LEMMA LeastIsOne ==
  ASSUME NEW S \in SUBSET Items, S # {}
  PROVE  Least(S) \in S
<1> DEFINE T == {Rank[i] : i \in S}
<1>1. T \in SUBSET Nat /\ T # {}
  BY MirrorAssumption
<1> HIDE DEF T
<1>2. PICK n \in T : \A m \in T : n <= m
  BY <1>1, MinNat
<1>3. PICK i \in S : Rank[i] = n
  BY DEF T
<1>4. \A k \in S \ {i} : Rank[k] \in Nat /\ Rank[k] # Rank[i] /\ Rank[i] <= Rank[k] /\ Rank[i] \in Nat
  BY <1>2, <1>3, MirrorAssumption DEF T
<1>5. \A k \in S \ {i} : Before(i, k)
  BY <1>4 DEF Before
<1> QED BY <1>5 DEF Least

\* What a sequence holds, before and after one more is appended.
LEMMA ToSetIs ==
  ASSUME NEW S, NEW out \in Seq(S)
  PROVE  /\ ToSet(out) = {out[n] : n \in 1..Len(out)}
         /\ ToSet(out) \subseteq S
         /\ \A i \in S : /\ Append(out, i) \in Seq(S)
                         /\ Len(Append(out, i)) = Len(out) + 1
                         /\ \A n \in 1..Len(out) : Append(out, i)[n] = out[n]
                         /\ Append(out, i)[Len(out) + 1] = i
                         /\ ToSet(Append(out, i)) = ToSet(out) \cup {i}
<1>1. DOMAIN out = 1..Len(out)
  OBVIOUS
<1>2. ToSet(out) = {out[n] : n \in 1..Len(out)}
  BY <1>1 DEF ToSet
<1>3. ASSUME NEW i \in S
      PROVE  /\ Append(out, i) \in Seq(S)
             /\ Len(Append(out, i)) = Len(out) + 1
             /\ \A n \in 1..Len(out) : Append(out, i)[n] = out[n]
             /\ Append(out, i)[Len(out) + 1] = i
  OBVIOUS
<1>4. ASSUME NEW i \in S
      PROVE  ToSet(Append(out, i)) = ToSet(out) \cup {i}
  <2>1. ToSet(Append(out, i)) = {Append(out, i)[n] : n \in 1..(Len(out) + 1)}
    BY <1>3 DEF ToSet
  <2>2. 1..(Len(out) + 1) = (1..Len(out)) \cup {Len(out) + 1}
    OBVIOUS
  <2> QED BY <1>2, <1>3, <2>1, <2>2
<1> QED BY <1>1, <1>2, <1>3, <1>4

\* Before the first round the items that need nothing are ready.
LEMMA LoopStarts ==
  ASSUME TypeOK
  PROVE  Loop(Unsorted) /\ Unsorted.out = << >>
<1>1. Unsorted.out = << >> /\ Unsorted.left = [i \in blueprint |-> Cardinality(Needs(i))]
      /\ Unsorted.ready = {i \in blueprint : Unsorted.left[i] = 0}
  BY DEF Unsorted
<1>2. << >> \in Seq(blueprint) /\ Len(<< >>) = 0 /\ ToSet(<< >>) = {}
  BY EmptySeq DEF ToSet
<1>3. \A i \in blueprint : Cardinality(Needs(i)) = 0 <=> Needs(i) \subseteq {}
  BY NeedsAreFinite, FS_EmptySet
<1>4. Unsorted.left = [i \in blueprint |-> Cardinality(Needs(i) \ {})]
  BY <1>1
<1>5. Unsorted.ready = {i \in blueprint \ {} : Needs(i) \subseteq {}}
  BY <1>1, <1>3
<1>6. \A n \in 1..Len(Unsorted.out) : FALSE
  BY <1>1, <1>2
<1> QED BY <1>1, <1>2, <1>4, <1>5, <1>6 DEF Loop

(* A round takes the first of the ready items out, and makes ready what    *)
(* waited for nothing else.                                                *)
LEMMA RoundKeeps ==
  ASSUME TypeOK, NEW p, Loop(p), p.ready # {}
  PROVE  Loop(Round(p)) /\ Len(Round(p).out) = Len(p.out) + 1
<1> DEFINE i == Least(p.ready)
           left == [k \in blueprint |-> IF k \in Followers(i) THEN p.left[k] - 1
                                                              ELSE p.left[k]]
           Out == ToSet(p.out)
           q == Round(p)
<1>0. q.left = left /\ q.out = Append(p.out, i)
      /\ q.ready = (p.ready \ {i}) \cup Released(Followers(i), left)
  BY DEF Round
<1>1. i \in p.ready /\ i \in blueprint /\ i \notin Out /\ Needs(i) \subseteq Out
  <2>1. p.ready \in SUBSET Items
    BY DEF Loop, TypeOK
  <2>2. i \in p.ready
    BY <2>1, LeastIsOne
  <2> QED BY <2>2 DEF Loop
<1> HIDE DEF i
<1>2. /\ q.out \in Seq(blueprint) /\ Len(q.out) = Len(p.out) + 1
      /\ \A n \in 1..Len(p.out) : q.out[n] = p.out[n]
      /\ q.out[Len(p.out) + 1] = i /\ ToSet(q.out) = Out \cup {i}
      /\ Out = {p.out[n] : n \in 1..Len(p.out)} /\ Out \subseteq blueprint
  BY <1>0, <1>1, ToSetIs DEF Loop
<1>3. \A m, n \in 1..Len(q.out) : q.out[m] = q.out[n] => m = n
  <2> SUFFICES ASSUME NEW m \in 1..Len(q.out), NEW n \in 1..Len(q.out), q.out[m] = q.out[n]
               PROVE  m = n
    OBVIOUS
  <2>0. Len(p.out) \in Nat
    BY DEF Loop
  <2>1. CASE m \in 1..Len(p.out) /\ n \in 1..Len(p.out)
    BY <1>2, <2>1 DEF Loop
  <2>2. CASE m = Len(p.out) + 1 /\ n \in 1..Len(p.out)
    BY <1>1, <1>2, <2>2
  <2>3. CASE n = Len(p.out) + 1 /\ m \in 1..Len(p.out)
    BY <1>1, <1>2, <2>3
  <2> QED BY <1>2, <2>0, <2>1, <2>2, <2>3
<1>4. ASSUME NEW k \in blueprint
      PROVE  left[k] = Cardinality(Needs(k) \ (Out \cup {i}))
  <2>1. IsFiniteSet(Needs(k) \ Out) /\ p.left[k] = Cardinality(Needs(k) \ Out)
    BY NeedsAreFinite, FS_Difference DEF Loop
  <2>2. Needs(k) \ (Out \cup {i}) = (Needs(k) \ Out) \ {i}
    OBVIOUS
  <2>3. i \in Needs(k) \ Out <=> k \in Followers(i)
    BY <1>1 DEF Followers
  <2> HIDE DEF Out
  <2> QED BY <2>1, <2>2, <2>3, FS_RemoveElement
<1>5. q.left = [k \in blueprint |-> Cardinality(Needs(k) \ ToSet(q.out))]
  BY <1>0, <1>2, <1>4
<1>6. \A k \in blueprint : left[k] = 0 <=> Needs(k) \subseteq Out \cup {i}
  <2> SUFFICES ASSUME NEW k \in blueprint
               PROVE  left[k] = 0 <=> Needs(k) \subseteq Out \cup {i}
    OBVIOUS
  <2>1. IsFiniteSet(Needs(k) \ (Out \cup {i}))
    BY NeedsAreFinite, FS_Difference
  <2>2. left[k] = 0 <=> Needs(k) \ (Out \cup {i}) = {}
    BY <1>4, <2>1, FS_EmptySet
  <2> QED BY <2>2
<1>7. q.ready = {k \in blueprint \ ToSet(q.out) : Needs(k) \subseteq ToSet(q.out)}
  <2> HIDE DEF left, Out
  <2>1. Released(Followers(i), left) = {k \in Followers(i) : Needs(k) \subseteq Out \cup {i}}
    BY <1>6 DEF Released, Followers
  <2>2. \A k \in Followers(i) : k \in blueprint /\ i \in Needs(k) /\ i \notin Needs(i)
    BY DEF Followers, Needs
  <2>3. \A k \in Followers(i) : k # i
    BY <2>2
  <2>4. \A k \in Out : Needs(k) \subseteq Out
    <3> TAKE k \in Out
    <3>1. PICK n \in 1..Len(p.out) : p.out[n] = k
      BY <1>2
    <3>2. Needs(k) \subseteq {p.out[m] : m \in 1..(n - 1)}
      BY <3>1 DEF Loop
    <3>3. \A m \in 1..(n - 1) : m \in 1..Len(p.out)
      BY DEF Loop
    <3> QED BY <1>2, <3>2, <3>3
  <2>5. Followers(i) \cap Out = {}
    BY <1>1, <2>2, <2>4
  <2>6. p.ready = {k \in blueprint \ Out : Needs(k) \subseteq Out}
    BY DEF Loop, Out
  <2>7. \A k \in blueprint : k \notin Followers(i) => i \notin Needs(k)
    BY DEF Followers
  <2>8. ASSUME NEW k
        PROVE  k \in q.ready <=> /\ k \in blueprint \ ToSet(q.out)
                                 /\ Needs(k) \subseteq ToSet(q.out)
    <3>1. k \in q.ready <=> \/ k \in p.ready /\ k # i
                            \/ k \in Followers(i) /\ Needs(k) \subseteq Out \cup {i}
      BY <1>0, <2>1
    <3>2. CASE k \in Followers(i)
      BY <1>2, <2>2, <2>3, <2>5, <2>6, <3>1, <3>2
    <3>3. CASE k \notin Followers(i)
      BY <1>2, <2>6, <2>7, <3>1, <3>3
    <3> QED BY <3>2, <3>3
  <2> QED BY <2>8
<1>8. \A n \in 1..Len(q.out) : Needs(q.out[n]) \subseteq {q.out[m] : m \in 1..(n - 1)}
  <2> TAKE n \in 1..Len(q.out)
  <2>0. Len(p.out) \in Nat
    BY DEF Loop
  <2>1. CASE n \in 1..Len(p.out)
    <3>1. Needs(p.out[n]) \subseteq {p.out[m] : m \in 1..(n - 1)}
      BY <2>1 DEF Loop
    <3>2. \A m \in 1..(n - 1) : p.out[m] = q.out[m]
      BY <1>2, <2>0, <2>1
    <3> QED BY <1>2, <2>1, <3>1, <3>2
  <2>2. CASE n = Len(p.out) + 1
    <3>1. 1..(n - 1) = 1..Len(p.out) /\ q.out[n] = i
      BY <1>2, <2>0, <2>2
    <3>2. {q.out[m] : m \in 1..(n - 1)} = Out
      BY <1>2, <3>1
    <3> QED BY <1>1, <3>1, <3>2
  <2> QED BY <1>2, <2>0, <2>1, <2>2
<1> QED BY <1>2, <1>3, <1>5, <1>7, <1>8 DEF Loop

(* The loop's rounds are defined, as far as the function goes.             *)
LEMMA PassIs ==
  ASSUME TypeOK
  PROVE  /\ Pass[0] = Unsorted
         /\ \A n \in 1..Cardinality(blueprint) : Pass[n] = Round(Pass[n - 1])
<1> DEFINE N == Cardinality(blueprint)
           Runs(f, k) == f = [n \in 0..k |-> IF n = 0 THEN Unsorted ELSE Round(f[n - 1])]
           Stuck == {k \in Nat : ~\E f : Runs(f, k)}
<1>0. N \in Nat
  BY NeedsAreFinite
<1> HIDE DEF N
<1>1. Stuck = {}
  <2> SUFFICES ASSUME Stuck # {} PROVE FALSE
    OBVIOUS
  <2>1. PICK k \in Stuck : \A m \in Stuck : k <= m
    BY MinNat
  <2>2. CASE k = 0
    <3> DEFINE g == [n \in 0..0 |-> Unsorted]
    <3>1. g = [n \in 0..0 |-> IF n = 0 THEN Unsorted ELSE Round(g[n - 1])]
      OBVIOUS
    <3>2. Runs(g, 0)
      BY <3>1
    <3> QED BY <2>1, <2>2, <3>2
  <2>3. CASE k # 0
    <3>0. k \in Nat
      BY <2>1
    <3>1. k - 1 \in Nat /\ ~(k <= k - 1)
      BY <2>3, <3>0
    <3>9. k - 1 \notin Stuck
      <4> HIDE DEF Stuck
      <4> QED BY <2>1, <3>1
    <3>2. PICK f : Runs(f, k - 1)
      BY <3>1, <3>9
    <3> DEFINE g == [n \in 0..k |-> IF n = k THEN Round(f[k - 1]) ELSE f[n]]
    <3>3. \A n \in 0..(k - 1) : f[n] = IF n = 0 THEN Unsorted ELSE Round(f[n - 1])
      BY <3>2
    <3>4. \A n \in 0..(k - 1) : g[n] = f[n]
      BY <3>1
    <3>5. ASSUME NEW n \in 0..k
          PROVE  g[n] = IF n = 0 THEN Unsorted ELSE Round(g[n - 1])
      <4>1. CASE n = k
        <5>1. g[n] = Round(f[k - 1]) /\ k - 1 \in 0..(k - 1)
          BY <3>1, <4>1
        <5> QED BY <2>3, <3>4, <4>1, <5>1
      <4>2. CASE n # k
        <5>1. n \in 0..(k - 1) /\ (n # 0 => n - 1 \in 0..(k - 1))
          BY <3>1, <4>2
        <5> HIDE DEF g
        <5> QED BY <3>3, <3>4, <5>1
      <4> QED BY <4>1, <4>2
    <3>6. g = [n \in 0..k |-> IF n = 0 THEN Unsorted ELSE Round(g[n - 1])]
      <4>1. g = [n \in 0..k |-> g[n]]
        OBVIOUS
      <4> HIDE DEF g
      <4> QED BY <3>5, <4>1
    <3>7. Runs(g, k)
      BY <3>6
    <3> QED BY <2>1, <3>7
  <2> QED BY <2>2, <2>3
<1>2. \E f : f = [n \in 0..N |-> IF n = 0 THEN Unsorted ELSE Round(f[n - 1])]
  BY <1>0, <1>1
<1>3. Pass = [n \in 0..N |-> IF n = 0 THEN Unsorted ELSE Round(Pass[n - 1])]
  BY <1>2 DEF Pass, N
<1>4. \A n \in 0..N : Pass[n] = IF n = 0 THEN Unsorted ELSE Round(Pass[n - 1])
  BY <1>3
<1>5. 0 \in 0..N /\ \A n \in 1..N : n \in 0..N /\ n # 0
  BY <1>0
<1> QED BY <1>4, <1>5 DEF N

\* After n rounds n items are out, or nothing was ready before.
LEMMA RoundsKeep ==
  ASSUME TypeOK
  PROVE  \A n \in 0..Cardinality(blueprint) :
           Loop(Pass[n]) /\ (Len(Pass[n].out) = n \/ Pass[n].ready = {})
<1> DEFINE N == Cardinality(blueprint)
           Good(n) == Loop(Pass[n]) /\ (Len(Pass[n].out) = n \/ Pass[n].ready = {})
           Bad == {n \in 0..N : ~Good(n)}
<1> SUFFICES ASSUME Bad # {} PROVE FALSE
  OBVIOUS
<1>0. N \in Nat
  BY NeedsAreFinite
<1>1. PICK n \in Bad : \A m \in Bad : n <= m
  <2>1. Bad \in SUBSET Nat
    BY <1>0
  <2> QED BY <2>1, MinNat
<1>2. n \in 0..N /\ ~Good(n)
  BY <1>1
<1>3. CASE n = 0
  <2>1. Pass[0] = Unsorted
    BY PassIs
  <2>2. Len(<< >>) = 0
    OBVIOUS
  <2> QED BY <1>2, <1>3, <2>1, <2>2, LoopStarts
<1>4. CASE n # 0
  <2>1. n \in 1..N /\ n - 1 \in 0..N /\ ~(n <= n - 1)
    BY <1>0, <1>2, <1>4
  <2>2. n - 1 \notin Bad
    BY <1>1, <2>1
  <2>3. Good(n - 1)
    BY <2>1, <2>2
  <2>4. Pass[n] = Round(Pass[n - 1])
    BY <2>1, PassIs
  <2>5. CASE Pass[n - 1].ready = {}
    <3>1. Pass[n] = Pass[n - 1]
      BY <2>4, <2>5 DEF Round
    <3> QED BY <1>2, <2>3, <2>5, <3>1
  <2>6. CASE Pass[n - 1].ready # {}
    <3>1. Loop(Round(Pass[n - 1]))
          /\ Len(Round(Pass[n - 1]).out) = Len(Pass[n - 1].out) + 1
      BY <2>3, <2>6, RoundKeeps
    <3>2. Len(Pass[n - 1].out) = n - 1
      BY <2>3, <2>6
    <3> QED BY <1>2, <2>1, <2>4, <3>1, <3>2
  <2> QED BY <2>5, <2>6
<1> QED BY <1>3, <1>4

\* When the loop ends everything is out, or each item left needs another one
\* that is left.
LEMMA SortedIs ==
  ASSUME TypeOK
  PROVE  /\ Sorted \in Seq(blueprint)
         /\ Cardinality(ToSet(Sorted)) = Len(Sorted)
         /\ \A n \in 1..Len(Sorted) :
              Needs(Sorted[n]) \subseteq {Sorted[m] : m \in 1..(n - 1)}
         /\ Cyclic(Sorted) => \A k \in blueprint \ ToSet(Sorted) :
                                ~(Needs(k) \subseteq ToSet(Sorted))
         /\ ~Cyclic(Sorted) <=> ToSet(Sorted) = blueprint
<1> DEFINE N == Cardinality(blueprint)
           p == Pass[N]
<1>0. Sorted = p.out
  BY DEF Sorted
<1>1. N \in Nat /\ Loop(p) /\ (Len(p.out) = N \/ p.ready = {})
  BY NeedsAreFinite, RoundsKeep
<1> HIDE DEF N, p
<1>2. /\ Sorted \in Seq(blueprint)
      /\ \A m, n \in 1..Len(Sorted) : Sorted[m] = Sorted[n] => m = n
      /\ p.ready = {k \in blueprint \ ToSet(Sorted) : Needs(k) \subseteq ToSet(Sorted)}
      /\ \A n \in 1..Len(Sorted) : Needs(Sorted[n]) \subseteq {Sorted[m] : m \in 1..(n - 1)}
  BY <1>0, <1>1 DEF Loop
<1>10. Len(Sorted) = N \/ p.ready = {}
  BY <1>0, <1>1
<1>3. ToSet(Sorted) = {Sorted[n] : n \in 1..Len(Sorted)} /\ ToSet(Sorted) \subseteq blueprint
      /\ Len(Sorted) \in Nat /\ DOMAIN Sorted = 1..Len(Sorted)
  BY <1>2, ToSetIs
<1>4. Cardinality(ToSet(Sorted)) = Len(Sorted)
  <2>1. Sorted \in [1..Len(Sorted) -> ToSet(Sorted)]
    BY <1>2, <1>3
  <2>2. Sorted \in Bijection(1..Len(Sorted), ToSet(Sorted))
    BY <1>2, <1>3, <2>1 DEF Bijection, Injection, Surjection, IsInjective
  <2>3. ExistsBijection(1..Len(Sorted), ToSet(Sorted))
    BY <2>2 DEF ExistsBijection
  <2> QED BY <1>3, <2>3, FS_CountingElements
<1>5. Cardinality(ToSet(Sorted)) = N <=> ToSet(Sorted) = blueprint
  BY <1>3, NeedsAreFinite, FS_Subset DEF N
<1>6. Cyclic(Sorted) <=> Len(Sorted) # N
  BY DEF Cyclic, N
<1>7. Cyclic(Sorted) => \A k \in blueprint \ ToSet(Sorted) : ~(Needs(k) \subseteq ToSet(Sorted))
  <2> SUFFICES ASSUME Cyclic(Sorted), NEW k \in blueprint \ ToSet(Sorted), Needs(k) \subseteq ToSet(Sorted)
               PROVE  FALSE
    OBVIOUS
  <2>1. p.ready = {}
    BY <1>6, <1>10
  <2> QED BY <1>2, <2>1
<1>8. ~Cyclic(Sorted) <=> ToSet(Sorted) = blueprint
  BY <1>4, <1>5, <1>6
<1> QED BY <1>2, <1>4, <1>7, <1>8

(* Items sorted by their key: each once.                                   *)
LEMMA ByRankIs ==
  ASSUME NEW S \in SUBSET Items, IsFiniteSet(S)
  PROVE  ByRank(S) \in Seq(S) /\ Len(ByRank(S)) = Cardinality(S) /\ ToSet(ByRank(S)) = S
<1> DEFINE c == Cardinality(S)
           Lower(i) == {k \in S : Before(k, i)}
           f == [i \in S |-> Ahead(S, i)]
           s == ByRank(S)
<1>0. c \in Nat
  BY FS_CardinalityType
<1>1. \A i, k \in S : Rank[i] \in Nat /\ (Rank[i] = Rank[k] => i = k)
  BY MirrorAssumption
<1>2. ASSUME NEW i \in S
      PROVE  /\ IsFiniteSet(Lower(i)) /\ i \notin Lower(i)
             /\ IsFiniteSet(Lower(i) \cup {i})
             /\ Cardinality(Lower(i) \cup {i}) = Cardinality(Lower(i)) + 1
             /\ Cardinality(Lower(i)) \in Nat
  <2>1. Lower(i) \in SUBSET S /\ i \notin Lower(i)
    BY <1>1 DEF Before
  <2> HIDE DEF Lower
  <2>2. IsFiniteSet(Lower(i))
    BY <2>1, FS_Subset
  <2> QED BY <2>1, <2>2, FS_AddElement, FS_CardinalityType
<1>21. \A i \in S : f[i] = Cardinality(Lower(i))
  BY DEF Ahead
<1> HIDE DEF f
<1>3. ASSUME NEW i \in S
      PROVE  f[i] \in 0..(c - 1)
  <2>1. Lower(i) \cup {i} \in SUBSET S
    OBVIOUS
  <2> HIDE DEF Lower
  <2>2. Cardinality(Lower(i) \cup {i}) <= c
    BY <2>1, FS_Subset
  <2> QED BY <1>0, <1>2, <1>21, <2>2
<1>4. ASSUME NEW i \in S, NEW k \in S, Before(i, k)
      PROVE  f[i] # f[k]
  <2>1. Lower(i) \cup {i} \in SUBSET Lower(k)
    BY <1>1, <1>4 DEF Before
  <2> HIDE DEF Lower
  <2>2. Cardinality(Lower(i) \cup {i}) <= Cardinality(Lower(k))
    BY <1>2, <2>1, FS_Subset
  <2> QED BY <1>2, <1>21, <2>2
<1>5. \A i, k \in S : f[i] = f[k] => i = k
  <2> SUFFICES ASSUME NEW i \in S, NEW k \in S, i # k PROVE f[i] # f[k]
    OBVIOUS
  <2>1. Before(i, k) \/ Before(k, i)
    BY <1>1 DEF Before
  <2> QED BY <1>4, <2>1
<1>6. f \in Surjection(S, 0..(c - 1))
  <2>1. f \in [S -> 0..(c - 1)]
    BY <1>3 DEF f
  <2>2. f \in Injection(S, 0..(c - 1))
    BY <1>5, <2>1 DEF Injection, IsInjective
  <2>3. IsFiniteSet(0..(c - 1)) /\ Cardinality(0..(c - 1)) = c
    BY <1>0, FS_Interval
  <2> QED BY <2>2, <2>3, FS_Injection
<1>7. \A n \in 1..c : \E i \in S : f[i] = n - 1
  <2> TAKE n \in 1..c
  <2>1. n - 1 \in 0..(c - 1)
    BY <1>0
  <2> QED BY <1>6, <2>1 DEF Surjection
<1>8. s = [n \in 1..c |-> CHOOSE i \in S : Ahead(S, i) = n - 1]
  BY DEF ByRank
<1> HIDE DEF s
<1>9. \A n \in 1..c : s[n] \in S /\ f[s[n]] = n - 1
  <2> TAKE n \in 1..c
  <2>1. \E i \in S : Ahead(S, i) = n - 1
    BY <1>7 DEF f
  <2>2. s[n] = CHOOSE i \in S : Ahead(S, i) = n - 1
    BY <1>8
  <2> QED BY <2>1, <2>2 DEF f
<1>10. s \in [1..c -> S] /\ DOMAIN s = 1..c
  BY <1>8, <1>9
<1>11. s \in Seq(S) /\ Len(s) = c
  BY <1>0, <1>10
<1>12. \A i \in S : \E n \in 1..c : s[n] = i
  <2> TAKE i \in S
  <2>1. f[i] \in 0..(c - 1)
    BY <1>3
  <2>2. f[i] + 1 \in 1..c /\ f[s[f[i] + 1]] = f[i] /\ s[f[i] + 1] \in S
    BY <1>0, <1>9, <2>1
  <2> QED BY <1>5, <2>2
<1>13. ToSet(s) = S
  BY <1>9, <1>10, <1>12 DEF ToSet
<1> QED BY <1>11, <1>13 DEF s

\* What two sequences hold together.
LEMMA ConcatIs ==
  ASSUME NEW S, NEW s \in Seq(S), NEW t \in Seq(S)
  PROVE  s \o t \in Seq(S) /\ Len(s \o t) = Len(s) + Len(t)
         /\ ToSet(s \o t) = ToSet(s) \cup ToSet(t)
<1> DEFINE u == s \o t
<1>1. /\ u \in Seq(S) /\ Len(u) = Len(s) + Len(t)
      /\ \A n \in 1..(Len(s) + Len(t)) :
           u[n] = IF n <= Len(s) THEN s[n] ELSE t[n - Len(s)]
  BY ConcatProperties
<1>2. Len(s) \in Nat /\ Len(t) \in Nat
  BY LenProperties
<1> HIDE DEF u
<1>3. \A n \in 1..Len(s) : n \in 1..(Len(s) + Len(t)) /\ u[n] = s[n]
  BY <1>1, <1>2
<1>4. \A n \in 1..Len(t) : n + Len(s) \in 1..(Len(s) + Len(t)) /\ u[n + Len(s)] = t[n]
  <2> TAKE n \in 1..Len(t)
  <2>1. n + Len(s) \in 1..(Len(s) + Len(t)) /\ ~(n + Len(s) <= Len(s))
        /\ (n + Len(s)) - Len(s) = n
    BY <1>2
  <2> QED BY <1>1, <2>1
<1>5. \A n \in 1..(Len(s) + Len(t)) :
        \/ n \in 1..Len(s) /\ u[n] = s[n]
        \/ n - Len(s) \in 1..Len(t) /\ u[n] = t[n - Len(s)]
  BY <1>1, <1>2
<1>6. /\ ToSet(u) = {u[n] : n \in 1..(Len(s) + Len(t))}
      /\ ToSet(s) = {s[n] : n \in 1..Len(s)} /\ ToSet(t) = {t[n] : n \in 1..Len(t)}
  BY <1>1, ToSetIs
<1>7. ToSet(u) = ToSet(s) \cup ToSet(t)
  BY <1>3, <1>4, <1>5, <1>6
<1> QED BY <1>1, <1>7 DEF u

\* With the items of a cycle at its end the order holds each item once.
LEMMA OrderIs ==
  ASSUME TypeOK
  PROVE  /\ Order(Sorted) \in Seq(blueprint)
         /\ Len(Order(Sorted)) = Cardinality(blueprint)
         /\ ToSet(Order(Sorted)) = blueprint
         /\ ~Cyclic(Sorted) => Order(Sorted) = Sorted
<1> DEFINE rest == blueprint \ ToSet(Sorted)
           last == ByRank(rest)
           order == Order(Sorted)
<1>1. Sorted \in Seq(blueprint) /\ ToSet(Sorted) \in SUBSET blueprint
      /\ Cardinality(ToSet(Sorted)) = Len(Sorted)
  BY SortedIs, ToSetIs
<1>2. rest \in SUBSET Items /\ IsFiniteSet(rest) /\ rest \subseteq blueprint
  BY NeedsAreFinite, FS_Difference DEF TypeOK
<1>3. Cardinality(rest) = Cardinality(blueprint) - Len(Sorted)
  <2>1. blueprint \cap ToSet(Sorted) = ToSet(Sorted)
    BY <1>1
  <2>2. Cardinality(rest) = Cardinality(blueprint) - Cardinality(blueprint \cap ToSet(Sorted))
    BY NeedsAreFinite, FS_Difference
  <2> QED BY <1>1, <2>1, <2>2
<1>4. last \in Seq(rest) /\ Len(last) = Cardinality(rest) /\ ToSet(last) = rest
  BY <1>2, ByRankIs
<1> HIDE DEF rest, last, order
<1>6. order = Sorted \o last
  BY DEF Order, last, rest, order
<1>7. last \in Seq(blueprint)
  BY <1>2, <1>4, SeqMonotonic
<1>8. order \in Seq(blueprint) /\ Len(order) = Len(Sorted) + Len(last)
      /\ ToSet(order) = ToSet(Sorted) \cup ToSet(last)
  BY <1>1, <1>6, <1>7, ConcatIs
<1>9. Len(Sorted) \in Nat
  BY <1>1, LenProperties
<1>11. ToSet(order) = blueprint
  BY <1>1, <1>4, <1>8 DEF rest
<1>12. Len(order) = Cardinality(blueprint)
  BY <1>3, <1>4, <1>8, <1>9, NeedsAreFinite
<1>13. ASSUME ~Cyclic(Sorted) PROVE order = Sorted
  <2>1. rest = {}
    BY <1>13, SortedIs DEF rest
  <2>2. Len(last) = 0
    BY <1>4, <2>1, FS_EmptySet
  <2>3. last = << >>
    BY <1>7, <2>2
  <2> QED BY <1>1, <1>6, <2>3, ConcatEmptySeq
<1> QED BY <1>8, <1>11, <1>12, <1>13 DEF order

\* The point of resumption is the first item that is in trouble.
LEMMA StopIs ==
  ASSUME NEW order \in Seq(Items)
  PROVE  /\ ResumeAt(order) \in 1..(Len(order) + 1)
         /\ \A n \in 1..(ResumeAt(order) - 1) : n \in 1..Len(order) /\ ~Trouble(order[n])
         /\ (\A n \in 1..Len(order) : ~Trouble(order[n])) => ResumeAt(order) = Len(order) + 1
<1> DEFINE stops == {n \in DOMAIN order : Trouble(order[n])}
<1>1. DOMAIN order = 1..Len(order) /\ Len(order) \in Nat
  BY LenProperties
<1>2. stops = {n \in 1..Len(order) : Trouble(order[n])}
  BY <1>1
<1>3. ResumeAt(order) = IF stops = {} THEN Len(order) + 1
                        ELSE CHOOSE n \in stops : \A m \in stops : n <= m
  BY DEF ResumeAt
<1> HIDE DEF stops
<1>4. CASE stops = {}
  BY <1>1, <1>2, <1>3, <1>4
<1>5. CASE stops # {}
  <2>1. stops \in SUBSET Nat
    BY <1>2
  <2>2. \E n \in stops : \A m \in stops : n <= m
    BY <1>5, <2>1, MinNat
  <2>3. ResumeAt(order) \in stops /\ \A m \in stops : ResumeAt(order) <= m
    BY <1>3, <1>5, <2>2
  <2>4. ResumeAt(order) \in 1..Len(order) /\ Trouble(order[ResumeAt(order)])
    BY <1>2, <2>3
  <2>5. ASSUME NEW n \in 1..(ResumeAt(order) - 1)
        PROVE  n \in 1..Len(order) /\ ~Trouble(order[n])
    <3>1. n \in 1..Len(order) /\ ~(ResumeAt(order) <= n)
      BY <1>1, <2>4
    <3> QED BY <1>2, <2>3, <3>1
  <2> QED BY <1>1, <2>4, <2>5
<1> QED BY <1>4, <1>5

(* OrderIsSafe of every state: it is about what a blueprint's artifacts    *)
(* are and which of them are shown as mirrored, however they came to be.   *)
LEMMA OrderFollows ==
  ASSUME TypeOK
  PROVE  OrderIsSafe
<1> DEFINE order == Order(Sorted)
           Knotted(S) == S # {} /\ \A i \in S : Needs(i) \cap S # {}
           Out == ToSet(Sorted)
<1>1. /\ order \in Seq(blueprint) /\ Len(order) = Cardinality(blueprint)
      /\ ToSet(order) = blueprint
  BY OrderIs
<1>2. Sorted \in Seq(blueprint) /\ Out \in SUBSET blueprint /\ Len(Sorted) \in Nat
      /\ Out = {Sorted[n] : n \in 1..Len(Sorted)}
  BY SortedIs, ToSetIs
<1>3. ~Cyclic(Sorted) => order = Sorted
  BY OrderIs
<1>4. order \in Seq(Items)
  BY <1>1, SeqMonotonic DEF TypeOK
<1> HIDE DEF order, Out
<1>5. ASSUME Cyclic(Sorted)
      PROVE  \E S \in SUBSET blueprint : Knotted(S)
  <2> DEFINE S == blueprint \ Out
  <2>1. S # {}
    BY <1>2, <1>5, SortedIs DEF Out
  <2>2. ASSUME NEW i \in S
        PROVE  Needs(i) \cap S # {}
    <3>1. ~(Needs(i) \subseteq Out)
      BY <1>5, SortedIs DEF Out
    <3>2. Needs(i) \subseteq blueprint
      BY DEF Needs
    <3> QED BY <3>1, <3>2
  <2> QED BY <2>1, <2>2
<1>6. ASSUME ~Cyclic(Sorted), NEW S \in SUBSET blueprint, Knotted(S)
      PROVE  FALSE
  <2> DEFINE At == {n \in 1..Len(Sorted) : Sorted[n] \in S}
  <2>1. Out = blueprint
    BY <1>6, SortedIs DEF Out
  <2>2. At \in SUBSET Nat /\ At # {}
    <3>1. PICK i \in S : i \in Out
      BY <1>6, <2>1
    <3>2. PICK n \in 1..Len(Sorted) : Sorted[n] = i
      BY <1>2, <3>1
    <3>3. n \in At
      BY <3>1, <3>2
    <3> QED BY <1>2, <3>3
  <2>3. PICK n \in At : \A m \in At : n <= m
    BY <2>2, MinNat
  <2>4. n \in 1..Len(Sorted) /\ Sorted[n] \in S
    BY <2>3
  <2>5. PICK k \in S : k \in Needs(Sorted[n])
    BY <1>6, <2>4
  <2>6. PICK m \in 1..(n - 1) : Sorted[m] = k
    BY <2>4, <2>5, SortedIs
  <2>7. m \in At /\ ~(n <= m)
    BY <1>2, <2>4, <2>5, <2>6
  <2> HIDE DEF At
  <2> QED BY <2>3, <2>7
<1>7. ASSUME ~Cyclic(Sorted), NEW n \in 1..(ResumeAt(order) - 1)
      PROVE  /\ shown[order[n]].ok
             /\ artifact[order[n]].needs \subseteq {order[m] : m \in 1..(n - 1)}
  <2>1. n \in 1..Len(order) /\ ~Trouble(order[n])
    BY <1>4, StopIs
  <2>2. Needs(order[n]) \subseteq {order[m] : m \in 1..(n - 1)}
    <3>1. order = Sorted
      BY <1>3, <1>7
    <3>2. n \in 1..Len(Sorted)
      BY <2>1, <3>1
    <3>3. Needs(Sorted[n]) \subseteq {Sorted[m] : m \in 1..(n - 1)}
      BY <3>2, SortedIs
    <3>4. Sorted[n] = order[n] /\ \A m \in 1..(n - 1) : Sorted[m] = order[m]
      BY <3>1
    <3>5. {Sorted[m] : m \in 1..(n - 1)} = {order[m] : m \in 1..(n - 1)}
      BY <3>4
    <3> QED BY <3>3, <3>4, <3>5, Zenon
  <2>3. artifact[order[n]].needs = Needs(order[n]) /\ shown[order[n]].ok
    BY <2>1 DEF Trouble, Needs
  <2> QED BY <2>2, <2>3
<1>8. ASSUME Ready(Sorted)
      PROVE  ResumeAt(order) = Len(order) + 1
  <2>1. \A n \in 1..Len(order) : order[n] \in blueprint
    BY <1>1, ElementOfSeq
  <2>2. \A n \in 1..Len(order) : ~Trouble(order[n])
    BY <1>8, <2>1 DEF Ready
  <2> QED BY <1>4, <2>2, StopIs
<1>9. Cyclic(Sorted) <=> \E S \in SUBSET blueprint : Knotted(S)
  BY <1>5, <1>6
<1>10. ~Cyclic(Sorted) => \A n \in 1..(ResumeAt(order) - 1) :
         /\ shown[order[n]].ok
         /\ artifact[order[n]].needs \subseteq {order[m] : m \in 1..(n - 1)}
  BY <1>7
<1>11. Ready(Sorted) => ResumeAt(order) = Len(order) + 1
  BY <1>8
<1> HIDE DEF Knotted
<1> QED BY <1>1, <1>9, <1>10, <1>11 DEF OrderIsSafe, order, Knotted

\* resolve_blueprint_artifact_manifest puts every bound artifact into its order
\* once, reports a cycle exactly when there is one, and everything before the
\* point of resumption is mirrored and comes after what it needs, for every
\* graph of dependencies.
THEOREM OrderCorrect == Spec => []OrderIsSafe
  BY OrderFollows, MirrorTypeCorrect, PTL
=============================================================================
