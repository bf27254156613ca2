-------------------------- MODULE ArtifactMirrorMC --------------------------
(* Instances of ArtifactMirror for TLC. *)
EXTENDS ArtifactMirror

CONSTANTS i1, i2, i3, j1, j2, j3, x1, p1, p2, d0, d1, d2

FirstToLast == i1 :> 1 @@ i2 :> 2 @@ i3 :> 3

Row(kind, place, digest, needs) ==
  [kind |-> kind, place |-> place, digest |-> digest, needs |-> needs]

\* Two artifacts want one destination, where there may be older content; a
\* third is mirrored next to it.
Pairs == {<<k, k>> : k \in Kinds} \cup {<<"repository", "blob">>}
Contended ==
  /\ \E k \in Pairs : artifact = i1 :> Row(k[1], p1, d1, {})
                              @@ i2 :> Row(k[2], p1, d2, {})
                              @@ i3 :> Row("blob", p2, d1, {})
  /\ blueprint = {}
  /\ dest \in {p1 :> c @@ p2 :> Nothing :
                 c \in {Nothing, Bytes(artifact[i1].kind, d0, d0)}}

\* Every graph of dependencies, every set of bound artifacts.
Graphs ==
  /\ \E needs \in [Items -> SUBSET Items] :
       artifact = [i \in Items |-> Row("blob", p1, d1, needs[i])]
  /\ blueprint \in SUBSET Items
  /\ dest = [p \in Places |-> Nothing]

MCInit == (Contended \/ Graphs) /\ Init
MCSpec == MCInit /\ [][Next]_vars

\* For the graphs, one job after the other, each for another artifact.
Started == {j \in Jobs : job[j].stage # "new"}
GraphsAlone ==
  artifact[i3].place = p1 =>
    /\ crashes = 0 /\ \A x \in Plans : install[x].stage = "new"
    /\ \A j \in Started : ~job[j].replace /\ (job[j].stage = "judged" => job[j].ok)
    /\ \A j, k \in Started : j # k =>
         ItemOf(j) # ItemOf(k) /\ "ended" \in {job[j].stage, job[k].stage}

\* For the destination, a third job or else a plan.
ThirdAlone ==
  artifact[i3].place = p2 =>
    /\ \A j \in Started : ItemOf(j) # i3
    /\ Started = Jobs => \A x \in Plans : install[x].stage = "new"

Interchangeable == Permutations(Jobs)
=============================================================================
