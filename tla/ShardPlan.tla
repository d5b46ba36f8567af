----------------------------- MODULE ShardPlan ------------------------------
(***************************************************************************)
(* build_shard_plan (sharding/plan.py): the files of a project are grouped *)
(* by top-level directory; while the plan would have too many shards, the  *)
(* smallest group is carried into "misc"; then every group is cut into     *)
(* chunks of bounded size.                                                 *)
(*                                                                         *)
(* A file and a directory name are numbers, in the order of their strings. *)
(* The identifier of a shard is a string: <<g, 0>> stands for the name of  *)
(* a group g, <<g, k>> for that name, a colon and the number k.  Spelling  *)
(* gives the directory names that are themselves of the second form, as    *)
(* a directory "src:1" is.                                                 *)
(***************************************************************************)
EXTENDS Integers, FiniteSets

CONSTANTS Files, Names,     \* files and directory names that may occur
          Misc,             \* the name "misc"
          Spelling,         \* the names that read as a name and a number
          ChunkSizes, Caps  \* values of max_files_per_shard and max_shards

ASSUME ShardPlanAssumption ==
  /\ Files \subseteq Nat /\ IsFiniteSet(Files)
  /\ Names \subseteq Nat /\ IsFiniteSet(Names) /\ Misc \in Names
  /\ DOMAIN Spelling \subseteq Names \ {Misc}
  /\ \A g \in DOMAIN Spelling : Spelling[g] \in Names \X (Nat \ {0})
  /\ \A g, h \in DOMAIN Spelling : Spelling[g] = Spelling[h] => g = h
  /\ ChunkSizes \subseteq Nat \ {0} /\ ChunkSizes # {}
  /\ Caps \subseteq Nat \ {0} /\ Caps # {}

VARIABLES dirOf,            \* the top-level directory of each file
          vendored,          \* files under a vendored or generated directory
          maxFiles, shardCap,
          merged,           \* group name -> its files
          carries,            \* loop iterations, modulo 2: one that changes
                            \* no group is still a step of the program
          planning,            \* "merging", "done"
          shards            \* the plan

planInput == <<dirOf, vendored, maxFiles, shardCap>>
planVars  == <<planInput, merged, carries, planning, shards>>

Normalized == Files \ vendored

(* One group per directory that has a file left.                           *)
Grouped(dir, kept) ==
  [g \in {dir[f] : f \in kept} |-> {f \in kept : dir[f] = g}]

PlanInit ==
  /\ planning = "idle" /\ dirOf = [f \in Files |-> Misc] /\ vendored = Files
  /\ maxFiles = (CHOOSE n \in ChunkSizes : TRUE) /\ shardCap = (CHOOSE n \in Caps : TRUE)
  /\ merged = Grouped(dirOf, Normalized) /\ carries = 0 /\ shards = {}

Group ==
  /\ planning = "idle" /\ planning' = "merging"
  /\ dirOf' \in [Files -> Names]
  /\ vendored' \in SUBSET Files
  /\ maxFiles' \in ChunkSizes /\ shardCap' \in Caps
  /\ merged' = Grouped(dirOf', Files \ vendored')
  /\ UNCHANGED <<carries, shards>>

ChunksTruncated(files) == Cardinality(files) \div maxFiles

(* How many chunks a group is cut into: its size over maxFiles, upwards.   *)
Chunks(files) == (Cardinality(files) + maxFiles - 1) \div maxFiles

(* chunk_count: the chunks of all groups.                                  *)
ChunksOf(groups) ==
  Cardinality(UNION {{g} \X (0 .. Chunks(groups[g]) - 1) : g \in DOMAIN groups})

ChunkCount == ChunksOf(merged)

TooManyShards == ChunkCount > shardCap /\ Cardinality(DOMAIN merged) > 1

(* The group with the fewest files, the first by name among equals.        *)
IsSmallest(g) ==
  /\ g \in DOMAIN merged
  /\ \A h \in DOMAIN merged :
       \/ Cardinality(merged[g]) < Cardinality(merged[h])
       \/ Cardinality(merged[g]) = Cardinality(merged[h]) /\ g <= h

(* Popped from the groups, then appended to what "misc" holds by then.     *)
Carried(g) ==
  [h \in (DOMAIN merged \ {g}) \cup {Misc} |->
     IF h = Misc
       THEN merged[g] \cup (IF Misc \in DOMAIN merged \ {g} THEN merged[Misc] ELSE {})
       ELSE merged[h]]

Merge ==
  /\ planning = "merging" /\ TooManyShards
  /\ \E g \in DOMAIN merged : IsSmallest(g) /\ merged' = Carried(g)
  /\ carries' = 1 - carries
  /\ UNCHANGED <<planInput, planning, shards>>

Position(f, files) == Cardinality({x \in files : x < f})

(* The k-th chunk of a group in the order of its files.                    *)
ChunkOf(files, k) == {f \in files : Position(f, files) \div maxFiles = k}

(* The string of a name.                                                   *)
Spelled(g) == IF g \in DOMAIN Spelling THEN Spelling[g] ELSE <<g, 0>>

(* A shard is named after its group, and numbered when the group has more  *)
(* than one.                                                               *)
ShardId(g, k) == IF Chunks(merged[g]) = 1 THEN Spelled(g) ELSE <<g, k + 1>>

ShardsOf(g) ==
  {[id |-> ShardId(g, k), files |-> ChunkOf(merged[g], k)] : k \in 0 .. Chunks(merged[g]) - 1}

Emit ==
  /\ planning = "merging" /\ ~TooManyShards
  /\ shards' = UNION {ShardsOf(g) : g \in DOMAIN merged}
  /\ planning' = "done"
  /\ UNCHANGED <<planInput, merged, carries>>

PlanNext == Group \/ Merge \/ Emit
PlanSpec == PlanInit /\ [][PlanNext]_planVars

(* build_shard_plan runs to completion in one thread.                      *)
FairPlanSpec == PlanSpec /\ WF_planVars(PlanNext)

-----------------------------------------------------------------------------
(* The groups and shards of build_shard_plan have their shapes, and no     *)
(* group is empty.                                                         *)
PlanTypeOK ==
  /\ dirOf \in [Files -> Names] /\ vendored \subseteq Files
  /\ maxFiles \in ChunkSizes /\ shardCap \in Caps
  /\ DOMAIN merged \subseteq Names
  /\ \A g \in DOMAIN merged : merged[g] # {} /\ merged[g] \subseteq Files
  /\ carries \in {0, 1} /\ planning \in {"idle", "merging", "done"}
  /\ shards \subseteq [id : Names \X Nat, files : SUBSET Files]

GroupsPartitionFiles ==
  /\ UNION {merged[g] : g \in DOMAIN merged} = Normalized
  /\ \A g, h \in DOMAIN merged : g # h => merged[g] \cap merged[h] = {}

ShardsPartitionFiles ==
  planning = "done" =>
    /\ \A f \in Normalized : \E s \in shards : f \in s.files
    /\ \A s, t \in shards : s # t => s.files \cap t.files = {}
    /\ \A s \in shards : /\ s.files \subseteq Normalized
                         /\ Cardinality(s.files) \in 1 .. maxFiles

(* The one way for two shards to have one identifier: the group g was not  *)
(* cut, its name reads as another group's and a number, and that other     *)
(* group was cut into that many chunks at least.                           *)
ReadsAsChunk(g, s, t) ==
  LET h == Spelling[g][1]
      k == Spelling[g][2] IN
  /\ g \in DOMAIN merged /\ Chunks(merged[g]) = 1 /\ s.files = merged[g]
  /\ h \in DOMAIN merged /\ Chunks(merged[h]) > 1 /\ t.files = ChunkOf(merged[h], k - 1)

IdsDiffer ==
  \A s, t \in shards :
    s.id = t.id /\ s # t =>
      \E g \in DOMAIN Spelling :
        s.id = Spelling[g] /\ (ReadsAsChunk(g, s, t) \/ ReadsAsChunk(g, t, s))

(* "a file belongs to one shard" (sharding/README.md): however often       *)
(* groups are carried over (plan.py:88-91), the finished plan reviews      *)
(* every file that was not vendored once, in shards of bounded size        *)
(* (94-108).  Two of them share an id, by which outcomes are merged and    *)
(* reported (merge.py:61,102), only when a directory is named like a       *)
(* numbered chunk of another that is cut (plan.py:101): "src:1" beside a   *)
(* large "src".                                                            *)
EveryFileInOneShard == GroupsPartitionFiles /\ ShardsPartitionFiles /\ IdsDiffer

(* A shard mixes directories only under the name "misc", and only when the *)
(* directories alone made too many shards (plan.py:88-91).                 *)
MixingIsNecessary ==
  \A g \in DOMAIN merged :
    (\E f \in merged[g] : dirOf[f] # g) =>
      g = Misc /\ ChunksOf(Grouped(dirOf, Normalized)) > shardCap

(* "a file belongs to one shard" (sharding/README.md), two shards have two *)
(* identifiers unless a directory is named like a chunk of another         *)
(* (plan.py:101), and files of several directories share a shard only when *)
(* the bound on the number of shards asks for it (88-91).                  *)
PlanIsSound == PlanTypeOK /\ EveryFileInOneShard /\ MixingIsNecessary

(* "Partition files by top-level directory, with a bounded shard count"    *)
(* (plan.py:64): the plan is eventually built.                             *)
PlanIsBuilt == <>(planning = "done")

-----------------------------------------------------------------------------
(* No directory is named like a chunk of another.                          *)
NoneSpelled == [g \in {} |-> <<Misc, 1>>]
=============================================================================
