-------------------------- MODULE IndexBuildProofs --------------------------
(***************************************************************************)
(* Proofs about IndexBuild: its type invariant, that what is on disk is    *)
(* always safe to resume from, that a finished build is complete, that no  *)
(* batch is lost by the pool, and that the durable shard boundary never    *)
(* retreats, for every corpus, batch size, pool, number of crashes and set *)
(* of file operations that fail.  Where a run may have met files of        *)
(* another build, the properties say so by the history variable origin.    *)
(***************************************************************************)
EXTENDS IndexBuildRefinement, SequenceTheorems, FiniteSetTheorems, TLAPS

\* Position of the corpus at which batch i begins, NumDocs past the last one.
Pos(i, b) == IF HasBatch(i, b) THEN i * b ELSE NumDocs

\* A shard boundary is a batch boundary, or the end of the corpus.
Aligned(n, b) == n = NumDocs \/ \E k \in Nat : n = k * b

-----------------------------------------------------------------------------
(* The inductive invariant. *)

AddPhases == {"flush", "writing", "added"}
SavePhases == {"save_partial", "save_json", "save_rename"}
PoolPhases == {"submitting", "waiting", "adding"}
FinalFlushPhases == {"final_flush", "final_writing"}
SealedPhases == {"publish", "cleanup", "cleanup_partial", "done"}

\* A partial.faiss that a resume may find and that no earlier shard or build left.
PartialOwned ==
  \/ /\ origin = "own"
     /\ checkpoint # NoCheckpoint \/ pc \notin {"down", "cleanup_partial", "done"}
  \/ VectorsPerShard = 0

\* What is on disk, whatever the process does.
DiskInv ==
  /\ Tiles(checkpoint.shard_ranges, checkpoint.current_shard_start)
  /\ origin \notin {"old_record", "mixed"} => ShardsIntact
  /\ Len(checkpoint.shard_ranges) <= checkpoint.current_shard_start
  /\ checkpoint.total_added =
       checkpoint.current_shard_start + checkpoint.partial_index_ntotal
  /\ checkpoint.total_added <= NumDocs
  /\ checkpoint # NoCheckpoint =>
       /\ checkpoint.batch_size \in Nat \ {0}
       /\ checkpoint.total_added = Pos(checkpoint.next_add_idx, checkpoint.batch_size)
       /\ Aligned(checkpoint.current_shard_start, checkpoint.batch_size)
       /\ checkpoint.partial_index_ntotal = 0 => partial = <<>>
  /\ PartialOwned =>
       partial = Slice(checkpoint.current_shard_start,
                       checkpoint.current_shard_start + Len(partial))
  /\ VectorsPerShard = 0 => checkpoint.shard_ranges = <<>> /\ origin # "mixed"
  /\ CheckpointEvery = 0 => checkpoint = NoCheckpoint /\ partial = <<>>

\* The record on disk is an earlier state of the running build.
RecordBehind ==
  /\ checkpoint.current_shard_start <= current_shard_start
  /\ Len(checkpoint.shard_ranges) <= Len(shard_ranges)
  /\ \A k \in 1 .. Len(checkpoint.shard_ranges) :
       shard_ranges[k] = checkpoint.shard_ranges[k]

\* The index and the shards of a running process hold the corpus ...
ContentInv ==
  pc # "down" /\ origin # "mixed" =>
    /\ index = Slice(current_shard_start, total_added)
    /\ Covers(shard_files, shard_ranges, current_shard_start)

\* ... and are counted right even where they do not.
IndexInv ==
  pc # "down" =>
    /\ batch_size \in Nat \ {0}
    /\ current_shard_start <= total_added
    /\ Len(index) = total_added - current_shard_start
    /\ Tiles(shard_ranges, current_shard_start)
    /\ Len(shard_ranges) <= current_shard_start
    /\ Aligned(current_shard_start, batch_size)
    /\ origin # "old_record" => RecordBehind

\* The batches handed to the pool, and the position reached by the add loop.
PoolInv ==
  /\ in_flight \cap pending_results = {}
  /\ pc \in PoolPhases \cup SavePhases =>
       /\ in_flight \cup pending_results = next_add_idx .. next_batch_idx - 1
       /\ next_add_idx <= next_batch_idx
       /\ total_added = Pos(next_add_idx, batch_size)
  /\ pc \in AddPhases =>
       /\ in_flight \cup pending_results = next_add_idx + 1 .. next_batch_idx - 1
       /\ next_add_idx + 1 <= next_batch_idx
       /\ total_added = Pos(next_add_idx + 1, batch_size)
  /\ pc \in PoolPhases \cup SavePhases \cup AddPhases =>
       \A i \in in_flight \cup pending_results : HasBatch(i, batch_size)
  /\ pc \in {"submitting", "waiting"} => next_add_idx \notin pending_results
  /\ pc = "waiting" /\ HasBatch(next_batch_idx, batch_size) => in_flight # {}

\* How the phase of the process restricts the rest.
PhaseInv ==
  /\ pc \in {"flush", "writing"} \cup FinalFlushPhases => index # <<>>
  /\ pc \in {"flush", "writing"} => VectorsPerShard > 0
  /\ pc \in SavePhases => CheckpointEvery > 0
  /\ VectorsPerShard = 0 /\ pc \notin SealedPhases \cup {"down"} => shard_ranges = <<>>
  /\ VectorsPerShard = 0 /\ pc \in {"added"} \cup SavePhases => index # <<>>
  /\ pc \in FinalFlushPhases \cup SealedPhases => total_added = NumDocs
  /\ pc \in SealedPhases => current_shard_start = NumDocs
  /\ pc \in {"cleanup", "cleanup_partial", "done"} /\ VectorsPerShard > 0 =>
       manifest = shard_ranges
  /\ pc = "save_json" /\ index = <<>> => partial = <<>>
  /\ pc = "save_rename" =>
       /\ index # <<>>
       /\ checkpoint.partial_index_ntotal # 0
       /\ origin # "old_record"
       /\ checkpoint.current_shard_start = current_shard_start

\* A partial.faiss of this build belongs to the open shard, except between a flush
\* and the save that follows it.
StaleInv ==
  /\ CheckpointEvery > 0 /\ flush_happened =>
       pc \in {"added", "save_partial", "save_json"} \cup SealedPhases /\ index = <<>>
  /\ origin = "own" /\ pc \notin {"down"} \cup SealedPhases =>
       \/ partial = <<>>
       \/ checkpoint.current_shard_start = current_shard_start
       \/ pc \in {"added", "save_partial"} /\ flush_happened

IInv == TypeOK /\ DiskInv /\ ContentInv /\ IndexInv /\ PoolInv /\ PhaseInv /\ StaleInv

-----------------------------------------------------------------------------
(* Arithmetic of batches. *)

(* A multiple of a batch size divided by it gives back the factor: the     *)
(* rollback of _load_checkpoint finds the batch of the shard boundary.     *)
LEMMA DivExact ==
  ASSUME NEW k \in Nat, NEW b \in Nat \ {0}
  PROVE  (k * b) \div b = k
<1> DEFINE q == (k * b) \div b
           r == (k * b) % b
<1>1. q \in Int /\ r \in 0 .. b - 1 /\ k * b = b * q + r
  OBVIOUS
<1>2. b * (k - q) = r
  BY <1>1
<1>3. \A d \in Int : b * d \in 0 .. b - 1 => d = 0
  OBVIOUS
<1> QED
  BY <1>1, <1>2, <1>3

\* Batches are numbered without gaps, and a batch number is a document number.
LEMMA BatchNumbers ==
  ASSUME NEW i \in Nat, NEW b \in Nat \ {0}, HasBatch(i, b)
  PROVE  /\ i \in Docs
         /\ i * b \in Nat /\ i * b < NumDocs
         /\ Pos(i, b) = i * b
  BY NumDocsAssumption DEF HasBatch, Docs, Pos

LEMMA PosType ==
  ASSUME NEW i \in Nat, NEW b \in Nat
  PROVE  Pos(i, b) \in Nat /\ Pos(i, b) <= NumDocs
  BY NumDocsAssumption DEF Pos, HasBatch

\* Adding batch i moves the position from its start to the start of the next.
LEMMA NextPosition ==
  ASSUME NEW i \in Nat, NEW b \in Nat \ {0}, HasBatch(i, b)
  PROVE  /\ BatchLen(i, b) \in Nat \ {0}
         /\ Pos(i, b) + BatchLen(i, b) = Pos(i + 1, b)
         /\ Aligned(Pos(i + 1, b), b)
<1>1. i * b \in Nat /\ (i + 1) * b = i * b + b /\ (i + 1) * b \in Nat
  OBVIOUS
<1>2. /\ BatchLen(i, b) \in Nat \ {0}
      /\ Pos(i, b) + BatchLen(i, b) = Pos(i + 1, b)
  BY <1>1, NumDocsAssumption DEF HasBatch, BatchLen, Pos
<1>3. Aligned(Pos(i + 1, b), b)
  <2>1. CASE HasBatch(i + 1, b)
    <3>1. i + 1 \in Nat /\ Pos(i + 1, b) = (i + 1) * b
      BY <2>1 DEF Pos
    <3> QED
      BY <3>1 DEF Aligned
  <2>2. CASE ~HasBatch(i + 1, b)
    BY <2>2 DEF Aligned, Pos
  <2> QED
    BY <2>1, <2>2
<1> QED
  BY <1>2, <1>3

-----------------------------------------------------------------------------
(* Contents of indexes. *)

LEMMA SliceType ==
  ASSUME NEW lo \in Nat, NEW hi \in Nat, lo <= hi
  PROVE  /\ Slice(lo, hi) \in Seq(Entry)
         /\ Len(Slice(lo, hi)) = hi - lo
         /\ Slice(lo, hi) = <<>> <=> lo = hi
<1>1. Slice(lo, hi) \in [1 .. hi - lo -> Entry]
  BY DEF Slice, Entry
<1>2. hi - lo \in Nat
  OBVIOUS
<1>3. Slice(lo, hi) \in Seq(Entry)
  BY <1>1, <1>2
<1>4. Len(Slice(lo, hi)) = hi - lo
  BY <1>1, <1>2, <1>3
<1> QED
  BY <1>2, <1>3, <1>4

LEMMA SliceEmpty ==
  ASSUME NEW lo \in Nat
  PROVE  Slice(lo, lo) = <<>>
<1>1. lo <= lo
  OBVIOUS
<1> QED
  BY <1>1, SliceType

LEMMA SliceAppend ==
  ASSUME NEW lo \in Nat, NEW mid \in Nat, NEW hi \in Nat, lo <= mid, mid <= hi
  PROVE  Slice(lo, mid) \o Slice(mid, hi) = Slice(lo, hi)
<1>1. Slice(lo, mid) \in Seq(Entry) /\ Len(Slice(lo, mid)) = mid - lo
  BY SliceType
<1>2. Slice(mid, hi) \in Seq(Entry) /\ Len(Slice(mid, hi)) = hi - mid
  BY SliceType
<1>3. Slice(lo, hi) \in Seq(Entry) /\ Len(Slice(lo, hi)) = hi - lo
  <2>1. lo <= hi
    OBVIOUS
  <2> QED
    BY <2>1, SliceType
<1> DEFINE s == Slice(lo, mid) \o Slice(mid, hi)
<1>4. s \in Seq(Entry) /\ Len(s) = hi - lo
  BY <1>1, <1>2
<1>5. ASSUME NEW j \in 1 .. hi - lo
      PROVE  s[j] = Slice(lo, hi)[j]
  <2>1. Slice(lo, hi)[j] = [id |-> lo + j - 1, doc |-> lo + j - 1]
    BY DEF Slice
  <2>2. CASE j <= mid - lo
    <3>1. j \in 1 .. mid - lo
      BY <2>2
    <3>2. s[j] = Slice(lo, mid)[j]
      BY <3>1, <1>1, <1>2
    <3>3. Slice(lo, mid)[j] = [id |-> lo + j - 1, doc |-> lo + j - 1]
      BY <3>1 DEF Slice
    <3> QED
      BY <2>1, <3>2, <3>3
  <2>3. CASE j > mid - lo
    <3> DEFINE m == j - (mid - lo)
    <3>1. m \in 1 .. hi - mid
      BY <2>3
    <3>2. s[j] = Slice(mid, hi)[m]
      BY <2>3, <1>1, <1>2
    <3>3. Slice(mid, hi)[m] = [id |-> mid + m - 1, doc |-> mid + m - 1]
      BY <3>1 DEF Slice
    <3>4. mid + m - 1 = lo + j - 1
      OBVIOUS
    <3>5. Slice(mid, hi)[m] = [id |-> lo + j - 1, doc |-> lo + j - 1]
      BY <3>3, <3>4
    <3> HIDE DEF s, m
    <3> QED
      BY <2>1, <3>2, <3>5
  <2>4. j <= mid - lo \/ j > mid - lo
    OBVIOUS
  <2> QED
    BY <2>2, <2>3, <2>4
<1> QED
  BY <1>3, <1>4, <1>5, SeqEqual

\* The entries of a batch added at its own position are that part of the corpus.
LEMMA EntriesAreSlice ==
  ASSUME NEW i \in Nat, NEW b \in Nat \ {0}, HasBatch(i, b)
  PROVE  Entries(i, b, Pos(i, b)) = Slice(Pos(i, b), Pos(i + 1, b))
<1>1. Pos(i, b) = i * b /\ i * b \in Nat
  BY BatchNumbers
<1>2. BatchLen(i, b) = Pos(i + 1, b) - Pos(i, b)
  <2>1. i + 1 \in Nat /\ b \in Nat
    OBVIOUS
  <2>2. Pos(i + 1, b) \in Nat /\ Pos(i, b) \in Nat
    BY <2>1, PosType
  <2>3. BatchLen(i, b) \in Nat /\ Pos(i, b) + BatchLen(i, b) = Pos(i + 1, b)
    BY NextPosition
  <2> QED
    BY <2>2, <2>3
<1> QED
  BY <1>1, <1>2 DEF Entries, Slice

-----------------------------------------------------------------------------
(* Shards. *)

\* Files that are not listed may change.
LEMMA CoversStable ==
  ASSUME NEW old, NEW new, NEW ranges \in Seq(ShardRange), NEW n,
         Covers(old, ranges, n),
         \A k \in 1 .. Len(ranges) : new[k - 1] = old[k - 1]
  PROVE  Covers(new, ranges, n)
  BY DEF Covers

\* A closed shard extends the tiling to the end of the shard ...
LEMMA TilesAppend ==
  ASSUME NEW ranges \in Seq(ShardRange), NEW lo \in Nat, NEW hi \in Nat, lo < hi,
         Tiles(ranges, lo)
  PROVE  LET shard == [path |-> Len(ranges), start_id |-> lo,
                       end_id |-> hi - 1, ntotal |-> hi - lo]
         IN  /\ Append(ranges, shard) \in Seq(ShardRange)
             /\ Len(Append(ranges, shard)) = Len(ranges) + 1
             /\ Tiles(Append(ranges, shard), hi)
<1> DEFINE shard == [path |-> Len(ranges), start_id |-> lo,
                     end_id |-> hi - 1, ntotal |-> hi - lo]
           longer == Append(ranges, shard)
<1>1. shard \in ShardRange
  BY DEF ShardRange
<1>2. /\ longer \in Seq(ShardRange) /\ Len(longer) = Len(ranges) + 1
      /\ \A k \in 1 .. Len(ranges) : longer[k] = ranges[k]
      /\ longer[Len(ranges) + 1] = shard
  BY <1>1, AppendProperties
<1>3. Len(ranges) \in Nat
  OBVIOUS
<1>4. hi = longer[Len(longer)].end_id + 1 /\ longer # <<>>
  BY <1>2, <1>3
<1>5. ASSUME NEW k \in 1 .. Len(longer)
      PROVE  /\ longer[k].path = k - 1
             /\ longer[k].start_id = IF k = 1 THEN 0 ELSE longer[k - 1].end_id + 1
             /\ longer[k].start_id <= longer[k].end_id
             /\ longer[k].ntotal = longer[k].end_id - longer[k].start_id + 1
  <2> HIDE DEF longer
  <2>1. CASE k \in 1 .. Len(ranges)
    <3>1. longer[k] = ranges[k]
      BY <2>1, <1>2
    <3>2. k # 1 => longer[k - 1] = ranges[k - 1]
      BY <2>1, <1>2, <1>3
    <3> QED
      BY <2>1, <3>1, <3>2 DEF Tiles
  <2>2. CASE k = Len(ranges) + 1
    <3>1. longer[k] = shard
      BY <2>2, <1>2
    <3>2. lo = IF k = 1 THEN 0 ELSE longer[k - 1].end_id + 1
      <4>1. k = 1 => lo = 0
        BY <2>2, <1>3 DEF Tiles
      <4>2. k # 1 => longer[k - 1] = ranges[Len(ranges)] /\ ranges # <<>>
        BY <2>2, <1>2, <1>3
      <4> QED
        BY <4>1, <4>2 DEF Tiles
    <3>3. /\ shard.path = Len(ranges) /\ shard.start_id = lo
          /\ shard.end_id = hi - 1 /\ shard.ntotal = hi - lo
      OBVIOUS
    <3>4. /\ k - 1 = Len(ranges) /\ lo <= hi - 1
          /\ (hi - 1) + 1 = hi /\ hi - lo = (hi - 1) - lo + 1
      BY <2>2, <1>3
    <3> HIDE DEF shard
    <3> QED
      BY <3>1, <3>2, <3>3, <3>4
  <2> QED
    BY <2>1, <2>2, <1>2, <1>3
<1>6. Tiles(longer, hi)
  BY <1>4, <1>5 DEF Tiles
<1> QED
  BY <1>2, <1>6

\* ... and what its file holds, if that is its part of the corpus.
LEMMA CoversAppend ==
  ASSUME NEW old \in [Docs -> Seq(Entry)], NEW ranges \in Seq(ShardRange),
         NEW lo \in Nat, NEW hi \in Nat, lo < hi,
         Covers(old, ranges, lo),
         Len(ranges) \in Docs
  PROVE  LET shard == [path |-> Len(ranges), start_id |-> lo,
                       end_id |-> hi - 1, ntotal |-> hi - lo]
         IN  Covers([old EXCEPT ![Len(ranges)] = Slice(lo, hi)], Append(ranges, shard), hi)
<1> DEFINE shard == [path |-> Len(ranges), start_id |-> lo,
                     end_id |-> hi - 1, ntotal |-> hi - lo]
           longer == Append(ranges, shard)
           new == [old EXCEPT ![Len(ranges)] = Slice(lo, hi)]
<1>1. shard \in ShardRange
  BY DEF ShardRange
<1>2. /\ Len(longer) = Len(ranges) + 1
      /\ \A k \in 1 .. Len(ranges) : longer[k] = ranges[k]
      /\ longer[Len(ranges) + 1] = shard
  BY <1>1, AppendProperties
<1>3. /\ Len(ranges) \in Nat
      /\ new[Len(ranges)] = Slice(lo, hi)
      /\ \A k \in 1 .. Len(ranges) : new[k - 1] = old[k - 1]
  BY NumDocsAssumption DEF Docs
<1>4. Tiles(longer, hi)
  BY TilesAppend DEF Covers
<1>5. ASSUME NEW k \in 1 .. Len(longer)
      PROVE  new[k - 1] = Slice(longer[k].start_id, longer[k].end_id + 1)
  <2> HIDE DEF longer, new
  <2>1. CASE k \in 1 .. Len(ranges)
    <3>1. longer[k] = ranges[k] /\ new[k - 1] = old[k - 1]
      BY <2>1, <1>2, <1>3
    <3> QED
      BY <2>1, <3>1 DEF Covers
  <2>2. CASE k = Len(ranges) + 1
    <3>1. longer[k] = shard /\ new[k - 1] = Slice(lo, hi)
      BY <2>2, <1>2, <1>3
    <3>2. shard.start_id = lo /\ shard.end_id + 1 = hi
      OBVIOUS
    <3> HIDE DEF shard
    <3> QED
      BY <3>1, <3>2
  <2> QED
    BY <2>1, <2>2, <1>2, <1>3
<1> QED
  BY <1>4, <1>5 DEF Covers

-----------------------------------------------------------------------------
(* The invariant holds initially and is preserved by every action.         *)

\* Instances of the definitions for an empty list of shards.
LEMMA NothingBuilt ==
  /\ NoCheckpoint \in Meta
  /\ Tiles(<<>>, 0)
  /\ \A contents : Covers(contents, <<>>, 0)
  /\ Slice(0, 0) = <<>>
  /\ \A b \in Nat : Aligned(0, b) /\ Pos(0, b) = 0
<1>1. NoCheckpoint \in Meta
  BY DEF NoCheckpoint, Meta, ShardRange
<1>2. Tiles(<<>>, 0) /\ \A contents : Covers(contents, <<>>, 0)
  BY DEF Covers, Tiles
<1>3. Slice(0, 0) = <<>>
  BY SliceType
<1>4. ASSUME NEW b \in Nat
      PROVE  Aligned(0, b) /\ Pos(0, b) = 0
  <2>1. 0 * b = 0
    OBVIOUS
  <2> QED
    BY <2>1, NumDocsAssumption DEF Aligned, Pos, HasBatch
<1> QED
  BY <1>1, <1>2, <1>3, <1>4

LEMMA InitIInv == Init => IInv
<1> SUFFICES ASSUME Init PROVE IInv
  OBVIOUS
<1> USE NumDocsAssumption, BoundsAssumption DEF Init
<1>1. TypeOK
  BY NothingBuilt DEF TypeOK, Phases, Docs, Origins
<1>2. DiskInv
  BY NothingBuilt DEF DiskInv, NoCheckpoint, ShardsIntact, PartialOwned
<1>3. ContentInv /\ IndexInv /\ PoolInv /\ PhaseInv /\ StaleInv
  BY DEF ContentInv, IndexInv, PoolInv, PhaseInv, StaleInv, PoolPhases, SavePhases, AddPhases,
         FinalFlushPhases, SealedPhases
<1> QED
  BY <1>1, <1>2, <1>3 DEF IInv

\* Steps that leave the files alone keep the disk invariant.
LEMMA DiskKept ==
  ASSUME DiskInv, UNCHANGED <<files, origin>>,
         pc \in {"down", "cleanup_partial", "done"} =>
           pc' \in {"down", "cleanup_partial", "done"}
  PROVE  DiskInv'
<1>1. ShardsIntact' = ShardsIntact
  BY DEF ShardsIntact, files
<1>2. PartialOwned' => PartialOwned
  BY DEF PartialOwned, files
<1> QED
  BY <1>1, <1>2 DEF DiskInv, files

\* The files of a single index are in order whatever was done to them.
LEMMA SingleFile ==
  ASSUME TypeOK, DiskInv, VectorsPerShard = 0
  PROVE  /\ checkpoint.shard_ranges = <<>> /\ checkpoint.current_shard_start = 0
         /\ ShardsIntact
         /\ partial = Slice(0, Len(partial))
<1>1. checkpoint.shard_ranges = <<>> /\ checkpoint.current_shard_start = 0
  BY DEF DiskInv, Tiles
<1>2. ShardsIntact
  BY <1>1, NothingBuilt DEF ShardsIntact
<1>3. partial = Slice(0, 0 + Len(partial))
  BY <1>1 DEF DiskInv, PartialOwned
<1>4. 0 + Len(partial) = Len(partial)
  BY DEF TypeOK
<1> QED
  BY <1>1, <1>2, <1>3, <1>4

\* The end of a process, by an exception or by a crash.
LEMMA ProcessEndsInv ==
  ASSUME IInv, ProcessEnds,
         crashes' \in 0 .. MaxCrashes, fetch_errors' \in 0 .. MaxFetchErrors
  PROVE  IInv'
<1>1. TypeOK'
  <2>1. /\ checkpoint' \in Meta /\ partial' \in Seq(Entry) /\ origin' \in Origins
        /\ shard_files' \in [Docs -> Seq(Entry)] /\ manifest' \in Seq(ShardRange)
    BY DEF IInv, TypeOK, ProcessEnds, files
  <2>2. /\ pc' \in Phases /\ index' \in Seq(Entry) /\ shard_ranges' \in Seq(ShardRange)
        /\ batch_retry_counts' \in [Docs -> Nat]
    BY DEF ProcessEnds, Phases
  <2>3. /\ batch_size' \in Nat /\ next_batch_idx' \in Nat /\ next_add_idx' \in Nat
        /\ in_flight' \subseteq Docs /\ pending_results' \subseteq Docs
        /\ total_added' \in 0 .. NumDocs /\ current_shard_start' \in 0 .. NumDocs
    BY NumDocsAssumption DEF ProcessEnds
  <2>4. dim_known' \in BOOLEAN /\ flush_happened' \in BOOLEAN
    BY DEF ProcessEnds
  <2> QED
    BY <2>1, <2>2, <2>3, <2>4 DEF TypeOK
<1>2. DiskInv'
  BY DiskKept DEF IInv, ProcessEnds
<1>3. ContentInv' /\ IndexInv' /\ PoolInv' /\ PhaseInv' /\ StaleInv'
  BY DEF ProcessEnds, ContentInv, IndexInv, PoolInv, PhaseInv, StaleInv, PoolPhases,
         SavePhases, AddPhases, FinalFlushPhases, SealedPhases
<1> QED
  BY <1>1, <1>2, <1>3 DEF IInv

\* A run starts from metadata that describes a prefix of the corpus and from
\* the index of that prefix beyond the last shard boundary, or at least from an
\* index and shards of that size.
LEMMA BeginInv ==
  ASSUME TypeOK, DiskInv', pc = "down", partial' \in Seq(Entry), origin' \in Origins,
         NEW b \in Nat \ {0}, NEW meta \in Meta, NEW saved_index \in Seq(Entry),
         Begin(b, meta, saved_index),
         Len(saved_index) = meta.total_added - meta.current_shard_start,
         meta.current_shard_start <= meta.total_added,
         meta.total_added = Pos(meta.next_add_idx, b),
         Aligned(meta.current_shard_start, b),
         Tiles(meta.shard_ranges, meta.current_shard_start),
         Len(meta.shard_ranges) <= meta.current_shard_start,
         VectorsPerShard = 0 => meta.shard_ranges = <<>>,
         origin' # "mixed" =>
           /\ saved_index = Slice(meta.current_shard_start, meta.total_added)
           /\ Covers(shard_files, meta.shard_ranges, meta.current_shard_start),
         origin' # "old_record" =>
           /\ checkpoint.current_shard_start <= meta.current_shard_start
           /\ Len(checkpoint.shard_ranges) <= Len(meta.shard_ranges)
           /\ \A k \in 1 .. Len(checkpoint.shard_ranges) :
                meta.shard_ranges[k] = checkpoint.shard_ranges[k],
         origin' = "own" =>
           partial' = <<>> \/ checkpoint.current_shard_start = meta.current_shard_start
  PROVE  IInv'
<1> USE DEF Begin
<1>1. TypeOK'
  <2>1. meta.total_added \in 0 .. NumDocs /\ meta.current_shard_start \in 0 .. NumDocs
    <3>1. /\ meta.next_add_idx \in Nat /\ b \in Nat
          /\ meta.total_added \in Nat /\ meta.current_shard_start \in Nat
      BY DEF Meta
    <3>2. Pos(meta.next_add_idx, b) <= NumDocs
      BY <3>1, PosType
    <3> QED
      BY <3>1, <3>2, NumDocsAssumption
  <2>2. /\ meta.next_add_idx \in Nat /\ meta.shard_ranges \in Seq(ShardRange)
        /\ DimOf(saved_index) \in BOOLEAN
    BY DEF Meta, DimOf
  <2> QED
    BY <2>1, <2>2 DEF TypeOK, Phases
<1>2. ContentInv'
  BY DEF ContentInv
<1>3. IndexInv'
  BY DEF IndexInv, RecordBehind
<1>4. PoolInv'
  <2>1. /\ pc' = "submitting" /\ in_flight' \cup pending_results' = {}
        /\ total_added' = Pos(next_add_idx', batch_size') /\ next_batch_idx' = next_add_idx'
        /\ pc' \notin AddPhases /\ pc' # "waiting"
    BY DEF AddPhases
  <2>2. next_add_idx' \in Nat
    BY DEF Meta
  <2>3. next_add_idx' <= next_batch_idx' /\ next_add_idx' .. next_batch_idx' - 1 = {}
    BY <2>1, <2>2
  <2> QED
    BY <2>1, <2>3, Zenon DEF PoolInv
<1>5. PhaseInv'
  BY DEF PhaseInv, SavePhases, FinalFlushPhases, SealedPhases
<1>6. StaleInv'
  BY DEF StaleInv
<1> QED
  BY <1>1, <1>2, <1>3, <1>4, <1>5, <1>6 DEF IInv

-----------------------------------------------------------------------------
(* Starting. *)

\* A fresh start leaves what it finds on disk, and knows if it may be of use.
LEMMA StartFreshInv ==
  ASSUME IInv, NEW b \in BatchSizes, StartFresh(b)
  PROVE  IInv'
<1>1. /\ b \in Nat \ {0} /\ pc = "down" /\ TypeOK /\ DiskInv
      /\ partial \in Seq(Entry) /\ checkpoint \in Meta
      /\ Begin(b, NoCheckpoint, <<>>)
  BY BatchSizesAssumption DEF IInv, StartFresh, TypeOK
<1>2. /\ UNCHANGED files
      /\ origin' = (IF checkpoint # NoCheckpoint THEN "old_record"
                    ELSE IF partial # <<>> THEN "old_partial" ELSE "own")
  BY DEF StartFresh, Begin, files
<1>3. /\ NoCheckpoint.current_shard_start = 0 /\ NoCheckpoint.total_added = 0
      /\ NoCheckpoint.next_add_idx = 0 /\ NoCheckpoint.shard_ranges = <<>>
  BY DEF NoCheckpoint
<1>4. /\ origin' \in Origins /\ origin' # "mixed"
      /\ origin' # "old_record" => checkpoint = NoCheckpoint
      /\ origin' = "own" => partial = <<>>
  BY <1>2 DEF Origins
<1>5. DiskInv'
  <2>1. origin' \notin {"old_record", "mixed"} => ShardsIntact'
    BY <1>2, <1>3, <1>4, NothingBuilt DEF ShardsIntact, files
  <2>2. PartialOwned' => partial' = Slice(checkpoint'.current_shard_start,
                                          checkpoint'.current_shard_start + Len(partial'))
    <3>1. CASE VectorsPerShard = 0
      BY <1>1, <1>2, <3>1 DEF DiskInv, PartialOwned, files
    <3>2. CASE origin' = "own"
      <4>1. partial = <<>> /\ Len(<<>>) = 0 /\ checkpoint.current_shard_start = 0 /\ 0 + 0 = 0
        BY <1>3, <1>4, <3>2
      <4> QED
        BY <1>2, <4>1, NothingBuilt DEF files
    <3> QED
      BY <3>1, <3>2 DEF PartialOwned
  <2> QED
    BY <1>1, <1>2, <1>4, <2>1, <2>2 DEF DiskInv, files
<1>6. partial' = partial
  BY <1>2 DEF files
<1>7. <<>> \in Seq(Entry) /\ Len(<<>>) = 0 - 0
  OBVIOUS
<1>8. /\ NoCheckpoint \in Meta
      /\ <<>> = Slice(NoCheckpoint.current_shard_start, NoCheckpoint.total_added)
      /\ Len(<<>>) = NoCheckpoint.total_added - NoCheckpoint.current_shard_start
      /\ NoCheckpoint.current_shard_start <= NoCheckpoint.total_added
      /\ NoCheckpoint.total_added = Pos(NoCheckpoint.next_add_idx, b)
      /\ Aligned(NoCheckpoint.current_shard_start, b)
      /\ Tiles(NoCheckpoint.shard_ranges, NoCheckpoint.current_shard_start)
      /\ Covers(shard_files, NoCheckpoint.shard_ranges, NoCheckpoint.current_shard_start)
  BY <1>1, <1>3, <1>7, NothingBuilt
<1>9. /\ Len(NoCheckpoint.shard_ranges) <= NoCheckpoint.current_shard_start
      /\ NoCheckpoint.current_shard_start <= NoCheckpoint.current_shard_start
      /\ Len(NoCheckpoint.shard_ranges) <= Len(NoCheckpoint.shard_ranges)
      /\ partial' \in Seq(Entry)
  BY <1>1, <1>3, <1>6
<1> QED
  BY <1>1, <1>3, <1>4, <1>5, <1>6, <1>7, <1>8, <1>9, BeginInv

\* What a resume from the record on disk has in any case: the numbers.
LEMMA RecordCounts ==
  ASSUME TypeOK, DiskInv, checkpoint # NoCheckpoint
  PROVE  /\ checkpoint.current_shard_start \in Nat
         /\ checkpoint.total_added \in Nat
         /\ checkpoint.partial_index_ntotal \in Nat
         /\ checkpoint.total_added =
              checkpoint.current_shard_start + checkpoint.partial_index_ntotal
         /\ checkpoint.total_added <= NumDocs
         /\ checkpoint.current_shard_start <= checkpoint.total_added
         /\ Len(checkpoint.shard_ranges) \in Nat
         /\ Len(checkpoint.shard_ranges) <= checkpoint.current_shard_start
         /\ checkpoint.batch_size \in Nat \ {0}
         /\ checkpoint.total_added = Pos(checkpoint.next_add_idx, checkpoint.batch_size)
         /\ Aligned(checkpoint.current_shard_start, checkpoint.batch_size)
         /\ Tiles(checkpoint.shard_ranges, checkpoint.current_shard_start)
         /\ VectorsPerShard = 0 => checkpoint.shard_ranges = <<>>
<1>1. checkpoint \in Meta
  BY DEF TypeOK
<1>2. /\ checkpoint.current_shard_start \in Nat
      /\ checkpoint.total_added \in Nat
      /\ checkpoint.partial_index_ntotal \in Nat
      /\ Len(checkpoint.shard_ranges) \in Nat
  BY <1>1 DEF Meta
<1> QED
  BY <1>2 DEF DiskInv

LEMMA ResumeInv ==
  ASSUME IInv, NEW b \in BatchSizes, Resume(b)
  PROVE  IInv'
<1> DEFINE start == checkpoint.current_shard_start
           total == checkpoint.total_added
<1>1. /\ b \in Nat \ {0} /\ pc = "down" /\ TypeOK /\ DiskInv
      /\ partial \in Seq(Entry) /\ checkpoint \in Meta /\ origin \in Origins
      /\ checkpoint # NoCheckpoint /\ checkpoint.batch_size = b /\ PartialMatches
      /\ Begin(b, checkpoint, partial)
  BY BatchSizesAssumption DEF IInv, Resume, TypeOK
<1>2. /\ UNCHANGED files
      /\ origin' = (IF origin = "own" \/ (ShardsIntact /\ partial = Slice(start, total))
                      THEN "own" ELSE "mixed")
  BY DEF Resume, Begin, files
<1>3. /\ start \in Nat /\ total \in Nat /\ start <= total
      /\ total = start + checkpoint.partial_index_ntotal
      /\ checkpoint.partial_index_ntotal \in Nat
      /\ Len(checkpoint.shard_ranges) \in Nat
      /\ Len(checkpoint.shard_ranges) <= start
      /\ total = Pos(checkpoint.next_add_idx, b)
      /\ Aligned(start, b)
      /\ Tiles(checkpoint.shard_ranges, start)
      /\ VectorsPerShard = 0 => checkpoint.shard_ranges = <<>>
  BY <1>1, RecordCounts
<1>4. Len(partial) = total - start /\ start + Len(partial) = total
  BY <1>1, <1>3 DEF PartialMatches
<1>5. origin' = "own" => ShardsIntact /\ partial = Slice(start, total)
  <2>1. CASE origin = "own"
    BY <1>1, <1>4, <2>1 DEF DiskInv, PartialOwned
  <2>2. CASE origin # "own"
    BY <1>2, <2>2
  <2> QED
    BY <2>1, <2>2
<1>6. VectorsPerShard = 0 => origin' # "mixed"
  <2> SUFFICES ASSUME VectorsPerShard = 0 PROVE origin' = "own"
    OBVIOUS
  <2>1. ShardsIntact /\ start = 0 /\ partial = Slice(0, Len(partial))
    BY <1>1, SingleFile
  <2>2. Len(partial) = total
    BY <1>3, <1>4, <2>1
  <2> QED
    BY <1>2, <2>1, <2>2
<1>7. origin' \in {"own", "mixed"} /\ partial' = partial
  BY <1>2 DEF files
<1>8. DiskInv'
  <2>1. ShardsIntact' = ShardsIntact
    BY <1>2 DEF ShardsIntact, files
  <2>2. PartialOwned' => partial = Slice(start, start + Len(partial))
    BY <1>4, <1>5, <1>6, <1>7 DEF PartialOwned
  <2> QED
    BY <1>1, <1>2, <1>5, <1>6, <1>7, <2>1, <2>2 DEF DiskInv, files
<1>9. origin' # "mixed" => Covers(shard_files, checkpoint.shard_ranges, start)
  BY <1>5, <1>7 DEF ShardsIntact
<1>10. start <= start /\ Len(checkpoint.shard_ranges) <= Len(checkpoint.shard_ranges)
  BY <1>3
<1>11. origin' \in Origins /\ partial' \in Seq(Entry)
  BY <1>1, <1>7 DEF Origins
<1> QED
  BY <1>1, <1>3, <1>4, <1>5, <1>7, <1>8, <1>9, <1>10, <1>11, BeginInv

\* The rollback: the batch recomputed from the shard boundary starts there.
LEMMA RolledBackProperties ==
  ASSUME TypeOK, DiskInv, checkpoint # NoCheckpoint, ~PartialMatches
  PROVE  /\ RolledBack \in Meta
         /\ RolledBack.total_added = checkpoint.current_shard_start
         /\ RolledBack.current_shard_start = checkpoint.current_shard_start
         /\ RolledBack.shard_ranges = checkpoint.shard_ranges
         /\ RolledBack.total_added = Pos(RolledBack.next_add_idx, checkpoint.batch_size)
<1> DEFINE start == checkpoint.current_shard_start
           b == checkpoint.batch_size
<1>1. /\ checkpoint \in Meta /\ b \in Nat \ {0} /\ start \in Nat
      /\ checkpoint.total_added = start + checkpoint.partial_index_ntotal
      /\ checkpoint.total_added <= NumDocs
      /\ Aligned(start, b)
      /\ checkpoint.partial_index_ntotal \in Nat
  BY RecordCounts DEF TypeOK
<1>2. checkpoint.partial_index_ntotal # 0
  <2> SUFFICES ASSUME checkpoint.partial_index_ntotal = 0 PROVE FALSE
    OBVIOUS
  <2>1. partial = <<>> /\ Len(<<>>) = 0
    BY DEF DiskInv
  <2> QED
    BY <2>1 DEF PartialMatches
<1>3. start < NumDocs
  BY <1>1, <1>2, NumDocsAssumption
<1>4. PICK k \in Nat : start = k * b
  BY <1>1, <1>3, NumDocsAssumption DEF Aligned
<1>5. start \div b = k
  BY <1>1, <1>4, DivExact
<1>6. Pos(k, b) = start
  BY <1>3, <1>4 DEF Pos, HasBatch
<1>7. /\ RolledBack.next_add_idx = k
      /\ RolledBack.total_added = start
      /\ RolledBack.current_shard_start = start
      /\ RolledBack.shard_ranges = checkpoint.shard_ranges
  BY <1>1, <1>5 DEF RolledBack, Meta
<1>8. RolledBack \in Meta
  BY <1>1, <1>5 DEF RolledBack, Meta
<1> QED
  BY <1>6, <1>7, <1>8

\* The shard the checkpoint resumes starts at a document.
LEMMA SavedStart ==
  ASSUME TypeOK
  PROVE  /\ checkpoint.current_shard_start \in Nat /\ Len(<<>>) = 0
         /\ Slice(checkpoint.current_shard_start, checkpoint.current_shard_start + 0) = <<>>
<1>1. checkpoint \in Meta /\ Len(<<>>) = 0
  BY DEF TypeOK
<1>2. /\ checkpoint.current_shard_start \in Nat
      /\ checkpoint.current_shard_start + 0 = checkpoint.current_shard_start
  BY <1>1 DEF Meta
<1> QED
  BY <1>1, <1>2, SliceEmpty

\* Removing partial.faiss never breaks anything; a failed removal changes nothing.
LEMMA UnlinkKeepsDisk ==
  ASSUME TypeOK, DiskInv, UnlinkPartial,
         UNCHANGED <<checkpoint, shard_files>>,
         origin' \notin {"old_record", "mixed"} => ShardsIntact,
         origin' = "mixed" => VectorsPerShard # 0,
         partial' # <<>> /\ PartialOwned' => PartialOwned
  PROVE  DiskInv' /\ partial' \in Seq(Entry)
<1>1. ShardsIntact' = ShardsIntact
  BY DEF ShardsIntact
<1>2. CASE partial' = <<>>
  <2>1. /\ checkpoint.current_shard_start \in Nat /\ Len(<<>>) = 0
        /\ Slice(checkpoint.current_shard_start, checkpoint.current_shard_start + 0) = <<>>
    BY SavedStart
  <2> QED
    BY <1>1, <1>2, <2>1 DEF DiskInv
<1>3. CASE partial' = partial /\ partial # <<>>
  BY <1>1, <1>3 DEF DiskInv, TypeOK
<1> QED
  BY <1>2, <1>3 DEF UnlinkPartial

LEMMA ResumeRolledBackInv ==
  ASSUME IInv, NEW b \in BatchSizes, ResumeRolledBack(b)
  PROVE  IInv'
<1> DEFINE start == checkpoint.current_shard_start
<1>1. /\ b \in Nat \ {0} /\ pc = "down" /\ TypeOK /\ DiskInv /\ checkpoint \in Meta
      /\ checkpoint # NoCheckpoint /\ checkpoint.batch_size = b /\ ~PartialMatches
      /\ UnlinkPartial
      /\ Begin(b, RolledBack, <<>>)
      /\ origin' = (IF origin = "own" THEN "own"
                    ELSE IF ~ShardsIntact THEN "mixed"
                    ELSE IF partial' = <<>> THEN "own" ELSE "old_partial")
  BY BatchSizesAssumption DEF IInv, ResumeRolledBack, TypeOK
<1>2. UNCHANGED <<checkpoint, shard_files>>
  BY <1>1 DEF Begin
<1>3. /\ origin' # "mixed" => ShardsIntact
      /\ origin' = "own" => partial' = <<>> \/ origin = "own"
      /\ origin' # "old_record" /\ origin' \in Origins
  BY <1>1 DEF DiskInv, Origins
<1>4. origin' = "mixed" => VectorsPerShard # 0
  BY <1>1, <1>3, SingleFile
<1>5. DiskInv' /\ partial' \in Seq(Entry)
  <2>1. partial' # <<>> /\ PartialOwned' => PartialOwned
    BY <1>1, <1>3 DEF PartialOwned
  <2> QED
    BY <1>1, <1>2, <1>3, <1>4, <2>1, UnlinkKeepsDisk
<1>6. /\ RolledBack \in Meta
      /\ RolledBack.total_added = start
      /\ RolledBack.current_shard_start = start
      /\ RolledBack.shard_ranges = checkpoint.shard_ranges
      /\ RolledBack.total_added = Pos(RolledBack.next_add_idx, b)
  BY <1>1, RolledBackProperties
<1>7. /\ start \in Nat
      /\ Len(checkpoint.shard_ranges) \in Nat
      /\ Aligned(start, b)
      /\ Tiles(checkpoint.shard_ranges, start)
      /\ Len(checkpoint.shard_ranges) <= start
      /\ VectorsPerShard = 0 => checkpoint.shard_ranges = <<>>
  BY <1>1, RecordCounts
<1>8. <<>> \in Seq(Entry) /\ Len(<<>>) = start - start
  BY <1>7
<1>9. Slice(start, start) = <<>>
  BY <1>7, SliceEmpty
<1>10. /\ origin' # "mixed" => <<>> = Slice(RolledBack.current_shard_start,
                                           RolledBack.total_added)
       /\ origin' # "mixed" =>
            Covers(shard_files, RolledBack.shard_ranges, RolledBack.current_shard_start)
       /\ Len(<<>>) = RolledBack.total_added - RolledBack.current_shard_start
       /\ RolledBack.current_shard_start <= RolledBack.total_added
       /\ Aligned(RolledBack.current_shard_start, b)
       /\ Tiles(RolledBack.shard_ranges, RolledBack.current_shard_start)
       /\ Len(RolledBack.shard_ranges) <= RolledBack.current_shard_start
       /\ start <= RolledBack.current_shard_start
       /\ Len(checkpoint.shard_ranges) <= Len(RolledBack.shard_ranges)
       /\ \A k \in 1 .. Len(checkpoint.shard_ranges) :
            RolledBack.shard_ranges[k] = checkpoint.shard_ranges[k]
       /\ VectorsPerShard = 0 => RolledBack.shard_ranges = <<>>
       /\ start = RolledBack.current_shard_start
  <2> HIDE DEF RolledBack
  <2> QED
    BY <1>3, <1>6, <1>7, <1>8, <1>9 DEF ShardsIntact
<1> QED
  BY <1>1, <1>3, <1>5, <1>6, <1>8, <1>10, BeginInv

LEMMA RefuseInv ==
  ASSUME IInv, NEW b \in BatchSizes, RefuseBatchSize(b)
  PROVE  IInv'
<1>1. /\ pc = "down" /\ pc' = pc /\ TypeOK /\ DiskInv
      /\ UNCHANGED <<checkpoint, shard_files, manifest, memory, crashes, fetch_errors>>
      /\ UnlinkPartial \/ UNCHANGED partial
      /\ IF partial' = <<>> THEN origin' = IF origin = "old_partial" THEN "own" ELSE origin
                            ELSE origin' = origin
  BY DEF IInv, RefuseBatchSize, PartialRenewed
<1>2. origin' \in Origins
  BY <1>1 DEF TypeOK, Origins
<1>3. DiskInv' /\ partial' \in Seq(Entry)
  <2>1. CASE UnlinkPartial
    <3>1. /\ origin' \notin {"old_record", "mixed"} => ShardsIntact
          /\ origin' = "mixed" => VectorsPerShard # 0
      BY <1>1 DEF DiskInv
    <3>2. partial' # <<>> /\ PartialOwned' => PartialOwned
      BY <1>1 DEF PartialOwned
    <3> QED
      BY <1>1, <2>1, <3>1, <3>2, UnlinkKeepsDisk
  <2>2. CASE partial' = partial
    <3>1. ShardsIntact' = ShardsIntact
      BY <1>1 DEF ShardsIntact
    <3>2. CASE partial # <<>>
      <4>1. PartialOwned' => PartialOwned
        BY <1>1, <2>2, <3>2 DEF PartialOwned
      <4> QED
        BY <1>1, <2>2, <3>1, <3>2, <4>1 DEF DiskInv, TypeOK
    <3>3. CASE partial = <<>>
      <4>1. Slice(checkpoint.current_shard_start,
                  checkpoint.current_shard_start + Len(<<>>)) = <<>>
        BY <1>1, SavedStart
      <4> QED
        BY <1>1, <2>2, <3>1, <3>3, <4>1 DEF DiskInv, TypeOK
    <3> QED
      BY <3>2, <3>3
  <2> QED
    BY <1>1, <2>1, <2>2
<1>4. TypeOK'
  BY <1>1, <1>2, <1>3 DEF TypeOK, memory, pool, progress
<1>5. ContentInv' /\ IndexInv' /\ PoolInv' /\ PhaseInv' /\ StaleInv'
  BY <1>1 DEF IInv, ContentInv, IndexInv, PoolInv, PhaseInv, StaleInv, memory, pool, progress,
              PoolPhases, SavePhases, AddPhases, FinalFlushPhases, SealedPhases
<1> QED
  BY <1>3, <1>4, <1>5 DEF IInv

-----------------------------------------------------------------------------
(* Fetching. *)

\* Submitting the next batch keeps the account of the pool.
LEMMA SubmitNextInv ==
  ASSUME TypeOK, PoolInv, pc \in PoolPhases, batch_size \in Nat \ {0}, SubmitNext
  PROVE  /\ next_batch_idx \in Docs /\ next_batch_idx \notin pending_results
         /\ in_flight' \subseteq Docs
         /\ next_batch_idx' = next_batch_idx + 1
         /\ in_flight' \cap pending_results = {}
         /\ in_flight' \cup pending_results = next_add_idx .. next_batch_idx' - 1
         /\ \A i \in in_flight' \cup pending_results : HasBatch(i, batch_size)
<1>1. /\ next_batch_idx \in Nat /\ next_add_idx \in Nat /\ next_add_idx <= next_batch_idx
      /\ in_flight \cap pending_results = {}
      /\ in_flight \cup pending_results = next_add_idx .. next_batch_idx - 1
      /\ \A i \in in_flight \cup pending_results : HasBatch(i, batch_size)
      /\ in_flight \subseteq Docs
  BY DEF TypeOK, PoolInv
<1>2. /\ HasBatch(next_batch_idx, batch_size)
      /\ in_flight' = in_flight \cup {next_batch_idx}
      /\ next_batch_idx' = next_batch_idx + 1
  BY DEF SubmitNext
<1>3. next_batch_idx \in Docs
  BY <1>1, <1>2, BatchNumbers
<1>4. next_batch_idx \notin pending_results
  BY <1>1
<1>5. in_flight' \cup pending_results = next_add_idx .. next_batch_idx' - 1
  BY <1>1, <1>2
<1> QED
  BY <1>1, <1>2, <1>3, <1>4, <1>5

LEMMA FillPoolInv ==
  ASSUME IInv, FillPool
  PROVE  IInv'
<1>1. /\ pc = "submitting" /\ TypeOK /\ PoolInv
      /\ UNCHANGED <<files, batch_size, next_add_idx, flush_happened, pending_results,
                     batch_retry_counts, progress, crashes, fetch_errors, origin>>
      /\ batch_size \in Nat \ {0}
  BY DEF IInv, FillPool, IndexInv
<1>2. CASE SubmitNext /\ pc' = pc
  <2>1. /\ in_flight' \subseteq Docs
        /\ next_batch_idx' = next_batch_idx + 1 /\ next_batch_idx \in Nat
        /\ in_flight' \cap pending_results = {}
        /\ in_flight' \cup pending_results = next_add_idx .. next_batch_idx' - 1
        /\ \A i \in in_flight' \cup pending_results : HasBatch(i, batch_size)
    BY <1>1, <1>2, SubmitNextInv DEF PoolPhases, TypeOK
  <2>2. TypeOK'
    BY <1>1, <1>2, <2>1 DEF TypeOK, files, progress
  <2>3. DiskInv'
    BY <1>1, <1>2, DiskKept DEF IInv
  <2>4. PoolInv'
    BY <1>1, <1>2, <2>1 DEF PoolInv, TypeOK, progress, PoolPhases, SavePhases, AddPhases
  <2>5. ContentInv' /\ IndexInv' /\ PhaseInv' /\ StaleInv'
    BY <1>1, <1>2 DEF IInv, ContentInv, IndexInv, RecordBehind, PhaseInv, StaleInv,
                      files, progress
  <2> QED
    BY <2>2, <2>3, <2>4, <2>5 DEF IInv
<1>3. CASE /\ ~(HasBatch(next_batch_idx, batch_size) /\ Cardinality(in_flight) < MaxWorkers)
           /\ pc' = "waiting" /\ UNCHANGED <<next_batch_idx, in_flight>>
  <2>1. TypeOK'
    BY <1>1, <1>3 DEF TypeOK, files, progress, Phases
  <2>2. DiskInv'
    BY <1>1, <1>3, DiskKept DEF IInv
  <2>3. HasBatch(next_batch_idx, batch_size) => in_flight # {}
    BY <1>3, FS_EmptySet, PoolAssumption
  <2>4. PoolInv'
    BY <1>1, <1>3, <2>3 DEF PoolInv, progress, PoolPhases, SavePhases, AddPhases
  <2>5. ContentInv' /\ IndexInv' /\ PhaseInv' /\ StaleInv'
    BY <1>1, <1>3 DEF IInv, ContentInv, IndexInv, RecordBehind, PhaseInv, StaleInv,
                      files, progress,
                      SavePhases, FinalFlushPhases, SealedPhases
  <2> QED
    BY <2>1, <2>2, <2>4, <2>5 DEF IInv
<1> QED
  BY <1>2, <1>3 DEF FillPool

LEMMA FetchDoneInv ==
  ASSUME IInv, NEW i \in in_flight, FetchDone(i)
  PROVE  IInv'
<1>1. /\ pc = "waiting" /\ pc' = "adding"
      /\ in_flight' = in_flight \ {i} /\ pending_results' = pending_results \cup {i}
      /\ UNCHANGED <<files, batch_size, next_add_idx, flush_happened, next_batch_idx,
                     batch_retry_counts, progress, crashes, fetch_errors, origin>>
  BY DEF FetchDone
<1>2. TypeOK'
  BY <1>1 DEF IInv, TypeOK, files, progress, Phases
<1>3. DiskInv'
  BY <1>1, DiskKept DEF IInv
<1>4. PoolInv'
  <2>1. /\ in_flight' \cap pending_results' = {}
        /\ in_flight' \cup pending_results' = in_flight \cup pending_results
    BY <1>1 DEF IInv, PoolInv
  <2> QED
    BY <1>1, <2>1 DEF IInv, PoolInv, progress, PoolPhases, SavePhases, AddPhases
<1>5. ContentInv' /\ IndexInv' /\ PhaseInv' /\ StaleInv'
  BY <1>1 DEF IInv, ContentInv, IndexInv, RecordBehind, PhaseInv, StaleInv, files, progress,
              SavePhases, FinalFlushPhases, SealedPhases
<1> QED
  BY <1>2, <1>3, <1>4, <1>5 DEF IInv

LEMMA FetchRetryInv ==
  ASSUME IInv, NEW i \in in_flight, FetchRetry(i)
  PROVE  IInv'
<1>1. /\ pc = "waiting"
      /\ batch_retry_counts' = [batch_retry_counts EXCEPT ![i] = @ + 1]
      /\ fetch_errors < MaxFetchErrors /\ fetch_errors' = fetch_errors + 1
      /\ UNCHANGED <<files, pc, batch_size, next_add_idx, flush_happened,
                     next_batch_idx, in_flight, pending_results, progress, crashes, origin>>
  BY DEF FetchRetry
<1>2. TypeOK'
  <2>1. fetch_errors' \in 0 .. MaxFetchErrors
    BY <1>1, BoundsAssumption DEF IInv, TypeOK
  <2>2. batch_retry_counts' \in [Docs -> Nat]
    BY <1>1 DEF IInv, TypeOK
  <2> QED
    BY <1>1, <2>1, <2>2 DEF IInv, TypeOK, files, progress
<1>3. DiskInv'
  BY <1>1, DiskKept DEF IInv
<1>4. ContentInv' /\ IndexInv' /\ PoolInv' /\ PhaseInv' /\ StaleInv'
  BY <1>1 DEF IInv, ContentInv, IndexInv, RecordBehind, PoolInv, PhaseInv, StaleInv,
              files, progress
<1> QED
  BY <1>2, <1>3, <1>4 DEF IInv

LEMMA FetchGivesUpInv ==
  ASSUME IInv, NEW i \in in_flight, FetchGivesUp(i)
  PROVE  IInv'
<1>1. /\ pc = "waiting" /\ ProcessEnds /\ crashes' = crashes
      /\ fetch_errors' \in 0 .. MaxFetchErrors
      /\ crashes' \in 0 .. MaxCrashes
  BY BoundsAssumption DEF FetchGivesUp, IInv, TypeOK
<1> QED
  BY <1>1, ProcessEndsInv

LEMMA AddLoopEndsInv ==
  ASSUME IInv, AddLoopEnds
  PROVE  IInv'
<1>1. /\ pc = "adding" /\ pc' = "waiting" /\ next_add_idx \notin pending_results
      /\ TypeOK /\ PoolInv /\ batch_size \in Nat \ {0}
      /\ UNCHANGED <<files, batch_size, next_add_idx, flush_happened, pending_results,
                     batch_retry_counts, progress, crashes, fetch_errors, origin>>
  BY DEF AddLoopEnds, IInv, IndexInv
<1>2. DiskInv'
  BY <1>1, DiskKept DEF IInv
<1>3. ContentInv' /\ IndexInv' /\ PhaseInv' /\ StaleInv'
  BY <1>1 DEF IInv, ContentInv, IndexInv, RecordBehind, PhaseInv, StaleInv, files, progress,
              SavePhases, FinalFlushPhases, SealedPhases
<1>4. CASE SubmitNext
  <2>1. /\ in_flight' \subseteq Docs
        /\ next_batch_idx' = next_batch_idx + 1 /\ next_batch_idx \in Nat
        /\ in_flight' \cap pending_results = {}
        /\ in_flight' \cup pending_results = next_add_idx .. next_batch_idx' - 1
        /\ \A i \in in_flight' \cup pending_results : HasBatch(i, batch_size)
        /\ in_flight' # {}
    BY <1>1, <1>4, SubmitNextInv DEF PoolPhases, TypeOK, SubmitNext
  <2>2. /\ pc' \in Phases /\ next_batch_idx' \in Nat
        /\ in_flight' \subseteq Docs /\ pending_results' \subseteq Docs
    <3>1. next_batch_idx' \in Nat
      BY <2>1
    <3>2. pc' \in Phases /\ pending_results' \subseteq Docs
      BY <1>1 DEF TypeOK, Phases
    <3> QED
      BY <2>1, <3>1, <3>2
  <2>3. TypeOK'
    BY <1>1, <2>2 DEF TypeOK, files, progress
  <2>4. PoolInv'
    <3>1. /\ pc' = "waiting" /\ pc \in PoolPhases /\ batch_size' = batch_size
          /\ next_add_idx' = next_add_idx /\ pending_results' = pending_results
          /\ total_added' = total_added /\ pc' \notin AddPhases
      BY <1>1 DEF progress, PoolPhases, AddPhases
    <3>2. /\ next_add_idx <= next_batch_idx /\ total_added = Pos(next_add_idx, batch_size)
          /\ next_add_idx \in Nat
      BY <1>1, <3>1 DEF PoolInv, TypeOK
    <3>3. next_add_idx <= next_batch_idx'
      BY <2>1, <3>2
    <3> QED
      BY <1>1, <2>1, <3>1, <3>2, <3>3 DEF PoolInv
  <2> QED
    BY <1>2, <1>3, <2>3, <2>4 DEF IInv
<1>5. CASE ~HasBatch(next_batch_idx, batch_size) /\ UNCHANGED <<next_batch_idx, in_flight>>
  <2>1. TypeOK'
    BY <1>1, <1>5 DEF TypeOK, files, progress, Phases
  <2>2. PoolInv'
    BY <1>1, <1>5 DEF PoolInv, progress, PoolPhases, SavePhases, AddPhases
  <2> QED
    BY <1>2, <1>3, <2>1, <2>2 DEF IInv
<1> QED
  BY <1>4, <1>5 DEF AddLoopEnds

-----------------------------------------------------------------------------
(* Adding and flushing. *)

LEMMA AddBatchInv ==
  ASSUME IInv, AddBatch
  PROVE  IInv'
<1> DEFINE n == next_add_idx
           b == batch_size
<1>1. /\ pc = "adding" /\ n \in pending_results
      /\ pending_results' = pending_results \ {n}
      /\ index' = index \o Entries(n, b, total_added)
      /\ dim_known' = TRUE
      /\ total_added' = total_added + BatchLen(n, b)
      /\ pc' = (IF VectorsPerShard > 0 /\ Len(index') >= VectorsPerShard
                  THEN "flush" ELSE "added")
      /\ UNCHANGED <<files, batch_size, next_add_idx, flush_happened, next_batch_idx,
                     in_flight, batch_retry_counts, current_shard_start, shard_ranges,
                     crashes, fetch_errors, origin>>
  BY DEF AddBatch
<1>2. /\ TypeOK /\ PoolInv /\ n \in Nat /\ b \in Nat \ {0}
      /\ HasBatch(n, b) /\ total_added = Pos(n, b)
      /\ current_shard_start \in Nat /\ current_shard_start <= total_added
      /\ index \in Seq(Entry) /\ Len(index) = total_added - current_shard_start
  <2>1. TypeOK /\ PoolInv /\ IndexInv
    BY DEF IInv
  <2>2. /\ n \in Nat /\ current_shard_start \in Nat
        /\ b \in Nat \ {0} /\ current_shard_start <= total_added
        /\ index \in Seq(Entry) /\ Len(index) = total_added - current_shard_start
    BY <1>1, <2>1 DEF TypeOK, IndexInv
  <2>3. HasBatch(n, b) /\ total_added = Pos(n, b)
    BY <1>1, <2>1 DEF PoolInv, PoolPhases
  <2> QED
    BY <2>1, <2>2, <2>3
<1>3. /\ BatchLen(n, b) \in Nat \ {0}
      /\ total_added' = Pos(n + 1, b)
      /\ Entries(n, b, total_added) = Slice(total_added, total_added')
      /\ total_added \in Nat /\ total_added < total_added'
      /\ total_added' \in 0 .. NumDocs
  <2>1. /\ BatchLen(n, b) \in Nat \ {0}
        /\ total_added' = Pos(n + 1, b)
    BY <1>1, <1>2, NextPosition
  <2>2. total_added \in Nat /\ total_added < total_added'
    <3>1. total_added \in 0 .. NumDocs
      BY <1>2 DEF TypeOK
    <3>2. total_added' = total_added + BatchLen(n, b)
      BY <1>1
    <3> HIDE DEF n, b
    <3> QED
      BY <2>1, <3>1, <3>2
  <2>3. n + 1 \in Nat /\ b \in Nat
    BY <1>2
  <2>4. total_added' \in 0 .. NumDocs
    BY <2>1, <2>3, PosType, NumDocsAssumption
  <2>5. Entries(n, b, Pos(n, b)) = Slice(Pos(n, b), Pos(n + 1, b))
    BY <1>2, EntriesAreSlice
  <2> QED
    BY <1>2, <2>1, <2>2, <2>4, <2>5
<1>4. index = Slice(current_shard_start, total_added)
        => index' = Slice(current_shard_start, total_added')
  <2> HAVE index = Slice(current_shard_start, total_added)
  <2>1. total_added' \in Nat /\ total_added <= total_added' /\ total_added \in Nat
    BY <1>3
  <2>2. index' = Slice(current_shard_start, total_added) \o Slice(total_added, total_added')
    BY <1>1, <1>2, <1>3
  <2>3. Slice(current_shard_start, total_added) \o Slice(total_added, total_added')
          = Slice(current_shard_start, total_added')
    BY <1>2, <2>1, SliceAppend
  <2> QED
    BY <2>2, <2>3
<1>5. /\ index' \in Seq(Entry) /\ index' # <<>>
      /\ Len(index') = total_added' - current_shard_start
  <2>1. /\ total_added' \in Nat /\ total_added <= total_added'
        /\ total_added' - current_shard_start # 0
    BY <1>2, <1>3
  <2>2. PICK added : added = Slice(total_added, total_added')
    OBVIOUS
  <2>3. index' = index \o added
    BY <1>1, <1>3, <2>2
  <2>4. added \in Seq(Entry) /\ Len(added) = total_added' - total_added
    BY <1>3, <2>1, <2>2, SliceType
  <2>5. index' \in Seq(Entry) /\ Len(index') = Len(index) + Len(added)
    <3>1. index \in Seq(Entry)
      BY <1>2
    <3> QED
      BY <2>3, <2>4, <3>1, ConcatProperties
  <2>6. Len(index') = total_added' - current_shard_start
    BY <1>2, <1>3, <2>1, <2>4, <2>5
  <2> QED
    BY <2>1, <2>5, <2>6
<1>6. TypeOK'
  <2>1. pc' \in Phases /\ dim_known' \in BOOLEAN /\ pending_results' \subseteq Docs
    BY <1>1, <1>2 DEF Phases, TypeOK
  <2> QED
    BY <1>1, <1>2, <1>3, <1>5, <2>1 DEF TypeOK, files
<1>7. DiskInv'
  BY <1>1, DiskKept DEF IInv
<1>8. ContentInv' /\ IndexInv'
  <2>1. current_shard_start' = current_shard_start /\ current_shard_start <= total_added'
    BY <1>1, <1>2, <1>3
  <2>2. ContentInv'
    BY <1>1, <1>4, <2>1 DEF IInv, ContentInv, files
  <2>3. IndexInv'
    BY <1>1, <1>5, <2>1 DEF IInv, IndexInv, RecordBehind, files
  <2> QED
    BY <2>2, <2>3
<1>9. PoolInv'
  <2>1. /\ in_flight' \cap pending_results' = {}
        /\ in_flight \cup pending_results = n .. next_batch_idx - 1
        /\ n \notin in_flight /\ next_batch_idx \in Nat
    BY <1>1, <1>2 DEF PoolInv, PoolPhases, TypeOK
  <2>2. in_flight' \cup pending_results' = n + 1 .. next_batch_idx - 1
    BY <1>1, <1>2, <2>1
  <2>3. n + 1 <= next_batch_idx
    <3>1. n \in n .. next_batch_idx - 1
      BY <1>1, <2>1
    <3> QED
      BY <1>2, <2>1, <3>1
  <2> QED
    BY <1>1, <1>2, <1>3, <2>1, <2>2, <2>3 DEF PoolInv, PoolPhases, SavePhases, AddPhases
<1>10. PhaseInv'
  BY <1>1, <1>5 DEF IInv, PhaseInv, SavePhases, FinalFlushPhases, SealedPhases
<1>11. StaleInv'
  BY <1>1 DEF IInv, StaleInv, SealedPhases, files
<1> QED
  BY <1>6, <1>7, <1>8, <1>9, <1>10, <1>11 DEF IInv

\* The shard being written is none of those already listed.
LEMMA OpenShardIsNew ==
  ASSUME IInv, pc \in {"flush", "writing"} \cup FinalFlushPhases
  PROVE  /\ Len(shard_ranges) \in Docs
         /\ Len(checkpoint.shard_ranges) \in Nat
         /\ origin # "old_record" => Len(checkpoint.shard_ranges) <= Len(shard_ranges)
         /\ current_shard_start < total_added
         /\ current_shard_start \in Nat /\ total_added \in Nat
         /\ shard_ranges \in Seq(ShardRange)
         /\ checkpoint.shard_ranges \in Seq(ShardRange)
         /\ index \in Seq(Entry)
         /\ Len(index) = total_added - current_shard_start
         /\ Tiles(shard_ranges, current_shard_start)
<1>1. /\ index # <<>> /\ index \in Seq(Entry)
      /\ Len(index) = total_added - current_shard_start
      /\ current_shard_start \in Nat /\ total_added \in 0 .. NumDocs
      /\ current_shard_start <= total_added
      /\ Len(shard_ranges) <= current_shard_start
      /\ origin # "old_record" => Len(checkpoint.shard_ranges) <= Len(shard_ranges)
      /\ shard_ranges \in Seq(ShardRange)
      /\ checkpoint.shard_ranges \in Seq(ShardRange)
      /\ Tiles(shard_ranges, current_shard_start)
  <2>1. /\ shard_ranges \in Seq(ShardRange) /\ checkpoint.shard_ranges \in Seq(ShardRange)
        /\ current_shard_start \in 0 .. NumDocs /\ total_added \in 0 .. NumDocs
        /\ index \in Seq(Entry)
    BY DEF IInv, TypeOK, Meta
  <2>2. index # <<>>
    BY DEF IInv, PhaseInv, FinalFlushPhases
  <2>3. /\ Len(index) = total_added - current_shard_start
        /\ current_shard_start <= total_added
        /\ Len(shard_ranges) <= current_shard_start
        /\ origin # "old_record" => Len(checkpoint.shard_ranges) <= Len(shard_ranges)
        /\ Tiles(shard_ranges, current_shard_start)
    BY DEF IInv, IndexInv, RecordBehind, FinalFlushPhases
  <2> QED
    BY <2>1, <2>2, <2>3
<1>2. current_shard_start < total_added
  <2>1. total_added \in Nat
    BY <1>1
  <2>2. total_added - current_shard_start # 0
    BY <1>1
  <2> QED
    BY <1>1, <2>1, <2>2
<1>3. Len(shard_ranges) \in Docs
  BY <1>1, <1>2, NumDocsAssumption DEF Docs
<1> QED
  BY <1>1, <1>2, <1>3

\* Writing the shard that is next leaves those on disk and in memory alone.
LEMMA ShardWritten ==
  ASSUME IInv, pc \in {"flush", "writing"} \cup FinalFlushPhases,
         NEW content \in Seq(Entry),
         shard_files' = [shard_files EXCEPT ![Len(shard_ranges)] = content],
         UNCHANGED <<checkpoint, partial, origin>>, pc' # "down"
  PROVE  /\ shard_files' \in [Docs -> Seq(Entry)]
         /\ origin # "mixed" => Covers(shard_files', shard_ranges, current_shard_start)
         /\ pc' \notin {"cleanup_partial", "done"} => DiskInv'
<1>1. /\ Len(shard_ranges) \in Docs /\ Len(shard_ranges) \in Nat
      /\ Len(checkpoint.shard_ranges) \in Nat
      /\ origin # "old_record" => Len(checkpoint.shard_ranges) <= Len(shard_ranges)
      /\ shard_ranges \in Seq(ShardRange) /\ checkpoint.shard_ranges \in Seq(ShardRange)
  BY OpenShardIsNew
<1>2. shard_files' \in [Docs -> Seq(Entry)]
  BY <1>1 DEF IInv, TypeOK
<1>3. \A k \in 1 .. Len(shard_ranges) : shard_files'[k - 1] = shard_files[k - 1]
  BY <1>1, NumDocsAssumption DEF IInv, TypeOK, Docs
<1>4. origin # "mixed" => Covers(shard_files', shard_ranges, current_shard_start)
  BY <1>1, <1>3, CoversStable DEF IInv, ContentInv, FinalFlushPhases
<1>5. origin \notin {"old_record", "mixed"} => ShardsIntact'
  <2> HAVE origin \notin {"old_record", "mixed"}
  <2>1. \A k \in 1 .. Len(checkpoint.shard_ranges) : shard_files'[k - 1] = shard_files[k - 1]
    BY <1>1, <1>3
  <2>2. Covers(shard_files, checkpoint.shard_ranges, checkpoint.current_shard_start)
    BY DEF IInv, DiskInv, ShardsIntact
  <2> QED
    BY <1>1, <2>1, <2>2, CoversStable DEF ShardsIntact
<1>6. pc' \notin {"cleanup_partial", "done"} => DiskInv'
  <2>1. PartialOwned' => PartialOwned
    BY DEF PartialOwned, FinalFlushPhases
  <2> QED
    BY <1>5, <2>1 DEF IInv, DiskInv
<1> QED
  BY <1>2, <1>4, <1>6

LEMMA OpenShardInv ==
  ASSUME IInv, NEW at, NEW then,
         \/ at = "flush" /\ then = "writing"
         \/ at = "final_flush" /\ then = "final_writing",
         OpenShard(at, then)
  PROVE  IInv'
<1>1. /\ pc = at /\ pc' = then
      /\ shard_files' = [shard_files EXCEPT ![Len(shard_ranges)] = <<>>]
      /\ UNCHANGED <<checkpoint, partial, manifest, memory, crashes, fetch_errors, origin>>
      /\ TypeOK
  BY DEF OpenShard, IInv
<1>2. /\ shard_files' \in [Docs -> Seq(Entry)]
      /\ origin # "mixed" => Covers(shard_files', shard_ranges, current_shard_start)
      /\ DiskInv'
  <2>1. <<>> \in Seq(Entry)
    OBVIOUS
  <2> QED
    BY <1>1, <2>1, ShardWritten DEF FinalFlushPhases
<1>3. TypeOK'
  <2>1. pc' \in Phases
    BY <1>1 DEF Phases
  <2> QED
    BY <1>1, <1>2, <2>1 DEF TypeOK, memory, pool, progress
<1>4. ContentInv'
  BY <1>1, <1>2 DEF IInv, ContentInv, memory, pool, progress
<1>5. IndexInv'
  BY <1>1 DEF IInv, IndexInv, RecordBehind, memory, pool, progress
<1>6. PoolInv' /\ PhaseInv' /\ StaleInv'
  BY <1>1 DEF IInv, PoolInv, PhaseInv, StaleInv, memory, pool, progress,
              PoolPhases, SavePhases, AddPhases, FinalFlushPhases, SealedPhases
<1> QED
  BY <1>2, <1>3, <1>4, <1>5, <1>6 DEF IInv

LEMMA CloseShardInv ==
  ASSUME IInv, NEW at, NEW then,
         \/ at = "writing" /\ then = "added"
         \/ at = "final_writing" /\ then = "publish",
         CloseShard(at, then)
  PROVE  IInv'
<1> DEFINE shard == [path |-> Len(shard_ranges), start_id |-> current_shard_start,
                     end_id |-> total_added - 1, ntotal |-> Len(index)]
<1>1. /\ pc = at /\ pc' = then
      /\ shard_files' = [shard_files EXCEPT ![Len(shard_ranges)] = index]
      /\ shard_ranges' = Append(shard_ranges, shard)
      /\ current_shard_start' = total_added
      /\ index' = <<>> /\ flush_happened' = TRUE
      /\ UNCHANGED <<checkpoint, partial, manifest, batch_size, next_add_idx, pool,
                     dim_known, total_added, crashes, fetch_errors, origin>>
      /\ TypeOK
  BY DEF CloseShard, IInv
<1>2. /\ Len(shard_ranges) \in Docs
      /\ Len(checkpoint.shard_ranges) \in Nat
      /\ origin # "old_record" => Len(checkpoint.shard_ranges) <= Len(shard_ranges)
      /\ current_shard_start < total_added
      /\ current_shard_start \in Nat /\ total_added \in Nat
      /\ shard_ranges \in Seq(ShardRange) /\ checkpoint.shard_ranges \in Seq(ShardRange)
      /\ index \in Seq(Entry)
      /\ Len(index) = total_added - current_shard_start
      /\ Tiles(shard_ranges, current_shard_start)
  BY <1>1, OpenShardIsNew DEF FinalFlushPhases
<1>3. shard_ranges' = Append(shard_ranges,
                             [path |-> Len(shard_ranges),
                              start_id |-> current_shard_start,
                              end_id |-> total_added - 1,
                              ntotal |-> total_added - current_shard_start])
  BY <1>1, <1>2
<1>4. /\ shard_ranges' \in Seq(ShardRange)
      /\ Len(shard_ranges') = Len(shard_ranges) + 1
      /\ Tiles(shard_ranges', total_added)
  BY <1>2, <1>3, TilesAppend
<1>5. /\ shard_files' \in [Docs -> Seq(Entry)]
      /\ DiskInv'
  BY <1>1, <1>2, ShardWritten DEF FinalFlushPhases
<1>6. ContentInv'
  <2> SUFFICES ASSUME origin # "mixed"
               PROVE  /\ <<>> = Slice(total_added, total_added)
                      /\ Covers(shard_files', shard_ranges', total_added)
    BY <1>1 DEF ContentInv
  <2>1. /\ index = Slice(current_shard_start, total_added)
        /\ Covers(shard_files, shard_ranges, current_shard_start)
    BY <1>1 DEF IInv, ContentInv
  <2>2. shard_files \in [Docs -> Seq(Entry)]
    BY <1>1 DEF TypeOK
  <2>3. shard_files' = [shard_files EXCEPT ![Len(shard_ranges)] =
                                      Slice(current_shard_start, total_added)]
    BY <1>1, <2>1
  <2>4. Covers(shard_files', shard_ranges', total_added)
    BY <1>2, <1>3, <2>1, <2>2, <2>3, CoversAppend
  <2> QED
    BY <1>2, <2>4, SliceEmpty
<1>7. TypeOK'
  <2>1. pc' \in Phases /\ flush_happened' \in BOOLEAN /\ index' \in Seq(Entry)
    BY <1>1 DEF Phases
  <2> QED
    BY <1>1, <1>4, <1>5, <2>1 DEF TypeOK, pool
<1>8. Aligned(total_added, batch_size)
  <2>1. CASE at = "writing"
    <3>1. /\ next_add_idx \in Nat /\ batch_size \in Nat \ {0}
          /\ total_added = Pos(next_add_idx + 1, batch_size)
      BY <1>1, <2>1 DEF IInv, TypeOK, PoolInv, IndexInv, AddPhases
    <3>2. Pos(next_add_idx + 1, batch_size) =
            IF HasBatch(next_add_idx + 1, batch_size)
              THEN (next_add_idx + 1) * batch_size ELSE NumDocs
      BY DEF Pos
    <3>3. next_add_idx + 1 \in Nat
      BY <3>1
    <3> QED
      BY <3>1, <3>2, <3>3 DEF Aligned
  <2>2. CASE at = "final_writing"
    BY <1>1, <2>2 DEF IInv, PhaseInv, FinalFlushPhases, Aligned
  <2> QED
    BY <2>1, <2>2
<1>9. IndexInv'
  <2>1. Len(index') = total_added' - current_shard_start'
    BY <1>1, <1>2
  <2>2. \A k \in 1 .. Len(shard_ranges) : shard_ranges'[k] = shard_ranges[k]
    BY <1>1, <1>2
  <2>3. Len(shard_ranges') <= current_shard_start'
    BY <1>1, <1>2, <1>4 DEF IInv, IndexInv
  <2>4. origin # "old_record" => RecordBehind'
    <3> HAVE origin # "old_record"
    <3>1. RecordBehind
      BY <1>1 DEF IInv, IndexInv
    <3>2. checkpoint.current_shard_start \in Nat /\ Len(shard_ranges) \in Nat
      BY <1>1, <1>2 DEF TypeOK, Meta
    <3>3. /\ checkpoint.current_shard_start <= current_shard_start'
          /\ Len(checkpoint.shard_ranges) <= Len(shard_ranges')
      BY <1>1, <1>2, <1>4, <3>1, <3>2 DEF RecordBehind
    <3>4. \A k \in 1 .. Len(checkpoint.shard_ranges) :
            shard_ranges'[k] = checkpoint.shard_ranges[k]
      BY <1>2, <2>2, <3>1, <3>2 DEF RecordBehind
    <3> QED
      BY <1>1, <3>3, <3>4 DEF RecordBehind
  <2>5. batch_size' \in Nat \ {0} /\ current_shard_start' <= total_added'
    BY <1>1, <1>2 DEF IInv, IndexInv
  <2> QED
    BY <1>1, <1>4, <1>8, <2>1, <2>3, <2>4, <2>5 DEF IndexInv
<1>10. PoolInv'
  BY <1>1 DEF IInv, PoolInv, pool, PoolPhases, SavePhases, AddPhases, FinalFlushPhases
<1>11. PhaseInv'
  BY <1>1, ShardAssumption DEF IInv, PhaseInv, SavePhases, FinalFlushPhases, SealedPhases
<1>12. StaleInv'
  BY <1>1 DEF StaleInv, SealedPhases
<1> QED
  BY <1>5, <1>6, <1>7, <1>9, <1>10, <1>11, <1>12 DEF IInv

LEMMA AdvanceInv ==
  ASSUME IInv, Advance
  PROVE  IInv'
<1>1. /\ pc = "added" /\ next_add_idx' = next_add_idx + 1
      /\ pc' \in {"save_partial", "adding"}
      /\ pc' = "save_partial" => CheckpointEvery > 0
      /\ CheckpointEvery > 0 /\ flush_happened => pc' = "save_partial"
      /\ UNCHANGED <<files, batch_size, flush_happened, pool, progress, crashes,
                     fetch_errors, origin>>
  BY DEF Advance
<1>2. TypeOK'
  BY <1>1 DEF IInv, TypeOK, files, pool, progress, Phases
<1>3. DiskInv'
  BY <1>1, DiskKept DEF IInv
<1>4. ContentInv' /\ IndexInv' /\ PoolInv'
  BY <1>1 DEF IInv, ContentInv, IndexInv, RecordBehind, PoolInv, files, pool, progress,
              PoolPhases, SavePhases, AddPhases
<1>5. PhaseInv'
  BY <1>1 DEF IInv, PhaseInv, progress, SavePhases, FinalFlushPhases, SealedPhases
<1>6. StaleInv'
  <2>1. CheckpointEvery = 0 => partial = <<>>
    BY DEF IInv, DiskInv
  <2>2. CASE pc' = "save_partial"
    BY <1>1, <2>2 DEF IInv, StaleInv, files, progress, SealedPhases
  <2>3. CASE pc' = "adding"
    BY <1>1, <2>1, <2>3, CheckpointAssumption DEF IInv, StaleInv, files, progress, SealedPhases
  <2> QED
    BY <1>1, <2>2, <2>3
<1> QED
  BY <1>2, <1>3, <1>4, <1>5, <1>6 DEF IInv

-----------------------------------------------------------------------------
(* Saving a checkpoint. *)

\* What the phase of a save says about the rest, in one place.
LEMMA SavePhaseFacts ==
  ASSUME IInv, pc \in SavePhases
  PROVE  /\ TypeOK /\ DiskInv /\ ContentInv /\ IndexInv /\ PoolInv /\ PhaseInv /\ StaleInv
         /\ CheckpointEvery > 0
         /\ VectorsPerShard = 0 => shard_ranges = <<>> /\ index # <<>>
         /\ current_shard_start \in Nat /\ total_added \in Nat
         /\ current_shard_start <= total_added /\ total_added <= NumDocs
         /\ Len(index) = total_added - current_shard_start /\ index \in Seq(Entry)
<1>1. TypeOK /\ DiskInv /\ ContentInv /\ IndexInv /\ PoolInv /\ PhaseInv /\ StaleInv
  BY DEF IInv
<1>2. CheckpointEvery > 0 /\ (VectorsPerShard = 0 => shard_ranges = <<>> /\ index # <<>>)
  BY <1>1 DEF PhaseInv, SavePhases, SealedPhases
<1>3. /\ current_shard_start \in Nat /\ total_added \in Nat
      /\ current_shard_start <= total_added /\ total_added <= NumDocs
      /\ Len(index) = total_added - current_shard_start /\ index \in Seq(Entry)
  BY <1>1, NumDocsAssumption DEF TypeOK, IndexInv, SavePhases
<1> QED
  BY <1>1, <1>2, <1>3

\* Steps of a save that only move it on, or end it.
LEMMA SaveMovesInv ==
  ASSUME IInv, pc \in SavePhases, pc' \in {"adding", "save_json"},
         UNCHANGED <<checkpoint, partial, shard_files, manifest, batch_size,
                     next_add_idx, pool, progress, crashes, fetch_errors, origin>>,
         pc' = "adding" => flush_happened' = FALSE,
         pc' = "save_json" => flush_happened' = flush_happened /\ index # <<>>,
         origin = "own" =>
           partial = <<>> \/ checkpoint.current_shard_start = current_shard_start
  PROVE  IInv'
<1>1. TypeOK /\ DiskInv /\ ContentInv /\ IndexInv /\ PoolInv /\ PhaseInv /\ StaleInv
  BY SavePhaseFacts
<1>2. TypeOK'
  <2>1. pc' \in Phases /\ flush_happened' \in BOOLEAN
    BY <1>1 DEF TypeOK, Phases
  <2> QED
    BY <1>1, <2>1 DEF TypeOK, pool, progress
<1>3. DiskInv'
  BY <1>1, DiskKept DEF files, SavePhases
<1>4. ContentInv' /\ IndexInv' /\ PoolInv'
  BY <1>1 DEF ContentInv, IndexInv, RecordBehind, PoolInv, pool, progress, PoolPhases,
              SavePhases, AddPhases
<1>5. PhaseInv'
  BY <1>1 DEF PhaseInv, progress, SavePhases, FinalFlushPhases, SealedPhases
<1>6. StaleInv'
  BY <1>1 DEF StaleInv, progress, SavePhases, SealedPhases
<1> QED
  BY <1>2, <1>3, <1>4, <1>5, <1>6 DEF IInv

LEMMA WritePartialInv ==
  ASSUME IInv, SavePartial, WritePartial
  PROVE  IInv'
<1>1. /\ pc = "save_partial" /\ index # <<>>
      /\ UNCHANGED <<checkpoint, shard_files, manifest, batch_size, next_add_idx, pool,
                     progress, crashes, fetch_errors>>
      /\ UNCHANGED <<partial, origin>>
      /\ \/ pc' = "save_json" /\ flush_happened' = flush_happened
         \/ pc' = "adding" /\ flush_happened' = FALSE
      /\ CheckpointEvery > 0 /\ StaleInv
  BY SavePhaseFacts DEF SavePartial, WritePartial, SaveEnds, SavePhases
<1>2. origin = "own" =>
        partial = <<>> \/ checkpoint.current_shard_start = current_shard_start
  BY <1>1 DEF StaleInv, SealedPhases
<1> QED
  BY <1>1, <1>2, SaveMovesInv DEF SavePhases

\* The last save of a shard removes its partial index, or leaves an old one.
LEMMA RemovePartialInv ==
  ASSUME IInv, SavePartial, RemovePartial
  PROVE  IInv'
<1>1. /\ pc = "save_partial" /\ index = <<>>
      /\ UNCHANGED <<checkpoint, shard_files, manifest, batch_size, next_add_idx, pool,
                     progress, crashes, fetch_errors>>
      /\ TypeOK /\ DiskInv /\ ContentInv /\ IndexInv /\ PoolInv /\ PhaseInv /\ StaleInv
      /\ CheckpointEvery > 0
      /\ VectorsPerShard # 0
  BY SavePhaseFacts DEF SavePartial, RemovePartial, SavePhases
<1>2. \/ /\ pc' = "save_json" /\ partial' = <<>> /\ flush_happened' = flush_happened
         /\ origin' = IF origin = "old_partial" THEN "own" ELSE origin
      \/ /\ pc' = "adding" /\ partial' = partial /\ flush_happened' = FALSE
         /\ origin' = IF origin = "own" /\ partial # <<>> THEN "old_partial" ELSE origin
  BY DEF RemovePartial, PartialRenewed, SaveEnds
<1>3. /\ origin' \in Origins
      /\ origin' = "mixed" <=> origin = "mixed"
      /\ origin' = "old_record" <=> origin = "old_record"
      /\ origin' = "own" => partial' = <<>>
      /\ partial' \in Seq(Entry)
      /\ pc' \in {"save_json", "adding"}
      /\ flush_happened' = flush_happened \/ flush_happened' = FALSE
      /\ pc' = "save_json" => partial' = <<>>
      /\ partial' = <<>> \/ partial' = partial
      /\ pc' = "adding" => flush_happened' = FALSE
  <2>1. <<>> \in Seq(Entry) /\ partial \in Seq(Entry) /\ origin \in Origins
    BY <1>1 DEF TypeOK
  <2> QED
    BY <1>2, <2>1 DEF Origins
<1>4. TypeOK'
  <2>1. pc' \in Phases /\ flush_happened' \in BOOLEAN
    BY <1>1, <1>3 DEF TypeOK, Phases
  <2> QED
    BY <1>1, <1>3, <2>1 DEF TypeOK, pool, progress
<1>5. DiskInv'
  <2>1. ShardsIntact' = ShardsIntact
    BY <1>1 DEF ShardsIntact
  <2>2. Slice(checkpoint.current_shard_start,
              checkpoint.current_shard_start + Len(<<>>)) = <<>>
    BY <1>1, SavedStart
  <2>3. PartialOwned' => partial' = <<>>
    BY <1>1, <1>3 DEF PartialOwned
  <2> QED
    BY <1>1, <1>3, <2>1, <2>2, <2>3 DEF DiskInv
<1>6. ContentInv' /\ IndexInv' /\ PoolInv'
  BY <1>1, <1>3 DEF ContentInv, IndexInv, RecordBehind, PoolInv, pool, progress, PoolPhases,
                    SavePhases, AddPhases
<1>7. PhaseInv'
  BY <1>1, <1>3 DEF PhaseInv, progress, SavePhases, FinalFlushPhases, SealedPhases
<1>8. StaleInv'
  BY <1>1, <1>3 DEF StaleInv, progress, SealedPhases
<1> QED
  BY <1>4, <1>5, <1>6, <1>7, <1>8 DEF IInv

LEMMA SavePartialInv ==
  ASSUME IInv, SavePartial
  PROVE  IInv'
  BY WritePartialInv, RemovePartialInv DEF SavePartial

\* The record on disk is now that of the running build.
LEMMA SaveJsonInv ==
  ASSUME IInv, SaveJson
  PROVE  IInv'
<1> DEFINE meta == [next_add_idx |-> next_add_idx,
                    total_added |-> total_added,
                    current_shard_start |-> current_shard_start,
                    partial_index_ntotal |-> Len(index),
                    shard_ranges |-> shard_ranges,
                    batch_size |-> batch_size]
<1>1. /\ pc = "save_json"
      /\ UNCHANGED <<partial, shard_files, manifest, batch_size, next_add_idx, pool,
                     progress, crashes, fetch_errors>>
      /\ TypeOK /\ DiskInv /\ ContentInv /\ IndexInv /\ PoolInv /\ PhaseInv /\ StaleInv
      /\ CheckpointEvery > 0
      /\ VectorsPerShard = 0 => shard_ranges = <<>> /\ index # <<>>
      /\ current_shard_start \in Nat /\ total_added \in Nat
      /\ current_shard_start <= total_added /\ total_added <= NumDocs
      /\ Len(index) = total_added - current_shard_start /\ index \in Seq(Entry)
  BY SavePhaseFacts DEF SaveJson, SavePhases
<1>2. /\ index = <<>> => partial = <<>>
      /\ origin = "own" =>
           partial = <<>> \/ checkpoint.current_shard_start = current_shard_start
  BY <1>1 DEF StaleInv, PhaseInv, SealedPhases
<1>3. CASE UNCHANGED <<checkpoint, origin>> /\ SaveEnds
  BY <1>1, <1>2, <1>3, SaveMovesInv DEF SaveEnds, SavePhases
<1>4. CASE /\ checkpoint' = meta
           /\ IF index # <<>> THEN pc' = "save_rename" /\ UNCHANGED flush_happened
                              ELSE SaveEnds
           /\ origin' = IF origin # "old_record" THEN origin
                        ELSE IF partial = <<>> THEN "own" ELSE "old_partial"
  <2>1. /\ meta \in Meta
        /\ meta.next_add_idx = next_add_idx /\ meta.total_added = total_added
        /\ meta.current_shard_start = current_shard_start
        /\ meta.partial_index_ntotal = Len(index)
        /\ meta.shard_ranges = shard_ranges /\ meta.batch_size = batch_size
    BY <1>1 DEF TypeOK, Meta
  <2> HIDE DEF meta
  <2>2. /\ pc' \in {"save_rename", "adding"}
        /\ pc' = "save_rename" => index # <<>> /\ flush_happened' = flush_happened
        /\ pc' = "adding" => index = <<>> /\ flush_happened' = FALSE
    BY <1>4 DEF SaveEnds
  <2>3. /\ origin' \in Origins /\ origin' # "old_record"
        /\ origin' = "mixed" <=> origin = "mixed"
        /\ origin' = "own" =>
             partial = <<>> \/ checkpoint.current_shard_start = current_shard_start
        /\ origin' = "own" => partial = <<>> \/ origin = "own"
    BY <1>1, <1>2, <1>4 DEF TypeOK, Origins
  <2>4. Len(index) = 0 <=> index = <<>>
    BY <1>1, EmptySeq
  <2>5. TypeOK'
    <3>1. pc' \in Phases /\ flush_happened' \in BOOLEAN
      BY <1>1, <2>2 DEF TypeOK, Phases
    <3> QED
      BY <1>1, <1>4, <2>1, <2>3, <3>1 DEF TypeOK, pool, progress
  <2>6. PartialOwned' => partial = Slice(current_shard_start,
                                         current_shard_start + Len(partial))
    <3> HAVE PartialOwned'
    <3>1. CASE partial = <<>>
      <4>1. /\ Len(partial) = 0 /\ current_shard_start + 0 = current_shard_start
            /\ Slice(current_shard_start, current_shard_start) = <<>>
        BY <1>1, <3>1, SliceEmpty
      <4> QED
        BY <3>1, <4>1
    <3>2. CASE VectorsPerShard = 0
      <4>1. partial = Slice(0, Len(partial)) /\ Len(partial) \in Nat
        BY <1>1, <3>2, SingleFile DEF TypeOK
      <4>2. current_shard_start = 0
        BY <1>1, <3>2 DEF IndexInv, Tiles
      <4> QED
        BY <4>1, <4>2
    <3>3. CASE origin' = "own" /\ partial # <<>>
      <4>1. PartialOwned /\ checkpoint.current_shard_start = current_shard_start
        BY <1>1, <2>3, <3>3 DEF PartialOwned
      <4> QED
        BY <1>1, <4>1 DEF DiskInv
    <3> QED
      BY <3>1, <3>2, <3>3 DEF PartialOwned
  <2>7. /\ Tiles(shard_ranges, current_shard_start)
        /\ origin' # "mixed" => Covers(shard_files, shard_ranges, current_shard_start)
        /\ Len(shard_ranges) <= current_shard_start
        /\ total_added = current_shard_start + Len(index)
        /\ batch_size \in Nat \ {0}
        /\ total_added = Pos(next_add_idx, batch_size)
        /\ Aligned(current_shard_start, batch_size)
    BY <1>1, <2>3 DEF ContentInv, IndexInv, PoolInv, SavePhases
  <2>8. DiskInv'
    <3>1. origin' # "mixed" => ShardsIntact'
      BY <1>1, <1>4, <2>1, <2>7 DEF ShardsIntact
    <3>2. PartialOwned' => partial' = Slice(checkpoint'.current_shard_start,
                                            checkpoint'.current_shard_start + Len(partial'))
      BY <1>1, <1>4, <2>1, <2>6
    <3>3. VectorsPerShard = 0 => checkpoint'.shard_ranges = <<>> /\ origin' # "mixed"
      BY <1>1, <1>4, <2>1, <2>3 DEF DiskInv
    <3>4. checkpoint'.partial_index_ntotal = 0 => partial' = <<>>
      BY <1>1, <1>2, <1>4, <2>1, <2>4
    <3> QED
      BY <1>1, <1>4, <2>1, <2>7, <3>1, <3>2, <3>3, <3>4 DEF DiskInv, progress
  <2>9. ContentInv'
    BY <1>1, <2>3 DEF ContentInv, progress
  <2>10. IndexInv'
    <3>1. Len(shard_ranges) \in Nat
      BY <1>1 DEF TypeOK
    <3> QED
      BY <1>1, <1>4, <2>1, <2>2, <3>1 DEF IndexInv, RecordBehind, progress
  <2>11. PoolInv'
    BY <1>1, <2>2 DEF PoolInv, pool, progress, PoolPhases, SavePhases, AddPhases
  <2>12. PhaseInv'
    BY <1>1, <1>4, <2>1, <2>2, <2>3, <2>4 DEF PhaseInv, progress, SavePhases,
                                               FinalFlushPhases, SealedPhases
  <2>13. StaleInv'
    BY <1>1, <1>4, <2>1, <2>2 DEF StaleInv, progress, SealedPhases
  <2> QED
    BY <2>5, <2>8, <2>9, <2>10, <2>11, <2>12, <2>13 DEF IInv
<1> QED
  BY <1>3, <1>4 DEF SaveJson

LEMMA SaveRenameInv ==
  ASSUME IInv, SaveRename
  PROVE  IInv'
<1>1. /\ pc = "save_rename" /\ pc' = "adding" /\ flush_happened' = FALSE
      /\ UNCHANGED <<checkpoint, shard_files, manifest, batch_size, next_add_idx, pool,
                     progress, crashes, fetch_errors>>
      /\ TypeOK /\ DiskInv /\ ContentInv /\ IndexInv /\ PoolInv /\ PhaseInv /\ StaleInv
      /\ CheckpointEvery > 0
      /\ current_shard_start \in Nat /\ total_added \in Nat
      /\ current_shard_start <= total_added /\ total_added <= NumDocs
      /\ Len(index) = total_added - current_shard_start /\ index \in Seq(Entry)
  BY SavePhaseFacts DEF SaveRename, SaveEnds, SavePhases
<1>2. /\ checkpoint.current_shard_start = current_shard_start
      /\ checkpoint.partial_index_ntotal # 0
      /\ origin # "old_record"
      /\ origin # "mixed" => index = Slice(current_shard_start, total_added)
  BY <1>1 DEF PhaseInv, ContentInv
<1>3. CASE UNCHANGED <<partial, origin>>
  BY <1>1, <1>2, <1>3, SaveMovesInv DEF SavePhases
<1>4. CASE partial' = index /\ PartialRenewed
  <2>1. /\ origin' \in Origins
        /\ origin' = "mixed" <=> origin = "mixed"
        /\ origin' # "old_record"
    BY <1>1, <1>2, <1>4 DEF PartialRenewed, TypeOK, Origins
  <2>2. TypeOK'
    <3>1. pc' \in Phases /\ flush_happened' \in BOOLEAN
      BY <1>1 DEF Phases
    <3> QED
      BY <1>1, <1>4, <2>1, <3>1 DEF TypeOK, pool, progress
  <2>3. DiskInv'
    <3>1. current_shard_start + Len(index) = total_added
      BY <1>1
    <3>2. ShardsIntact' = ShardsIntact
      BY <1>1 DEF ShardsIntact
    <3>3. PartialOwned' => origin # "mixed"
      BY <1>1, <2>1 DEF PartialOwned, DiskInv
    <3> QED
      BY <1>1, <1>2, <1>4, <2>1, <3>1, <3>2, <3>3 DEF DiskInv
  <2>4. ContentInv' /\ IndexInv' /\ PoolInv'
    BY <1>1, <1>2, <2>1 DEF ContentInv, IndexInv, RecordBehind, PoolInv, pool, progress,
                            PoolPhases, SavePhases, AddPhases
  <2>5. PhaseInv'
    BY <1>1 DEF PhaseInv, progress, SavePhases, FinalFlushPhases, SealedPhases
  <2>6. StaleInv'
    BY <1>1, <1>2 DEF StaleInv, progress, SealedPhases
  <2> QED
    BY <2>2, <2>3, <2>4, <2>5, <2>6 DEF IInv
<1> QED
  BY <1>3, <1>4 DEF SaveRename

-----------------------------------------------------------------------------
(* The end of a run. *)

\* wait() has nothing left to wait for only when every batch has been added.
LEMMA FinishInv ==
  ASSUME IInv, Finish
  PROVE  IInv'
<1>1. /\ pc = "waiting" /\ in_flight = {}
      /\ pc' = (IF index = <<>> THEN "publish" ELSE "final_flush")
      /\ UNCHANGED <<files, memory, crashes, fetch_errors, origin>>
      /\ TypeOK /\ DiskInv /\ ContentInv /\ IndexInv /\ PoolInv /\ PhaseInv /\ StaleInv
  BY DEF Finish, IInv
<1>2. /\ pending_results = next_add_idx .. next_batch_idx - 1
      /\ next_add_idx \notin pending_results
      /\ next_add_idx \in Nat /\ next_batch_idx \in Nat /\ next_add_idx <= next_batch_idx
      /\ ~HasBatch(next_batch_idx, batch_size)
      /\ total_added = Pos(next_add_idx, batch_size)
  BY <1>1 DEF PoolInv, TypeOK, PoolPhases
<1>3. next_add_idx = next_batch_idx
  BY <1>2
<1>4. total_added = NumDocs
  BY <1>2, <1>3 DEF Pos
<1>5. index = <<>> => current_shard_start = NumDocs
  <2>1. /\ Len(index) = total_added - current_shard_start
        /\ current_shard_start \in Nat /\ total_added \in Nat
    BY <1>1, NumDocsAssumption DEF IndexInv, TypeOK
  <2>2. Len(<<>>) = 0
    OBVIOUS
  <2> QED
    BY <1>4, <2>1, <2>2
<1>6. TypeOK' /\ DiskInv'
  <2>1. DiskInv'
    BY <1>1, DiskKept
  <2>2. TypeOK'
    BY <1>1 DEF TypeOK, files, memory, pool, progress, Phases
  <2> QED
    BY <2>1, <2>2
<1>7. ContentInv' /\ IndexInv' /\ PoolInv'
  BY <1>1 DEF ContentInv, IndexInv, RecordBehind, PoolInv, files, memory, pool, progress,
              PoolPhases, SavePhases, AddPhases
<1>8. PhaseInv'
  BY <1>1, <1>4, <1>5 DEF PhaseInv, files, memory, pool, progress, SavePhases, FinalFlushPhases,
                          SealedPhases
<1>9. StaleInv'
  BY <1>1 DEF StaleInv, files, memory, pool, progress, SealedPhases
<1> QED
  BY <1>6, <1>7, <1>8, <1>9 DEF IInv

LEMMA NoEmbeddingsInv ==
  ASSUME IInv, NoEmbeddings
  PROVE  IInv'
  BY ProcessEndsInv DEF NoEmbeddings, IInv, TypeOK

LEMMA PublishInv ==
  ASSUME IInv, Publish
  PROVE  IInv'
<1>1. /\ pc = "publish" /\ pc' = "cleanup"
      /\ manifest' = (IF VectorsPerShard > 0 THEN shard_ranges ELSE manifest)
      /\ UNCHANGED <<checkpoint, partial, shard_files, memory, crashes, fetch_errors, origin>>
      /\ TypeOK /\ DiskInv /\ ContentInv /\ IndexInv /\ PoolInv /\ PhaseInv /\ StaleInv
  BY DEF Publish, IInv
<1>2. TypeOK'
  BY <1>1 DEF TypeOK, memory, pool, progress, Phases
<1>3. DiskInv'
  <2>1. ShardsIntact' = ShardsIntact /\ PartialOwned' = PartialOwned
    BY <1>1 DEF ShardsIntact, PartialOwned
  <2> QED
    BY <1>1, <2>1 DEF DiskInv
<1>4. ContentInv' /\ IndexInv' /\ PoolInv'
  BY <1>1 DEF ContentInv, IndexInv, RecordBehind, PoolInv, memory, pool, progress, PoolPhases,
              SavePhases, AddPhases
<1>5. PhaseInv'
  BY <1>1 DEF PhaseInv, memory, pool, progress, SavePhases, FinalFlushPhases, SealedPhases
<1>6. StaleInv'
  BY <1>1 DEF StaleInv, memory, pool, progress, SealedPhases
<1> QED
  BY <1>2, <1>3, <1>4, <1>5, <1>6 DEF IInv

LEMMA CleanupCheckpointInv ==
  ASSUME IInv, CleanupCheckpoint
  PROVE  IInv'
<1>1. /\ pc = "cleanup" /\ pc' = "cleanup_partial"
      /\ checkpoint' \in {NoCheckpoint, checkpoint}
      /\ UNCHANGED <<partial, shard_files, manifest, memory, crashes, fetch_errors, origin>>
      /\ TypeOK /\ DiskInv /\ ContentInv /\ IndexInv /\ PoolInv /\ PhaseInv /\ StaleInv
  BY DEF CleanupCheckpoint, IInv
<1>2. /\ NoCheckpoint.current_shard_start = 0 /\ NoCheckpoint.total_added = 0
      /\ NoCheckpoint.partial_index_ntotal = 0 /\ NoCheckpoint.shard_ranges = <<>>
      /\ NoCheckpoint \in Meta
  BY NothingBuilt DEF NoCheckpoint
<1>3. TypeOK'
  BY <1>1, <1>2 DEF TypeOK, memory, pool, progress, Phases
<1>4. DiskInv'
  <2>1. CASE checkpoint' = checkpoint
    <3>1. ShardsIntact' = ShardsIntact
      BY <1>1, <2>1 DEF ShardsIntact
    <3>2. PartialOwned' => PartialOwned
      BY <1>1 DEF PartialOwned
    <3> QED
      BY <1>1, <2>1, <3>1, <3>2 DEF DiskInv
  <2>2. CASE checkpoint' = NoCheckpoint
    <3>1. /\ Tiles(<<>>, 0) /\ Len(<<>>) = 0 /\ 0 + 0 = 0 /\ 0 <= NumDocs
          /\ ShardsIntact'
      BY <1>2, <2>2, NothingBuilt, NumDocsAssumption DEF ShardsIntact
    <3>2. PartialOwned' => partial = Slice(0, 0 + Len(partial))
      <4> HAVE PartialOwned'
      <4>1. VectorsPerShard = 0
        BY <1>1, <2>2 DEF PartialOwned
      <4>2. partial = Slice(0, Len(partial)) /\ 0 + Len(partial) = Len(partial)
        BY <1>1, <4>1, SingleFile DEF TypeOK
      <4> QED
        BY <4>2
    <3>3. /\ VectorsPerShard = 0 => origin # "mixed"
          /\ CheckpointEvery = 0 => partial = <<>>
      BY <1>1 DEF DiskInv
    <3> QED
      BY <1>1, <1>2, <2>2, <3>1, <3>2, <3>3 DEF DiskInv
  <2> QED
    BY <1>1, <2>1, <2>2
<1>5. ContentInv' /\ PoolInv'
  BY <1>1 DEF ContentInv, PoolInv, memory, pool, progress, PoolPhases, SavePhases, AddPhases
<1>6. IndexInv'
  <2>1. /\ Len(<<>>) = 0 /\ Len(shard_ranges) \in Nat /\ current_shard_start \in Nat
    BY <1>1 DEF TypeOK
  <2>2. origin # "old_record" => RecordBehind'
    BY <1>1, <1>2, <2>1 DEF IndexInv, RecordBehind, memory, pool, progress
  <2> QED
    BY <1>1, <2>2 DEF IndexInv, memory, pool, progress
<1>7. PhaseInv'
  BY <1>1 DEF PhaseInv, memory, pool, progress, SavePhases, FinalFlushPhases, SealedPhases
<1>8. StaleInv'
  BY <1>1 DEF StaleInv, memory, pool, progress, SealedPhases
<1> QED
  BY <1>3, <1>4, <1>5, <1>6, <1>7, <1>8 DEF IInv

LEMMA CleanupPartialInv ==
  ASSUME IInv, CleanupPartial
  PROVE  IInv'
<1>1. /\ pc = "cleanup_partial" /\ pc' = "done" /\ UnlinkPartial
      /\ UNCHANGED <<checkpoint, shard_files, manifest, memory, crashes, fetch_errors, origin>>
      /\ TypeOK /\ DiskInv /\ ContentInv /\ IndexInv /\ PoolInv /\ PhaseInv /\ StaleInv
  BY DEF CleanupPartial, IInv
<1>2. DiskInv' /\ partial' \in Seq(Entry)
  <2>1. PartialOwned' => PartialOwned
    BY <1>1 DEF PartialOwned
  <2>2. /\ origin' \notin {"old_record", "mixed"} => ShardsIntact
        /\ origin' = "mixed" => VectorsPerShard # 0
    BY <1>1 DEF DiskInv
  <2> QED
    BY <1>1, <2>1, <2>2, UnlinkKeepsDisk
<1>3. TypeOK'
  BY <1>1, <1>2 DEF TypeOK, memory, pool, progress, Phases
<1>4. ContentInv' /\ IndexInv' /\ PoolInv' /\ PhaseInv'
  BY <1>1 DEF ContentInv, IndexInv, RecordBehind, PoolInv, PhaseInv, memory, pool, progress,
              PoolPhases, SavePhases, AddPhases, FinalFlushPhases, SealedPhases
<1>5. StaleInv'
  BY <1>1 DEF StaleInv, memory, pool, progress, SealedPhases
<1> QED
  BY <1>2, <1>3, <1>4, <1>5 DEF IInv

LEMMA CrashInv ==
  ASSUME IInv, Crash
  PROVE  IInv'
<1>1. crashes' \in 0 .. MaxCrashes /\ fetch_errors' \in 0 .. MaxFetchErrors /\ ProcessEnds
  BY BoundsAssumption DEF Crash, IInv, TypeOK
<1> QED
  BY <1>1, ProcessEndsInv

\* Every step of the builder preserves the invariant.
LEMMA NextIInv ==
  ASSUME IInv, [Next]_vars
  PROVE  IInv'
<1>1. CASE Start
  BY <1>1, StartFreshInv, ResumeInv, ResumeRolledBackInv, RefuseInv DEF Start
<1>2. CASE FillPool
  BY <1>2, FillPoolInv
<1>3. CASE Fetch
  BY <1>3, FetchDoneInv, FetchRetryInv, FetchGivesUpInv DEF Fetch
<1>4. CASE AddBatch
  BY <1>4, AddBatchInv
<1>5. CASE Flush
  BY <1>5, OpenShardInv, CloseShardInv DEF Flush
<1>6. CASE Advance
  BY <1>6, AdvanceInv
<1>7. CASE AddLoopEnds
  BY <1>7, AddLoopEndsInv
<1>8. CASE Save
  BY <1>8, SavePartialInv, SaveJsonInv, SaveRenameInv DEF Save
<1>9. CASE End
  BY <1>9, FinishInv, NoEmbeddingsInv, PublishInv, CleanupCheckpointInv, CleanupPartialInv
     DEF End
<1>10. CASE Crash
  BY <1>10, CrashInv
<1>11. CASE UNCHANGED vars
  <2>1. TypeOK'
    BY <1>11 DEF vars, files, memory, pool, progress, IInv, TypeOK
  <2>2. DiskInv'
    BY <1>11, DiskKept DEF vars, IInv
  <2>3. ContentInv' /\ IndexInv'
    BY <1>11 DEF vars, files, memory, pool, progress, IInv, ContentInv, IndexInv, RecordBehind
  <2>4. PoolInv' /\ PhaseInv' /\ StaleInv'
    BY <1>11 DEF vars, files, memory, pool, progress, IInv, PoolInv, PhaseInv, StaleInv
  <2> QED
    BY <2>1, <2>2, <2>3, <2>4 DEF IInv
<1> QED
  BY <1>1, <1>2, <1>3, <1>4, <1>5, <1>6, <1>7, <1>8, <1>9, <1>10, <1>11 DEF Next, Work

-----------------------------------------------------------------------------
(* The theorems. *)

LEMMA InductiveInvariant == Spec => []IInv
<1>1. Init => IInv
  BY InitIInv
<1>2. IInv /\ [Next]_vars => IInv'
  BY NextIInv
<1> QED
  BY <1>1, <1>2, PTL DEF Spec

(* The variables of the builder keep their types: in particular no batch   *)
(* number outside the corpus is ever fetched or added, and total_added     *)
(* never passes the end of the corpus.                                     *)
THEOREM TypeCorrect == Spec => []TypeOK
<1>1. IInv => TypeOK
  BY DEF IInv
<1> QED
  BY <1>1, InductiveInvariant, PTL

(* Wherever the process is killed, in its cleanup too, and whichever file  *)
(* operations failed: the record on disk counts its shards and its next    *)
(* batch right; the shards are intact as long as the record is theirs; and *)
(* a partial.faiss that a resume trusts continues them, unless it was left *)
(* by an earlier shard or build.                                           *)
THEOREM AlwaysRecoverable == Spec => []Recoverable
<1>1. ASSUME IInv PROVE Recoverable
  <2> SUFFICES ASSUME checkpoint # NoCheckpoint PROVE Recoverable
    BY DEF Recoverable
  <2>1. TypeOK /\ DiskInv
    BY <1>1 DEF IInv
  <2>2. /\ Tiles(checkpoint.shard_ranges, checkpoint.current_shard_start)
        /\ checkpoint.total_added =
             checkpoint.current_shard_start + checkpoint.partial_index_ntotal
        /\ checkpoint.total_added = Pos(checkpoint.next_add_idx, checkpoint.batch_size)
    BY <2>1, RecordCounts
  <2>3. origin \notin {"old_record", "mixed"} => ShardsIntact
    BY <2>1 DEF DiskInv
  <2>4. ASSUME origin = "own", PartialMatches
        PROVE  partial = Slice(checkpoint.current_shard_start, checkpoint.total_added)
    <3>1. partial = Slice(checkpoint.current_shard_start,
                          checkpoint.current_shard_start + Len(partial))
      BY <2>1, <2>4 DEF DiskInv, PartialOwned
    <3> QED
      BY <2>2, <2>4, <3>1 DEF PartialMatches
  <2> QED
    BY <2>2, <2>3, <2>4 DEF Recoverable, Pos
<1> QED
  BY <1>1, InductiveInvariant, PTL

(* A build that returns has cut the whole corpus into shards, and its      *)
(* manifest lists just these.  The shards hold every document once, under  *)
(* the id of its position, unless a resume took files of an earlier shard  *)
(* or build for its own; a build of a single file never does.              *)
THEOREM FinishedIndexComplete == Spec => []IndexComplete
<1>1. ASSUME IInv, pc = "done"
      PROVE  /\ Tiles(shard_ranges, NumDocs)
             /\ VectorsPerShard > 0 => manifest = shard_ranges
             /\ origin # "mixed" \/ VectorsPerShard = 0 =>
                  Covers(shard_files, shard_ranges, NumDocs)
  <2>1. DiskInv /\ ContentInv /\ IndexInv /\ PhaseInv
    BY <1>1 DEF IInv
  <2>2. /\ current_shard_start = NumDocs
        /\ VectorsPerShard > 0 => manifest = shard_ranges
    BY <1>1, <2>1 DEF PhaseInv, SealedPhases
  <2>3. Tiles(shard_ranges, current_shard_start)
    BY <1>1, <2>1 DEF IndexInv
  <2>4. origin # "mixed" => Covers(shard_files, shard_ranges, current_shard_start)
    BY <1>1, <2>1 DEF ContentInv
  <2>5. VectorsPerShard = 0 => origin # "mixed"
    BY <2>1 DEF DiskInv
  <2> QED
    BY <2>2, <2>3, <2>4, <2>5
<1>2. IInv => IndexComplete
  BY <1>1 DEF IndexComplete
<1> QED
  BY <1>2, InductiveInvariant, PTL

(* The pool never loses or repeats a batch, however fetches fail, are      *)
(* retried, and finish out of order.                                       *)
THEOREM NoBatchLost == Spec => []BatchAccounting
<1>1. ASSUME IInv PROVE BatchAccounting
  BY <1>1 DEF IInv, PoolInv, BatchAccounting, PoolPhases
<1> QED
  BY <1>1, InductiveInvariant, PTL

\* The boundary only moves with checkpoint.json, and forward.
LEMMA BoundaryStep ==
  ASSUME IInv, [Next]_vars
  PROVE  \/ checkpoint' = NoCheckpoint /\ pc = "cleanup" /\ pc' = "cleanup_partial"
         \/ origin = "old_record"
         \/ checkpoint'.current_shard_start >= checkpoint.current_shard_start
<1>1. checkpoint.current_shard_start \in Nat
  BY DEF IInv, TypeOK, Meta
<1>2. CASE UNCHANGED checkpoint
  BY <1>1, <1>2
<1>3. CASE SaveJson /\ origin # "old_record"
  <2>1. checkpoint.current_shard_start <= current_shard_start /\ current_shard_start \in Nat
    BY <1>3 DEF SaveJson, IInv, IndexInv, RecordBehind, TypeOK
  <2>2. \/ checkpoint'.current_shard_start = current_shard_start
        \/ UNCHANGED checkpoint
    BY <1>3 DEF SaveJson
  <2> QED
    BY <1>1, <2>1, <2>2
<1>4. CASE CleanupCheckpoint
  BY <1>1, <1>4 DEF CleanupCheckpoint
<1>5. UNCHANGED checkpoint \/ SaveJson \/ CleanupCheckpoint
  <2>1. CASE Start
    BY <2>1 DEF Start, StartFresh, Resume, ResumeRolledBack, RefuseBatchSize, Begin
  <2>2. CASE Work
    BY <2>2 DEF Work, FillPool, Fetch, FetchDone, FetchRetry, FetchGivesUp, ProcessEnds,
                AddBatch, Flush, OpenShard, CloseShard, Advance, AddLoopEnds, Save,
                SavePartial, SaveRename, End, Finish, NoEmbeddings, Publish,
                CleanupPartial, files
  <2>3. CASE Crash
    BY <2>3 DEF Crash, ProcessEnds, files
  <2>4. CASE UNCHANGED vars
    BY <2>4 DEF vars, files
  <2> QED
    BY <2>1, <2>2, <2>3, <2>4 DEF Next
<1> QED
  BY <1>2, <1>3, <1>4, <1>5

(* A crash costs at most the open shard: what a resume falls back to never *)
(* moves backwards, except by the first save of a run that had to begin    *)
(* anew beside a record it could not read.                                 *)
THEOREM BoundaryAdvances == Spec => BoundaryNeverRetreats
<1>1. IInv /\ [Next]_vars =>
        [\/ checkpoint' = NoCheckpoint /\ pc = "cleanup"
         \/ origin = "old_record"
         \/ checkpoint'.current_shard_start >= checkpoint.current_shard_start]_vars
  BY BoundaryStep
<1> QED
  BY <1>1, InductiveInvariant, PTL DEF Spec, BoundaryNeverRetreats

-----------------------------------------------------------------------------
(* The refinement of ResumableBuild. *)

Boundary == IF Cleaned THEN NumDocs ELSE checkpoint.current_shard_start
ResumeAt ==
  IF Cleaned THEN NumDocs
  ELSE IF PartialMatches THEN checkpoint.total_added ELSE checkpoint.current_shard_start
Result ==
  IF pc # "done" THEN "none"
  ELSE IF Covers(shard_files, shard_ranges, NumDocs) THEN "complete" ELSE "corrupt"

LEMMA BoundaryRange ==
  IInv => Boundary \in 0 .. NumDocs /\ ResumeAt \in Boundary .. NumDocs
<1> SUFFICES ASSUME IInv
             PROVE  Boundary \in 0 .. NumDocs /\ ResumeAt \in Boundary .. NumDocs
  OBVIOUS
<1>1. /\ checkpoint.current_shard_start \in Nat
      /\ checkpoint.partial_index_ntotal \in Nat
      /\ checkpoint.total_added \in Nat
      /\ checkpoint.total_added =
           checkpoint.current_shard_start + checkpoint.partial_index_ntotal
      /\ checkpoint.total_added <= NumDocs
  BY DEF IInv, TypeOK, Meta, DiskInv
<1> QED
  BY <1>1, NumDocsAssumption DEF Boundary, ResumeAt

\* A step that neither finishes the build nor undoes its cleanup saves, or
\* changes nothing; a kill inside the cleanup reopens the build.
LEMMA SaveRefined ==
  ASSUME IInv, IInv', pc # "done", pc' # "done",
         \/ Cleaned /\ ~Cleaned'
         \/ Cleaned'
         \/ checkpoint'.current_shard_start >= checkpoint.current_shard_start
  PROVE  Promise!Next
<1>1. (IInv => Boundary \in 0 .. NumDocs /\ ResumeAt \in Boundary .. NumDocs)'
  BY BoundaryRange, PTL
<1>2. /\ Boundary \in 0 .. NumDocs /\ Boundary' \in 0 .. NumDocs
      /\ ResumeAt' \in Boundary' .. NumDocs
  BY <1>1, BoundaryRange
<1>3. Result = "none" /\ Result' = "none"
  BY DEF Result
<1>4. CASE Cleaned /\ ~Cleaned'
  <2>1. Boundary = NumDocs
    BY <1>4 DEF Boundary
  <2> QED
    BY <1>2, <1>3, <2>1 DEF Promise!Next, Promise!Reopen, Boundary, ResumeAt, Result
<1>5. CASE ~(Cleaned /\ ~Cleaned')
  <2>1. Boundary' >= Boundary
    <3>1. CASE Cleaned'
      BY <1>2, <3>1, NumDocsAssumption DEF Boundary
    <3>2. CASE ~Cleaned' /\ ~Cleaned
      BY <3>2 DEF Boundary
    <3> QED
      BY <1>5, <3>1, <3>2
  <2>2. Boundary' \in Boundary .. NumDocs
    BY <1>2, <2>1
  <2> QED
    BY <1>2, <1>3, <2>2 DEF Promise!Next, Promise!Save, Boundary, ResumeAt, Result
<1> QED
  BY <1>4, <1>5

\* Only the cleanup finishes, and a finished run takes no step.
LEMMA CleanedStep ==
  ASSUME [Next]_vars
  PROVE  /\ pc = "done" => UNCHANGED vars
         /\ pc # "done" /\ pc' = "done" => CleanupPartial
<1>1. CASE Start
  BY <1>1 DEF Start, StartFresh, Resume, ResumeRolledBack, RefuseBatchSize, Begin
<1>2. CASE Work /\ ~CleanupPartial
  BY <1>2 DEF Work, FillPool, Fetch, FetchDone, FetchRetry, FetchGivesUp, ProcessEnds,
              AddBatch, Flush, OpenShard, CloseShard, Advance, AddLoopEnds, Save,
              SavePartial, WritePartial, RemovePartial, SaveJson, SaveRename, SaveEnds,
              End, Finish, NoEmbeddings, Publish, CleanupCheckpoint, CleanupPartial
<1>3. CASE CleanupPartial
  BY <1>3 DEF CleanupPartial
<1>4. CASE Crash
  BY <1>4 DEF Crash, ProcessEnds
<1>5. CASE UNCHANGED vars
  BY <1>5 DEF vars
<1> QED
  BY <1>1, <1>2, <1>3, <1>4, <1>5 DEF Next, Work, End

LEMMA PublishRefined ==
  ASSUME IInv, IInv', CleanupPartial, origin # "mixed"
  PROVE  Promise!Next
<1>1. /\ pc = "cleanup_partial" /\ pc' = "done"
      /\ UNCHANGED <<shard_files, shard_ranges>>
  BY DEF CleanupPartial, memory, progress
<1>2. Covers(shard_files, shard_ranges, NumDocs)
  BY <1>1 DEF IInv, ContentInv, PhaseInv, SealedPhases
<1>3. Result = "none" /\ Result' = "complete"
  BY <1>1, <1>2 DEF Result
<1>4. Boundary = NumDocs /\ Boundary' = NumDocs /\ ResumeAt = NumDocs /\ ResumeAt' = NumDocs
  BY <1>1 DEF Boundary, ResumeAt, Cleaned
<1> QED
  BY <1>3, <1>4 DEF Promise!Next, Promise!Publish, Boundary, ResumeAt, Result

(* Behind the same interface the builder is a resumable build: no sealed   *)
(* shard is redone before the build is complete, and a run that returns    *)
(* leaves the complete index, at every step taken while the files on disk  *)
(* are of one build.                                                       *)
THEOREM BuilderImplementsPromise == Spec => ImplementsPromise
<1>1. Init => Promise!Init
  BY DEF Init, Promise!Init, Cleaned, NoCheckpoint, PartialMatches
<1>2. IInv /\ IInv' /\ [Next]_vars =>
        [Promise!Next \/ origin \in {"old_record", "mixed"}]_(Promise!vars)
  <2> SUFFICES ASSUME IInv, IInv', [Next]_vars, origin \notin {"old_record", "mixed"}
               PROVE  [Promise!Next]_(Promise!vars)
    OBVIOUS
  <2>1. CASE UNCHANGED vars
    BY <2>1 DEF vars, files, memory, progress, Promise!vars, Cleaned, PartialMatches
  <2>2. CASE CleanupPartial
    BY <2>2, PublishRefined
  <2>3. CASE pc # "done" /\ pc' # "done"
    <3>1. Cleaned' \/ checkpoint'.current_shard_start >= checkpoint.current_shard_start
      BY BoundaryStep DEF Cleaned
    <3> QED
      BY <2>3, <3>1, SaveRefined
  <2> QED
    BY <2>1, <2>2, <2>3, CleanedStep
<1> QED
  BY <1>1, <1>2, InductiveInvariant, PTL DEF Spec, ImplementsPromise

=============================================================================
