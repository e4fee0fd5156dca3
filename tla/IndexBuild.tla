------------------------------ MODULE IndexBuild ------------------------------
(***************************************************************************)
(* The resumable index builder of src/policy/tools/build_faiss_index.py:   *)
(* one main thread that hands batches of the corpus to a pool of fetchers, *)
(* adds the embeddings in corpus order, cuts the index into shard files,   *)
(* and checkpoints its progress so that a later run resumes after a crash. *)
(*                                                                         *)
(* Documents are numbered from 0 in corpus order.  The embedding of a      *)
(* document is the document's number; a FAISS index (in memory or in a     *)
(* file) is the sequence of [id, doc] entries added to it.  The empty      *)
(* sequence stands for "no index" and for a file that is absent or was     *)
(* only partly written.  The two .tmp files of a checkpoint are always     *)
(* rewritten before they are renamed and never read back, so they have no  *)
(* variable.                                                               *)
(***************************************************************************)
EXTENDS Integers, Sequences, FiniteSets

CONSTANTS
  NumDocs,           \* documents of the corpus
  BatchSizes,        \* the values of --batch-size a run may be started with
  VectorsPerShard,   \* --vectors-per-shard, 0 for a single index file
  CheckpointEvery,   \* --checkpoint-every, 0 disables checkpoints
  MaxWorkers,        \* size of the thread pool
  MaxBatchRetries,   \* --max-batch-retries
  Faults,            \* file operations that may fail, see FaultKinds
  MaxCrashes,        \* bound: kills of the process in a behaviour
  MaxFetchErrors     \* bound: failed fetches in a behaviour

(* "write":  writing partial.faiss.tmp raises           *)
(* "json":   writing or renaming checkpoint.json.tmp raises *)
(* "rename": renaming partial.faiss.tmp raises          *)
(* "unlink": removing a file raises                     *)
(* "load":   reading the checkpoint raises              *)
FaultKinds == {"write", "json", "rename", "unlink", "load"}

ASSUME NumDocsAssumption == NumDocs \in Nat \ {0}
ASSUME BatchSizesAssumption == BatchSizes \subseteq Nat \ {0}
ASSUME ShardAssumption == VectorsPerShard \in Nat
ASSUME CheckpointAssumption == CheckpointEvery \in Nat
ASSUME PoolAssumption == MaxWorkers \in Nat \ {0} /\ MaxBatchRetries \in Nat
ASSUME FaultsAssumption == Faults \subseteq FaultKinds
ASSUME BoundsAssumption == MaxCrashes \in Nat /\ MaxFetchErrors \in Nat

VARIABLES
  \* files
  checkpoint,          \* content of checkpoint.json, NoCheckpoint if absent
  partial,             \* index in partial.faiss
  shard_files,         \* index in each shard file
  manifest,            \* shards listed by manifest.json, <<>> if absent
  \* memory of the running process
  pc,
  batch_size, next_batch_idx, next_add_idx, in_flight, pending_results,
  batch_retry_counts, index, dim_known, total_added, current_shard_start,
  shard_ranges, flush_happened,
  \* environment
  crashes, fetch_errors,
  \* history: whose files checkpoint.json and partial.faiss are
  origin

files == <<checkpoint, partial, shard_files, manifest>>
pool == <<next_batch_idx, in_flight, pending_results, batch_retry_counts>>
progress == <<index, dim_known, total_added, current_shard_start, shard_ranges>>
memory == <<batch_size, next_add_idx, flush_happened, pool, progress>>
vars == <<files, pc, memory, crashes, fetch_errors, origin>>

-----------------------------------------------------------------------------
(* Documents, batches and index contents. *)

Docs == 0 .. NumDocs - 1

\* Batch i of _iter_batches exists, and its number of documents.
HasBatch(i, b) == i * b < NumDocs

\* Mutant: the short last batch is taken for a full one.
FullBatchLen(i, b) == b

BatchLen(i, b) == IF (i + 1) * b <= NumDocs THEN b ELSE NumDocs - i * b

\* The entries add_with_ids appends when batch i arrives at position `total`.
Entries(i, b, total) ==
  [j \in 1 .. BatchLen(i, b) |-> [id |-> total + j - 1, doc |-> i * b + j - 1]]

\* What an index over positions lo .. hi-1 of the corpus must contain.
Slice(lo, hi) == [j \in 1 .. hi - lo |-> [id |-> lo + j - 1, doc |-> lo + j - 1]]

\* The shards listed by `ranges` tile positions 0 .. n-1 without gap or overlap.
Tiles(ranges, n) ==
  /\ n = IF ranges = <<>> THEN 0 ELSE ranges[Len(ranges)].end_id + 1
  /\ \A k \in 1 .. Len(ranges) :
       /\ ranges[k].path = k - 1
       /\ ranges[k].start_id = IF k = 1 THEN 0 ELSE ranges[k - 1].end_id + 1
       /\ ranges[k].start_id <= ranges[k].end_id
       /\ ranges[k].ntotal = ranges[k].end_id - ranges[k].start_id + 1

\* They do, and each of these files holds exactly its part of the corpus.
Covers(contents, ranges, n) ==
  /\ Tiles(ranges, n)
  /\ \A k \in 1 .. Len(ranges) :
       contents[k - 1] = Slice(ranges[k].start_id, ranges[k].end_id + 1)

NoCheckpoint ==
  [next_add_idx |-> 0, total_added |-> 0, current_shard_start |-> 0,
   partial_index_ntotal |-> 0, shard_ranges |-> <<>>, batch_size |-> 0]

-----------------------------------------------------------------------------
(* Where the files that a resume would read come from.  The code keeps no  *)
(* such record; this history variable says what went wrong before.         *)
(*   "own":          the last saves of the build in progress               *)
(*   "old_partial":  partial.faiss may belong to an earlier shard, whose   *)
(*                   removal failed, or to an earlier build                *)
(*   "old_record":   a run that could not read checkpoint.json has begun   *)
(*                   anew, so the file and the shards are of two builds    *)
(*   "mixed":        a resume has taken such files for its own             *)

Origins == {"own", "old_partial", "old_record", "mixed"}

\* partial.faiss is absent, or has just been replaced.
PartialRenewed ==
  origin' = IF origin = "old_partial" THEN "own" ELSE origin

-----------------------------------------------------------------------------
(* Starting a run: _load_checkpoint and the resume branch of the builder.  *)

Init ==
  /\ checkpoint = NoCheckpoint /\ partial = <<>> /\ manifest = <<>>
  /\ shard_files = [f \in Docs |-> <<>>]
  /\ pc = "down"
  /\ batch_size = 0 /\ next_add_idx = 0 /\ next_batch_idx = 0
  /\ in_flight = {} /\ pending_results = {}
  /\ batch_retry_counts = [i \in Docs |-> 0]
  /\ index = <<>> /\ dim_known = FALSE
  /\ total_added = 0 /\ current_shard_start = 0 /\ shard_ranges = <<>>
  /\ flush_happened = FALSE
  /\ crashes = 0 /\ fetch_errors = 0
  /\ origin = "own"

\* A removal of partial.faiss whose exception is swallowed by the caller.
UnlinkPartial ==
  \/ partial' = <<>>
  \/ "unlink" \in Faults /\ UNCHANGED partial

\* Mutant: the consistency check of the load is missing.
PartialTrusted == TRUE

\* partial.faiss is the index the checkpoint was saved with.
PartialMatches == Len(partial) = checkpoint.partial_index_ntotal

\* The metadata after a rollback to the last shard boundary.
RolledBack ==
  [checkpoint EXCEPT
     !.next_add_idx = checkpoint.current_shard_start \div checkpoint.batch_size,
     !.total_added = checkpoint.current_shard_start,
     !.partial_index_ntotal = 0]

\* Mutant: a resume does not restore the dimension of the index it loaded.
DimForgotten(saved_index) == FALSE

\* expected_dim after a resume is that of the loaded index, else None.
DimOf(saved_index) == saved_index # <<>>

Begin(b, meta, saved_index) ==
  /\ pc' = "submitting"
  /\ batch_size' = b
  /\ next_batch_idx' = meta.next_add_idx
  /\ next_add_idx' = meta.next_add_idx
  /\ total_added' = meta.total_added
  /\ current_shard_start' = meta.current_shard_start
  /\ shard_ranges' = meta.shard_ranges
  /\ index' = saved_index
  /\ dim_known' = DimOf(saved_index)
  /\ in_flight' = {} /\ pending_results' = {}
  /\ batch_retry_counts' = [i \in Docs |-> 0]
  /\ flush_happened' = FALSE
  /\ UNCHANGED <<checkpoint, shard_files, manifest, crashes, fetch_errors>>

\* Mutant: every run starts from scratch.
AlwaysFresh(b) ==
  pc = "down" /\ Begin(b, NoCheckpoint, <<>>) /\ UNCHANGED <<partial, origin>>

\* No checkpoint, or one that could not be read: start from scratch.
StartFresh(b) ==
  /\ pc = "down"
  /\ checkpoint = NoCheckpoint \/ "load" \in Faults
  /\ Begin(b, NoCheckpoint, <<>>)
  /\ UNCHANGED partial
  /\ origin' = IF checkpoint # NoCheckpoint THEN "old_record"
               ELSE IF partial # <<>> THEN "old_partial" ELSE "own"

\* The shards that checkpoint.json lists hold what it says of them.
ShardsIntact ==
  Covers(shard_files, checkpoint.shard_ranges, checkpoint.current_shard_start)

Resume(b) ==
  /\ pc = "down"
  /\ checkpoint # NoCheckpoint /\ PartialMatches
  /\ checkpoint.batch_size = b
  /\ Begin(b, checkpoint, partial)
  /\ UNCHANGED partial
  /\ origin' =
       IF \/ origin = "own"
          \/ /\ ShardsIntact
             /\ partial = Slice(checkpoint.current_shard_start, checkpoint.total_added)
         THEN "own" ELSE "mixed"

ResumeRolledBack(b) ==
  /\ pc = "down"
  /\ checkpoint # NoCheckpoint /\ ~PartialMatches
  /\ checkpoint.batch_size = b
  /\ UnlinkPartial
  /\ Begin(b, RolledBack, <<>>)
  /\ origin' = IF origin = "own" THEN "own"
               ELSE IF ~ShardsIntact THEN "mixed"
               ELSE IF partial' = <<>> THEN "own" ELSE "old_partial"

\* A changed batch size: ValueError, after the load has done its work.
RefuseBatchSize(b) ==
  /\ pc = "down"
  /\ checkpoint # NoCheckpoint
  /\ checkpoint.batch_size # b
  /\ IF PartialMatches THEN UNCHANGED partial ELSE UnlinkPartial
  /\ IF partial' = <<>> THEN PartialRenewed ELSE UNCHANGED origin
  /\ UNCHANGED <<checkpoint, shard_files, manifest, pc, memory, crashes, fetch_errors>>

-----------------------------------------------------------------------------
(* Fetching. *)

SubmitNext ==
  /\ HasBatch(next_batch_idx, batch_size)
  /\ in_flight' = in_flight \cup {next_batch_idx}
  /\ next_batch_idx' = next_batch_idx + 1

FillPool ==
  /\ pc = "submitting"
  /\ IF HasBatch(next_batch_idx, batch_size) /\ Cardinality(in_flight) < MaxWorkers
       THEN SubmitNext /\ UNCHANGED pc
       ELSE pc' = "waiting" /\ UNCHANGED <<next_batch_idx, in_flight>>
  /\ UNCHANGED <<files, batch_size, next_add_idx, flush_happened, pending_results,
                 batch_retry_counts, progress, crashes, fetch_errors, origin>>

FetchDone(i) ==
  /\ pc = "waiting"
  /\ i \in in_flight
  /\ in_flight' = in_flight \ {i}
  /\ pending_results' = pending_results \cup {i}
  /\ pc' = "adding"
  /\ UNCHANGED <<files, batch_size, next_add_idx, flush_happened, next_batch_idx,
                 batch_retry_counts, progress, crashes, fetch_errors, origin>>

\* Mutant: the failed batch is not submitted again.
FetchDropped(i) ==
  /\ pc = "waiting"
  /\ i \in in_flight
  /\ fetch_errors < MaxFetchErrors
  /\ batch_retry_counts[i] < MaxBatchRetries
  /\ in_flight' = in_flight \ {i}
  /\ batch_retry_counts' = [batch_retry_counts EXCEPT ![i] = @ + 1]
  /\ fetch_errors' = fetch_errors + 1
  /\ UNCHANGED <<files, pc, batch_size, next_add_idx, flush_happened,
                 next_batch_idx, pending_results, progress, crashes, origin>>

\* The fetch of batch i raised and is submitted again.
FetchRetry(i) ==
  /\ pc = "waiting"
  /\ i \in in_flight
  /\ fetch_errors < MaxFetchErrors
  /\ batch_retry_counts[i] < MaxBatchRetries
  /\ batch_retry_counts' = [batch_retry_counts EXCEPT ![i] = @ + 1]
  /\ fetch_errors' = fetch_errors + 1
  /\ UNCHANGED <<files, pc, batch_size, next_add_idx, flush_happened,
                 next_batch_idx, in_flight, pending_results, progress, crashes, origin>>

\* The memory of the process is gone; its files stay.
ProcessEnds ==
  /\ pc' = "down"
  /\ batch_size' = 0 /\ next_add_idx' = 0 /\ next_batch_idx' = 0
  /\ in_flight' = {} /\ pending_results' = {}
  /\ batch_retry_counts' = [i \in Docs |-> 0]
  /\ index' = <<>> /\ dim_known' = FALSE
  /\ total_added' = 0 /\ current_shard_start' = 0 /\ shard_ranges' = <<>>
  /\ flush_happened' = FALSE
  /\ UNCHANGED <<files, origin>>

\* Retries exhausted: RuntimeError ends the run.
FetchGivesUp(i) ==
  /\ pc = "waiting"
  /\ i \in in_flight
  /\ fetch_errors < MaxFetchErrors
  /\ batch_retry_counts[i] >= MaxBatchRetries
  /\ fetch_errors' = fetch_errors + 1
  /\ ProcessEnds
  /\ UNCHANGED crashes

-----------------------------------------------------------------------------
(* Adding the contiguous completed batches, flushing full shards.          *)

AddBatch ==
  /\ pc = "adding"
  /\ next_add_idx \in pending_results
  /\ pending_results' = pending_results \ {next_add_idx}
  /\ index' = index \o Entries(next_add_idx, batch_size, total_added)
  /\ dim_known' = TRUE
  /\ total_added' = total_added + BatchLen(next_add_idx, batch_size)
  /\ pc' = IF VectorsPerShard > 0 /\ Len(index') >= VectorsPerShard
             THEN "flush" ELSE "added"
  /\ UNCHANGED <<files, batch_size, next_add_idx, flush_happened, next_batch_idx,
                 in_flight, batch_retry_counts, current_shard_start, shard_ranges,
                 crashes, fetch_errors, origin>>

\* faiss.write_index(index, shard_path) truncates the file ...
OpenShard(at, then) ==
  /\ pc = at
  /\ shard_files' = [shard_files EXCEPT ![Len(shard_ranges)] = <<>>]
  /\ pc' = then
  /\ UNCHANGED <<checkpoint, partial, manifest, memory, crashes, fetch_errors, origin>>

\* ... and returns with the index in it; the shard is recorded.
CloseShard(at, then) ==
  /\ pc = at
  /\ shard_files' = [shard_files EXCEPT ![Len(shard_ranges)] = index]
  /\ shard_ranges' = Append(shard_ranges,
                            [path |-> Len(shard_ranges),
                             start_id |-> current_shard_start,
                             end_id |-> total_added - 1,
                             ntotal |-> Len(index)])
  /\ current_shard_start' = total_added
  /\ index' = <<>>
  /\ flush_happened' = TRUE
  /\ pc' = then
  /\ UNCHANGED <<checkpoint, partial, manifest, batch_size, next_add_idx, pool,
                 dim_known, total_added, crashes, fetch_errors, origin>>

\* End of one turn of the add loop: _maybe_save_checkpoint decides.
Advance ==
  /\ pc = "added"
  /\ next_add_idx' = next_add_idx + 1
  /\ pc' = IF /\ CheckpointEvery > 0
              /\ flush_happened \/ next_add_idx' % CheckpointEvery = 0
             THEN "save_partial" ELSE "adding"
  /\ UNCHANGED <<files, batch_size, flush_happened, pool, progress, crashes, fetch_errors, origin>>

\* Nothing more to add: one further batch is submitted, back to wait().
AddLoopEnds ==
  /\ pc = "adding"
  /\ next_add_idx \notin pending_results
  /\ IF HasBatch(next_batch_idx, batch_size)
       THEN SubmitNext ELSE UNCHANGED <<next_batch_idx, in_flight>>
  /\ pc' = "waiting"
  /\ UNCHANGED <<files, batch_size, next_add_idx, flush_happened, pending_results,
                 batch_retry_counts, progress, crashes, fetch_errors, origin>>

-----------------------------------------------------------------------------
(* _save_checkpoint.  A failed step abandons the save; the caller clears   *)
(* flush_happened in any case.                                             *)

SaveEnds ==
  /\ pc' = "adding"
  /\ flush_happened' = FALSE

\* Mutant: a checkpoint at a clean boundary keeps the old partial.faiss.
SaveKeepingPartial ==
  /\ pc = "save_partial"
  /\ pc' = "save_json"
  /\ UNCHANGED <<partial, flush_happened, checkpoint, shard_files, manifest,
                 batch_size, next_add_idx, pool, progress, crashes, fetch_errors, origin>>

\* Step 1: write partial.faiss.tmp ...
WritePartial ==
  /\ index # <<>>
  /\ \/ pc' = "save_json" /\ UNCHANGED flush_happened
     \/ "write" \in Faults /\ SaveEnds
  /\ UNCHANGED <<partial, origin>>

\* ... or remove the files at a clean boundary.
RemovePartial ==
  /\ index = <<>>
  /\ \/ pc' = "save_json" /\ partial' = <<>> /\ PartialRenewed
        /\ UNCHANGED flush_happened
     \/ /\ "unlink" \in Faults /\ SaveEnds
        /\ origin' = IF origin = "own" /\ partial # <<>> THEN "old_partial" ELSE origin
        /\ UNCHANGED partial

SavePartial ==
  /\ pc = "save_partial"
  /\ WritePartial \/ RemovePartial
  /\ UNCHANGED <<checkpoint, shard_files, manifest, batch_size, next_add_idx, pool,
                 progress, crashes, fetch_errors>>

\* Steps 2 and 3: the metadata replaces checkpoint.json atomically.
SaveJson ==
  /\ pc = "save_json"
  /\ \/ /\ checkpoint' = [next_add_idx |-> next_add_idx,
                          total_added |-> total_added,
                          current_shard_start |-> current_shard_start,
                          partial_index_ntotal |-> Len(index),
                          shard_ranges |-> shard_ranges,
                          batch_size |-> batch_size]
        /\ IF index # <<>> THEN pc' = "save_rename" /\ UNCHANGED flush_happened
                           ELSE SaveEnds
        /\ origin' = IF origin # "old_record" THEN origin
                     ELSE IF partial = <<>> THEN "own" ELSE "old_partial"
     \/ /\ "json" \in Faults
        /\ SaveEnds
        /\ UNCHANGED <<checkpoint, origin>>
  /\ UNCHANGED <<partial, shard_files, manifest, batch_size, next_add_idx, pool,
                 progress, crashes, fetch_errors>>

\* Step 4: the new partial index replaces partial.faiss.
SaveRename ==
  /\ pc = "save_rename"
  /\ \/ partial' = index /\ PartialRenewed
     \/ "rename" \in Faults /\ UNCHANGED <<partial, origin>>
  /\ SaveEnds
  /\ UNCHANGED <<checkpoint, shard_files, manifest, batch_size, next_add_idx, pool,
                 progress, crashes, fetch_errors>>

-----------------------------------------------------------------------------
(* The end of a run. *)

\* Mutant: the open shard is not flushed at the end.
FinishWithoutFlush ==
  /\ pc = "waiting" /\ in_flight = {} /\ total_added # 0 /\ dim_known
  /\ pc' = "publish"
  /\ UNCHANGED <<files, memory, crashes, fetch_errors, origin>>

Finish ==
  /\ pc = "waiting"
  /\ in_flight = {}
  /\ total_added # 0 /\ dim_known
  /\ pc' = IF index = <<>> THEN "publish" ELSE "final_flush"
  /\ UNCHANGED <<files, memory, crashes, fetch_errors, origin>>

\* ValueError("No embeddings were generated from the corpus.")
NoEmbeddings ==
  /\ pc = "waiting"
  /\ in_flight = {}
  /\ total_added = 0 \/ ~dim_known
  /\ ProcessEnds
  /\ UNCHANGED <<crashes, fetch_errors>>

Publish ==
  /\ pc = "publish"
  /\ manifest' = IF VectorsPerShard > 0 THEN shard_ranges ELSE manifest
  /\ pc' = "cleanup"
  /\ UNCHANGED <<checkpoint, partial, shard_files, memory, crashes, fetch_errors, origin>>

CleanupCheckpoint ==
  /\ pc = "cleanup"
  /\ checkpoint' = NoCheckpoint \/ ("unlink" \in Faults /\ UNCHANGED checkpoint)
  /\ pc' = "cleanup_partial"
  /\ UNCHANGED <<partial, shard_files, manifest, memory, crashes, fetch_errors, origin>>

CleanupPartial ==
  /\ pc = "cleanup_partial"
  /\ UnlinkPartial
  /\ pc' = "done"
  /\ UNCHANGED <<checkpoint, shard_files, manifest, memory, crashes, fetch_errors, origin>>

\* The process is killed between any two steps.
Crash ==
  /\ pc \notin {"down", "done"}
  /\ crashes < MaxCrashes
  /\ crashes' = crashes + 1
  /\ ProcessEnds
  /\ UNCHANGED fetch_errors

-----------------------------------------------------------------------------
Start ==
  \E b \in BatchSizes :
    StartFresh(b) \/ Resume(b) \/ ResumeRolledBack(b) \/ RefuseBatchSize(b)

Fetch == \E i \in in_flight : FetchDone(i) \/ FetchRetry(i) \/ FetchGivesUp(i)

Flush ==
  \/ OpenShard("flush", "writing") \/ CloseShard("writing", "added")
  \/ OpenShard("final_flush", "final_writing") \/ CloseShard("final_writing", "publish")

Save == SavePartial \/ SaveJson \/ SaveRename

End == Finish \/ NoEmbeddings \/ Publish \/ CleanupCheckpoint \/ CleanupPartial

Work == FillPool \/ Fetch \/ AddBatch \/ Flush \/ Advance \/ AddLoopEnds \/ Save \/ End

Next == Start \/ Work \/ Crash

Spec == Init /\ [][Next]_vars

\* The operator reruns a build that ended early; a started one keeps running.
FairSpec == Spec /\ WF_vars(Start) /\ WF_vars(Work)

-----------------------------------------------------------------------------
(* Properties. *)

Phases ==
  {"down", "submitting", "waiting", "adding", "flush", "writing", "added",
   "save_partial", "save_json", "save_rename", "final_flush", "final_writing",
   "publish", "cleanup", "cleanup_partial", "done"}

Entry == [id : Nat, doc : Nat]
ShardRange == [path : Nat, start_id : Nat, end_id : Nat, ntotal : Nat]
Meta ==
  [next_add_idx : Nat, total_added : Nat, current_shard_start : Nat,
   partial_index_ntotal : Nat, shard_ranges : Seq(ShardRange), batch_size : Nat]

\* Every variable holds a value of the kind the builder keeps in it.
TypeOK ==
  /\ checkpoint \in Meta
  /\ partial \in Seq(Entry)
  /\ shard_files \in [Docs -> Seq(Entry)]
  /\ manifest \in Seq(ShardRange)
  /\ pc \in Phases
  /\ batch_size \in Nat /\ next_batch_idx \in Nat /\ next_add_idx \in Nat
  /\ in_flight \subseteq Docs /\ pending_results \subseteq Docs
  /\ batch_retry_counts \in [Docs -> Nat]
  /\ index \in Seq(Entry)
  /\ dim_known \in BOOLEAN /\ flush_happened \in BOOLEAN
  /\ total_added \in 0 .. NumDocs /\ current_shard_start \in 0 .. NumDocs
  /\ shard_ranges \in Seq(ShardRange)
  /\ crashes \in 0 .. MaxCrashes /\ fetch_errors \in 0 .. MaxFetchErrors
  /\ origin \in Origins

\* When build_faiss_index returns, the listed shards tile the corpus and the
\* manifest lists just these shards, whatever crashed, failed or was retried on
\* the way.  They hold every document exactly once, under the id of its position,
\* unless a resume has mixed in files of an earlier shard or build; with a single
\* index file that never happens.
IndexComplete ==
  pc = "done" =>
    /\ Tiles(shard_ranges, NumDocs)
    /\ VectorsPerShard > 0 => manifest = shard_ranges
    /\ origin # "mixed" \/ VectorsPerShard = 0 => Covers(shard_files, shard_ranges, NumDocs)

\* Whenever the process may be killed, the next batch of the record on disk starts
\* at total_added, and its shards tile the corpus up to current_shard_start.  What
\* the files hold resumes safely as long as the record is of one build: the shards
\* are intact, and a partial.faiss of the recorded size (which _load_checkpoint
\* trusts) is the rest of that prefix, unless an earlier shard or build left it.
Recoverable ==
  checkpoint # NoCheckpoint =>
    LET c == checkpoint IN
    /\ Tiles(c.shard_ranges, c.current_shard_start)
    /\ c.total_added = c.current_shard_start + c.partial_index_ntotal
    /\ c.total_added = IF HasBatch(c.next_add_idx, c.batch_size)
                         THEN c.next_add_idx * c.batch_size ELSE NumDocs
    /\ origin \notin {"old_record", "mixed"} => ShardsIntact
    /\ origin = "own" /\ PartialMatches =>
         partial = Slice(c.current_shard_start, c.total_added)

\* No two vectors of the finished shards carry the same id: what the docstrings
\* of _save_checkpoint and _load_checkpoint promise of a resume.
NoDuplicateIds ==
  pc = "done" =>
    \A k, m \in DOMAIN shard_ranges :
      \A i \in DOMAIN shard_files[k - 1], j \in DOMAIN shard_files[m - 1] :
        shard_files[k - 1][i].id = shard_files[m - 1][j].id => k = m /\ i = j

\* While a run works, every batch from next_add_idx on that was submitted is
\* either being fetched or waiting for its turn, never both, never dropped.
BatchAccounting ==
  /\ in_flight \cap pending_results = {}
  /\ pc \in {"submitting", "waiting", "adding"} =>
       in_flight \cup pending_results = next_add_idx .. next_batch_idx - 1

\* A finished shard is never given up: until the cleanup removes it, the shard
\* boundary recorded on disk, to which a resume falls back, only advances.  Only a
\* run that could not read the record, and began anew, may set it back.
BoundaryNeverRetreats ==
  [][\/ checkpoint' = NoCheckpoint /\ pc = "cleanup"
     \/ origin = "old_record"
     \/ checkpoint'.current_shard_start >= checkpoint.current_shard_start]_vars

\* With crashes and fetch errors finitely many, the reruns end in an index.
EventuallyBuilt == <>(pc = "done")

=============================================================================
