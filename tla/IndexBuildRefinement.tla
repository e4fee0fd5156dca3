------------------------ MODULE IndexBuildRefinement ------------------------
(***************************************************************************)
(* IndexBuild implements ResumableBuild: checkpoint.json holds the durable *)
(* prefix until the cleanup removes it, when all of the corpus is in       *)
(* shards.                                                                 *)
(***************************************************************************)
EXTENDS IndexBuild

Cleaned == pc \in {"cleanup_partial", "done"}

Promise == INSTANCE ResumableBuild WITH
  Total <- NumDocs,
  boundary <- IF Cleaned THEN NumDocs ELSE checkpoint.current_shard_start,
  resume_at <- IF Cleaned THEN NumDocs
               ELSE IF PartialMatches THEN checkpoint.total_added
               ELSE checkpoint.current_shard_start,
  result <- IF pc # "done" THEN "none"
            ELSE IF Covers(shard_files, shard_ranges, NumDocs) THEN "complete" ELSE "corrupt"

\* The builder with its files, kills and rollbacks is a resumable build: no
\* sealed shard is redone before the build is complete, lost work is confined to
\* the open shard, and a run that returns leaves the complete index.  The promise
\* is suspended while the files on disk are of two builds: after a restart beside
\* a record that could not be read, until its first save, and after a resume from
\* files of an earlier shard or build.
ImplementsPromise ==
  Promise!Init /\ [][Promise!Next \/ origin \in {"old_record", "mixed"}]_(Promise!vars)

=============================================================================
