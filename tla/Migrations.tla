----------------------------- MODULE Migrations -----------------------------
(***************************************************************************)
(* persistence.Migrate: the files of schema/, embedded in the binary, are  *)
(* applied in the order of their names, each in a transaction of its own   *)
(* that also records it in schema_migrations.  File n is the n-th in that  *)
(* order; a later binary has the files of an earlier one and more.         *)
(*                                                                         *)
(* What a transaction did reaches the disk with its commit.  Until then it *)
(* is gone when the process dies or a statement fails.                     *)
(***************************************************************************)
EXTENDS Naturals, Sequences

CONSTANT MaxFiles  \* bound: files of the latest binary

ASSUME FilesAssumption == MaxFiles \in Nat

VARIABLES
  applied,   \* on disk: the scripts that took effect, in that order
  recorded,  \* on disk: the rows of schema_migrations
  files,     \* the files of the running binary are 1 .. files
  at,        \* the file Migrate is at
  tx         \* "none", or how far the open transaction is

disk      == <<applied, recorded>>
migration == <<files, at, tx>>

MigrationsInit ==
  /\ applied = <<>> /\ recorded = {}
  /\ files = 0 /\ at = 1 /\ tx = "none"

Done == at > files

\* mutant: no look at schema_migrations
NeverRecorded == FALSE

Recorded == at \in recorded

SkipApplied ==
  /\ ~Done /\ tx = "none"
  /\ Recorded
  /\ at' = at + 1
  /\ UNCHANGED <<disk, files, tx>>

BeginTx ==
  /\ ~Done /\ tx = "none"
  /\ ~Recorded
  /\ tx' = "begun"
  /\ UNCHANGED <<disk, files, at>>

ApplyScript ==
  /\ tx = "begun"
  /\ tx' = "applied"
  /\ UNCHANGED <<disk, files, at>>

RecordVersion ==
  /\ tx = "applied"
  /\ tx' = "recorded"
  /\ UNCHANGED <<disk, files, at>>

Commit ==
  /\ tx = "recorded"
  /\ tx' = "none"
  /\ applied' = Append(applied, at)
  /\ recorded' = recorded \cup {at}
  /\ at' = at + 1
  /\ UNCHANGED files

Migrate == SkipApplied \/ BeginTx \/ ApplyScript \/ RecordVersion \/ Commit

-----------------------------------------------------------------------------
MigrationsTypeOK ==
  /\ applied \in Seq(1 .. MaxFiles)
  /\ recorded \subseteq 1 .. MaxFiles
  /\ files \in 0 .. MaxFiles
  /\ at \in 1 .. MaxFiles + 1
  /\ tx \in {"none", "begun", "applied", "recorded"}

\* However often the process died or a statement failed, and whichever binaries
\* ran: every script took effect once, in the order of the files and without a
\* gap, and schema_migrations says so.
SchemaExact ==
  /\ \A n \in DOMAIN applied : applied[n] = n
  /\ recorded = DOMAIN applied
=============================================================================
