-------------------------- MODULE DatabaseOperations --------------------------
(***************************************************************************)
(* The database of a self-hosted installation, the control container,      *)
(* which migrates the schema before it serves (deploy/scripts/migrate.py,  *)
(* migrations/env.py, entrypoints.py), and the operator's backups and      *)
(* restores (backup.py, verify_backup.py, restore.py).                     *)
(*                                                                         *)
(* Each is a process of its own: it asks, and acts later on what it was    *)
(* told, while the others go on.                                           *)
(***************************************************************************)
EXTENDS Naturals

CONSTANTS Head,       \* the schema revision of the newest release
          MaxWrites,  \* bound: changes made through the control plane
          Nothing     \* no file, no process

ASSUME DatabaseAssumption == Head \in Nat /\ MaxWrites \in Nat

VARIABLES
    up,        \* is there a database
    rev,       \* its schema revision, 0 without tables
    data,      \* the changes it holds
    writes,    \* how many changes there have been
    contents,  \* every state of the data there has been
    control,   \* the control container: its release, and how far it is
    archive,   \* the file of the backup: revision, data, undamaged
    dumped,    \* backup.py: the dump it holds
    restore,   \* restore.py; sound: was the file undamaged when it was verified
    slipped    \* a ghost: what was loaded of files that were damaged only after that

database == <<up, rev, data, writes, contents>>
databaseVars == <<database, control, archive, dumped, restore, slipped>>

DatabaseInit ==
    /\ up = FALSE /\ rev = 0 /\ data = {} /\ writes = 0 /\ contents = {{}}
    /\ control = Nothing
    /\ archive = Nothing /\ dumped = Nothing /\ restore = [pc |-> "idle"]
    /\ slipped = {}

-----------------------------------------------------------------------------
(* The database and the control container *)

\* The database container is started for the first time; the operator takes
\* the installation down with its volume.
Up == ~up /\ up' = TRUE /\ UNCHANGED <<rev, data, writes, contents, control, archive, dumped, restore, slipped>>

Down ==
    /\ up /\ up' = FALSE
    /\ rev' = 0 /\ data' = {} /\ control' = Nothing
    /\ UNCHANGED <<writes, contents, archive, dumped, restore, slipped>>

\* The container is created anew from a release: current_revision is read,
\* and must be one that the release knows.
Migrate ==
    /\ up
    /\ \E head \in 1..Head :
         control' = IF rev > head THEN Nothing
                    ELSE [pc |-> IF rev = head THEN "verify" ELSE "upgrade", head |-> head]
    /\ UNCHANGED <<database, archive, dumped, restore, slipped>>

\* command.upgrade reads the revision once more and runs every migration that
\* it lacks, in one transaction; a revision it does not know, tables that are
\* made meanwhile or the connection make it fail.
Upgrade ==
    /\ control # Nothing /\ control.pc = "upgrade"
    /\ \/ /\ rev <= control.head
          /\ rev' = control.head /\ control' = [control EXCEPT !.pc = "verify"]
       \/ control' = Nothing /\ UNCHANGED rev
    /\ UNCHANGED <<up, data, writes, contents, archive, dumped, restore, slipped>>

\* The revision is read again, by migrate.py and by require_migration_head.
Serve ==
    /\ control # Nothing /\ control.pc = "verify"
    /\ control' = IF rev = control.head THEN [control EXCEPT !.pc = "serving"] ELSE Nothing
    /\ UNCHANGED <<database, archive, dumped, restore, slipped>>

ControlStops ==
    /\ control # Nothing /\ control' = Nothing
    /\ UNCHANGED <<database, archive, dumped, restore, slipped>>

\* An administrator changes something.
Write ==
    /\ control # Nothing /\ control.pc = "serving" /\ writes < MaxWrites
    /\ writes' = writes + 1
    /\ data' = data \cup {writes'}
    /\ contents' = contents \cup {data'}
    /\ UNCHANGED <<up, rev, control, archive, dumped, restore, slipped>>

-----------------------------------------------------------------------------
(* Backup and restore *)

\* dump_from_compose: pg_dump sees one state of the database.
Dump ==
    /\ up /\ dumped = Nothing
    /\ dumped' = [rev |-> rev, data |-> data, whole |-> TRUE]
    /\ UNCHANGED <<database, control, archive, restore, slipped>>

\* create_archive: a temporary file takes the place of the output.  An error
\* removes both of them, a crash or a refused dump leaves the output alone.
Archive ==
    /\ dumped # Nothing
    /\ archive' \in {dumped, Nothing, archive}
    /\ dumped' = Nothing
    /\ UNCHANGED <<database, control, restore, slipped>>

\* The file is damaged on the disk.
Damaged ==
    /\ archive # Nothing /\ archive.whole
    /\ archive' = [archive EXCEPT !.data = {0}, !.whole = FALSE]
    /\ UNCHANGED <<database, control, dumped, restore, slipped>>

\* compose_database_is_empty and the confirmation.
RestoreAsks ==
    /\ restore.pc = "idle" /\ up /\ rev = 0
    /\ restore' = [pc |-> "verify"]
    /\ UNCHANGED <<database, control, archive, dumped, slipped>>

\* A faulty verification, of the names of the members alone.
RestoreVerifiesAny ==
    /\ restore.pc = "verify"
    /\ restore' = IF archive = Nothing THEN [pc |-> "idle"]
                  ELSE [pc |-> "load", sound |-> archive.whole]
    /\ UNCHANGED <<database, control, archive, dumped, slipped>>

\* verify: the digest of the dump is the one of the manifest.
RestoreVerifies ==
    /\ restore.pc = "verify"
    /\ restore' = IF archive # Nothing /\ archive.whole
                  THEN [pc |-> "load", sound |-> TRUE] ELSE [pc |-> "idle"]
    /\ UNCHANGED <<database, control, archive, dumped, slipped>>

\* The file is opened a second time and its dump read without a digest: it may
\* be another archive by now, and a file that has been damaged since is loaded
\* unless the damage is one that tar or gzip notices.
RestoreLoads ==
    /\ restore.pc = "load"
    /\ \/ /\ archive # Nothing
          /\ restore' = [pc |-> "apply", sql |-> archive]
          /\ slipped' = IF restore.sound /\ ~archive.whole THEN slipped \cup {archive.data}
                        ELSE slipped
       \/ /\ archive # Nothing => ~archive.whole
          /\ restore' = [pc |-> "idle"] /\ UNCHANGED slipped
    /\ UNCHANGED <<database, control, archive, dumped>>

\* A faulty psql call that goes on after an error.
RestoreAppliesOver ==
    /\ restore.pc = "apply" /\ up
    /\ rev' = IF rev = 0 THEN restore.sql.rev ELSE rev
    /\ data' = data \cup restore.sql.data
    /\ restore' = [pc |-> "idle"]
    /\ UNCHANGED <<up, writes, contents, control, archive, dumped, slipped>>

\* A faulty dump that drops the tables that are there.
RestoreAppliesAnew ==
    /\ restore.pc = "apply" /\ up
    /\ rev' = restore.sql.rev /\ data' = restore.sql.data
    /\ restore' = [pc |-> "idle"]
    /\ UNCHANGED <<up, writes, contents, control, archive, dumped, slipped>>

\* apply_to_compose: one transaction, which fails if there are tables by now,
\* and may fail anyhow.
RestoreApplies ==
    /\ restore.pc = "apply"
    /\ \/ up /\ rev = 0 /\ rev' = restore.sql.rev /\ data' = restore.sql.data
       \/ UNCHANGED <<rev, data>>
    /\ restore' = [pc |-> "idle"]
    /\ UNCHANGED <<up, writes, contents, control, archive, dumped, slipped>>

DatabaseNext ==
    \/ Up \/ Down \/ Migrate \/ Upgrade \/ Serve \/ ControlStops \/ Write \/ Dump \/ Archive
    \/ Damaged \/ RestoreAsks \/ RestoreVerifies \/ RestoreLoads \/ RestoreApplies

DatabaseSpec == DatabaseInit /\ [][DatabaseNext]_databaseVars

-----------------------------------------------------------------------------
(* Properties *)

\* Revisions and processes have their types.
DatabaseTypeOK ==
    /\ up \in BOOLEAN /\ rev \in 0..Head /\ writes \in 0..MaxWrites
    /\ data \subseteq 0..MaxWrites /\ slipped \subseteq SUBSET (0..MaxWrites)
    /\ control # Nothing => control.head \in 1..Head

\* The control plane only serves a database of its own schema revision, while
\* restores and other releases come and go.
ControlAtHead == control # Nothing /\ control.pc = "serving" => rev = control.head

\* The database, and every backup that verifies, holds what one database held
\* at one moment, never a mixture or a damaged copy; except that the digest is
\* of the first of two readings (restore.py): a file that is damaged between
\* them is what gets applied, and nothing else.
NeverMixed ==
    /\ data \in contents \cup slipped
    /\ archive # Nothing /\ archive.whole => archive.data \in contents \cup slipped

\* The database is of one piece (migrate, restore.py): the two invariants above
\* together.
DatabaseOfOnePiece == ControlAtHead /\ NeverMixed

=============================================================================
