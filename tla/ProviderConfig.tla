---------------------------- MODULE ProviderConfig ----------------------------
(***************************************************************************)
(* The provider entry that OpenCodexConfigManager                          *)
(* (media_bridge_adapters/opencodex/manager.py) puts into another program's*)
(* configuration and takes out again, with a marker and a backup.          *)
(*                                                                         *)
(* Every file is replaced at once, but a command may be killed between two *)
(* of them, and the configuration belongs to its user, who edits it at any *)
(* moment.  One command runs at a time.                                    *)
(***************************************************************************)
EXTENDS Naturals, FiniteSets

CONSTANTS Contents,  \* what a configuration says
          Formats,   \* how it is written
          MaxEdits,  \* bound: edits of the user
          Missing    \* no file, nothing

ASSUME ConfigAssumption ==
    Missing \notin [content : Contents \cup {Missing}, format : Formats \cup {"canonical"},
                   managed : BOOLEAN]

\* Configurations the user writes, and the one the manager makes of them: its
\* own provider entry added, written canonically.
Written == [content : Contents, format : Formats, managed : {FALSE}]
Managed(v) == [content |-> IF v = Missing THEN Missing ELSE v.content,
               format |-> "canonical", managed |-> TRUE]

VARIABLES
    configFile,  \* the configuration
    marker,      \* the marker: which managed file, from which original
    backup,      \* the backups, named by what the configuration said
    command,     \* the running command
    edits,       \* how many edits there have been
    owed         \* the file a command replaced and the user has not seen again

configVars == <<configFile, marker, backup, command, edits, owed>>

NoCommand == [pc |-> "idle"]
Name(v) == IF v = Missing THEN Missing ELSE v.content

ConfigInit ==
    /\ configFile \in Written \cup {Missing}
    /\ marker = Missing
    /\ backup = [n \in Contents \cup {Missing} |-> Missing]
    /\ command = NoCommand
    /\ edits = 0 /\ owed = Missing

-----------------------------------------------------------------------------
(* apply *)

\* The configuration is parsed.  A provider of that name without a marker is
\* not touched, one with a marker is left as it is.
Parse ==
    /\ command.pc = "idle" /\ marker = Missing
    /\ configFile # Missing => ~configFile.managed
    /\ command' = [pc |-> "read", parsed |-> configFile]
    /\ UNCHANGED <<configFile, marker, backup, edits, owed>>

\* Its bytes are read once more.
ReadBytes ==
    /\ command.pc = "read"
    /\ command' = [pc |-> "backup", parsed |-> command.parsed, original |-> configFile]
    /\ UNCHANGED <<configFile, marker, backup, edits, owed>>

\* A faulty backup of what was parsed.
BackUpParsed ==
    /\ command.pc = "backup"
    /\ backup' = IF command.original = Missing THEN backup
                 ELSE [backup EXCEPT ![Name(command.parsed)] = command.parsed]
    /\ command' = [command EXCEPT !.pc = "config"]
    /\ UNCHANGED <<configFile, marker, edits, owed>>

BackUp ==
    /\ command.pc = "backup"
    /\ backup' = IF command.original = Missing THEN backup
                 ELSE [backup EXCEPT ![Name(command.parsed)] = command.original]
    /\ command' = [command EXCEPT !.pc = "config"]
    /\ UNCHANGED <<configFile, marker, edits, owed>>

\* The managed configuration takes the place of the file.
PutConfig ==
    /\ command.pc = "config"
    /\ configFile' = Managed(command.parsed)
    /\ owed' = command.original
    /\ command' = [command EXCEPT !.pc = "marker"]
    /\ UNCHANGED <<marker, backup, edits>>

PutMarker ==
    /\ command.pc = "marker"
    /\ marker' = [managed |-> Managed(command.parsed), name |-> Name(command.parsed),
                  preimage |-> command.original]
    /\ command' = NoCommand
    /\ UNCHANGED <<configFile, backup, edits, owed>>

-----------------------------------------------------------------------------
(* remove *)

\* A faulty check that looks for a backup but not into it.
OwnedUnread ==
    /\ configFile = marker.managed
    /\ marker.preimage # Missing => backup[marker.name] # Missing

\* The file is the managed one, and the backup the original of it.
Owned ==
    /\ configFile = marker.managed
    /\ marker.preimage # Missing => backup[marker.name] = marker.preimage

CheckOwned ==
    /\ command.pc = "idle" /\ marker # Missing /\ Owned
    /\ command' = [pc |-> "restore",
                   original |-> IF marker.preimage = Missing THEN Missing ELSE backup[marker.name]]
    /\ UNCHANGED <<configFile, marker, backup, edits, owed>>

PutBack ==
    /\ command.pc = "restore"
    /\ configFile' = command.original
    /\ owed' = Missing
    /\ command' = [command EXCEPT !.pc = "unmark"]
    /\ UNCHANGED <<marker, backup, edits>>

\* The marker is removed, and then the backup.
Unmark ==
    /\ command.pc = "unmark"
    /\ marker' = Missing
    /\ command' = [pc |-> "clean", name |-> marker.name]
    /\ UNCHANGED <<configFile, backup, edits, owed>>

Clean ==
    /\ command.pc = "clean"
    /\ backup' = [backup EXCEPT ![command.name] = Missing]
    /\ command' = NoCommand
    /\ UNCHANGED <<configFile, marker, edits, owed>>

-----------------------------------------------------------------------------
(* The others *)

CommandKilled ==
    /\ command.pc # "idle" /\ command' = NoCommand
    /\ UNCHANGED <<configFile, marker, backup, edits, owed>>

\* The user writes a configuration of their own, or changes the managed one.
Edit ==
    /\ edits < MaxEdits /\ edits' = edits + 1
    /\ \/ configFile' \in Written /\ owed' = Missing
       \/ /\ configFile # Missing /\ configFile.managed
          /\ \E f \in Formats : configFile' = [configFile EXCEPT !.format = f]
          /\ UNCHANGED owed
    /\ UNCHANGED <<marker, backup, command>>

\* Between commands a backup is changed or lost.
Spoil ==
    /\ command.pc = "idle"
    /\ edits < MaxEdits /\ edits' = edits + 1
    /\ \E n \in Contents : /\ backup[n] # Missing
                           /\ \E v \in Written \cup {Missing} : backup' = [backup EXCEPT ![n] = v]
    /\ owed' = Missing
    /\ UNCHANGED <<configFile, marker, command>>

ConfigNext ==
    \/ Parse \/ ReadBytes \/ BackUp \/ PutConfig \/ PutMarker
    \/ CheckOwned \/ PutBack \/ Unmark \/ Clean
    \/ CommandKilled \/ Edit \/ Spoil

ConfigSpec == ConfigInit /\ [][ConfigNext]_configVars

-----------------------------------------------------------------------------
(* Properties *)

\* Files are files of their kinds.
ConfigTypeOK ==
    /\ configFile # Missing => configFile.content \in Contents \cup {Missing} /\ configFile.managed \in BOOLEAN
    /\ \A n \in DOMAIN backup : backup[n] \in Written \cup {Missing}
    /\ marker # Missing => marker.managed.managed

\* What the user had in the file when a command read it is in a backup from
\* the moment it is replaced until it is put back, wherever a command is
\* killed, and even if it was edited between the command's two reads.
OriginalIsKept == owed # Missing => \E n \in Contents \cup {Missing} : backup[n] = owed

\* remove puts back exactly what apply replaced, or nothing: never a backup
\* that has been changed since, never over a file that is not the managed one
\* when it is checked.
RemoveRestores ==
    [][command.pc = "restore" /\ command'.pc = "unmark" => configFile' = marker.preimage]_configVars
=============================================================================
