--------------------------- MODULE ServiceLauncher ---------------------------
(***************************************************************************)
(* The `mb` command line of the npm distribution: packaging/npm/bin/mb.cjs *)
(* with lib/process.cjs (the service process and its state file) and       *)
(* lib/runtime.cjs (the managed runtime directory).                        *)
(*                                                                         *)
(* Every command is an operating-system process of its own: users, login   *)
(* scripts and schedulers run several at once, each may be killed between  *)
(* any two steps, and nothing locks the files they share.  The service is  *)
(* a detached child that outlives its command; process numbers are reused. *)
(***************************************************************************)
EXTENDS Naturals, FiniteSets

CONSTANTS Commands,  \* running `mb` commands
          Pids,      \* process numbers
          MaxBorn,   \* bound: processes started on the machine between boots
          None       \* no file, no directory, no process

\* What a directory of the runtime holds: the artifact the manifest of this
\* package names, that of another package version, one with a wrong digest.
Images == {"current", "other", "corrupt"}

\* Operations of the command line that touch the service.
Operations == {"start", "stop", "restart", "status", "uninstall"}

\* Where a command is, and what it remembers: the process it started or tells
\* to stop (and the last process born when it looked at that one), what it has
\* staged and moved aside, which secret it creates.
CommandStates ==
    [op : Operations \cup {"none"},
     pc : {"idle", "status", "resolve", "download", "aside", "in", "probe", "spawn",
           "fill", "write", "grace", "stop", "kill", "poll", "stopped"},
     pid : Pids \cup {None}, born : 0..MaxBorn,
     staged : Images \cup {None}, backup : Images \cup {None}, key : 0..2]

\* A live process: whether `mb` spawned it, when it was born (start marker),
\* from which runtime, which receipt secret it has read (0 before it has),
\* whether it was told to stop, whether it listens.
Process == [ours : BOOLEAN, born : 1..MaxBorn, image : Images \cup {None},
            secret : 0..2, told : BOOLEAN, bound : BOOLEAN]

ASSUME LauncherAssumption ==
    /\ None \notin Pids \cup Images \cup Process \cup [pid : Pids, born : 1..MaxBorn]
    /\ MaxBorn \in Nat

VARIABLES
    proc,    \* the process each number denotes
    born,    \* processes started since the boot
    file,    \* service.pid: number and start marker of the service
    root,    \* ~/.media-bridge/runtime
    secret,  \* the receipt-secret file: which generation, 0 when missing
    minted,  \* receipt secrets generated so far
    filled,  \* those that have been written into their files
    cmd,     \* what each command is doing, and what it remembers
    orderly, \* no two commands have overlapped, none was killed, and the
             \* inspection of a running service has not failed
    whole,   \* no command was killed or failed to clean up while it replaced
             \* the runtime, none uninstalled it
    kept     \* no uninstall deleted the configuration

vars == <<proc, born, file, root, secret, minted, filled, cmd, orderly, whole, kept>>
host == <<proc, born>>
keys == <<secret, minted, filled>>
disk == <<file, root, keys>>
past == <<orderly, whole, kept>>

Idle == [op |-> "none", pc |-> "idle", pid |-> None, born |-> 0,
         staged |-> None, backup |-> None, key |-> 0]

Init ==
    /\ proc = [p \in Pids |-> None] /\ born = 0
    /\ file = None
    /\ root \in {None, "other", "current"}
    /\ secret = 0 /\ minted = 0 /\ filled = {}
    /\ cmd = [c \in Commands |-> Idle]
    /\ orderly = TRUE /\ whole = TRUE /\ kept = TRUE

-----------------------------------------------------------------------------
(* Identities *)

Alive(p) == proc[p] # None

\* identityMatches: the same start marker and the same executable.
Matches(p, marker) == Alive(p) /\ proc[p].ours /\ proc[p].born = marker

\* The service the state file names is running.
Running == file # None /\ Matches(file.pid, file.born)

\* What readStatus and stopProcess find: a state file that does not name a
\* running service is removed, and so is one that does when the inspection of
\* the process (/proc, ps, PowerShell) fails for whatever reason.
Finds(running) ==
    /\ running \in {Running, FALSE}
    /\ file' = IF running THEN file ELSE None
    /\ orderly' = (orderly /\ running = Running)

\* A new process with a number no live process has.
Born(p, ours, image, bound) ==
    /\ ~Alive(p) /\ born < MaxBorn
    /\ born' = born + 1
    /\ proc' = [proc EXCEPT ![p] = [ours |-> ours, born |-> born + 1,
                image |-> image, secret |-> 0, told |-> FALSE, bound |-> bound]]

PortInUse == \E p \in Pids : Alive(p) /\ proc[p].bound

-----------------------------------------------------------------------------
(* The command line: one command from its invocation to its end *)

At(c, pc) == cmd[c].pc = pc

Goto(c, pc) == cmd' = [cmd EXCEPT ![c].pc = pc]

Ends(c) == cmd' = [cmd EXCEPT ![c] = Idle]

\* The rest of the operation forgets what this part of it remembered.
Continues(c, op, pc) == cmd' = [cmd EXCEPT ![c] = [Idle EXCEPT !.op = op, !.pc = pc]]

\* main: the command is dispatched.
Invoke(c, op) ==
    /\ At(c, "idle")
    /\ orderly' = (orderly /\ \A d \in Commands : At(d, "idle"))
    /\ Continues(c, op, IF op = "uninstall" THEN "stop" ELSE "status")
    /\ UNCHANGED <<host, disk, whole, kept>>

\* service('stop') and status ask for the status and go on whatever it is; a
\* start goes on when nothing runs.
ReadStatus(c) ==
    /\ At(c, "status")
    /\ \E running \in BOOLEAN :
          /\ Finds(running)
          /\ \/ cmd[c].op \in {"stop", "restart"} /\ Goto(c, "stop")
             \/ cmd[c].op = "status" /\ Ends(c)
             \/ cmd[c].op = "start" /\ running /\ Ends(c)
             \/ cmd[c].op = "start" /\ ~running /\ Goto(c, "resolve")
    /\ UNCHANGED <<host, root, keys, whole, kept>>

\* A faulty resolution that takes any runtime it finds.
ResolveUnverified(c) ==
    /\ At(c, "resolve")
    /\ Goto(c, IF root # None THEN "probe" ELSE "download")
    /\ UNCHANGED <<host, disk, past>>

\* resolveRuntime: an installed runtime is used when its .verified.json
\* says what the manifest says.
Resolve(c) ==
    /\ At(c, "resolve")
    /\ Goto(c, IF root = "current" THEN "probe" ELSE "download")
    /\ UNCHANGED <<host, disk, past>>

\* installArtifact: download, compare digests, extract into the staging
\* directory, write .verified.json.  An error removes the staging directory.
Fetch(c) ==
    /\ At(c, "download")
    /\ \/ Ends(c)
       \/ \E got \in {"current", "corrupt"} :
              IF got = "current"
              THEN cmd' = [cmd EXCEPT ![c].pc = "aside", ![c].staged = got]
              ELSE Ends(c)
    /\ UNCHANGED <<host, disk, past>>

\* rename(root, backup), when there is a root; the rename may fail.
MoveAside(c) ==
    /\ At(c, "aside")
    /\ \/ /\ cmd' = [cmd EXCEPT ![c].pc = "in", ![c].backup = root]
          /\ root' = None
       \/ root # None /\ Ends(c) /\ UNCHANGED root
    /\ UNCHANGED <<host, file, keys, past>>

\* rename(staging, root): it fails on a root another command has put there.
\* The start fails, the runtime stays, when the backup cannot be removed.
MoveIn(c) ==
    /\ At(c, "in") /\ root = None
    /\ root' = cmd[c].staged
    /\ Continues(c, cmd[c].op, "probe") \/ Ends(c)
    /\ UNCHANGED <<host, file, keys, past>>

\* A faulty recovery that leaves the previous runtime in the backup.
MoveInFailsOnly(c) ==
    /\ At(c, "in")
    /\ Ends(c)
    /\ UNCHANGED <<host, disk, past>>

\* The error path: the staging directory is removed, then the previous runtime
\* restored when nothing is there; either may fail, and the rest is left out.
MoveInFails(c) ==
    /\ At(c, "in")
    /\ \/ root' = (IF root = None THEN cmd[c].backup ELSE root) /\ UNCHANGED whole
       \/ UNCHANGED root /\ whole' = FALSE
    /\ Ends(c)
    /\ UNCHANGED <<host, file, keys, orderly, kept>>

\* startProcess: a second look at the state file, then the port is probed.
Probe(c) ==
    /\ At(c, "probe")
    /\ \E running \in BOOLEAN :
          /\ Finds(running)
          /\ IF running \/ PortInUse THEN Ends(c) ELSE Goto(c, "spawn")
    /\ UNCHANGED <<host, root, keys, whole, kept>>

\* A faulty preparation that writes a new secret on every start.
CreateSecretAfresh(c) ==
    /\ At(c, "spawn") /\ minted < 2
    /\ minted' = minted + 1 /\ secret' = minted'
    /\ cmd' = [cmd EXCEPT ![c].pc = "fill", ![c].key = minted']
    /\ UNCHANGED <<host, file, root, filled, past>>

\* writePrivateFileIfMissing: a secret that is missing is created (an existing
\* file is kept, whatever it holds) ...
CreateSecret(c) ==
    /\ At(c, "spawn") /\ secret = 0 /\ minted < 2
    /\ minted' = minted + 1 /\ secret' = minted'
    /\ cmd' = [cmd EXCEPT ![c].pc = "fill", ![c].key = minted']
    /\ UNCHANGED <<host, file, root, filled, past>>

\* ... and then written, into the file that was created.
FillSecret(c) ==
    /\ At(c, "fill")
    /\ filled' = filled \cup {cmd[c].key}
    /\ Continues(c, cmd[c].op, "spawn")
    /\ UNCHANGED <<host, file, root, secret, minted, past>>

\* spawn and inspectProcessIdentity; without a runtime there is no process.
Spawn(c) ==
    /\ At(c, "spawn") /\ root # None /\ secret # 0
    /\ \E p \in Pids :
           /\ Born(p, TRUE, root, FALSE)
           /\ cmd' = [cmd EXCEPT ![c].pc = "write", ![c].pid = p, ![c].born = born + 1]
    /\ UNCHANGED <<disk, past>>

\* The preparation fails, or the spawn: then the state file goes.
SpawnFails(c) ==
    /\ At(c, "spawn")
    /\ file' \in {file, None}
    /\ Ends(c)
    /\ UNCHANGED <<host, root, keys, past>>

\* The command's child is still the process with that number.
ChildAlive(c) == Matches(cmd[c].pid, cmd[c].born)

\* The error path of startProcess: its own child is told to stop, and the
\* state file goes, whatever it says.
StartFails(c) ==
    /\ proc' = IF ChildAlive(c) THEN [proc EXCEPT ![cmd[c].pid].told = TRUE] ELSE proc
    /\ file' = None
    /\ Ends(c)
    /\ UNCHANGED <<born, root, keys, past>>

\* A faulty start that only looks after the grace period.
WriteNothing(c) ==
    /\ At(c, "write") /\ ChildAlive(c)
    /\ Goto(c, "grace")
    /\ UNCHANGED <<host, disk, past>>

\* A faulty state file that holds the process number alone.
WriteNumber(c) ==
    /\ At(c, "write") /\ ChildAlive(c)
    /\ file' = cmd[c].pid
    /\ Goto(c, "grace")
    /\ UNCHANGED <<host, root, keys, past>>

\* writeState: a temporary file renamed into place.
WriteState(c) ==
    /\ At(c, "write") /\ ChildAlive(c)
    /\ file' = [pid |-> cmd[c].pid, born |-> cmd[c].born]
    /\ Goto(c, "grace")
    /\ UNCHANGED <<host, root, keys, past>>

\* After the grace period the child must still be the process it was.
Grace(c) ==
    /\ At(c, "grace") /\ ChildAlive(c)
    /\ Ends(c)
    /\ UNCHANGED <<host, disk, past>>

\* The child has exited before its identity was read or during the grace
\* period, one of the two inspections fails, or the write of the state file.
StartAborts(c) ==
    /\ At(c, "write") \/ At(c, "grace")
    /\ StartFails(c)

\* A faulty stop that trusts the process number.
StopUnidentified(c) ==
    /\ At(c, "stop")
    /\ IF file = None
       THEN Continues(c, cmd[c].op, "stopped")
       ELSE cmd' = [cmd EXCEPT ![c].pc = "kill", ![c].pid = file.pid, ![c].born = born]
    /\ UNCHANGED <<host, disk, past>>

\* stopProcess reads the state file and inspects the process that it names ...
StopRead(c) ==
    /\ At(c, "stop")
    /\ \E running \in BOOLEAN :
          /\ Finds(running)
          /\ IF running
             THEN cmd' = [cmd EXCEPT ![c].pc = "kill", ![c].pid = file.pid, ![c].born = born]
             ELSE Continues(c, cmd[c].op, "stopped")
    /\ UNCHANGED <<host, root, keys, whole, kept>>

\* ... and tells the process that has this number now to stop.
Kill(c) ==
    /\ At(c, "kill")
    /\ proc' = IF Alive(cmd[c].pid) THEN [proc EXCEPT ![cmd[c].pid].told = TRUE] ELSE proc
    /\ cmd' = [cmd EXCEPT ![c].pc = "poll", ![c].born = 0]
    /\ UNCHANGED <<born, disk, past>>

\* The number is polled until no process has it; then the file is removed.
StopErases(c) ==
    /\ At(c, "poll") /\ ~Alive(cmd[c].pid)
    /\ file' = None
    /\ Continues(c, cmd[c].op, "stopped")
    /\ UNCHANGED <<host, root, keys, past>>

\* The deadline: the command fails, a restart or an uninstall goes no further.
StopTimesOut(c) ==
    /\ At(c, "poll") /\ Alive(cmd[c].pid)
    /\ Ends(c)
    /\ UNCHANGED <<host, disk, past>>

\* What follows a stop: nothing, the start of a restart, the removal of the
\* runtime (and, when the user says so, of the configuration).
Stopped(c) ==
    /\ At(c, "stopped")
    /\ IF cmd[c].op = "uninstall"
       THEN /\ root' = None /\ whole' = FALSE
            /\ \E delete \in BOOLEAN :
                   /\ kept' = (kept /\ ~delete)
                   /\ secret' = IF delete THEN 0 ELSE secret
            /\ Ends(c)
       ELSE /\ IF cmd[c].op = "restart"
               THEN Continues(c, "start", "status")
               ELSE Ends(c)
            /\ UNCHANGED <<root, secret, whole, kept>>
    /\ UNCHANGED <<host, file, minted, filled, orderly>>

\* The command is killed: it runs no error path.
Killed(c) ==
    /\ ~At(c, "idle")
    /\ orderly' = FALSE
    /\ whole' = (whole /\ ~At(c, "in"))
    /\ Ends(c)
    /\ UNCHANGED <<host, disk, kept>>

-----------------------------------------------------------------------------
(* The machine *)

\* The service reads its secret and binds its port: without a whole secret, or
\* when the port is taken, it exits.
Listens(p) ==
    /\ Alive(p) /\ proc[p].ours /\ ~proc[p].bound
    /\ proc' = IF secret \in filled /\ ~PortInUse
               THEN [proc EXCEPT ![p].secret = secret, ![p].bound = TRUE]
               ELSE [proc EXCEPT ![p] = None]
    /\ UNCHANGED <<born, disk, cmd, past>>

\* It may exit at any other time, told to or not.
Exit(p) ==
    /\ Alive(p)
    /\ proc' = [proc EXCEPT ![p] = None]
    /\ UNCHANGED <<born, disk, cmd, past>>

\* Another program gets the number, and perhaps the port.
Foreign(p) ==
    /\ \E bound \in BOOLEAN : (bound => ~PortInUse) /\ Born(p, FALSE, None, bound)
    /\ UNCHANGED <<disk, cmd, past>>

\* The machine restarts: the files are all that is left.
Reboot ==
    /\ born > 0 /\ \A c \in Commands : At(c, "idle")
    /\ proc' = [p \in Pids |-> None] /\ born' = 0
    /\ UNCHANGED <<disk, cmd, past>>

Next ==
    \/ \E c \in Commands :
          \/ \E op \in Operations : Invoke(c, op)
          \/ ReadStatus(c) \/ Resolve(c) \/ Fetch(c)
          \/ MoveAside(c) \/ MoveIn(c) \/ MoveInFails(c)
          \/ Probe(c) \/ CreateSecret(c) \/ FillSecret(c) \/ Spawn(c) \/ SpawnFails(c)
          \/ WriteState(c) \/ Grace(c) \/ StartAborts(c)
          \/ StopRead(c) \/ Kill(c) \/ StopErases(c) \/ StopTimesOut(c)
          \/ Stopped(c) \/ Killed(c)
    \/ \E p \in Pids : Listens(p) \/ Exit(p) \/ Foreign(p)
    \/ Reboot

Spec == Init /\ [][Next]_vars

-----------------------------------------------------------------------------
(* Properties *)

\* Every variable keeps its shape.
TypeOK ==
    /\ proc \in [Pids -> Process \cup {None}]
    /\ born \in 0..MaxBorn
    /\ file \in [pid : Pids, born : 1..MaxBorn] \cup {None}
    /\ root \in Images \cup {None}
    /\ secret \in 0..2 /\ minted \in 0..2 /\ filled \subseteq 1..2
    /\ cmd \in [Commands -> CommandStates]
    /\ orderly \in BOOLEAN /\ whole \in BOOLEAN /\ kept \in BOOLEAN

\* A process that `mb` did not start is told to stop in one case only: it got
\* the number between the check of the identity and the signal (process.cjs),
\* whatever the state file says and however numbers are reused otherwise.
NoForeignKill ==
    [][\A p \in Pids :
          /\ Alive(p) /\ proc'[p] # None
          /\ proc'[p].told /\ ~proc[p].told
          => \/ proc[p].ours
             \/ \E c \in Commands :
                   cmd[c].pc = "kill" /\ cmd[c].pid = p /\ proc[p].born > cmd[c].born]_vars

\* A command that is starting the process, or is about to tell it to stop.
Tending(c, p) ==
    /\ cmd[c].pc \in {"write", "grace"}
    /\ cmd[c].pid = p /\ cmd[c].born = proc[p].born

\* When commands do not overlap, none is killed and no inspection of a running
\* service has failed, a running service is in the state file (so that stop,
\* status and restart find it), unless it is being started or has been told to
\* stop: across failed starts, late exits, reused numbers, restarts of the
\* machine.
RunningIsRecorded ==
    orderly => \A p \in Pids :
        Alive(p) /\ proc[p].ours /\ ~proc[p].told =>
            \/ file # None /\ file.pid = p /\ file.born = proc[p].born
            \/ \E c \in Commands : Tending(c, p)

\* A runtime directory that can be started from or recovered.
Installed == {"current", "other"}

\* There are commands enough for one to restore a runtime that it moved aside
\* between two steps of another, while a third removes what was there.
Crowded == \E c, d, e \in Commands : c # d /\ d # e /\ c # e

\* Every service runs a runtime that was verified when it was installed, whatever
\* the runtime directory held before, and whoever replaces it meanwhile: the
\* artifact the manifest names, unless three commands overlap.
RunsVerifiedRuntime ==
    \A p \in Pids : Alive(p) /\ proc[p].ours =>
        /\ proc[p].image \in Installed
        /\ orderly \/ ~Crowded => proc[p].image = "current"

\* Concurrent and failing installations never lose the installed runtime: a
\* command that has moved it aside leaves a runtime behind, its own, another
\* command's or the previous one, unless it is killed there or the user
\* uninstalled, or the removal of what it staged fails.
NeverLeftAside ==
    [][\A c \in Commands :
          /\ cmd[c].pc = "in" /\ cmd[c].backup # None
          /\ cmd'[c].pc # "in" /\ whole'
          => root' \in Installed]_vars

\* Receipts outlive a restart: every service that listens has the same secret
\* until the user deletes the configuration, also when two starts race to create
\* it, or one is killed before it has written it.
SecretSurvives ==
    kept => \A p \in Pids : Alive(p) /\ proc[p].ours /\ proc[p].bound => proc[p].secret = 1

\* The command line keeps track (process.cjs, runtime.cjs): the three invariants
\* above together.
LauncherKeepsTrack == RunningIsRecorded /\ RunsVerifiedRuntime /\ SecretSurvives

\* A command harms nobody (stopService, the swap of the runtime): the two action
\* properties above together.
CommandsHarmNobody == NoForeignKill /\ NeverLeftAside

=============================================================================
