-------------------------- MODULE InstallationProofs --------------------------
(* Theorems about the programs around the gateway: the npm command line        *)
(* (ServiceLauncher), the bootstrap of the secrets (SecretBootstrap), backup   *)
(* and restore (DatabaseOperations), the two adapters (ProviderConfig,         *)
(* PreUpstreamAdapter), and the five side by side (MCInstallation).            *)
EXTENDS MCInstallation, TLAPS

-------------------------------------------------------------------------------
(* The command line. A step is one of a command or of the machine; a command   *)
(* is followed through what it knows while it is alone, and through what two   *)
(* of them can do to the runtime directory between them.                       *)

\* What a command remembers of the process it tends and of the secret it creates.
Remembers(c) ==
    /\ cmd[c].pc \in {"write", "grace", "kill", "poll"} => cmd[c].pid \in Pids
    /\ cmd[c].pc \in {"write", "grace"} => cmd[c].born \in 1 .. MaxBorn
    /\ cmd[c].pc = "fill" => cmd[c].key \in 1 .. 2

\* The types.
LauncherShape == TypeOK /\ \A c \in Commands : Remembers(c)

\* Every runtime directory there is can be started from.
RootsOK ==
    /\ root \in Installed \cup {None}
    /\ \A c \in Commands : /\ cmd[c].pc \in {"aside", "in"} => cmd[c].staged = "current"
                           /\ cmd[c].backup \in Installed \cup {None}

\* A live process that `mb` spawned.
Ours(p) == Alive(p) /\ proc[p].ours

\* What every service was given when it was spawned stays true.
ServicesOK ==
    \A p \in Pids : Ours(p) =>
        /\ proc[p].image \in Installed
        /\ orderly \/ ~Crowded => proc[p].image = "current"
        /\ kept /\ proc[p].bound => proc[p].secret = 1

\* Until an uninstall deletes the configuration at most one secret is generated.
KeysOK == kept => secret = minted /\ minted <= 1

\* Of two commands, one that is about to start the service does so from the
\* artifact of the manifest, or the other one has left nothing to start from.
PairsOK ==
    ~Crowded => \A c \in Commands : cmd[c].pc \in {"probe", "fill", "spawn"} =>
        /\ root \in {"current", None}
        /\ \A d \in Commands : d # c /\ cmd[d].pc = "in" /\ root = None => cmd[d].backup # "other"

\* A service that nobody has told to stop, and what the state file says of it.
Serving(p) == Ours(p) /\ ~proc[p].told
Recorded(p) == file # None /\ file.pid = p /\ file.born = proc[p].born

\* What a command that is alone knows of the services.
AloneAt(c) ==
    /\ cmd[c].pc \in {"fill", "spawn", "poll", "stopped"} => \A p \in Pids : ~Serving(p)
    /\ cmd[c].pc = "kill" => \A p \in Pids : Serving(p) => p = cmd[c].pid
    /\ cmd[c].pc \in {"write", "grace"} =>
         \A p \in Pids : Serving(p) => p = cmd[c].pid /\ proc[p].born = cmd[c].born
    /\ cmd[c].pc = "grace" => file = [pid |-> cmd[c].pid, born |-> cmd[c].born]
    /\ cmd[c].pc \in {"probe", "fill", "spawn"} => root = "current"

\* While no two commands have overlapped, none was killed, no inspection failed.
AloneOK ==
    orderly =>
        /\ \A c, d \in Commands : c # d => cmd[c].pc = "idle" \/ cmd[d].pc = "idle"
        /\ \A p \in Pids : Serving(p) => Recorded(p) \/ \E c \in Commands : Tending(c, p)
        /\ \A c \in Commands : AloneAt(c)

\* A command about to signal a number: another program that has it has been
\* started since the command looked.
KillsOK ==
    \A c \in Commands : cmd[c].pc = "kill" =>
        /\ cmd[c].born <= born
        /\ \A p \in Pids : p = cmd[c].pid /\ Alive(p) /\ ~proc[p].ours => proc[p].born > cmd[c].born

\* The stop of a command has found its service.
Kills(c) == cmd' = [cmd EXCEPT ![c].pc = "kill", ![c].pid = file.pid, ![c].born = born]

\* The inductive invariant.
LauncherInv ==
    LauncherShape /\ RootsOK /\ ServicesOK /\ KeysOK /\ PairsOK /\ AloneOK /\ KillsOK

\* What the constants are.
LEMMA LauncherNumbers ==
    /\ MaxBorn \in Nat /\ None \notin Pids /\ None \notin Images /\ None \notin Process
    /\ None \notin [pid : Pids, born : 1 .. MaxBorn]
BY LauncherAssumption

\* The invariant holds at the start.
LEMMA LauncherStart == Init => LauncherInv
<1> SUFFICES ASSUME Init PROVE LauncherInv
    OBVIOUS
<1>1. Idle \in CommandStates /\ Idle.pc = "idle" /\ Idle.backup = None
    BY LauncherNumbers DEF Idle, CommandStates
<1>2. cmd \in [Commands -> CommandStates] /\ \A c \in Commands : cmd[c] = Idle
    BY <1>1 DEF Init
<1>3. \A p \in Pids : ~Alive(p)
    BY DEF Init, Alive
<1>4. TypeOK
  <2>1. proc \in [Pids -> Process \cup {None}] /\ file \in [pid : Pids, born : 1 .. MaxBorn] \cup {None}
    BY DEF Init
  <2>2. root \in Images \cup {None}
    BY DEF Init, Images
  <2>3. born \in 0 .. MaxBorn /\ secret \in 0 .. 2 /\ minted \in 0 .. 2
    BY LauncherNumbers DEF Init
  <2>4. filled \subseteq 1 .. 2 /\ orderly \in BOOLEAN /\ whole \in BOOLEAN /\ kept \in BOOLEAN
    BY DEF Init
  <2>5. QED
    BY <1>2, <2>1, <2>2, <2>3, <2>4 DEF TypeOK
<1>5. QED
    BY <1>1, <1>2, <1>3, <1>4
       DEF Init, LauncherInv, LauncherShape, Remembers, RootsOK, ServicesOK, Ours, KeysOK, PairsOK,
           AloneOK, AloneAt, Serving, Installed, KillsOK

\* The state of one command changes.
LEMMA LauncherMoves ==
    ASSUME LauncherInv, NEW c \in Commands, NEW s \in CommandStates, cmd' = [cmd EXCEPT ![c] = s]
    PROVE  /\ cmd' \in [Commands -> CommandStates] /\ cmd'[c] = s
           /\ \A d \in Commands : d # c => cmd'[d] = cmd[d]
BY DEF LauncherInv, LauncherShape, TypeOK

\* A command ends.
LEMMA EndsMoves ==
    ASSUME LauncherInv, NEW c \in Commands, Ends(c)
    PROVE  /\ cmd' \in [Commands -> CommandStates] /\ cmd'[c] = Idle
           /\ \A d \in Commands : d # c => cmd'[d] = cmd[d]
           /\ Idle.pc = "idle" /\ Idle.backup = None /\ Idle.op = "none"
<1>1. Idle \in CommandStates /\ Idle.pc = "idle" /\ Idle.backup = None /\ Idle.op = "none"
    BY LauncherNumbers DEF Idle, CommandStates
<1>2. QED
    BY <1>1, LauncherMoves DEF Ends

\* A command goes on to its next step.
LEMMA GotoMoves ==
    ASSUME LauncherInv, NEW c \in Commands,
           NEW pc \in {"status", "resolve", "download", "aside", "probe", "spawn", "grace", "stop"},
           Goto(c, pc)
    PROVE  /\ cmd' \in [Commands -> CommandStates] /\ cmd'[c].pc = pc
           /\ cmd'[c].pid = cmd[c].pid /\ cmd'[c].born = cmd[c].born
           /\ cmd'[c].staged = cmd[c].staged /\ cmd'[c].backup = cmd[c].backup
           /\ \A d \in Commands : d # c => cmd'[d] = cmd[d]
<1>1. PICK s : s = cmd[c]
    OBVIOUS
<1>2. s \in CommandStates
    BY <1>1 DEF LauncherInv, LauncherShape, TypeOK
<1>3. PICK t : t = [s EXCEPT !.pc = pc]
    OBVIOUS
<1>4. t = [op |-> s.op, pc |-> pc, pid |-> s.pid, born |-> s.born, staged |-> s.staged,
           backup |-> s.backup, key |-> s.key]
    BY <1>2, <1>3 DEF CommandStates
<1>5. t \in CommandStates
    BY <1>2, <1>4 DEF CommandStates
<1>6. cmd' = [cmd EXCEPT ![c] = t]
    BY <1>1, <1>3 DEF Goto
<1>7. QED
    BY <1>1, <1>4, <1>5, <1>6, LauncherMoves

\* A command goes on and forgets.
LEMMA ContinuesMoves ==
    ASSUME LauncherInv, NEW c \in Commands, NEW op \in Operations \cup {"none"},
           NEW pc \in {"status", "probe", "spawn", "stop", "stopped"}, Continues(c, op, pc)
    PROVE  /\ cmd' \in [Commands -> CommandStates] /\ cmd'[c].pc = pc /\ cmd'[c].backup = None
           /\ \A d \in Commands : d # c => cmd'[d] = cmd[d]
<1>1. PICK s : s = [Idle EXCEPT !.op = op, !.pc = pc]
    OBVIOUS
<1>2. s = [op |-> op, pc |-> pc, pid |-> None, born |-> 0, staged |-> None, backup |-> None, key |-> 0]
    BY <1>1 DEF Idle
<1>3. s \in CommandStates /\ s.pc = pc /\ s.backup = None
    BY <1>2, LauncherNumbers DEF CommandStates
<1>4. QED
    BY <1>1, <1>3, LauncherMoves DEF Continues

\* The types follow from those of the parts.
LEMMA ShapeStays ==
    ASSUME LauncherInv,
           proc' \in [Pids -> Process \cup {None}], born' \in 0 .. MaxBorn,
           file' \in [pid : Pids, born : 1 .. MaxBorn] \cup {None},
           root' \in Images \cup {None}, secret' \in 0 .. 2, minted' \in 0 .. 2, filled' \in SUBSET (1 .. 2),
           cmd' \in [Commands -> CommandStates],
           \A c \in Commands : Remembers(c)',
           orderly' \in BOOLEAN, whole' \in BOOLEAN, kept' \in BOOLEAN
    PROVE  LauncherShape'
BY DEF LauncherShape, TypeOK

\* The other commands remember what they did.
LEMMA RemembersStay ==
    ASSUME LauncherInv, NEW c \in Commands, Remembers(c)',
           \A d \in Commands : d # c => cmd'[d] = cmd[d]
    PROVE  \A d \in Commands : Remembers(d)'
BY DEF LauncherInv, LauncherShape, Remembers

\* The invariant contains the types.
LEMMA LauncherTypes ==
    ASSUME LauncherInv
    PROVE  /\ proc \in [Pids -> Process \cup {None}] /\ born \in 0 .. MaxBorn
           /\ file \in [pid : Pids, born : 1 .. MaxBorn] \cup {None}
           /\ root \in Images \cup {None} /\ secret \in 0 .. 2
           /\ minted \in 0 .. 2
           /\ cmd \in [Commands -> CommandStates]
           /\ orderly \in BOOLEAN /\ whole \in BOOLEAN /\ kept \in BOOLEAN
           /\ filled \in SUBSET (1 .. 2) /\ root \in Installed \cup {None}
BY DEF LauncherInv, LauncherShape, TypeOK, RootsOK

\* Services that were there: no new one, each has read no secret or the one of
\* now, and what is told to stop remains told.
NoneNew ==
    \A p \in Pids : Ours(p)' =>
        /\ Ours(p) /\ proc'[p].image = proc[p].image
        /\ (proc'[p].bound => \/ proc[p].bound /\ proc'[p].secret = proc[p].secret
                              \/ proc'[p].secret = secret /\ secret # 0)
        /\ proc'[p].born = proc[p].born /\ (proc[p].told => proc'[p].told)

\* Services that were sound remain so.
LEMMA ServicesStay ==
    ASSUME LauncherInv, NoneNew, orderly' => orderly, kept' => kept
    PROVE  ServicesOK'
<1> SUFFICES ASSUME NEW p \in Pids, Ours(p)'
             PROVE  /\ proc'[p].image \in Installed
                    /\ orderly' \/ ~Crowded => proc'[p].image = "current"
                    /\ kept' /\ proc'[p].bound => proc'[p].secret = 1
    BY DEF ServicesOK, Crowded
<1>1. /\ Ours(p) /\ proc'[p].image = proc[p].image
      /\ (proc'[p].bound => \/ proc[p].bound /\ proc'[p].secret = proc[p].secret
                            \/ proc'[p].secret = secret /\ secret # 0)
    BY DEF NoneNew
<1>2. /\ proc[p].image \in Installed /\ (orderly \/ ~Crowded => proc[p].image = "current")
      /\ kept /\ proc[p].bound => proc[p].secret = 1
    BY <1>1 DEF LauncherInv, ServicesOK
<1>3. kept /\ secret # 0 => secret = 1
    BY LauncherTypes DEF LauncherInv, KeysOK
<1>4. QED
    BY <1>1, <1>2, <1>3

\* Signals about to be sent remain so, while other programs come and go.
LEMMA KillsStay ==
    ASSUME LauncherInv, born' \in 0 .. MaxBorn, born' >= born, proc' \in [Pids -> Process \cup {None}],
           \A d \in Commands : cmd'[d].pc = "kill" => cmd'[d] = cmd[d],
           \A p \in Pids : Alive(p)' /\ ~proc'[p].ours =>
               proc'[p].born > born \/ (Alive(p) /\ ~proc[p].ours /\ proc'[p].born = proc[p].born)
    PROVE  KillsOK'
<1> SUFFICES ASSUME NEW d \in Commands, cmd'[d].pc = "kill"
             PROVE  /\ cmd'[d].born <= born'
                    /\ \A p \in Pids : p = cmd'[d].pid /\ Alive(p)' /\ ~proc'[p].ours =>
                          proc'[p].born > cmd'[d].born
    BY DEF KillsOK
<1>1. cmd'[d] = cmd[d] /\ cmd[d].pc = "kill" /\ cmd[d].born \in 0 .. MaxBorn
    BY LauncherTypes DEF CommandStates
<1>2. /\ cmd[d].born <= born
      /\ \A p \in Pids : p = cmd[d].pid /\ Alive(p) /\ ~proc[p].ours => proc[p].born > cmd[d].born
    BY <1>1 DEF LauncherInv, KillsOK
<1>3. born \in Nat /\ born' \in Nat /\ cmd[d].born \in Nat
    BY <1>1, LauncherTypes, LauncherNumbers
<1>4. ASSUME NEW p \in Pids, p = cmd[d].pid, Alive(p)', ~proc'[p].ours
      PROVE  proc'[p].born > cmd[d].born
  <2>1. CASE proc'[p].born > born
    <3>1. proc'[p] \in Process
      BY <1>4 DEF Alive
    <3>2. proc'[p].born \in 1 .. MaxBorn
      BY <3>1 DEF Process
    <3>3. QED
      BY <1>2, <1>3, <2>1, <3>2, LauncherNumbers
  <2>2. CASE Alive(p) /\ ~proc[p].ours /\ proc'[p].born = proc[p].born
    BY <1>2, <1>4, <2>2
  <2>3. QED
    BY <1>4, <2>1, <2>2
<1>5. QED
    BY <1>1, <1>2, <1>3, <1>4

\* Nothing happens to a process, and the command does not check one.
LEMMA KillsRest ==
    ASSUME LauncherInv, UNCHANGED <<proc, born>>, NEW c \in Commands, cmd'[c].pc # "kill",
           \A d \in Commands : d # c => cmd'[d] = cmd[d]
    PROVE  KillsOK'
<1>1. \A d \in Commands : cmd'[d].pc = "kill" => cmd'[d] = cmd[d]
    OBVIOUS
<1>2. born' \in 0 .. MaxBorn /\ born' >= born /\ proc' \in [Pids -> Process \cup {None}]
    BY LauncherTypes, LauncherNumbers
<1>3. \A p \in Pids : Alive(p)' /\ ~proc'[p].ours =>
          Alive(p) /\ ~proc[p].ours /\ proc'[p].born = proc[p].born
    BY DEF Alive
<1>4. QED
    BY <1>1, <1>2, <1>3, KillsStay

\* With the root as it is, nobody else is about to start from another one.
LEMMA PairsStay ==
    ASSUME LauncherInv, root' = root, NEW c \in Commands,
           \A d \in Commands : d # c => cmd'[d] = cmd[d],
           cmd'[c].pc \in {"probe", "fill", "spawn"} => cmd[c].pc \in {"probe", "fill", "spawn"} \/ root = "current",
           cmd'[c].pc = "in" => cmd[c].pc = "in" /\ cmd'[c].backup = cmd[c].backup
    PROVE  PairsOK'
<1> SUFFICES ASSUME ~Crowded, NEW d \in Commands, cmd'[d].pc \in {"probe", "fill", "spawn"}
             PROVE  /\ root \in {"current", None}
                    /\ \A e \in Commands :
                          e # d /\ cmd'[e].pc = "in" /\ root = None => cmd'[e].backup # "other"
    BY DEF PairsOK, Crowded
<1>1. CASE root = "current"
    BY <1>1, LauncherNumbers DEF Images
<1>2. CASE root # "current"
  <2>1. cmd[d].pc \in {"probe", "fill", "spawn"}
    BY <1>2
  <2>2. /\ root \in {"current", None}
        /\ \A e \in Commands : e # d /\ cmd[e].pc = "in" /\ root = None => cmd[e].backup # "other"
    BY <2>1 DEF LauncherInv, PairsOK
  <2>3. QED
    BY <2>2
<1>3. QED
    BY <1>1, <1>2

\* A command that is under way alone knows all there is to know.
LEMMA AloneStays ==
    ASSUME LauncherInv, NEW c \in Commands, cmd[c].pc # "idle",
           \A d \in Commands : d # c => cmd'[d] = cmd[d],
           orderly' => orderly,
           orderly' => AloneAt(c)' /\ \A p \in Pids : Serving(p)' => Recorded(p)' \/ Tending(c, p)'
    PROVE  AloneOK'
<1> SUFFICES ASSUME orderly' PROVE AloneOK'
    BY DEF AloneOK
<1>1. \A d \in Commands : d # c => cmd'[d].pc = "idle"
    BY DEF LauncherInv, AloneOK
<1>2. \A d \in Commands : d # c => AloneAt(d)'
    BY <1>1 DEF AloneAt
<1>3. QED
    BY <1>1, <1>2 DEF AloneOK

\* While a command is alone and does not start the service, a service is in
\* the state file.
LEMMA RecordFacts ==
    ASSUME LauncherInv, orderly, NEW c \in Commands, cmd[c].pc \notin {"idle", "write", "grace"}
    PROVE  \A p \in Pids : Serving(p) => Recorded(p) /\ Running
<1>1. \A d \in Commands : cmd[d].pc \notin {"write", "grace"}
    BY DEF LauncherInv, AloneOK
<1>2. ASSUME NEW p \in Pids, Serving(p) PROVE Recorded(p)
    BY <1>1, <1>2 DEF LauncherInv, AloneOK, Tending
<1>3. ASSUME NEW p \in Pids, Serving(p) PROVE Running
    BY <1>2, <1>3 DEF Recorded, Serving, Ours, Running, Matches
<1>4. QED
    BY <1>2, <1>3

\* What status finds: the services that there are, while the inspection works.
LEMMA FindsFacts ==
    ASSUME LauncherInv, NEW c \in Commands, cmd[c].pc \notin {"idle", "write", "grace"},
           NEW running \in BOOLEAN, Finds(running), UNCHANGED proc
    PROVE  /\ file' \in [pid : Pids, born : 1 .. MaxBorn] \cup {None}
           /\ orderly' \in BOOLEAN /\ (orderly' => orderly)
           /\ orderly' => \A p \in Pids : Serving(p) => Recorded(p)' /\ running
<1>1. /\ running \in {Running, FALSE} /\ file' = (IF running THEN file ELSE None)
      /\ orderly' = (orderly /\ running = Running)
    BY DEF Finds
<1>2. file' \in [pid : Pids, born : 1 .. MaxBorn] \cup {None}
    BY <1>1, LauncherTypes
<1>3. orderly' \in BOOLEAN /\ (orderly' => orderly /\ running = Running)
    BY <1>1, LauncherTypes
<1>4. ASSUME orderly', NEW p \in Pids, Serving(p) PROVE Recorded(p)' /\ running
  <2>1. Recorded(p) /\ running
    BY <1>3, <1>4, RecordFacts DEF Running
  <2>2. file' = file
    BY <1>1, <2>1
  <2>3. Recorded(p)'
    BY <2>1, <2>2 DEF Recorded
  <2>4. QED
    BY <2>1, <2>3
<1>5. QED
    BY <1>2, <1>3, <1>4

\* A command goes on without a change to the runtime, the processes or the
\* secret.
LEMMA QuietStep ==
    ASSUME LauncherInv, NEW c \in Commands, cmd[c].pc # "idle",
           UNCHANGED <<proc, born, root, secret, minted, whole, kept>>, filled' \in SUBSET (1 .. 2),
           orderly' \in BOOLEAN, orderly' => orderly,
           file' \in [pid : Pids, born : 1 .. MaxBorn] \cup {None},
           cmd' \in [Commands -> CommandStates], \A d \in Commands : d # c => cmd'[d] = cmd[d],
           cmd'[c].pc \notin {"fill", "write", "grace", "kill", "poll", "in"},
           cmd'[c].pc = "aside" => cmd'[c].staged = "current",
           cmd'[c].backup \in Installed \cup {None},
           orderly' => \A p \in Pids : Serving(p) => Recorded(p)',
           orderly' /\ cmd'[c].pc \in {"spawn", "stopped"} => \A p \in Pids : ~Serving(p),
           cmd'[c].pc \in {"probe", "fill", "spawn"} => cmd[c].pc \in {"probe", "fill", "spawn"} \/ root = "current"
    PROVE  LauncherInv'
<1>1. LauncherShape /\ RootsOK /\ KeysOK
    BY DEF LauncherInv
<1>2. LauncherShape'
  <2>1. Remembers(c)'
    BY <1>1 DEF Remembers
  <2>2. QED
    BY <2>1, RemembersStay, LauncherTypes, ShapeStays
<1>3. RootsOK' /\ KeysOK'
    BY <1>1 DEF RootsOK, KeysOK
<1>4. NoneNew
    BY DEF NoneNew, Ours, Alive
<1>5. ServicesOK'
    BY <1>4, ServicesStay
<1>6. PairsOK'
    BY PairsStay
<1>7. \A p \in Pids : Serving(p)' <=> Serving(p)
    BY DEF Serving, Ours, Alive
<1>8. orderly' /\ cmd'[c].pc \in {"probe", "fill", "spawn"} => root' = "current"
    BY DEF LauncherInv, AloneOK, AloneAt
<1>9. orderly' => AloneAt(c)'
    BY <1>7, <1>8 DEF AloneAt
<1>10. AloneOK'
    BY <1>7, <1>9, AloneStays
<1>11. KillsOK'
    BY KillsRest
<1>12. QED
    BY <1>2, <1>3, <1>5, <1>6, <1>10, <1>11 DEF LauncherInv

\* A command is invoked, alone or while another one runs.
LEMMA InvokeStep ==
    ASSUME LauncherInv, NEW c \in Commands, NEW op \in Operations, Invoke(c, op)
    PROVE  LauncherInv'
<1>1. PICK pc \in {"status", "stop"} : Continues(c, op, pc)
    BY DEF Invoke
<1>2. /\ cmd' \in [Commands -> CommandStates] /\ cmd'[c].pc = pc /\ cmd'[c].backup = None
      /\ \A d \in Commands : d # c => cmd'[d] = cmd[d]
    BY <1>1, ContinuesMoves DEF Operations
<1>3. /\ cmd[c].pc = "idle" /\ UNCHANGED <<host, disk, whole, kept>>
      /\ orderly' = (orderly /\ \A d \in Commands : cmd[d].pc = "idle")
    BY DEF Invoke, At
<1>4. UNCHANGED <<proc, born, file, root, secret, minted, filled, whole, kept>>
    BY <1>3 DEF host, disk, keys
<1>5. LauncherShape /\ RootsOK /\ KeysOK
    BY DEF LauncherInv
<1>6. LauncherShape'
  <2>1. Remembers(c)'
    BY <1>2, <1>5 DEF Remembers
  <2>2. QED
    BY <1>2, <1>3, <1>4, <2>1, RemembersStay, LauncherTypes, ShapeStays
<1>7. RootsOK' /\ KeysOK'
    BY <1>2, <1>4, <1>5 DEF RootsOK, KeysOK
<1>8. ServicesOK'
  <2>1. NoneNew
    BY <1>4 DEF NoneNew, Ours, Alive
  <2>2. (orderly' => orderly) /\ (kept' => kept)
    BY <1>3, LauncherTypes
  <2>3. QED
    BY <2>1, <2>2, ServicesStay
<1>9. PairsOK'
    BY <1>2, <1>4, PairsStay
<1>10. AloneOK'
  <2> SUFFICES ASSUME orderly' PROVE AloneOK'
    BY DEF AloneOK
  <2>1. orderly /\ \A d \in Commands : cmd[d].pc = "idle"
    BY <1>3
  <2>2. \A p \in Pids : Serving(p) => Recorded(p)
    BY <2>1 DEF LauncherInv, AloneOK, Tending
  <2>3. \A p \in Pids : Serving(p)' => Recorded(p)'
    BY <1>4, <2>2 DEF Serving, Ours, Alive, Recorded
  <2>4. \A d \in Commands : cmd'[d].pc \in {"idle", "status", "stop"}
    BY <1>2, <2>1
  <2>5. \A d \in Commands : AloneAt(d)'
    BY <2>4 DEF AloneAt
  <2>6. \A d, e \in Commands : d # e => cmd'[d].pc = "idle" \/ cmd'[e].pc = "idle"
    BY <1>2, <2>1
  <2>7. QED
    BY <2>3, <2>5, <2>6 DEF AloneOK
<1>11. KillsOK'
    BY <1>2, <1>4, KillsRest
<1>12. QED
    BY <1>6, <1>7, <1>8, <1>9, <1>10, <1>11 DEF LauncherInv

\* A command looks for the service.
LEMMA LookingSteps ==
    ASSUME LauncherInv, NEW c \in Commands, ReadStatus(c) \/ Probe(c) \/ (StopRead(c) /\ ~Kills(c))
    PROVE  LauncherInv'
<1>1. PICK running \in BOOLEAN :
        /\ Finds(running)
        /\ \/ /\ ReadStatus(c)
              /\ Goto(c, "stop") \/ Ends(c) \/ Goto(c, "resolve")
           \/ /\ Probe(c)
              /\ Ends(c) \/ (~running /\ Goto(c, "spawn"))
           \/ StopRead(c) /\ ~running /\ Continues(c, cmd[c].op, "stopped")
    BY DEF ReadStatus, Probe, StopRead, Kills
<1>2. /\ UNCHANGED <<proc, born, root, secret, minted, filled, whole, kept>>
      /\ cmd[c].pc \in {"status", "probe", "stop"} /\ (Probe(c) => cmd[c].pc = "probe")
    BY DEF ReadStatus, Probe, StopRead, host, keys, At
<1>3. /\ file' \in [pid : Pids, born : 1 .. MaxBorn] \cup {None}
      /\ orderly' \in BOOLEAN /\ (orderly' => orderly)
      /\ orderly' => \A p \in Pids : Serving(p) => Recorded(p)' /\ running
    BY <1>1, <1>2, FindsFacts
<1>4. cmd[c] \in CommandStates /\ cmd[c].backup \in Installed \cup {None}
    BY DEF LauncherInv, LauncherShape, TypeOK, RootsOK
<1>5. CASE Ends(c)
    BY <1>2, <1>3, <1>5, EndsMoves, LauncherTypes, QuietStep
<1>6. CASE ReadStatus(c) /\ (Goto(c, "stop") \/ Goto(c, "resolve"))
    BY <1>2, <1>3, <1>4, <1>6, GotoMoves, LauncherTypes, QuietStep
<1>7. CASE Probe(c) /\ ~running /\ Goto(c, "spawn")
    BY <1>2, <1>3, <1>4, <1>7, GotoMoves, LauncherTypes, QuietStep
<1>8. CASE ~running /\ Continues(c, cmd[c].op, "stopped")
  <2>1. cmd[c].op \in Operations \cup {"none"}
    BY <1>4 DEF CommandStates
  <2>2. QED
    BY <1>2, <1>3, <1>8, <2>1, ContinuesMoves, LauncherTypes, QuietStep
<1>9. QED
    BY <1>1, <1>5, <1>6, <1>7, <1>8

\* A command that only fetches, waits, or gives up.
LEMMA LauncherReadingSteps ==
    ASSUME LauncherInv, NEW c \in Commands, Resolve(c) \/ Fetch(c) \/ StopTimesOut(c)
    PROVE  LauncherInv'
<1>1. /\ UNCHANGED <<proc, born, file, root, secret, minted, filled, orderly, whole, kept>>
      /\ cmd[c].pc \in {"resolve", "download", "poll"}
    BY DEF Resolve, Fetch, StopTimesOut, host, disk, keys, past, At
<1>2. orderly' => \A p \in Pids : Serving(p) => Recorded(p)'
    BY <1>1, RecordFacts DEF Recorded
<1>3. cmd[c] \in CommandStates /\ cmd[c].backup \in Installed \cup {None}
    BY DEF LauncherInv, LauncherShape, TypeOK, RootsOK
<1>4. CASE Ends(c)
    BY <1>1, <1>2, <1>4, EndsMoves, LauncherTypes, QuietStep
<1>5. CASE Resolve(c)
  <2>1. (root = "current" /\ Goto(c, "probe")) \/ Goto(c, "download")
    BY <1>5 DEF Resolve
  <2>2. CASE root = "current" /\ Goto(c, "probe")
    BY <1>1, <1>2, <1>3, <2>2, GotoMoves, LauncherTypes, QuietStep
  <2>3. CASE Goto(c, "download")
    BY <1>1, <1>2, <1>3, <2>3, GotoMoves, LauncherTypes, QuietStep
  <2>4. QED
    BY <2>1, <2>2, <2>3
<1>6. CASE Fetch(c) /\ ~Ends(c)
  <2>1. PICK s : s = cmd[c]
    OBVIOUS
  <2>2. PICK t : t = [s EXCEPT !.pc = "aside", !.staged = "current"]
    OBVIOUS
  <2>3. t = [op |-> s.op, pc |-> "aside", pid |-> s.pid, born |-> s.born, staged |-> "current",
             backup |-> s.backup, key |-> s.key]
    BY <1>3, <2>1, <2>2 DEF CommandStates
  <2>4. t \in CommandStates
    BY <1>3, <2>1, <2>3 DEF CommandStates, Images
  <2>5. cmd' = [cmd EXCEPT ![c].pc = "aside", ![c].staged = "current"]
    BY <1>6 DEF Fetch
  <2>6. cmd' = [cmd EXCEPT ![c] = t]
    BY <2>1, <2>2, <2>5
  <2>7. QED
    BY <1>1, <1>2, <1>3, <2>1, <2>3, <2>4, <2>6, LauncherMoves, LauncherTypes, QuietStep
<1>7. QED
    BY <1>4, <1>5, <1>6 DEF StopTimesOut

\* A start has watched its service through the grace period.
LEMMA GraceStep ==
    ASSUME LauncherInv, NEW c \in Commands, Grace(c)
    PROVE  LauncherInv'
<1>1. /\ UNCHANGED <<proc, born, file, root, secret, minted, filled, orderly, whole, kept>>
      /\ cmd[c].pc = "grace" /\ Ends(c)
    BY DEF Grace, host, disk, keys, past, At
<1>2. cmd[c].pid \in Pids /\ cmd[c].born \in 1 .. MaxBorn
    BY <1>1 DEF LauncherInv, LauncherShape, Remembers
<1>3. PICK f : f = [pid |-> cmd[c].pid, born |-> cmd[c].born]
    OBVIOUS
<1>4. f # None /\ f.pid = cmd[c].pid /\ f.born = cmd[c].born
    BY <1>2, <1>3, LauncherNumbers
<1>5. orderly => file = f /\ \A p \in Pids : Serving(p) => p = cmd[c].pid /\ proc[p].born = cmd[c].born
    BY <1>1, <1>3 DEF LauncherInv, AloneOK, AloneAt
<1>6. orderly' => \A p \in Pids : Serving(p) => Recorded(p)'
    BY <1>1, <1>4, <1>5 DEF Recorded
<1>7. QED
    BY <1>1, <1>6, LauncherTypes, EndsMoves, QuietStep

\* A stop has waited for its service.
LEMMA StopErasesStep ==
    ASSUME LauncherInv, NEW c \in Commands, StopErases(c)
    PROVE  LauncherInv'
<1>1. /\ UNCHANGED <<proc, born, root, secret, minted, filled, orderly, whole, kept>>
      /\ cmd[c].pc = "poll" /\ file' = None /\ Continues(c, cmd[c].op, "stopped")
    BY DEF StopErases, host, keys, past, At
<1>2. orderly => \A p \in Pids : ~Serving(p)
    BY <1>1 DEF LauncherInv, AloneOK, AloneAt
<1>3. cmd[c].op \in Operations \cup {"none"}
    BY LauncherTypes DEF CommandStates
<1>4. QED
    BY <1>1, <1>2, <1>3, LauncherTypes, ContinuesMoves, QuietStep

\* The command is killed: it is no longer alone.
LEMMA KilledStep ==
    ASSUME LauncherInv, NEW c \in Commands, Killed(c)
    PROVE  LauncherInv'
<1>1. /\ UNCHANGED <<proc, born, file, root, secret, minted, filled, kept>> /\ ~orderly'
      /\ orderly' \in BOOLEAN /\ whole' \in BOOLEAN /\ Ends(c)
    BY LauncherTypes DEF Killed, host, disk, keys
<1>2. /\ cmd' \in [Commands -> CommandStates] /\ cmd'[c].pc = "idle" /\ cmd'[c].backup = None
      /\ \A d \in Commands : d # c => cmd'[d] = cmd[d]
    BY <1>1, EndsMoves
<1>3. LauncherShape'
  <2>1. Remembers(c)'
    BY <1>2 DEF Remembers
  <2>2. QED
    BY <1>1, <1>2, <2>1, RemembersStay, LauncherTypes, ShapeStays
<1>4. RootsOK' /\ KeysOK'
    BY <1>1, <1>2 DEF LauncherInv, RootsOK, KeysOK
<1>5. ServicesOK'
    BY <1>1, ServicesStay DEF NoneNew, Ours, Alive
<1>6. PairsOK'
    BY <1>1, <1>2, PairsStay
<1>7. KillsOK'
    BY <1>1, <1>2, KillsRest
<1>8. QED
    BY <1>1, <1>3, <1>4, <1>5, <1>6, <1>7 DEF LauncherInv, AloneOK


\* A command changes the runtime directory, or leaves it.
LEMMA RootStep ==
    ASSUME LauncherInv, NEW c \in Commands, cmd[c].pc \in {"aside", "in", "stopped"},
           UNCHANGED <<proc, born, file, minted, filled, orderly>>, whole' \in BOOLEAN, kept' \in BOOLEAN,
           secret' \in 0 .. 2, kept' => kept /\ secret' = secret,
           root' \in Installed \cup {None},
           cmd' \in [Commands -> CommandStates], \A d \in Commands : d # c => cmd'[d] = cmd[d],
           cmd'[c].pc \in {"idle", "in", "probe"},
           cmd'[c].pc = "in" => cmd'[c].staged = "current",
           cmd'[c].pc = "probe" => root' = "current",
           cmd'[c].backup \in Installed \cup {None},
           PairsOK'
    PROVE  LauncherInv'
<1>1. LauncherShape /\ RootsOK /\ KeysOK
    BY DEF LauncherInv
<1>2. LauncherShape'
  <2>1. Remembers(c)'
    BY <1>1 DEF Remembers
  <2>2. root' \in Images \cup {None}
    BY DEF Installed, Images
  <2>3. QED
    BY <2>1, <2>2, RemembersStay, LauncherTypes, ShapeStays
<1>3. RootsOK'
    BY <1>1 DEF RootsOK
<1>4. KeysOK'
    BY <1>1 DEF KeysOK
<1>5. ServicesOK'
    BY ServicesStay DEF NoneNew, Ours, Alive
<1>6. \A p \in Pids : (Serving(p)' <=> Serving(p)) /\ (Recorded(p)' <=> Recorded(p))
    BY DEF Serving, Ours, Alive, Recorded
<1>7. orderly => \A p \in Pids : Serving(p) => Recorded(p)
    BY RecordFacts
<1>8. AloneAt(c)'
    BY LauncherNumbers DEF AloneAt
<1>9. AloneOK'
    BY <1>6, <1>7, <1>8, AloneStays
<1>10. KillsOK'
    BY KillsRest
<1>11. QED
    BY <1>2, <1>3, <1>4, <1>5, <1>9, <1>10 DEF LauncherInv

\* The installed runtime is moved aside.
LEMMA MoveAsideStep ==
    ASSUME LauncherInv, NEW c \in Commands, MoveAside(c)
    PROVE  LauncherInv'
<1>1. /\ cmd[c].pc = "aside" /\ cmd[c].staged = "current" /\ cmd[c] \in CommandStates
      /\ UNCHANGED <<proc, born, file, secret, minted, filled, orderly, whole, kept>>
    BY DEF MoveAside, host, keys, past, At, LauncherInv, LauncherShape, TypeOK, RootsOK
<1>2. CASE Ends(c) /\ UNCHANGED root
    BY <1>1, <1>2, LauncherTypes, EndsMoves, PairsStay, RootStep
<1>3. CASE cmd' = [cmd EXCEPT ![c].pc = "in", ![c].backup = root] /\ root' = None
  <2>1. PICK s : s = cmd[c]
    OBVIOUS
  <2>2. PICK t : t = [s EXCEPT !.pc = "in", !.backup = root]
    OBVIOUS
  <2>3. t = [op |-> s.op, pc |-> "in", pid |-> s.pid, born |-> s.born, staged |-> s.staged,
             backup |-> root, key |-> s.key]
    BY <1>1, <2>1, <2>2 DEF CommandStates
  <2>4. t \in CommandStates
    BY <1>1, <2>1, <2>3, LauncherTypes DEF CommandStates
  <2>5. cmd' = [cmd EXCEPT ![c] = t]
    BY <1>3, <2>1, <2>2
  <2>6. /\ cmd' \in [Commands -> CommandStates] /\ cmd'[c] = t
        /\ \A d \in Commands : d # c => cmd'[d] = cmd[d]
    BY <2>4, <2>5, LauncherMoves
  <2>7. PairsOK'
    <3> SUFFICES ASSUME ~Crowded, NEW d \in Commands, cmd'[d].pc \in {"probe", "fill", "spawn"},
                        NEW e \in Commands, e # d, cmd'[e].pc = "in"
                 PROVE  cmd'[e].backup # "other"
      BY <1>3 DEF PairsOK, Crowded
    <3>1. d # c /\ e = c
      BY <2>3, <2>6 DEF Crowded
    <3>2. root \in {"current", None}
      BY <2>6, <3>1 DEF LauncherInv, PairsOK
    <3>3. QED
      BY <2>3, <2>6, <3>1, <3>2, LauncherNumbers DEF Images
  <2>8. QED
    BY <1>1, <1>3, <2>1, <2>3, <2>6, <2>7, LauncherTypes, RootStep
<1>4. QED
    BY <1>2, <1>3 DEF MoveAside

\* The new runtime takes its place.
LEMMA MoveInStep ==
    ASSUME LauncherInv, NEW c \in Commands, MoveIn(c)
    PROVE  LauncherInv'
<1>1. /\ cmd[c].pc = "in" /\ cmd[c] \in CommandStates /\ root' = "current"
      /\ UNCHANGED <<proc, born, file, secret, minted, filled, orderly, whole, kept>>
      /\ Continues(c, cmd[c].op, "probe") \/ Ends(c)
    BY DEF MoveIn, host, keys, past, At, LauncherInv, LauncherShape, TypeOK, RootsOK
<1>2. cmd[c].op \in Operations \cup {"none"}
    BY <1>1 DEF CommandStates
<1>3. /\ cmd' \in [Commands -> CommandStates] /\ cmd'[c].pc \in {"idle", "probe"} /\ cmd'[c].backup = None
      /\ \A d \in Commands : d # c => cmd'[d] = cmd[d]
    BY <1>1, <1>2, EndsMoves, ContinuesMoves
<1>4. PairsOK'
    BY <1>1, LauncherNumbers DEF PairsOK, Images
<1>5. QED
    BY <1>1, <1>3, <1>4, LauncherTypes, RootStep DEF Installed

\* It does not, and the previous one is put back, or not even that.
LEMMA MoveInFailsStep ==
    ASSUME LauncherInv, NEW c \in Commands, MoveInFails(c)
    PROVE  LauncherInv'
<1>1. /\ cmd[c].pc = "in" /\ Ends(c) /\ root' \in {root, IF root = None THEN cmd[c].backup ELSE root}
      /\ UNCHANGED <<proc, born, file, secret, minted, filled, orderly, kept>> /\ whole' \in BOOLEAN
    BY LauncherTypes DEF MoveInFails, host, keys, At
<1>2. cmd[c].backup \in Installed \cup {None}
    BY DEF LauncherInv, RootsOK
<1>3. /\ cmd' \in [Commands -> CommandStates] /\ cmd'[c].pc = "idle" /\ cmd'[c].backup = None
      /\ \A d \in Commands : d # c => cmd'[d] = cmd[d]
    BY <1>1, EndsMoves
<1>4. PairsOK'
  <2> SUFFICES ASSUME ~Crowded, NEW d \in Commands, cmd'[d].pc \in {"probe", "fill", "spawn"}
               PROVE  root' \in {"current", None} /\ \A e \in Commands : e # d => cmd'[e].pc # "in"
    BY DEF PairsOK, Crowded
  <2>1. d # c /\ cmd[d].pc \in {"probe", "fill", "spawn"}
    BY <1>3
  <2>2. \A e \in Commands : e # d => e = c
    BY <2>1 DEF Crowded
  <2>3. root \in {"current", None} /\ (root = None => cmd[c].backup # "other")
    BY <1>1, <2>1 DEF LauncherInv, PairsOK
  <2>4. QED
    BY <1>1, <1>2, <1>3, <2>2, <2>3 DEF Installed
<1>5. QED
    BY <1>1, <1>2, <1>3, <1>4, LauncherTypes, RootStep

\* What follows a stop.
LEMMA StoppedStep ==
    ASSUME LauncherInv, NEW c \in Commands, Stopped(c)
    PROVE  LauncherInv'
<1>1. /\ cmd[c].pc = "stopped" /\ UNCHANGED <<proc, born, file, minted, filled, orderly>>
      /\ cmd[c].backup \in Installed \cup {None}
    BY DEF Stopped, host, At, LauncherInv, RootsOK
<1>2. CASE cmd[c].op = "uninstall"
  <2>1. /\ root' = None /\ whole' = FALSE /\ Ends(c)
        /\ kept' \in BOOLEAN /\ secret' \in 0 .. 2 /\ (kept' => kept /\ secret' = secret)
    <3>1. PICK delete \in BOOLEAN : kept' = (kept /\ ~delete) /\ secret' = IF delete THEN 0 ELSE secret
      BY <1>2 DEF Stopped
    <3>2. kept' \in BOOLEAN /\ secret' \in 0 .. 2 /\ (kept' => kept /\ secret' = secret)
      <4>1. CASE delete
        <5>1. kept' = FALSE
          BY <3>1, <4>1
        <5>2. secret' = 0
          BY <3>1, <4>1
        <5>3. secret' \in 0 .. 2
          BY <5>2
        <5>4. QED
          BY <5>1, <5>3, Zenon
      <4>2. CASE ~delete
        BY <3>1, <4>2, LauncherTypes
      <4>3. QED
        BY <4>1, <4>2
    <3>3. QED
      BY <1>2, <3>2 DEF Stopped
  <2>2. /\ cmd' \in [Commands -> CommandStates] /\ cmd'[c].pc = "idle" /\ cmd'[c].backup = None
        /\ \A d \in Commands : d # c => cmd'[d] = cmd[d]
    BY <2>1, EndsMoves
  <2>3. PairsOK'
    <3> SUFFICES ASSUME ~Crowded, NEW d \in Commands, cmd'[d].pc \in {"probe", "fill", "spawn"},
                        NEW e \in Commands, e # d
                 PROVE  cmd'[e].pc # "in"
      BY <2>1 DEF PairsOK, Crowded
    <3>1. d # c /\ e = c
      BY <2>2 DEF Crowded
    <3>2. QED
      BY <2>2, <3>1
  <2>4. QED
    BY <1>1, <2>1, <2>2, <2>3, RootStep
<1>3. CASE cmd[c].op # "uninstall"
  <2>1. UNCHANGED <<root, secret, whole, kept>> /\ (Continues(c, "start", "status") \/ Ends(c))
    BY <1>3 DEF Stopped
  <2>2. orderly => \A p \in Pids : ~Serving(p)
    BY <1>1 DEF LauncherInv, AloneOK, AloneAt
  <2>3. CASE Continues(c, "start", "status")
    BY <1>1, <2>1, <2>2, <2>3, LauncherTypes, ContinuesMoves, QuietStep DEF Operations
  <2>4. CASE Ends(c)
    BY <1>1, <2>1, <2>2, <2>4, LauncherTypes, EndsMoves, QuietStep
  <2>5. QED
    BY <2>1, <2>3, <2>4
<1>4. QED
    BY <1>2, <1>3


\* A secret is created where there is none.
LEMMA CreateSecretStep ==
    ASSUME LauncherInv, NEW c \in Commands, CreateSecret(c)
    PROVE  LauncherInv'
<1>1. /\ cmd[c].pc = "spawn" /\ secret = 0 /\ minted < 2 /\ minted' = minted + 1 /\ secret' = minted + 1
      /\ cmd' = [cmd EXCEPT ![c].pc = "fill", ![c].key = minted + 1]
      /\ UNCHANGED <<proc, born, file, root, filled, orderly, whole, kept>>
    BY DEF CreateSecret, host, past, At
<1>2. minted + 1 \in 1 .. 2 /\ minted + 1 \in 0 .. 2
    BY <1>1, LauncherTypes
<1>3. PICK s : s = cmd[c]
    OBVIOUS
<1>4. s \in CommandStates /\ s.backup \in Installed \cup {None}
    BY <1>3 DEF LauncherInv, LauncherShape, TypeOK, RootsOK
<1>5. PICK t : t = [s EXCEPT !.pc = "fill", !.key = minted + 1]
    OBVIOUS
<1>6. t = [op |-> s.op, pc |-> "fill", pid |-> s.pid, born |-> s.born, staged |-> s.staged,
           backup |-> s.backup, key |-> minted + 1]
    BY <1>4, <1>5 DEF CommandStates
<1>7. t \in CommandStates /\ t.pc = "fill" /\ t.key = minted + 1 /\ t.backup = s.backup
    BY <1>2, <1>4, <1>6 DEF CommandStates
<1>8. cmd' = [cmd EXCEPT ![c] = t]
    BY <1>1, <1>3, <1>5
<1>9. /\ cmd' \in [Commands -> CommandStates] /\ cmd'[c] = t
      /\ \A d \in Commands : d # c => cmd'[d] = cmd[d]
    BY <1>7, <1>8, LauncherMoves
<1>10. LauncherShape'
  <2>1. Remembers(c)'
    BY <1>2, <1>7, <1>9 DEF Remembers
  <2>2. QED
    BY <1>1, <1>2, <1>9, <2>1, RemembersStay, LauncherTypes, ShapeStays
<1>11. RootsOK'
    BY <1>1, <1>4, <1>7, <1>9 DEF LauncherInv, RootsOK
<1>12. KeysOK'
    BY <1>1, LauncherTypes DEF LauncherInv, KeysOK
<1>13. ServicesOK'
    BY <1>1, ServicesStay DEF NoneNew, Ours, Alive
<1>14. PairsOK'
    BY <1>1, <1>7, <1>9, PairsStay
<1>15. orderly => AloneAt(c)' /\ \A p \in Pids : ~Serving(p)'
  <2>1. orderly => root = "current" /\ \A p \in Pids : ~Serving(p)
    BY <1>1 DEF LauncherInv, AloneOK, AloneAt
  <2>2. \A p \in Pids : Serving(p)' <=> Serving(p)
    BY <1>1 DEF Serving, Ours, Alive
  <2>3. QED
    BY <1>1, <1>7, <1>9, <2>1, <2>2 DEF AloneAt
<1>16. AloneOK'
    BY <1>1, <1>9, <1>15, AloneStays
<1>17. KillsOK'
    BY <1>1, <1>7, <1>9, KillsRest
<1>18. QED
    BY <1>10, <1>11, <1>12, <1>13, <1>14, <1>16, <1>17 DEF LauncherInv

\* It is written, or the start fails before or at the spawn.
LEMMA FillOrFailSteps ==
    ASSUME LauncherInv, NEW c \in Commands, FillSecret(c) \/ SpawnFails(c)
    PROVE  LauncherInv'
<1>1. /\ cmd[c].pc \in {"fill", "spawn"} /\ file' \in {file, None}
      /\ UNCHANGED <<proc, born, root, secret, minted, orderly, whole, kept>>
      /\ \/ cmd[c].pc = "fill" /\ filled' = filled \cup {cmd[c].key} /\ Continues(c, cmd[c].op, "spawn")
         \/ filled' = filled /\ Ends(c)
    BY DEF FillSecret, SpawnFails, host, keys, past, At
<1>2. orderly => \A p \in Pids : ~Serving(p)
    BY <1>1 DEF LauncherInv, AloneOK, AloneAt
<1>3. cmd[c].op \in Operations \cup {"none"} /\ (cmd[c].pc = "fill" => cmd[c].key \in 1 .. 2)
    BY LauncherTypes DEF CommandStates, LauncherInv, LauncherShape, Remembers
<1>4. filled' \in SUBSET (1 .. 2)
    BY <1>1, <1>3, LauncherTypes
<1>5. /\ cmd' \in [Commands -> CommandStates] /\ cmd'[c].pc \in {"idle", "spawn"} /\ cmd'[c].backup = None
      /\ \A d \in Commands : d # c => cmd'[d] = cmd[d]
    BY <1>1, <1>3, EndsMoves, ContinuesMoves
<1>6. QED
    BY <1>1, <1>2, <1>4, <1>5, LauncherTypes, QuietStep

\* The service is spawned: the lemma that the runtime matters to.
LEMMA SpawnStep ==
    ASSUME LauncherInv, NEW c \in Commands, Spawn(c)
    PROVE  LauncherInv'
<1>1. PICK p \in Pids :
        /\ Born(p, TRUE, root, FALSE)
        /\ cmd' = [cmd EXCEPT ![c].pc = "write", ![c].pid = p, ![c].born = born + 1]
    BY DEF Spawn
<1>2. /\ cmd[c].pc = "spawn" /\ root # None
      /\ UNCHANGED <<file, root, secret, minted, filled, orderly, whole, kept>>
      /\ ~Alive(p) /\ born < MaxBorn /\ born' = born + 1
    BY <1>1 DEF Spawn, disk, keys, past, At, Born
<1>3. born + 1 \in 1 .. MaxBorn /\ born + 1 \in 0 .. MaxBorn
    BY <1>2, LauncherTypes, LauncherNumbers
<1>4. PICK q : q = [ours |-> TRUE, born |-> born + 1, image |-> root, secret |-> 0, told |-> FALSE,
                    bound |-> FALSE]
    OBVIOUS
<1>5. q \in Process
    BY <1>2, <1>3, <1>4, LauncherTypes DEF Process
<1>6. q # None /\ q.ours /\ q.born = born + 1 /\ q.image = root /\ ~q.bound /\ ~q.told
    BY <1>4, <1>5, LauncherNumbers
<1>7. proc' = [proc EXCEPT ![p] = q]
    BY <1>1, <1>4 DEF Born
<1>8. /\ proc' \in [Pids -> Process \cup {None}] /\ proc'[p] = q
      /\ \A o \in Pids : o # p => proc'[o] = proc[o]
    BY <1>5, <1>7, LauncherTypes
<1>9. PICK s : s = cmd[c]
    OBVIOUS
<1>10. s \in CommandStates /\ s.backup \in Installed \cup {None}
    BY <1>9 DEF LauncherInv, LauncherShape, TypeOK, RootsOK
<1>11. PICK t : t = [s EXCEPT !.pc = "write", !.pid = p, !.born = born + 1]
    OBVIOUS
<1>12. t = [op |-> s.op, pc |-> "write", pid |-> p, born |-> born + 1, staged |-> s.staged,
            backup |-> s.backup, key |-> s.key]
    BY <1>10, <1>11 DEF CommandStates
<1>13. t \in CommandStates
    BY <1>3, <1>10, <1>12 DEF CommandStates
<1>14. cmd' = [cmd EXCEPT ![c] = t]
    BY <1>1, <1>9, <1>11
<1>15. /\ cmd' \in [Commands -> CommandStates] /\ cmd'[c] = t
       /\ \A d \in Commands : d # c => cmd'[d] = cmd[d]
    BY <1>13, <1>14, LauncherMoves
<1>16. LauncherShape'
  <2>1. Remembers(c)'
    BY <1>12, <1>15, <1>3 DEF Remembers
  <2>2. QED
    BY <1>2, <1>3, <1>8, <1>15, <2>1, RemembersStay, LauncherTypes, ShapeStays
<1>17. RootsOK'
    BY <1>2, <1>10, <1>12, <1>15 DEF LauncherInv, RootsOK
<1>18. KeysOK'
    BY <1>2 DEF LauncherInv, KeysOK
<1>19. root \in Installed /\ (orderly \/ ~Crowded => root = "current")
  <2>1. orderly => root = "current"
    BY <1>2 DEF LauncherInv, AloneOK, AloneAt
  <2>2. ~Crowded => root = "current"
    BY <1>2 DEF LauncherInv, PairsOK
  <2>3. QED
    BY <1>2, <2>1, <2>2, LauncherTypes
<1>20. ServicesOK'
  <2>1. \A o \in Pids : o # p => (Ours(o)' <=> Ours(o)) /\ proc'[o] = proc[o]
    BY <1>8 DEF Ours, Alive
  <2>2. QED
    BY <1>2, <1>6, <1>8, <1>19, <2>1 DEF LauncherInv, ServicesOK, Crowded
<1>21. PairsOK'
    BY <1>2, <1>12, <1>15, PairsStay
<1>22. orderly => \A o \in Pids : Serving(o)' => o = p
  <2>1. orderly => \A o \in Pids : ~Serving(o)
    BY <1>2 DEF LauncherInv, AloneOK, AloneAt
  <2>2. QED
    BY <1>8, <2>1 DEF Serving, Ours, Alive
<1>23. orderly => AloneAt(c)' /\ \A o \in Pids : Serving(o)' => Tending(c, o)'
    BY <1>6, <1>8, <1>12, <1>15, <1>22 DEF AloneAt, Tending
<1>24. AloneOK'
    BY <1>2, <1>15, <1>23, AloneStays
<1>25. KillsOK'
  <2>1. \A o \in Pids : Alive(o)' /\ ~proc'[o].ours =>
            Alive(o) /\ ~proc[o].ours /\ proc'[o].born = proc[o].born
    BY <1>6, <1>8 DEF Alive
  <2>2. \A d \in Commands : cmd'[d].pc = "kill" => cmd'[d] = cmd[d]
    BY <1>12, <1>15
  <2>3. born' \in 0 .. MaxBorn /\ born' >= born
    BY <1>2, <1>3, LauncherTypes
  <2>4. QED
    BY <1>8, <2>1, <2>2, <2>3, KillsStay
<1>26. QED
    BY <1>16, <1>17, <1>18, <1>20, <1>21, <1>24, <1>25 DEF LauncherInv

\* The state file names the new service.
LEMMA WriteStateStep ==
    ASSUME LauncherInv, NEW c \in Commands, WriteState(c)
    PROVE  LauncherInv'
<1>1. /\ cmd[c].pc = "write" /\ file' = [pid |-> cmd[c].pid, born |-> cmd[c].born] /\ Goto(c, "grace")
      /\ UNCHANGED <<proc, born, root, secret, minted, filled, orderly, whole, kept>>
    BY DEF WriteState, host, keys, past, At
<1>2. /\ cmd' \in [Commands -> CommandStates] /\ cmd'[c].pc = "grace"
      /\ cmd'[c].pid = cmd[c].pid /\ cmd'[c].born = cmd[c].born /\ cmd'[c].backup = cmd[c].backup
      /\ \A d \in Commands : d # c => cmd'[d] = cmd[d]
    BY <1>1, GotoMoves
<1>3. cmd[c].pid \in Pids /\ cmd[c].born \in 1 .. MaxBorn
    BY <1>1 DEF LauncherInv, LauncherShape, Remembers
<1>4. file' \in [pid : Pids, born : 1 .. MaxBorn]
    BY <1>1, <1>3
<1>5. file' # None /\ file'.pid = cmd[c].pid /\ file'.born = cmd[c].born
    BY <1>1, <1>4, LauncherNumbers
<1>6. LauncherShape'
  <2>1. Remembers(c)'
    BY <1>2, <1>3 DEF Remembers
  <2>2. QED
    BY <1>1, <1>2, <1>4, <2>1, RemembersStay, LauncherTypes, ShapeStays
<1>7. RootsOK' /\ KeysOK'
    BY <1>1, <1>2 DEF LauncherInv, RootsOK, KeysOK
<1>8. ServicesOK'
    BY <1>1, ServicesStay DEF NoneNew, Ours, Alive
<1>9. PairsOK'
    BY <1>1, <1>2, PairsStay
<1>10. orderly => \A p \in Pids : Serving(p) => p = cmd[c].pid /\ proc[p].born = cmd[c].born
    BY <1>1 DEF LauncherInv, AloneOK, AloneAt
<1>11. \A p \in Pids : Serving(p)' <=> Serving(p)
    BY <1>1 DEF Serving, Ours, Alive
<1>12. orderly => AloneAt(c)' /\ \A p \in Pids : Serving(p)' => Recorded(p)'
    BY <1>1, <1>2, <1>5, <1>10, <1>11 DEF AloneAt, Recorded
<1>13. AloneOK'
    BY <1>1, <1>2, <1>12, AloneStays
<1>14. KillsOK'
    BY <1>1, <1>2, KillsRest
<1>15. QED
    BY <1>6, <1>7, <1>8, <1>9, <1>13, <1>14 DEF LauncherInv

\* A process is told to stop, and is the same otherwise.
LEMMA ToldFacts ==
    ASSUME LauncherInv, NEW p \in Pids, Alive(p), proc' = [proc EXCEPT ![p].told = TRUE]
    PROVE  /\ proc' \in [Pids -> Process \cup {None}] /\ NoneNew
           /\ \A o \in Pids : Alive(o)' => /\ Alive(o) /\ proc'[o].ours = proc[o].ours
                                        /\ proc'[o].born = proc[o].born
           /\ ~Serving(p)' /\ \A o \in Pids : Serving(o)' => Serving(o) /\ o # p /\ proc'[o] = proc[o]
<1>1. PICK q : q = proc[p]
    OBVIOUS
<1>2. q \in Process
    BY <1>1, LauncherTypes DEF Alive
<1>3. PICK r : r = [q EXCEPT !.told = TRUE]
    OBVIOUS
<1>4. r = [ours |-> q.ours, born |-> q.born, image |-> q.image, secret |-> q.secret, told |-> TRUE,
           bound |-> q.bound]
    BY <1>2, <1>3 DEF Process
<1>5. r \in Process
    BY <1>2, <1>4 DEF Process
<1>6. proc' = [proc EXCEPT ![p] = r]
    BY <1>1, <1>3
<1>7. /\ proc' \in [Pids -> Process \cup {None}] /\ proc'[p] = r
      /\ \A o \in Pids : o # p => proc'[o] = proc[o]
    BY <1>5, <1>6, LauncherTypes
<1>8. r.told /\ r.ours = q.ours /\ r.image = q.image /\ r.secret = q.secret /\ r.born = q.born
      /\ r.bound = q.bound
    BY <1>4
<1>9. NoneNew
    BY <1>1, <1>7, <1>8 DEF NoneNew, Ours, Alive
<1>10. QED
    BY <1>7, <1>8, <1>9 DEF Serving, Ours, Alive

\* A command that has told a process to stop, or aborts its start.
LEMMA TellingStep ==
    ASSUME LauncherInv, NEW c \in Commands, cmd[c].pc \in {"write", "grace", "kill"},
           UNCHANGED <<born, root, secret, minted, filled, orderly, whole, kept>>,
           proc' \in [Pids -> Process \cup {None}], NoneNew,
           \A p \in Pids : Alive(p)' => Alive(p) /\ proc'[p].ours = proc[p].ours /\ proc'[p].born = proc[p].born,
           file' \in [pid : Pids, born : 1 .. MaxBorn] \cup {None},
           cmd' \in [Commands -> CommandStates], \A d \in Commands : d # c => cmd'[d] = cmd[d],
           cmd'[c].pc \in {"idle", "poll"}, cmd'[c].pc = "poll" => cmd'[c].pid \in Pids,
           cmd'[c].backup \in Installed \cup {None},
           orderly => \A p \in Pids : ~Serving(p)'
    PROVE  LauncherInv'
<1>1. LauncherShape'
  <2>1. Remembers(c)'
    BY DEF Remembers
  <2>2. QED
    BY <2>1, RemembersStay, LauncherTypes, ShapeStays
<1>2. RootsOK' /\ KeysOK'
    BY DEF LauncherInv, RootsOK, KeysOK
<1>3. ServicesOK'
    BY ServicesStay
<1>4. PairsOK'
    BY PairsStay
<1>5. orderly => AloneAt(c)'
    BY DEF AloneAt
<1>6. AloneOK'
    BY <1>5, AloneStays
<1>7. KillsOK'
  <2>1. \A d \in Commands : cmd'[d].pc = "kill" => cmd'[d] = cmd[d]
    OBVIOUS
  <2>2. born' \in 0 .. MaxBorn /\ born' >= born
    BY LauncherTypes, LauncherNumbers
  <2>3. QED
    BY <2>1, <2>2, KillsStay
<1>8. QED
    BY <1>1, <1>2, <1>3, <1>4, <1>6, <1>7 DEF LauncherInv

\* A start is given up.
LEMMA StartAbortsStep ==
    ASSUME LauncherInv, NEW c \in Commands, StartAborts(c)
    PROVE  LauncherInv'
<1>1. /\ cmd[c].pc \in {"write", "grace"} /\ file' = None /\ Ends(c)
      /\ proc' = IF ChildAlive(c) THEN [proc EXCEPT ![cmd[c].pid].told = TRUE] ELSE proc
      /\ UNCHANGED <<born, root, secret, minted, filled, orderly, whole, kept>>
    BY DEF StartAborts, StartFails, keys, past, At
<1>2. cmd[c].pid \in Pids
    BY <1>1 DEF LauncherInv, LauncherShape, Remembers
<1>3. orderly => \A p \in Pids : Serving(p) => p = cmd[c].pid /\ ChildAlive(c)
    BY <1>1 DEF LauncherInv, AloneOK, AloneAt, Serving, Ours, ChildAlive, Matches
<1>4. /\ proc' \in [Pids -> Process \cup {None}] /\ NoneNew
      /\ \A p \in Pids : Alive(p)' => Alive(p) /\ proc'[p].ours = proc[p].ours /\ proc'[p].born = proc[p].born
      /\ orderly => \A p \in Pids : ~Serving(p)'
  <2>1. CASE ChildAlive(c)
    <3>1. Alive(cmd[c].pid)
      BY <2>1 DEF ChildAlive, Matches
    <3>2. QED
      BY <1>1, <1>2, <1>3, <2>1, <3>1, ToldFacts
  <2>2. CASE ~ChildAlive(c)
    BY <1>1, <1>3, <2>2, LauncherTypes DEF NoneNew, Serving, Ours, Alive
  <2>3. QED
    BY <2>1, <2>2
<1>5. QED
    BY <1>1, <1>4, EndsMoves, TellingStep

\* A stop has found its service.
LEMMA StopFindsStep ==
    ASSUME LauncherInv, NEW c \in Commands, StopRead(c), Kills(c)
    PROVE  LauncherInv'
<1>1. PICK s : s = cmd[c]
    OBVIOUS
<1>2. s \in CommandStates /\ s.backup \in Installed \cup {None} /\ s.pc = "stop"
    BY <1>1 DEF LauncherInv, LauncherShape, TypeOK, RootsOK, StopRead, At
<1>3. PICK running \in BOOLEAN : Finds(running) /\ (running \/ Continues(c, cmd[c].op, "stopped"))
    BY DEF StopRead
<1>4. UNCHANGED <<proc, born, root, secret, minted, filled, whole, kept>>
    BY DEF StopRead, host, keys
<1>5. running
  <2>1. CASE Continues(c, cmd[c].op, "stopped")
    <3>1. cmd[c].op \in Operations \cup {"none"}
      BY <1>1, <1>2 DEF CommandStates
    <3>2. cmd'[c].pc = "stopped"
      BY <2>1, <3>1, ContinuesMoves
    <3>3. PICK u : u = [s EXCEPT !.pc = "kill", !.pid = file.pid, !.born = born]
      OBVIOUS
    <3>4. u.pc = "kill"
      BY <1>2, <3>3 DEF CommandStates
    <3>5. cmd' = [cmd EXCEPT ![c] = u]
      BY <1>1, <3>3 DEF Kills
    <3>6. cmd'[c] = u
      BY <3>5, LauncherTypes
    <3>7. QED
      BY <3>2, <3>4, <3>6
  <2>2. QED
    BY <1>3, <2>1
<1>6. Running /\ file' = file /\ orderly' = orderly
    BY <1>3, <1>5, LauncherTypes DEF Finds
<1>7. file # None /\ file.pid \in Pids /\ Alive(file.pid) /\ proc[file.pid].ours
    BY <1>6, LauncherTypes DEF Running, Matches
<1>8. PICK u : u = [s EXCEPT !.pc = "kill", !.pid = file.pid, !.born = born]
    OBVIOUS
<1>9. u = [op |-> s.op, pc |-> "kill", pid |-> file.pid, born |-> born, staged |-> s.staged,
           backup |-> s.backup, key |-> s.key]
    BY <1>2, <1>8 DEF CommandStates
<1>10. u \in CommandStates
    BY <1>2, <1>7, <1>9, LauncherTypes DEF CommandStates
<1>11. cmd' = [cmd EXCEPT ![c] = u]
    BY <1>1, <1>8 DEF Kills
<1>12. /\ cmd' \in [Commands -> CommandStates] /\ cmd'[c] = u
       /\ \A d \in Commands : d # c => cmd'[d] = cmd[d]
    BY <1>10, <1>11, LauncherMoves
<1>13. /\ cmd'[c].pc = "kill" /\ cmd'[c].pid = file.pid /\ cmd'[c].born = born /\ cmd'[c].backup = s.backup
    BY <1>9, <1>12
<1>14. LauncherShape'
  <2>1. Remembers(c)'
    BY <1>7, <1>13 DEF Remembers
  <2>2. QED
    BY <1>4, <1>6, <1>12, <2>1, RemembersStay, LauncherTypes, ShapeStays
<1>15. RootsOK' /\ KeysOK'
    BY <1>2, <1>4, <1>12, <1>13 DEF LauncherInv, RootsOK, KeysOK
<1>16. ServicesOK'
    BY <1>4, <1>6, ServicesStay DEF NoneNew, Ours, Alive
<1>17. PairsOK'
    BY <1>4, <1>12, <1>13, PairsStay
<1>18. orderly => \A p \in Pids : Serving(p) => Recorded(p)
    BY <1>1, <1>2, RecordFacts
<1>19. orderly => AloneAt(c)' /\ \A p \in Pids : Serving(p)' => Recorded(p)'
  <2>1. \A p \in Pids : (Serving(p)' <=> Serving(p)) /\ (Recorded(p)' <=> Recorded(p))
    BY <1>4, <1>6 DEF Serving, Ours, Alive, Recorded
  <2>2. orderly => \A p \in Pids : Serving(p) => p = file.pid
    BY <1>18 DEF Recorded
  <2>3. QED
    BY <1>13, <1>18, <2>1, <2>2 DEF AloneAt
<1>20. AloneOK'
    BY <1>1, <1>2, <1>6, <1>12, <1>19, AloneStays
<1>21. KillsOK'
  <2> SUFFICES ASSUME NEW d \in Commands, cmd'[d].pc = "kill"
               PROVE  /\ cmd'[d].born <= born'
                      /\ \A p \in Pids : p = cmd'[d].pid /\ Alive(p)' /\ ~proc'[p].ours =>
                            proc'[p].born > cmd'[d].born
    BY DEF KillsOK
  <2>1. CASE d = c
    <3>1. cmd'[d].born <= born'
      BY <1>4, <1>13, <2>1, LauncherTypes, LauncherNumbers
    <3>2. QED
      BY <1>4, <1>7, <1>13, <2>1, <3>1 DEF Alive
  <2>2. CASE d # c
    BY <1>4, <1>12, <2>2 DEF LauncherInv, KillsOK, Alive
  <2>3. QED
    BY <2>1, <2>2
<1>22. QED
    BY <1>14, <1>15, <1>16, <1>17, <1>20, <1>21 DEF LauncherInv

\* What a stop tells the process that has the number.
LEMMA KillStep ==
    ASSUME LauncherInv, NEW c \in Commands, Kill(c)
    PROVE  LauncherInv'
<1>1. /\ cmd[c].pc = "kill" /\ UNCHANGED <<born, file, root, secret, minted, filled, orderly, whole, kept>>
      /\ proc' = IF Alive(cmd[c].pid) THEN [proc EXCEPT ![cmd[c].pid].told = TRUE] ELSE proc
      /\ cmd' = [cmd EXCEPT ![c].pc = "poll", ![c].born = 0]
    BY DEF Kill, disk, keys, past, At
<1>2. PICK s : s = cmd[c]
    OBVIOUS
<1>3. s \in CommandStates /\ s.backup \in Installed \cup {None} /\ s.pid \in Pids
    BY <1>1, <1>2 DEF LauncherInv, LauncherShape, TypeOK, RootsOK, Remembers
<1>4. PICK u : u = [s EXCEPT !.pc = "poll", !.born = 0]
    OBVIOUS
<1>5. u = [op |-> s.op, pc |-> "poll", pid |-> s.pid, born |-> 0, staged |-> s.staged,
           backup |-> s.backup, key |-> s.key]
    BY <1>3, <1>4 DEF CommandStates
<1>6. u \in CommandStates /\ u.pc = "poll" /\ u.pid = s.pid /\ u.backup = s.backup
    BY <1>3, <1>5, LauncherNumbers DEF CommandStates
<1>7. cmd' = [cmd EXCEPT ![c] = u]
    BY <1>1, <1>2, <1>4
<1>8. /\ cmd' \in [Commands -> CommandStates] /\ cmd'[c] = u
      /\ \A d \in Commands : d # c => cmd'[d] = cmd[d]
    BY <1>6, <1>7, LauncherMoves
<1>9. orderly => \A p \in Pids : Serving(p) => p = s.pid
    BY <1>1, <1>2 DEF LauncherInv, AloneOK, AloneAt
<1>10. /\ proc' \in [Pids -> Process \cup {None}] /\ NoneNew
       /\ \A p \in Pids : Alive(p)' => Alive(p) /\ proc'[p].ours = proc[p].ours /\ proc'[p].born = proc[p].born
       /\ orderly => \A p \in Pids : ~Serving(p)'
  <2>1. CASE Alive(s.pid)
    BY <1>1, <1>2, <1>3, <1>9, <2>1, ToldFacts
  <2>2. CASE ~Alive(s.pid)
    BY <1>1, <1>2, <1>9, <2>2, LauncherTypes DEF NoneNew, Serving, Ours, Alive
  <2>3. QED
    BY <2>1, <2>2
<1>11. file' \in [pid : Pids, born : 1 .. MaxBorn] \cup {None}
    BY <1>1, LauncherTypes
<1>12. /\ cmd'[c].pc \in {"idle", "poll"} /\ (cmd'[c].pc = "poll" => cmd'[c].pid \in Pids)
       /\ cmd'[c].backup \in Installed \cup {None}
    BY <1>3, <1>6, <1>8
<1>13. QED
    BY <1>1, <1>8, <1>10, <1>11, <1>12, TellingStep

\* The machine starts no service by itself.
LEMMA MachineStep ==
    ASSUME LauncherInv, proc' \in [Pids -> Process \cup {None}], born' \in 0 .. MaxBorn,
           UNCHANGED <<disk, cmd, past>>, NoneNew, KillsOK'
    PROVE  LauncherInv'
<1>1. UNCHANGED <<file, root, secret, minted, filled, cmd, orderly, whole, kept>>
    BY DEF disk, keys, past
<1>2. LauncherShape'
    BY <1>1 DEF LauncherInv, LauncherShape, TypeOK, Remembers
<1>3. RootsOK' /\ KeysOK' /\ PairsOK'
    BY <1>1 DEF LauncherInv, RootsOK, KeysOK, PairsOK, Crowded
<1>4. ServicesOK'
    BY <1>1, ServicesStay
<1>5. \A p \in Pids : Serving(p)' => Serving(p) /\ proc'[p].born = proc[p].born
    BY DEF NoneNew, Serving
<1>6. AloneOK'
  <2> SUFFICES ASSUME orderly PROVE AloneOK'
    BY <1>1 DEF AloneOK
  <2>1. \A p \in Pids : Serving(p)' => Recorded(p)' \/ \E c \in Commands : Tending(c, p)'
    BY <1>1, <1>5 DEF LauncherInv, AloneOK, Recorded, Tending
  <2>2. ASSUME NEW c \in Commands PROVE AloneAt(c)'
    BY <1>1, <1>5 DEF LauncherInv, AloneOK, AloneAt
  <2>3. QED
    BY <1>1, <2>1, <2>2 DEF LauncherInv, AloneOK
<1>7. QED
    BY <1>2, <1>3, <1>4, <1>6 DEF LauncherInv

\* A process starts or exits, another program starts, the machine reboots.
LEMMA MachineSteps ==
    ASSUME LauncherInv, (\E p \in Pids : Listens(p) \/ Exit(p) \/ Foreign(p)) \/ Reboot
    PROVE  LauncherInv'
<1>1. UNCHANGED <<disk, cmd, past>>
    BY DEF Listens, Exit, Foreign, Reboot
<1>2. ASSUME NEW p \in Pids, proc' = [proc EXCEPT ![p] = None], born' = born PROVE LauncherInv'
  <2>1. /\ proc' \in [Pids -> Process \cup {None}] /\ proc'[p] = None
        /\ \A o \in Pids : o # p => proc'[o] = proc[o]
    BY <1>2, LauncherTypes
  <2>2. NoneNew
    BY <2>1 DEF NoneNew, Ours, Alive
  <2>3. KillsOK'
    BY <1>1, <1>2, <2>1, LauncherTypes, LauncherNumbers, KillsStay DEF Alive
  <2>4. QED
    BY <1>1, <1>2, <2>1, <2>2, <2>3, LauncherTypes, MachineStep
<1>3. ASSUME NEW p \in Pids, Listens(p), proc' = [proc EXCEPT ![p].secret = secret, ![p].bound = TRUE],
             secret \in filled
      PROVE  LauncherInv'
  <2>1. PICK q : q = proc[p]
    OBVIOUS
  <2>2. q \in Process /\ q.ours /\ born' = born
    BY <1>3, <2>1, LauncherTypes DEF Listens, Alive
  <2>3. PICK u : u = [q EXCEPT !.secret = secret, !.bound = TRUE]
    OBVIOUS
  <2>4. u = [ours |-> q.ours, born |-> q.born, image |-> q.image, secret |-> secret, told |-> q.told,
             bound |-> TRUE]
    BY <2>2, <2>3 DEF Process
  <2>5. u \in Process
    BY <2>2, <2>4, LauncherTypes DEF Process
  <2>6. proc' = [proc EXCEPT ![p] = u]
    BY <1>3, <2>1, <2>3
  <2>7. /\ proc' \in [Pids -> Process \cup {None}] /\ proc'[p] = u
        /\ \A o \in Pids : o # p => proc'[o] = proc[o]
    BY <2>5, <2>6, LauncherTypes
  <2>8. secret # 0
    BY <1>3, LauncherTypes
  <2>9. u.ours = q.ours /\ u.born = q.born /\ u.image = q.image /\ u.secret = secret /\ u.told = q.told
    BY <2>4
  <2>10. NoneNew
    BY <1>3, <2>1, <2>7, <2>8, <2>9 DEF NoneNew, Ours, Alive, Listens
  <2>11. \A o \in Pids : Alive(o)' /\ ~proc'[o].ours =>
             Alive(o) /\ ~proc[o].ours /\ proc'[o].born = proc[o].born
    BY <2>2, <2>7, <2>9 DEF Alive
  <2>12. KillsOK'
    BY <1>1, <2>2, <2>7, <2>11, LauncherTypes, LauncherNumbers, KillsStay
  <2>13. QED
    BY <1>1, <2>2, <2>7, <2>10, <2>12, LauncherTypes, MachineStep
<1>4. ASSUME NEW p \in Pids, Foreign(p) PROVE LauncherInv'
  <2>1. PICK bound \in BOOLEAN : Born(p, FALSE, None, bound)
    BY <1>4 DEF Foreign
  <2>2. PICK q : q = [ours |-> FALSE, born |-> born + 1, image |-> None, secret |-> 0, told |-> FALSE,
                      bound |-> bound]
    OBVIOUS
  <2>3. born' = born + 1 /\ born < MaxBorn /\ proc' = [proc EXCEPT ![p] = q]
    BY <2>1, <2>2 DEF Born
  <2>4. born + 1 \in 1 .. MaxBorn /\ born' \in 0 .. MaxBorn /\ born + 1 > born /\ born' >= born
    BY <2>3, LauncherTypes, LauncherNumbers
  <2>5. q \in Process /\ ~q.ours /\ q.born = born + 1
    BY <2>2, <2>4 DEF Process
  <2>6. /\ proc' \in [Pids -> Process \cup {None}] /\ proc'[p] = q
        /\ \A o \in Pids : o # p => proc'[o] = proc[o]
    BY <2>3, <2>5, LauncherTypes
  <2>7. NoneNew
    BY <2>5, <2>6 DEF NoneNew, Ours, Alive
  <2>8. \A o \in Pids : Alive(o)' /\ ~proc'[o].ours =>
            proc'[o].born > born \/ (Alive(o) /\ ~proc[o].ours /\ proc'[o].born = proc[o].born)
    BY <2>4, <2>5, <2>6 DEF Alive
  <2>9. KillsOK'
    BY <1>1, <2>4, <2>6, <2>8, KillsStay
  <2>10. QED
    BY <1>1, <2>4, <2>6, <2>7, <2>9, MachineStep
<1>5. CASE Reboot
  <2>1. proc' \in [Pids -> Process \cup {None}] /\ \A p \in Pids : proc'[p] = None
    BY <1>5 DEF Reboot
  <2>2. NoneNew /\ born' \in 0 .. MaxBorn
    BY <1>5, <2>1, LauncherNumbers DEF NoneNew, Ours, Alive, Reboot
  <2>3. KillsOK'
    BY <1>1, <1>5 DEF Reboot, At, KillsOK
  <2>4. QED
    BY <1>1, <2>1, <2>2, <2>3, MachineStep
<1>6. QED
    BY <1>2, <1>3, <1>4, <1>5 DEF Listens, Exit

\* Every step keeps the invariant.
LEMMA LauncherStep ==
    ASSUME LauncherInv, [Next]_vars
    PROVE  LauncherInv'
<1>1. CASE UNCHANGED vars
  <2>1. UNCHANGED <<disk, cmd, past>> /\ UNCHANGED <<proc, born>>
    BY <1>1 DEF vars, disk, keys, past
  <2>2. NoneNew
    BY <2>1 DEF NoneNew, Ours, Alive
  <2>3. KillsOK'
    BY <1>1 DEF vars, LauncherInv, KillsOK, Alive
  <2>4. QED
    BY <2>1, <2>2, <2>3, LauncherTypes, MachineStep
<1>2. ASSUME NEW c \in Commands, StopRead(c) PROVE LauncherInv'
    BY <1>2, StopFindsStep, LookingSteps
<1>3. QED
    BY <1>1, <1>2, InvokeStep, LookingSteps, LauncherReadingSteps, GraceStep, StopErasesStep, KillStep,
       KilledStep, MoveAsideStep, MoveInStep, MoveInFailsStep, StoppedStep, CreateSecretStep,
       FillOrFailSteps, SpawnStep, WriteStateStep, StartAbortsStep, MachineSteps
       DEF Next

\* It is an invariant.
LEMMA LauncherInvariance == Spec => []LauncherInv
BY LauncherStart, LauncherStep, PTL DEF Spec

\* It contains the types and the safety invariant.
LEMMA LauncherSound == LauncherInv => TypeOK /\ LauncherKeepsTrack
<1> SUFFICES ASSUME LauncherInv PROVE TypeOK /\ LauncherKeepsTrack
    OBVIOUS
<1>1. TypeOK
    BY DEF LauncherInv, LauncherShape, TypeOK
<1>2. RunningIsRecorded
    BY DEF LauncherInv, AloneOK, RunningIsRecorded, Serving, Ours, Recorded
<1>3. RunsVerifiedRuntime
    BY DEF LauncherInv, ServicesOK, RunsVerifiedRuntime, Ours
<1>4. SecretSurvives
    BY DEF LauncherInv, ServicesOK, SecretSurvives, Ours
<1>5. QED
    BY <1>1, <1>2, <1>3, <1>4 DEF LauncherKeepsTrack

\* A step that tells a process to stop tells the one it was given.
LEMMA OnlyOneIsTold ==
    ASSUME LauncherInv, NEW p \in Pids, proc'[p] # proc[p], NEW q,
           proc' = IF Alive(q) THEN [proc EXCEPT ![q].told = TRUE] ELSE proc
    PROVE  p = q
<1>1. CASE p # q
    BY <1>1, LauncherTypes
<1>2. QED
    BY <1>1

\* A command tells only the service to stop, or the program that took its number.
LEMMA NobodyElseIsTold ==
    ASSUME LauncherInv, [Next]_vars, NEW p \in Pids, Alive(p), proc'[p] # None, proc'[p].told, ~proc[p].told
    PROVE  \/ proc[p].ours
           \/ \E c \in Commands :
                 cmd[c].pc = "kill" /\ cmd[c].pid = p /\ proc[p].born > cmd[c].born
<1> DEFINE Goal == \/ proc[p].ours
                   \/ \E c \in Commands :
                         cmd[c].pc = "kill" /\ cmd[c].pid = p /\ proc[p].born > cmd[c].born
<1> SUFFICES Goal
    OBVIOUS
<1> HIDE DEF Goal
<1>1. proc'[p] # proc[p]
    OBVIOUS
<1>2. ASSUME NEW c \in Commands, StartAborts(c) PROVE Goal
  <2>1. ChildAlive(c) /\ proc' = [proc EXCEPT ![cmd[c].pid].told = TRUE]
    BY <1>1, <1>2 DEF StartAborts, StartFails
  <2>2. Alive(cmd[c].pid) /\ proc[cmd[c].pid].ours
    BY <2>1 DEF ChildAlive, Matches
  <2>3. p = cmd[c].pid
    BY <1>1, <2>1, <2>2, OnlyOneIsTold
  <2>4. QED
    BY <2>2, <2>3 DEF Goal
<1>3. ASSUME NEW c \in Commands, Kill(c) PROVE Goal
  <2>1. /\ cmd[c].pc = "kill"
        /\ proc' = IF Alive(cmd[c].pid) THEN [proc EXCEPT ![cmd[c].pid].told = TRUE] ELSE proc
    BY <1>3 DEF Kill, At
  <2>2. p = cmd[c].pid
    BY <1>1, <2>1, OnlyOneIsTold
  <2>3. ~proc[p].ours => proc[p].born > cmd[c].born
    BY <2>1, <2>2 DEF LauncherInv, KillsOK
  <2>4. QED
    BY <2>1, <2>2, <2>3 DEF Goal
<1>4. ASSUME NEW q \in Pids, NEW ours, NEW image, NEW bound, Born(q, ours, image, bound) PROVE FALSE
  <2>1. p # q
    BY <1>4 DEF Born
  <2>2. proc'[p] = proc[p]
    BY <1>4, <2>1, LauncherTypes DEF Born
  <2>3. QED
    BY <1>1, <2>2
<1>5. ASSUME NEW c \in Commands, Spawn(c) PROVE Goal
    BY <1>4, <1>5 DEF Spawn
<1>6. ASSUME NEW q \in Pids, Listens(q) PROVE Goal
  <2>1. CASE proc' = [proc EXCEPT ![q].secret = secret, ![q].bound = TRUE]
    <3>1. p = q
      BY <1>1, <2>1, LauncherTypes
    <3>2. QED
      BY <1>6, <3>1 DEF Listens, Goal
  <2>2. CASE proc' = [proc EXCEPT ![q] = None]
    BY <1>1, <2>2, LauncherTypes
  <2>3. QED
    BY <1>6, <2>1, <2>2 DEF Listens
<1>7. ASSUME NEW q \in Pids, Exit(q) PROVE Goal
    BY <1>1, <1>7, LauncherTypes DEF Exit
<1>8. ASSUME NEW q \in Pids, Foreign(q) PROVE Goal
    BY <1>4, <1>8 DEF Foreign
<1>9. ~Reboot
    BY DEF Reboot
<1>10. ASSUME NEW c \in Commands,
              \/ \E op \in Operations : Invoke(c, op)
              \/ ReadStatus(c) \/ Resolve(c) \/ Fetch(c)
              \/ MoveAside(c) \/ MoveIn(c) \/ MoveInFails(c)
              \/ Probe(c) \/ CreateSecret(c) \/ FillSecret(c) \/ SpawnFails(c)
              \/ WriteState(c) \/ Grace(c)
              \/ StopRead(c) \/ StopErases(c) \/ StopTimesOut(c)
              \/ Stopped(c) \/ Killed(c)
       PROVE  Goal
    BY <1>1, <1>10 DEF Invoke, ReadStatus, Resolve, Fetch, MoveAside, MoveIn, MoveInFails, Probe,
       CreateSecret, FillSecret, SpawnFails, WriteState, Grace, StopRead, StopErases, StopTimesOut,
       Stopped, Killed, host
<1>11. CASE UNCHANGED vars
    BY <1>1, <1>11 DEF vars
<1>12. CASE \E c \in Commands :
               \/ \E op \in Operations : Invoke(c, op)
               \/ ReadStatus(c) \/ Resolve(c) \/ Fetch(c)
               \/ MoveAside(c) \/ MoveIn(c) \/ MoveInFails(c)
               \/ Probe(c) \/ CreateSecret(c) \/ FillSecret(c) \/ Spawn(c) \/ SpawnFails(c)
               \/ WriteState(c) \/ Grace(c) \/ StartAborts(c)
               \/ StopRead(c) \/ Kill(c) \/ StopErases(c) \/ StopTimesOut(c)
               \/ Stopped(c) \/ Killed(c)
    BY <1>2, <1>3, <1>5, <1>10, <1>12
<1>13. QED
    BY <1>6, <1>7, <1>8, <1>9, <1>11, <1>12 DEF Next

\* A command leaves the swap with a runtime in place, unless it is killed there or
\* fails to clean up.
LEMMA SwapLeavesARuntime ==
    ASSUME LauncherInv, [Next]_vars, NEW c \in Commands, cmd[c].pc = "in", cmd[c].backup # None,
           cmd'[c].pc # "in", whole'
    PROVE  root' \in Installed
<1>1. cmd[c].staged = "current" /\ cmd[c].backup \in Installed /\ root \in Installed \cup {None}
    BY DEF LauncherInv, RootsOK
<1>2. cmd' # cmd
    OBVIOUS
<1>3. CASE MoveIn(c)
    BY <1>1, <1>3 DEF MoveIn, Installed
<1>4. CASE MoveInFails(c)
    BY <1>1, <1>4 DEF MoveInFails
<1>5. ~Killed(c)
    BY DEF Killed, At
<1>6. ASSUME NEW d \in Commands, d # c,
             \/ \E op \in Operations : Invoke(d, op)
             \/ ReadStatus(d) \/ Resolve(d) \/ Fetch(d)
             \/ MoveAside(d) \/ MoveIn(d) \/ MoveInFails(d)
             \/ Probe(d) \/ CreateSecret(d) \/ FillSecret(d) \/ Spawn(d) \/ SpawnFails(d)
             \/ WriteState(d) \/ Grace(d) \/ StartAborts(d)
             \/ StopRead(d) \/ Kill(d) \/ StopErases(d) \/ StopTimesOut(d)
             \/ Stopped(d) \/ Killed(d)
      PROVE  FALSE
  <2>1. cmd'[c] = cmd[c]
    BY <1>6, LauncherTypes
       DEF Invoke, ReadStatus, Resolve, Fetch, MoveAside, MoveIn, MoveInFails, Probe, CreateSecret,
           FillSecret, Spawn, SpawnFails, WriteState, Grace, StartAborts, StartFails, StopRead, Kill,
           StopErases, StopTimesOut, Stopped, Killed, Ends, Goto, Continues
  <2>2. QED
    BY <2>1
<1>7. ASSUME \/ \E op \in Operations : Invoke(c, op)
             \/ ReadStatus(c) \/ Resolve(c) \/ Fetch(c)
             \/ MoveAside(c)
             \/ Probe(c) \/ CreateSecret(c) \/ FillSecret(c) \/ Spawn(c) \/ SpawnFails(c)
             \/ WriteState(c) \/ Grace(c) \/ StartAborts(c)
             \/ StopRead(c) \/ Kill(c) \/ StopErases(c) \/ StopTimesOut(c)
             \/ Stopped(c)
      PROVE  FALSE
    BY <1>7
       DEF Invoke, ReadStatus, Resolve, Fetch, MoveAside, Probe, CreateSecret, FillSecret, Spawn,
           SpawnFails, WriteState, Grace, StartAborts, StopRead, Kill, StopErases, StopTimesOut,
           Stopped, At
<1>8. CASE (\E p \in Pids : Listens(p) \/ Exit(p) \/ Foreign(p)) \/ Reboot \/ UNCHANGED vars
    BY <1>2, <1>8 DEF Listens, Exit, Foreign, Reboot, vars
<1>9. CASE \E d \in Commands :
               \/ \E op \in Operations : Invoke(d, op)
               \/ ReadStatus(d) \/ Resolve(d) \/ Fetch(d)
               \/ MoveAside(d) \/ MoveIn(d) \/ MoveInFails(d)
               \/ Probe(d) \/ CreateSecret(d) \/ FillSecret(d) \/ Spawn(d) \/ SpawnFails(d)
               \/ WriteState(d) \/ Grace(d) \/ StartAborts(d)
               \/ StopRead(d) \/ Kill(d) \/ StopErases(d) \/ StopTimesOut(d)
               \/ Stopped(d) \/ Killed(d)
  <2>1. PICK d \in Commands :
               \/ \E op \in Operations : Invoke(d, op)
               \/ ReadStatus(d) \/ Resolve(d) \/ Fetch(d)
               \/ MoveAside(d) \/ MoveIn(d) \/ MoveInFails(d)
               \/ Probe(d) \/ CreateSecret(d) \/ FillSecret(d) \/ Spawn(d) \/ SpawnFails(d)
               \/ WriteState(d) \/ Grace(d) \/ StartAborts(d)
               \/ StopRead(d) \/ Kill(d) \/ StopErases(d) \/ StopTimesOut(d)
               \/ Stopped(d) \/ Killed(d)
    BY <1>9
  <2>2. d = c
    BY <1>6, <2>1
  <2>3. QED
    BY <1>3, <1>4, <1>5, <1>7, <2>1, <2>2
<1>10. QED
    BY <1>8, <1>9 DEF Next

\* The two together, as the action properties state them.
LEMMA HarmlessStep ==
    ASSUME LauncherInv, [Next]_vars
    PROVE  /\ \A p \in Pids :
                /\ Alive(p) /\ proc'[p] # None
                /\ proc'[p].told /\ ~proc[p].told
                => \/ proc[p].ours
                   \/ \E c \in Commands :
                         cmd[c].pc = "kill" /\ cmd[c].pid = p /\ proc[p].born > cmd[c].born
           /\ \A c \in Commands :
                /\ cmd[c].pc = "in" /\ cmd[c].backup # None
                /\ cmd'[c].pc # "in" /\ whole'
                => root' \in Installed
BY NobodyElseIsTold, SwapLeavesARuntime

\* Processes, files and commands keep their types (ServiceLauncher, process.cjs and
\* runtime.cjs).
THEOREM LauncherTypeCorrect == Spec => []TypeOK
BY LauncherSound, LauncherInvariance, PTL

\* For any number of commands, process numbers and restarts of the machine: a
\* service is recorded unless commands overlap, one is killed or the inspection of a
\* running service fails; it runs a runtime that was verified, the one of the
\* manifest unless three commands overlap; and it has the one secret until the
\* configuration is deleted.
THEOREM ServicesAreTracked == Spec => []LauncherKeepsTrack
BY LauncherSound, LauncherInvariance, PTL

\* For any number of commands and process numbers: the only process a command tells
\* to stop that `mb` did not start is one that got its number after the command had
\* checked who has it; and a command leaves a runtime behind when it swaps it,
\* unless it is killed there, its clean-up fails or the user uninstalls.
THEOREM CommandsAreHarmless == Spec => CommandsHarmNobody
<1> DEFINE Told == \A p \in Pids :
                      /\ Alive(p) /\ proc'[p] # None
                      /\ proc'[p].told /\ ~proc[p].told
                      => \/ proc[p].ours
                         \/ \E c \in Commands :
                               cmd[c].pc = "kill" /\ cmd[c].pid = p /\ proc[p].born > cmd[c].born
           Left == \A c \in Commands :
                      /\ cmd[c].pc = "in" /\ cmd[c].backup # None
                      /\ cmd'[c].pc # "in" /\ whole'
                      => root' \in Installed
<1>1. LauncherInv /\ [Next]_vars => Told /\ Left
    BY HarmlessStep
<1>2. LauncherInv /\ [Next]_vars => [Told]_vars /\ [Left]_vars
    BY <1>1
<1>3. Spec => [][Told]_vars /\ [][Left]_vars
    BY <1>2, LauncherInvariance, PTL DEF Spec
<1>4. QED
    BY <1>3 DEF CommandsHarmNobody, NoForeignKill, NeverLeftAside

-------------------------------------------------------------------------------
(* The secrets of the deployment.                                              *)

\* What a secret file may hold.
Secrets == [run : Runs, mode : {"0400", "0600"}]

\* A run knows whether there was a volume from the moment it has asked.
BootStates == [pc : {"new"}]
    \cup [pc : {"asked", "look", "link", "loosen", "tighten", "created", "preserved", "failed"},
          exists : BOOLEAN, next : Names]

\* The types.
SecretShape ==
    /\ secretFile \in [Names -> Secrets \cup {Gone}]
    /\ lock \in BOOLEAN
    /\ volume \in Runs \cup {Gone}
    /\ boot \in [Runs -> BootStates]

\* A secret of the run, and one that is read-only.
Has(r, n) == secretFile[n] # Gone /\ secretFile[n].run = r
HasTight(r, n) == Has(r, n) /\ secretFile[n].mode = "0400"

\* The run whose first file is there generates them all.
FirstDecides ==
    \A n \in Names : secretFile[n] # Gone => secretFile[1] # Gone /\ secretFile[n].run = secretFile[1].run

\* What a run that goes on to the link step knows.
RunOK(r) ==
    /\ boot[r].pc # "new" => boot[r].exists \in BOOLEAN /\ boot[r].next \in Names
    /\ Pending(r) /\ ~boot[r].exists /\ volume # Gone => secretFile[1] # Gone
    /\ boot[r].pc \in {"link", "loosen", "tighten"} => ~boot[r].exists
    /\ boot[r].pc = "link" => \A n \in Names : n < boot[r].next => Has(r, n)
    /\ boot[r].pc \in {"loosen", "tighten"} => \A n \in Names : Has(r, n)
    /\ boot[r].pc = "tighten" => \A n \in Names : n < boot[r].next => HasTight(r, n)
    /\ boot[r].pc = "created" /\ (\E n \in Names : Has(r, n)) => \A n \in Names : HasTight(r, n)

\* The inductive invariant.
SecretInv ==
    /\ SecretShape /\ FirstDecides
    /\ volume # Gone /\ secretFile[1] # Gone => secretFile[1].run = volume
    /\ \A r \in Runs : RunOK(r)

\* What the constants are.
LEMMA FirstSecret == 1 \in Names /\ NSecrets \in Nat /\ NSecrets # 0 /\ Gone \notin Secrets
BY SecretAssumption DEF Names, Secrets

\* A run in a later state knows what it asked.
LEMMA BootFields ==
    ASSUME NEW s \in BootStates, s.pc # "new"
    PROVE  /\ s \in [pc : {"asked", "look", "link", "loosen", "tighten", "created", "preserved", "failed"},
                     exists : BOOLEAN, next : Names]
           /\ s.exists \in BOOLEAN /\ s.next \in Names
<1>1. s \notin [pc : {"new"}]
    OBVIOUS
<1>2. QED
    BY <1>1 DEF BootStates

\* The state of one run changes.
LEMMA BootMoves ==
    ASSUME SecretShape, NEW r \in Runs, boot[r].pc # "new",
           NEW pc \in {"asked", "look", "link", "loosen", "tighten", "created", "preserved", "failed"},
           NEW k \in Names,
           boot' = [boot EXCEPT ![r] = [@ EXCEPT !.pc = pc, !.next = k]]
    PROVE  /\ boot' \in [Runs -> BootStates]
           /\ boot'[r].pc = pc /\ boot'[r].exists = boot[r].exists /\ boot'[r].next = k
           /\ \A q \in Runs : q # r => boot'[q] = boot[q]
<1>1. PICK s : s = boot[r]
    OBVIOUS
<1>2. /\ s \in [pc : {"asked", "look", "link", "loosen", "tighten", "created", "preserved", "failed"},
                exists : BOOLEAN, next : Names]
      /\ s.exists \in BOOLEAN
    BY <1>1, BootFields DEF SecretShape
<1>3. PICK c : c = [s EXCEPT !.pc = pc, !.next = k]
    OBVIOUS
<1>4. c = [pc |-> pc, exists |-> s.exists, next |-> k]
    BY <1>2, <1>3
<1>5. c \in BootStates /\ c.pc = pc /\ c.exists = s.exists /\ c.next = k
    BY <1>2, <1>4 DEF BootStates
<1>6. boot' = [boot EXCEPT ![r] = c]
    BY <1>1, <1>3
<1>7. QED
    BY <1>1, <1>5, <1>6 DEF SecretShape

\* It moves on and remembers what it asked.
LEMMA BootSteps ==
    ASSUME SecretShape, NEW r \in Runs, boot[r].pc # "new",
           NEW pc \in {"asked", "look", "link", "loosen", "tighten", "created", "preserved", "failed"},
           Steps(r, pc)
    PROVE  /\ boot' \in [Runs -> BootStates]
           /\ boot'[r].pc = pc /\ boot'[r].exists = boot[r].exists /\ boot'[r].next = boot[r].next
           /\ \A q \in Runs : q # r => boot'[q] = boot[q]
<1>1. PICK s : s = boot[r]
    OBVIOUS
<1>2. /\ s \in [pc : {"asked", "look", "link", "loosen", "tighten", "created", "preserved", "failed"},
                exists : BOOLEAN, next : Names]
      /\ s.exists \in BOOLEAN /\ s.next \in Names
    BY <1>1, BootFields DEF SecretShape
<1>3. [s EXCEPT !.pc = pc] = [s EXCEPT !.pc = pc, !.next = s.next]
    BY <1>2
<1>4. boot' = [boot EXCEPT ![r] = [@ EXCEPT !.pc = pc, !.next = boot[r].next]]
    BY <1>1, <1>3 DEF Steps
<1>5. boot[r].next \in Names
    BY <1>1, <1>2
<1>6. QED
    BY <1>4, <1>5, BootMoves, ZenonT(60)

\* A run starts, or ends.
LEMMA BootStarts ==
    ASSUME SecretShape, NEW r \in Runs, boot[r].pc # "new",
           NEW pc \in {"asked", "look", "link", "loosen", "tighten", "created", "preserved", "failed"},
           Starts(r, pc)
    PROVE  /\ boot' \in [Runs -> BootStates]
           /\ boot'[r].pc = pc /\ boot'[r].exists = boot[r].exists /\ boot'[r].next = 1
           /\ \A q \in Runs : q # r => boot'[q] = boot[q]
BY FirstSecret, BootMoves, ZenonT(60) DEF Starts

\* A run is done with a secret.
LEMMA BootAdvances ==
    ASSUME SecretShape, NEW r \in Runs, boot[r].pc # "new",
           NEW pc \in {"loosen", "tighten", "created"},
           Advances(r, pc)
    PROVE  /\ boot' \in [Runs -> BootStates]
           /\ boot'[r].exists = boot[r].exists /\ boot'[r].next \in Names
           /\ \A q \in Runs : q # r => boot'[q] = boot[q]
           /\ boot[r].next < NSecrets => boot'[r].pc = boot[r].pc /\ boot'[r].next = boot[r].next + 1
           /\ ~(boot[r].next < NSecrets) =>
                boot'[r].pc = pc /\ boot'[r].next = 1 /\ boot[r].next = NSecrets
<1>1. PICK s : s = boot[r]
    OBVIOUS
<1>2. /\ s \in [pc : {"asked", "look", "link", "loosen", "tighten", "created", "preserved", "failed"},
                exists : BOOLEAN, next : Names]
      /\ s.exists \in BOOLEAN /\ s.next \in Names
    BY <1>1, BootFields DEF SecretShape
<1>3. CASE s.next < NSecrets
  <2>1. s.next + 1 \in Names
    BY <1>2, <1>3, FirstSecret DEF Names
  <2>2. [s EXCEPT !.next = s.next + 1] = [s EXCEPT !.pc = s.pc, !.next = s.next + 1]
    BY <1>2
  <2>3. boot' = [boot EXCEPT ![r] = [s EXCEPT !.next = s.next + 1]]
    BY <1>1, <1>3 DEF Advances
  <2>4. boot' = [boot EXCEPT ![r] = [@ EXCEPT !.pc = boot[r].pc, !.next = s.next + 1]]
    BY <1>1, <2>2, <2>3
  <2>5. QED
    BY <1>1, <1>2, <1>3, <2>1, <2>4, BootMoves, ZenonT(60)
<1>4. CASE ~(s.next < NSecrets)
  <2>1. Starts(r, pc) /\ s.next = NSecrets
    BY <1>1, <1>2, <1>4, FirstSecret DEF Advances, Names
  <2>2. QED
    BY <1>1, <1>4, <2>1, FirstSecret, BootStarts
<1>5. QED
    BY <1>3, <1>4

\* The invariant holds at the start.
LEMMA SecretStart == SecretInit => SecretInv
<1> SUFFICES ASSUME SecretInit PROVE SecretInv
    OBVIOUS
<1>1. \A r \in Runs : boot[r].pc = "new"
    BY DEF SecretInit
<1>2. SecretShape
    BY DEF SecretInit, SecretShape, BootStates
<1>3. QED
    BY <1>1, <1>2, FirstSecret
       DEF SecretInit, SecretInv, FirstDecides, RunOK, Pending, Working, Pc

\* A run that only moves on, to where nothing new is asked of it.
LEMMA RunMovesStep ==
    ASSUME SecretInv, NEW r \in Runs, boot[r].pc # "new", lock' \in BOOLEAN,
           UNCHANGED <<secretFile, volume>>,
           \/ Steps(r, "failed") \/ Steps(r, "preserved")
           \/ boot[r].pc = "asked" /\ Steps(r, "look")
           \/ boot[r].pc = "look" /\ ~boot[r].exists /\ Starts(r, "link")
    PROVE  SecretInv'
<1>1. SecretShape /\ FirstDecides /\ \A q \in Runs : RunOK(q)
    BY DEF SecretInv
<1>2. /\ boot' \in [Runs -> BootStates] /\ boot'[r].exists = boot[r].exists /\ boot'[r].next \in Names
      /\ \/ boot'[r].pc \in {"failed", "preserved"}
         \/ boot[r].pc = "asked" /\ boot'[r].pc = "look"
         \/ boot[r].pc = "look" /\ ~boot[r].exists /\ boot'[r].pc = "link" /\ boot'[r].next = 1
      /\ \A q \in Runs : q # r => boot'[q] = boot[q]
  <2>1. CASE Steps(r, "failed")
    BY <1>1, <2>1, BootSteps DEF RunOK
  <2>2. CASE Steps(r, "preserved")
    BY <1>1, <2>2, BootSteps DEF RunOK
  <2>3. CASE boot[r].pc = "asked" /\ Steps(r, "look")
    BY <1>1, <2>3, BootSteps DEF RunOK
  <2>4. CASE boot[r].pc = "look" /\ ~boot[r].exists /\ Starts(r, "link")
    BY <1>1, <2>4, BootStarts, FirstSecret
  <2>5. QED
    BY <2>1, <2>2, <2>3, <2>4
<1>3. SecretShape' /\ FirstDecides'
    BY <1>1, <1>2 DEF SecretShape, FirstDecides
<1>4. ASSUME NEW q \in Runs PROVE RunOK(q)'
  <2>1. CASE q # r
    BY <1>1, <1>2, <2>1 DEF RunOK, Pending, Working, Pc, Has, HasTight
  <2>2. CASE q = r
    <3>1. \A n \in Names : ~(n < 1)
      BY DEF Names
    <3>2. QED
      BY <1>1, <1>2, <2>2, <3>1 DEF RunOK, Pending, Working, Pc, Has, HasTight
  <2>3. QED
    BY <2>1, <2>2
<1>5. QED
    BY <1>3, <1>4 DEF SecretInv

\* A run asks for the volume or for a file.
LEMMA AskStep ==
    ASSUME SecretInv, NEW r \in Runs, AskForVolume(r)
    PROVE  SecretInv'
<1>1. SecretShape /\ FirstDecides /\ \A q \in Runs : RunOK(q)
    BY DEF SecretInv
<1>2. PICK c : c = [pc |-> "asked", exists |-> volume # Gone, next |-> 1]
    OBVIOUS
<1>3. c \in BootStates /\ c.pc = "asked" /\ c.exists = (volume # Gone) /\ c.next = 1
    BY <1>2, FirstSecret DEF BootStates
<1>4. boot' = [boot EXCEPT ![r] = c] /\ UNCHANGED <<secretFile, lock, volume>>
    BY <1>2 DEF AskForVolume
<1>5. boot' \in [Runs -> BootStates] /\ boot'[r] = c /\ \A q \in Runs : q # r => boot'[q] = boot[q]
    BY <1>1, <1>3, <1>4 DEF SecretShape
<1>6. SecretShape' /\ FirstDecides'
    BY <1>1, <1>4, <1>5 DEF SecretShape, FirstDecides
<1>7. ASSUME NEW q \in Runs PROVE RunOK(q)'
  <2>1. CASE q # r
    BY <1>1, <1>4, <1>5, <2>1 DEF RunOK, Pending, Working, Pc, Has, HasTight
  <2>2. CASE q = r
    BY <1>3, <1>4, <1>5, <2>2, FirstSecret DEF RunOK, Pending, Working, Pc, Has, HasTight
  <2>3. QED
    BY <2>1, <2>2
<1>8. QED
    BY <1>4, <1>6, <1>7 DEF SecretInv

\* A run links its secret into place.
LEMMA LinkStep ==
    ASSUME SecretInv, NEW r \in Runs, Link(r)
    PROVE  SecretInv'
<1>1. SecretShape /\ FirstDecides /\ \A q \in Runs : RunOK(q)
    BY DEF SecretInv
<1>2. PICK k : k = boot[r].next
    OBVIOUS
<1>3. k \in Names /\ boot[r].pc = "link" /\ RunOK(r) /\ Pending(r)
    BY <1>1, <1>2 DEF Link, Pc, RunOK, Pending, Working
<1>4. CASE secretFile[k] # Gone
    BY <1>1, <1>2, <1>3, <1>4, RunMovesStep DEF Link, SecretShape
<1>5. CASE secretFile[k] = Gone
  <2>1. /\ secretFile' = [secretFile EXCEPT ![k] = [run |-> r, mode |-> "0400"]]
        /\ Advances(r, "loosen") /\ UNCHANGED <<lock, volume>>
    BY <1>2, <1>5 DEF Link
  <2>2. PICK s : s = [run |-> r, mode |-> "0400"]
    OBVIOUS
  <2>3. s \in Secrets /\ s # Gone /\ s.run = r /\ s.mode = "0400"
    BY <2>2, FirstSecret DEF Secrets
  <2>4. /\ secretFile' \in [Names -> Secrets \cup {Gone}] /\ secretFile'[k] = s
        /\ \A n \in Names : n # k => secretFile'[n] = secretFile[n]
    BY <1>1, <1>3, <2>1, <2>2, <2>3 DEF SecretShape
  <2>5. /\ boot' \in [Runs -> BootStates]
        /\ boot'[r].exists = boot[r].exists /\ boot'[r].next \in Names
        /\ \A q \in Runs : q # r => boot'[q] = boot[q]
        /\ k < NSecrets => boot'[r].pc = "link" /\ boot'[r].next = k + 1
        /\ ~(k < NSecrets) => boot'[r].pc = "loosen" /\ k = NSecrets
    BY <1>1, <1>2, <1>3, <2>1, BootAdvances
  <2>6. SecretShape'
    BY <1>1, <2>1, <2>4, <2>5 DEF SecretShape
  <2>7. \A n \in Names : n < k => Has(r, n)
    BY <1>2, <1>3 DEF RunOK
  <2>8. k # 1 => Has(r, 1)
    BY <1>3, <2>7, FirstSecret DEF Names
  <2>9. secretFile'[1] # Gone /\ secretFile'[1].run = r
    BY <2>3, <2>4, <2>8, FirstSecret DEF Has
  <2>10. \A n \in Names : n # k /\ secretFile[n] # Gone => Has(r, n) /\ k # 1
    BY <1>1, <1>5, <2>8 DEF FirstDecides, Has
  <2>11. FirstDecides'
    BY <2>3, <2>4, <2>9, <2>10 DEF FirstDecides, Has
  <2>12. volume # Gone => volume = r
    <3>1. CASE k = 1
      BY <1>3, <1>5, <3>1 DEF RunOK
    <3>2. CASE k # 1
      BY <2>8, <3>2 DEF SecretInv, Has
    <3>3. QED
      BY <3>1, <3>2
  <2>13. ASSUME NEW q \in Runs PROVE RunOK(q)'
    <3>1. CASE q = r
      <4>1. \A n \in Names : n < k + 1 => n = k \/ n < k
        BY <1>3 DEF Names
      <4>2. \A n \in Names : n < k + 1 => Has(r, n)'
        BY <2>3, <2>4, <2>7, <4>1 DEF Has
      <4>3. k = NSecrets => \A n \in Names : n < k + 1
        BY <1>3 DEF Names
      <4>4. QED
        BY <1>3, <2>1, <2>5, <2>9, <3>1, <4>2, <4>3 DEF RunOK, Pending, Working, Pc
    <3>2. CASE q # r
      <4>1. RunOK(q) /\ boot'[q] = boot[q]
        BY <1>1, <2>5, <3>2
      <4>2. \A n \in Names : ~Has(q, n)'
        BY <2>3, <2>4, <2>10, <3>2 DEF Has
      <4>3. \A n \in Names : Has(q, n) => n # k /\ Has(r, n)
        BY <1>5, <2>10 DEF Has
      <4>4. \A n \in Names : ~Has(q, n)
        BY <3>2, <4>3 DEF Has
      <4>5. (boot[q].pc = "link" /\ ~\A n \in Names : n < boot[q].next => Has(q, n)')
              => ~\A n \in Names : n < boot[q].next => Has(q, n)
        BY <4>4
      <4>6. boot[q].pc \notin {"loosen", "tighten"}
        BY <4>1, <4>4, FirstSecret DEF RunOK
      <4>7. QED
        BY <2>1, <2>9, <4>1, <4>2, <4>4, <4>5, <4>6 DEF RunOK, Pending, Working, Pc
    <3>3. QED
      BY <3>1, <3>2
  <2>14. QED
    BY <2>1, <2>6, <2>9, <2>11, <2>12, <2>13 DEF SecretInv
<1>6. QED
    BY <1>4, <1>5

\* A file whose mode changes remains the same otherwise.
LEMMA ChmodFacts ==
    ASSUME SecretShape, NEW k \in Names, NEW mode \in {"0400", "0600"}, secretFile' = Chmod(k, mode)
    PROVE  /\ secretFile' \in [Names -> Secrets \cup {Gone}]
           /\ \A n \in Names : /\ secretFile'[n] = Gone <=> secretFile[n] = Gone
                               /\ secretFile[n] # Gone => secretFile'[n].run = secretFile[n].run
                               /\ n # k => secretFile'[n] = secretFile[n]
           /\ secretFile[k] # Gone => secretFile'[k].mode = mode
<1>1. CASE secretFile[k] = Gone
    BY <1>1 DEF SecretShape, Chmod
<1>2. CASE secretFile[k] # Gone
  <2>1. PICK s : s = secretFile[k]
    OBVIOUS
  <2>2. s \in Secrets
    BY <1>2, <2>1 DEF SecretShape
  <2>3. PICK c : c = [s EXCEPT !.mode = mode]
    OBVIOUS
  <2>4. c = [run |-> s.run, mode |-> mode]
    BY <2>2, <2>3 DEF Secrets
  <2>5. c \in Secrets /\ c.run = s.run /\ c.mode = mode /\ c # Gone
    BY <2>2, <2>4, FirstSecret DEF Secrets
  <2>6. secretFile' = [secretFile EXCEPT ![k] = c]
    BY <1>2, <2>1, <2>3 DEF Chmod
  <2>7. QED
    BY <1>2, <2>1, <2>5, <2>6 DEF SecretShape
<1>3. QED
    BY <1>1, <1>2

\* It makes a file read-only.
LEMMA ChmodStep ==
    ASSUME SecretInv, NEW r \in Runs, Loosen(r) \/ Tighten(r)
    PROVE  SecretInv'
<1>1. SecretShape /\ FirstDecides /\ \A q \in Runs : RunOK(q)
    BY DEF SecretInv
<1>2. PICK k : k = boot[r].next
    OBVIOUS
<1>3. /\ k \in Names /\ RunOK(r) /\ Pending(r) /\ ~boot[r].exists
      /\ boot[r].pc \in {"loosen", "tighten"} /\ \A n \in Names : Has(r, n)
    BY <1>1, <1>2 DEF Loosen, Tighten, Pc, RunOK, Pending, Working
<1>4. /\ boot[r].pc = "loosen" => secretFile' = Chmod(k, "0600") /\ Advances(r, "tighten")
      /\ boot[r].pc = "tighten" => secretFile' = Chmod(k, "0400") /\ Advances(r, "created")
      /\ lock' \in BOOLEAN /\ UNCHANGED volume
    BY <1>1, <1>2 DEF Loosen, Tighten, Pc, SecretShape
<1>5. /\ secretFile' \in [Names -> Secrets \cup {Gone}]
      /\ \A n \in Names : /\ secretFile'[n] # Gone /\ secretFile'[n].run = r
                          /\ n # k => secretFile'[n] = secretFile[n]
      /\ boot[r].pc = "tighten" => secretFile'[k].mode = "0400"
    BY <1>1, <1>3, <1>4, ChmodFacts DEF Has
<1>6. /\ boot' \in [Runs -> BootStates]
      /\ boot'[r].exists = boot[r].exists /\ boot'[r].next \in Names
      /\ \A q \in Runs : q # r => boot'[q] = boot[q]
      /\ k < NSecrets => boot'[r].pc = boot[r].pc /\ boot'[r].next = k + 1
      /\ ~(k < NSecrets) => /\ boot'[r].next = 1 /\ k = NSecrets
                            /\ boot[r].pc = "loosen" => boot'[r].pc = "tighten"
                            /\ boot[r].pc = "tighten" => boot'[r].pc = "created"
    BY <1>1, <1>2, <1>3, <1>4, BootAdvances
<1>7. SecretShape'
    BY <1>4, <1>5, <1>6, <1>1 DEF SecretShape
<1>8. FirstDecides'
    BY <1>5, FirstSecret DEF FirstDecides
<1>9. \A n \in Names : Has(r, n)'
    BY <1>5 DEF Has
<1>10. ASSUME boot[r].pc = "tighten", NEW n \in Names, n < k + 1 PROVE HasTight(r, n)'
  <2>1. CASE n = k
    BY <1>5, <1>9, <1>10, <2>1 DEF HasTight
  <2>2. CASE n # k
    <3>1. n < k
      BY <1>3, <1>10, <2>2 DEF Names
    <3>2. HasTight(r, n)
      BY <1>2, <1>3, <1>10, <3>1 DEF RunOK
    <3>3. QED
      BY <1>5, <1>9, <2>2, <3>2 DEF HasTight
  <2>3. QED
    BY <2>1, <2>2
<1>11. ASSUME NEW q \in Runs PROVE RunOK(q)'
  <2>1. CASE q = r
    <3>1. k = NSecrets => \A n \in Names : n < k + 1
      BY <1>3 DEF Names
    <3>2. \A n \in Names : ~(n < 1)
      BY DEF Names
    <3>3. CASE k < NSecrets
      BY <1>3, <1>5, <1>6, <1>9, <1>10, <2>1, <3>3, FirstSecret DEF RunOK, Pending, Working, Pc
    <3>4. CASE ~(k < NSecrets)
      BY <1>3, <1>5, <1>6, <1>9, <1>10, <2>1, <3>1, <3>2, <3>4, FirstSecret
         DEF RunOK, Pending, Working, Pc
    <3>5. QED
      BY <3>3, <3>4
  <2>2. CASE q # r
    <3>1. RunOK(q) /\ boot'[q] = boot[q]
      BY <1>1, <1>6, <2>2
    <3>2. \A n \in Names : ~Has(q, n) /\ ~Has(q, n)'
      BY <1>3, <1>9, <2>2 DEF Has
    <3>3. boot[q].pc \notin {"loosen", "tighten"}
      BY <3>1, <3>2, FirstSecret DEF RunOK
    <3>4. QED
      BY <1>4, <1>5, <3>1, <3>2, <3>3, FirstSecret DEF RunOK, Pending, Working, Pc
  <2>3. QED
    BY <2>1, <2>2
<1>12. volume # Gone => volume = r
    BY <1>3, FirstSecret DEF SecretInv, Has
<1>13. QED
    BY <1>4, <1>5, <1>7, <1>8, <1>11, <1>12, FirstSecret DEF SecretInv

\* The operator sets the application up, removes a file or the volumes.
LEMMA OperatorSteps ==
    ASSUME SecretInv, Removes \/ VolumeUp \/ VolumeDown
    PROVE  SecretInv'
<1>1. SecretShape /\ FirstDecides /\ \A q \in Runs : RunOK(q)
    BY DEF SecretInv
<1>2. CASE UNCHANGED <<boot, volume>> /\ UNCHANGED secretFile /\ lock' = FALSE
  <2>1. SecretShape' /\ FirstDecides'
    BY <1>1, <1>2 DEF SecretShape, FirstDecides
  <2>2. \A r \in Runs : RunOK(r)'
    BY <1>1, <1>2 DEF RunOK, Has, HasTight, Pending, Working, Pc
  <2>3. QED
    BY <1>2, <2>1, <2>2 DEF SecretInv
<1>3. CASE /\ \A r \in Runs : ~Pending(r)
           /\ secretFile' = [n \in Names |-> Gone] /\ UNCHANGED <<lock, boot, volume>>
  <2>1. secretFile' \in [Names -> Secrets \cup {Gone}] /\ \A n \in Names : secretFile'[n] = Gone
    BY <1>3
  <2>2. SecretShape' /\ FirstDecides'
    BY <1>1, <1>3, <2>1 DEF SecretShape, FirstDecides
  <2>3. ASSUME NEW r \in Runs PROVE RunOK(r)'
    <3>1. ~Pending(r) /\ RunOK(r)
      BY <1>1, <1>3
    <3>2. QED
      BY <1>3, <2>1, <3>1 DEF RunOK, Has, HasTight, Pending, Working, Pc
  <2>4. QED
    BY <2>1, <2>2, <2>3, FirstSecret DEF SecretInv
<1>4. CASE VolumeUp
  <2>1. volume' \in Runs /\ UNCHANGED <<secretFile, lock, boot>> /\ secretFile[1] # Gone
    BY <1>1, <1>4, FirstSecret DEF VolumeUp, SecretShape, Secrets
  <2>2. QED
    BY <1>1, <1>4, <2>1
       DEF VolumeUp, SecretInv, SecretShape, FirstDecides, RunOK, Has, HasTight, Pending, Working, Pc
<1>5. CASE VolumeDown
    BY <1>1, <1>5
       DEF VolumeDown, SecretInv, SecretShape, FirstDecides, RunOK, Has, HasTight, Pending, Working, Pc
<1>6. QED
    BY <1>2, <1>3, <1>4, <1>5 DEF Removes

\* Every step keeps the invariant.
LEMMA SecretStep ==
    ASSUME SecretInv, [SecretNext]_secretVars
    PROVE  SecretInv'
<1>1. CASE UNCHANGED secretVars
    BY <1>1 DEF secretVars, SecretInv, SecretShape, FirstDecides, RunOK, Has, HasTight, Pending,
       Working, Pc
<1>2. ASSUME NEW r \in Runs, Acquire(r) \/ Look(r) \/ Breaks(r) PROVE SecretInv'
    BY <1>2, RunMovesStep DEF Acquire, Look, Breaks, Working, Pc, SecretInv, SecretShape
<1>3. QED
    BY <1>1, <1>2, AskStep, LinkStep, ChmodStep, OperatorSteps DEF SecretNext

\* It is an invariant.
LEMMA SecretInvariance == SecretSpec => []SecretInv
BY SecretStart, SecretStep, PTL DEF SecretSpec

\* It contains the types and the safety invariant.
LEMMA SecretSound == SecretInv => SecretTypeOK /\ SecretsAreSound
<1> SUFFICES ASSUME SecretInv PROVE SecretTypeOK /\ SecretsAreSound
    OBVIOUS
<1>1. SecretTypeOK
    BY DEF SecretInv, SecretShape, SecretTypeOK, Secrets
<1>2. SecretsOfOneRun
    BY DEF SecretInv, FirstDecides, SecretsOfOneRun, Present
<1>3. SecretsFitVolume
    BY DEF SecretInv, SecretsFitVolume
<1>4. CreatedIsUsable
  <2> SUFFICES ASSUME NEW r \in Runs, Pc(r) = "created", NEW m \in Present, secretFile[m].run = r
               PROVE  Validated
    BY DEF CreatedIsUsable
  <2>1. \A n \in Names : HasTight(r, n)
    BY DEF SecretInv, RunOK, Pc, Present, Has
  <2>2. QED
    BY <2>1, FirstSecret DEF Validated, Present, HasTight, Has
<1>5. QED
    BY <1>1, <1>2, <1>3, <1>4 DEF SecretsAreSound

\* Files, runs and volumes keep their types (SecretBootstrap, the bootstrap of the
\* deployment).
THEOREM SecretTypeCorrect == SecretSpec => []SecretTypeOK
BY SecretSound, SecretInvariance, PTL

\* For any number of secrets and concurrent runs of secret_bootstrap.py, which may
\* be killed: the files that pass its validation are of one run, they fit the
\* volumes, and a run that reported a new set has left one that later runs accept.
THEOREM SecretsStaySound == SecretSpec => []SecretsAreSound
BY SecretSound, SecretInvariance, PTL

-------------------------------------------------------------------------------
(* Backup and restore.                                                         *)

\* What a dump may hold.
Dumps == [rev : 0 .. Head, data : SUBSET (0 .. MaxWrites), whole : BOOLEAN]

\* The types.
DatabaseShape ==
    /\ up \in BOOLEAN /\ rev \in 0 .. Head /\ writes \in 0 .. MaxWrites
    /\ contents \subseteq SUBSET (0 .. MaxWrites)
    /\ slipped \subseteq SUBSET (0 .. MaxWrites)
    /\ control \in {Nothing} \cup [pc : {"upgrade", "verify", "serving"}, head : 1 .. Head]
    /\ archive \in Dumps \cup {Nothing} /\ dumped \in Dumps \cup {Nothing}
    /\ restore \in [pc : {"idle", "verify"}] \cup [pc : {"load"}, sound : {TRUE}]
                      \cup [pc : {"apply"}, sql : Dumps]

\* What one database held at one moment, or a restore has read of a damaged file.
Known == contents \cup slipped

\* What a copy of the database that is undamaged holds.
CopyOK(d) == d # Nothing /\ d.whole => d.data \in Known

\* The inductive invariant.
DatabaseInv ==
    /\ DatabaseShape
    /\ {} \in contents /\ data \in Known
    /\ CopyOK(archive) /\ CopyOK(dumped)
    /\ restore.pc = "apply" => restore.sql.data \in Known
    /\ control # Nothing /\ control.pc = "serving" => rev = control.head

\* It holds at the start.
LEMMA DatabaseStart == DatabaseInit => DatabaseInv
<1>1. 0 \in 0 .. Head /\ 0 \in 0 .. MaxWrites
    BY DatabaseAssumption
<1>2. ASSUME DatabaseInit PROVE DatabaseShape
    BY <1>1, <1>2 DEF DatabaseInit, DatabaseShape
<1>3. ASSUME DatabaseInit PROVE restore.pc = "idle"
    BY <1>3 DEF DatabaseInit
<1>4. QED
    BY <1>2, <1>3 DEF DatabaseInit, DatabaseInv, CopyOK, Known

\* Control, while the database is what it was.
LEMMA ControlStep ==
    ASSUME DatabaseInv, UNCHANGED <<up, data, writes, contents, archive, dumped, restore, slipped>>,
           rev' \in 0 .. Head,
           control' \in {Nothing} \cup [pc : {"upgrade", "verify", "serving"}, head : 1 .. Head],
           control' # Nothing /\ control'.pc = "serving" => rev' = control'.head
    PROVE  DatabaseInv'
BY DEF DatabaseInv, DatabaseShape, CopyOK, Known

\* A migration runs, control starts or stops.
LEMMA ControlSteps ==
    ASSUME DatabaseInv, Migrate \/ Upgrade \/ Serve \/ ControlStops
    PROVE  DatabaseInv'
<1>1. rev \in 0 .. Head
    BY DEF DatabaseInv, DatabaseShape
<1>2. CASE Migrate
  <2>1. PICK head \in 1 .. Head :
          control' = IF rev > head THEN Nothing
                     ELSE [pc |-> IF rev = head THEN "verify" ELSE "upgrade", head |-> head]
    BY <1>2 DEF Migrate
  <2>2. PICK c : c = [pc |-> IF rev = head THEN "verify" ELSE "upgrade", head |-> head]
    OBVIOUS
  <2>3. c \in [pc : {"upgrade", "verify", "serving"}, head : 1 .. Head] /\ c.pc # "serving"
    BY <2>2
  <2>4. control' \in {Nothing, c}
    BY <2>1, <2>2
  <2>5. UNCHANGED <<up, rev, data, writes, contents, archive, dumped, restore, slipped>>
    BY <1>2 DEF Migrate, database
  <2>6. QED
    BY <1>1, <2>3, <2>4, <2>5, ControlStep
<1>3. ASSUME NEW pc \in {"verify", "serving"}, control # Nothing
      PROVE  LET d == [control EXCEPT !.pc = pc]
             IN  /\ d \in [pc : {"upgrade", "verify", "serving"}, head : 1 .. Head]
                 /\ d.pc = pc /\ d.head = control.head /\ control.head \in 1 .. Head
  <2>1. PICK c : c = control
    OBVIOUS
  <2>2. c \in [pc : {"upgrade", "verify", "serving"}, head : 1 .. Head]
    BY <1>3, <2>1 DEF DatabaseInv, DatabaseShape
  <2>3. [c EXCEPT !.pc = pc] = [pc |-> pc, head |-> c.head]
    BY <2>2
  <2>4. QED
    BY <2>1, <2>2, <2>3
<1>4. CASE Upgrade
  <2>1. /\ control # Nothing
        /\ UNCHANGED <<up, data, writes, contents, archive, dumped, restore, slipped>>
        /\ \/ rev' = control.head /\ control' = [control EXCEPT !.pc = "verify"]
           \/ rev' = rev /\ control' = Nothing
    BY <1>4 DEF Upgrade
  <2>2. rev' \in 0 .. Head
    BY <1>1, <1>3, <2>1, DatabaseAssumption
  <2>3. QED
    BY <1>3, <2>1, <2>2, ControlStep
<1>5. CASE Serve
  <2>1. /\ control # Nothing
        /\ UNCHANGED <<up, rev, data, writes, contents, archive, dumped, restore, slipped>>
        /\ control' = IF rev = control.head THEN [control EXCEPT !.pc = "serving"] ELSE Nothing
    BY <1>5 DEF Serve, database
  <2>2. QED
    BY <1>1, <1>3, <2>1, ControlStep
<1>6. CASE ControlStops
    BY <1>1, <1>6, ControlStep DEF ControlStops, database
<1>7. QED
    BY <1>2, <1>4, <1>5, <1>6

\* What the database holds are changes.
LEMMA DatabaseData == DatabaseInv => data \in SUBSET (0 .. MaxWrites)
<1> SUFFICES ASSUME DatabaseInv PROVE data \in SUBSET (0 .. MaxWrites)
    OBVIOUS
<1>1. data \in contents \/ data \in slipped
    BY DEF DatabaseInv, Known
<1>2. contents \subseteq SUBSET (0 .. MaxWrites) /\ slipped \subseteq SUBSET (0 .. MaxWrites)
    BY DEF DatabaseInv, DatabaseShape
<1>3. QED
    BY <1>1, <1>2

\* A request is written.
LEMMA WriteStep ==
    ASSUME DatabaseInv, Write
    PROVE  DatabaseInv'
<1>1. /\ data \subseteq 0 .. MaxWrites /\ writes \in 0 .. MaxWrites /\ writes < MaxWrites
      /\ contents \subseteq SUBSET (0 .. MaxWrites)
    BY DatabaseData DEF DatabaseInv, DatabaseShape, Write
<1>2. writes + 1 \in 0 .. MaxWrites
    BY <1>1, DatabaseAssumption
<1>3. /\ writes' = writes + 1 /\ data' = data \cup {writes + 1} /\ contents' = contents \cup {data'}
      /\ UNCHANGED <<up, rev, control, archive, dumped, restore, slipped>>
    BY DEF Write
<1>4. data' \subseteq 0 .. MaxWrites /\ contents' \subseteq SUBSET (0 .. MaxWrites)
    BY <1>1, <1>2, <1>3
<1>5. QED
    BY <1>2, <1>3, <1>4 DEF DatabaseInv, DatabaseShape, CopyOK, Known

\* The services go up and down.
LEMMA UpDownSteps ==
    ASSUME DatabaseInv, Up \/ Down
    PROVE  DatabaseInv'
<1>1. CASE Up
    BY <1>1 DEF Up, DatabaseInv, DatabaseShape, CopyOK, Known
<1>2. CASE Down
  <2>1. 0 \in 0 .. Head
    BY DatabaseAssumption
  <2>2. DatabaseShape'
    BY <1>2, <2>1 DEF Down, DatabaseInv, DatabaseShape
  <2>3. QED
    BY <1>2, <2>2 DEF Down, DatabaseInv, CopyOK, Known
<1>3. QED
    BY <1>1, <1>2

\* A backup, step by step.
LEMMA BackupSteps ==
    ASSUME DatabaseInv, Dump \/ Archive \/ Damaged
    PROVE  DatabaseInv'
<1>1. CASE Dump
  <2>1. PICK d : d = [rev |-> rev, data |-> data, whole |-> TRUE]
    OBVIOUS
  <2>2. data \subseteq 0 .. MaxWrites
    BY DatabaseData
  <2>3. d \in Dumps /\ d.data = data
    BY <2>1, <2>2 DEF DatabaseInv, DatabaseShape, Dumps
  <2>4. dumped' = d /\ UNCHANGED <<database, control, archive, restore, slipped>>
    BY <1>1, <2>1 DEF Dump
  <2>5. QED
    BY <2>3, <2>4 DEF database, DatabaseInv, DatabaseShape, CopyOK, Known
<1>2. CASE Archive
    BY <1>2 DEF Archive, database, DatabaseInv, DatabaseShape, CopyOK, Known
<1>3. CASE Damaged
  <2>1. PICK d : d = archive
    OBVIOUS
  <2>2. d \in Dumps
    BY <1>3, <2>1 DEF Damaged, DatabaseInv, DatabaseShape
  <2>3. PICK e : e = [d EXCEPT !.data = {0}, !.whole = FALSE]
    OBVIOUS
  <2>4. e = [rev |-> d.rev, data |-> {0}, whole |-> FALSE]
    BY <2>2, <2>3 DEF Dumps
  <2>5. {0} \subseteq 0 .. MaxWrites
    BY DatabaseAssumption
  <2>6. e \in Dumps /\ ~e.whole
    BY <2>2, <2>4, <2>5 DEF Dumps
  <2>7. archive' = e /\ UNCHANGED <<database, control, dumped, restore, slipped>>
    BY <1>3, <2>1, <2>3 DEF Damaged
  <2>8. QED
    BY <2>6, <2>7 DEF database, DatabaseInv, DatabaseShape, CopyOK, Known
<1>4. QED
    BY <1>1, <1>2, <1>3

\* A restore goes on, the database and the file stay what they are.
LEMMA RestoreMoves ==
    ASSUME DatabaseInv, UNCHANGED <<database, control, archive, dumped, slipped>>,
           restore' \in [pc : {"idle", "verify"}] \cup [pc : {"load"}, sound : {TRUE}]
    PROVE  DatabaseInv'
<1>1. restore'.pc # "apply"
    OBVIOUS
<1>2. QED
    BY <1>1 DEF database, DatabaseInv, DatabaseShape, CopyOK, Known

\* A restore reads its file for the second time.
LEMMA RestoreLoadsStep ==
    ASSUME DatabaseInv, RestoreLoads
    PROVE  DatabaseInv'
<1>1. CASE restore' = [pc |-> "idle"] /\ UNCHANGED slipped
  <2>1. restore' \in [pc : {"idle", "verify"}]
    BY <1>1
  <2>2. QED
    BY <1>1, <2>1, RestoreMoves DEF RestoreLoads
<1>2. CASE /\ archive # Nothing /\ restore' = [pc |-> "apply", sql |-> archive]
           /\ slipped' = IF restore.sound /\ ~archive.whole THEN slipped \cup {archive.data} ELSE slipped
  <2>1. archive \in Dumps /\ UNCHANGED <<database, control, archive, dumped>>
    BY <1>2 DEF DatabaseInv, DatabaseShape, RestoreLoads
  <2>2. restore.pc = "load" /\ restore.sound
    BY DEF RestoreLoads, DatabaseInv, DatabaseShape
  <2>3. slipped \subseteq slipped' /\ slipped' \subseteq SUBSET (0 .. MaxWrites)
    BY <1>2, <2>1 DEF DatabaseInv, DatabaseShape, Dumps
  <2>4. archive.data \in contents \cup slipped'
    <3>1. CASE archive.whole
      BY <1>2, <2>3, <3>1 DEF DatabaseInv, CopyOK, Known
    <3>2. CASE ~archive.whole
      BY <1>2, <2>2, <3>2
    <3>3. QED
      BY <3>1, <3>2
  <2>5. restore' \in [pc : {"apply"}, sql : Dumps] /\ restore'.pc = "apply" /\ restore'.sql = archive
    BY <1>2, <2>1
  <2>6. DatabaseShape'
    BY <2>1, <2>3, <2>5 DEF database, DatabaseInv, DatabaseShape
  <2>7. UNCHANGED <<rev, data, contents, control, archive, dumped>>
    BY <2>1 DEF database
  <2>8. CopyOK(archive)' /\ CopyOK(dumped)'
    BY <2>3, <2>7 DEF DatabaseInv, CopyOK, Known
  <2>9. QED
    BY <2>3, <2>4, <2>5, <2>6, <2>7, <2>8 DEF DatabaseInv, Known
<1>3. QED
    BY <1>1, <1>2 DEF RestoreLoads

\* A restore, step by step.
LEMMA RestoreSteps ==
    ASSUME DatabaseInv, RestoreAsks \/ RestoreVerifies \/ RestoreLoads \/ RestoreApplies
    PROVE  DatabaseInv'
<1>1. CASE RestoreAsks \/ RestoreVerifies
  <2>1. restore' \in {[pc |-> "idle"], [pc |-> "verify"], [pc |-> "load", sound |-> TRUE]}
    BY <1>1 DEF RestoreAsks, RestoreVerifies
  <2>2. /\ [pc |-> "idle"] \in [pc : {"idle", "verify"}] /\ [pc |-> "verify"] \in [pc : {"idle", "verify"}]
        /\ [pc |-> "load", sound |-> TRUE] \in [pc : {"load"}, sound : {TRUE}]
    OBVIOUS
  <2>3. QED
    BY <1>1, <2>1, <2>2, RestoreMoves DEF RestoreAsks, RestoreVerifies
<1>2. CASE RestoreApplies
  <2>1. restore.sql \in Dumps /\ restore.sql.rev \in 0 .. Head /\ restore.sql.data \in Known
    BY <1>2 DEF RestoreApplies, DatabaseInv, DatabaseShape, Dumps
  <2>2. /\ restore' = [pc |-> "idle"]
        /\ UNCHANGED <<up, writes, contents, control, archive, dumped, slipped>>
        /\ \/ rev = 0 /\ rev' \in 0 .. Head /\ data' \in Known
           \/ UNCHANGED <<rev, data>>
    BY <1>2, <2>1 DEF RestoreApplies
  <2>3. control # Nothing /\ control.pc = "serving" => control.head \in 1 .. Head /\ rev # 0
    BY DatabaseAssumption DEF DatabaseInv, DatabaseShape
  <2>4. restore' \in [pc : {"idle", "verify"}] /\ restore'.pc = "idle"
    BY <2>2
  <2>5. QED
    BY <2>2, <2>3, <2>4 DEF DatabaseInv, DatabaseShape, CopyOK, Known
<1>3. QED
    BY <1>1, <1>2, RestoreLoadsStep

\* Every step keeps the invariant.
LEMMA DatabaseStep ==
    ASSUME DatabaseInv, [DatabaseNext]_databaseVars
    PROVE  DatabaseInv'
<1>1. CASE UNCHANGED databaseVars
  <2>1. UNCHANGED <<up, rev, data, writes, contents, control, archive, dumped, restore, slipped>>
    BY <1>1 DEF databaseVars, database
  <2>2. DatabaseShape'
    BY <2>1 DEF DatabaseInv, DatabaseShape
  <2>3. Known' = Known
    BY <2>1 DEF Known
  <2>4. QED
    BY <2>1, <2>2, <2>3 DEF DatabaseInv, CopyOK
<1>2. QED
    BY <1>1, UpDownSteps, ControlSteps, WriteStep, BackupSteps, RestoreSteps DEF DatabaseNext

\* It is an invariant.
LEMMA DatabaseInvariance == DatabaseSpec => []DatabaseInv
BY DatabaseStart, DatabaseStep, PTL DEF DatabaseSpec

\* It contains the types and the safety invariant.
LEMMA DatabaseSound == DatabaseInv => DatabaseTypeOK /\ DatabaseOfOnePiece
BY DEF DatabaseInv, DatabaseShape, CopyOK, Known, DatabaseTypeOK, DatabaseOfOnePiece, ControlAtHead, NeverMixed

\* The database, its copies and the command keep their types (DatabaseOperations).
THEOREM DatabaseTypeCorrect == DatabaseSpec => []DatabaseTypeOK
BY DatabaseSound, DatabaseInvariance, PTL

\* For any number of writes and migrations (migrate, backup.py, restore.py): the
\* control plane serves at the head revision only, and the database, like every
\* backup that verifies, holds what one database held at one moment, or what a
\* restore read of a file that was damaged after its digest had been checked.
THEOREM DatabaseStaysWhole == DatabaseSpec => []DatabaseOfOnePiece
BY DatabaseSound, DatabaseInvariance, PTL

-------------------------------------------------------------------------------
(* The OpenCodex manager.                                                      *)

\* What the manager has made of a configuration, and the user perhaps of that.
ManagedFiles == [content : Contents \cup {Missing}, format : Formats \cup {"canonical"}, managed : {TRUE}]
\* What the manager may have kept.
Originals == Written \cup {Missing}

\* What a command of the manager remembers.
ConfigCommands ==
    {NoCommand}
      \cup [pc : {"read"}, parsed : Originals]
      \cup [pc : {"backup", "config", "marker"}, parsed : Originals, original : Originals]
      \cup [pc : {"restore", "unmark"}, original : Originals]
      \cup [pc : {"clean"}, name : Contents \cup {Missing}]

\* The types.
ConfigShape ==
    /\ configFile \in Originals \cup ManagedFiles
    /\ marker \in {Missing}
         \cup [managed : ManagedFiles, name : Contents \cup {Missing}, preimage : Originals]
    /\ backup \in [Contents \cup {Missing} -> Originals]
    /\ command \in ConfigCommands

\* The inductive invariant.
ConfigInv ==
    /\ ConfigShape
    /\ OriginalIsKept
    /\ owed # Missing => configFile \in ManagedFiles
    /\ command.pc \in {"read", "backup", "config"} => owed = Missing /\ configFile \in Originals
    /\ command.pc \in {"unmark", "clean"} => owed = Missing
    /\ command.pc = "config" /\ command.original # Missing =>
         backup[Name(command.parsed)] = command.original
    /\ command.pc = "restore" => marker # Missing /\ command.original = marker.preimage
    /\ command.pc = "unmark" => marker # Missing

\* What the manager writes can be in the file.
LEMMA ManagedIsWritten ==
    /\ \A v \in Originals : Managed(v) \in ManagedFiles /\ Name(v) \in Contents \cup {Missing}
    /\ \A v \in ManagedFiles : v # Missing /\ v.managed /\ v \notin Originals
    /\ \A v \in Written : ~v.managed /\ v # Missing
<1>1. ASSUME NEW v \in Originals
      PROVE  Managed(v) \in ManagedFiles /\ Name(v) \in Contents \cup {Missing}
    BY <1>1 DEF Managed, ManagedFiles, Name, Originals, Written
<1>2. ManagedFiles \cup Written \subseteq [content : Contents \cup {Missing},
                                           format : Formats \cup {"canonical"}, managed : BOOLEAN]
    BY DEF ManagedFiles, Written
<1>3. ASSUME NEW v \in ManagedFiles PROVE v # Missing /\ v.managed
    BY <1>2, <1>3, ConfigAssumption DEF ManagedFiles
<1>4. ASSUME NEW v \in Written PROVE ~v.managed /\ v # Missing
    BY <1>2, <1>4, ConfigAssumption DEF Written
<1>5. QED
    BY <1>1, <1>3, <1>4 DEF Originals

\* The fields of the command.
LEMMA CommandFields ==
    ASSUME ConfigShape
    PROVE  /\ command.pc = "read" => command.parsed \in Originals
           /\ command.pc \in {"backup", "config", "marker"} =>
                command \in [pc : {"backup", "config", "marker"}, parsed : Originals, original : Originals]
           /\ command.pc \in {"restore", "unmark"} =>
                command \in [pc : {"restore", "unmark"}, original : Originals]
           /\ command.pc = "clean" => command.name \in Contents \cup {Missing}
BY DEF ConfigShape, ConfigCommands, NoCommand

\* The invariant holds at the start.
LEMMA ConfigStart == ConfigInit => ConfigInv
<1> SUFFICES ASSUME ConfigInit PROVE ConfigInv
    OBVIOUS
<1>1. command = NoCommand /\ command.pc = "idle"
    BY DEF ConfigInit, NoCommand
<1>2. ConfigShape
    BY <1>1 DEF ConfigInit, ConfigShape, ConfigCommands, Originals
<1>3. QED
    BY <1>1, <1>2 DEF ConfigInit, ConfigInv, OriginalIsKept

\* The command moves on and the files stay.
LEMMA ManagerMoves ==
    ASSUME ConfigInv, NEW d \in ConfigCommands, command' = d,
           UNCHANGED <<configFile, marker, backup, owed>>,
           d.pc \in {"read", "backup", "config"} => owed = Missing /\ configFile \in Originals,
           d.pc \in {"unmark", "clean"} => owed = Missing,
           d.pc # "config",
           d.pc = "restore" => marker # Missing /\ d.original = marker.preimage,
           d.pc = "unmark" => marker # Missing
    PROVE  ConfigInv'
BY DEF ConfigInv, ConfigShape, OriginalIsKept

\* Parse, ReadBytes, CheckOwned, CommandKilled: the command moves on and the files stay.
LEMMA ManagerReadingSteps ==
    ASSUME ConfigInv, Parse \/ ReadBytes \/ CheckOwned \/ CommandKilled
    PROVE  ConfigInv'
<1>1. CASE Parse
  <2>1. PICK d : d = [pc |-> "read", parsed |-> configFile]
    OBVIOUS
  <2>2. configFile \in Originals
    BY <1>1, ManagedIsWritten DEF Parse, ConfigInv, ConfigShape
  <2>3. owed = Missing
    BY <2>2, ManagedIsWritten DEF ConfigInv
  <2>4. d \in ConfigCommands /\ d.pc = "read"
    BY <2>1, <2>2 DEF ConfigCommands
  <2>5. command' = d /\ UNCHANGED <<configFile, marker, backup, owed>>
    BY <1>1, <2>1 DEF Parse
  <2>6. QED
    BY <2>2, <2>3, <2>4, <2>5, ManagerMoves
<1>2. CASE ReadBytes
  <2>1. PICK d : d = [pc |-> "backup", parsed |-> command.parsed, original |-> configFile]
    OBVIOUS
  <2>2. configFile \in Originals /\ owed = Missing /\ command.parsed \in Originals
    BY <1>2, CommandFields DEF ReadBytes, ConfigInv
  <2>3. d \in ConfigCommands /\ d.pc = "backup"
    BY <2>1, <2>2 DEF ConfigCommands
  <2>4. command' = d /\ UNCHANGED <<configFile, marker, backup, owed>>
    BY <1>2, <2>1 DEF ReadBytes
  <2>5. QED
    BY <2>2, <2>3, <2>4, ManagerMoves
<1>3. CASE CheckOwned
  <2>1. PICK d : d = [pc |-> "restore",
                      original |-> IF marker.preimage = Missing THEN Missing ELSE backup[marker.name]]
    OBVIOUS
  <2>2. marker # Missing /\ (marker.preimage # Missing => backup[marker.name] = marker.preimage)
    BY <1>3 DEF CheckOwned, Owned
  <2>3. marker.preimage \in Originals
    BY <2>2 DEF ConfigInv, ConfigShape
  <2>4. d.pc = "restore" /\ d.original = marker.preimage /\ d \in ConfigCommands
    BY <2>1, <2>2, <2>3 DEF ConfigCommands
  <2>5. command' = d /\ UNCHANGED <<configFile, marker, backup, owed>>
    BY <1>3, <2>1 DEF CheckOwned
  <2>6. QED
    BY <2>2, <2>4, <2>5, ManagerMoves
<1>4. CASE CommandKilled
  <2>1. NoCommand \in ConfigCommands /\ NoCommand.pc = "idle"
    BY DEF ConfigCommands, NoCommand
  <2>2. command' = NoCommand /\ UNCHANGED <<configFile, marker, backup, owed>>
    BY <1>4 DEF CommandKilled
  <2>3. QED
    BY <2>1, <2>2, ManagerMoves
<1>5. QED
    BY <1>1, <1>2, <1>3, <1>4

\* The original is copied.
LEMMA BackUpStep ==
    ASSUME ConfigInv, BackUp
    PROVE  ConfigInv'
<1>1. PICK c : c = command
    OBVIOUS
<1>2. /\ c \in [pc : {"backup", "config", "marker"}, parsed : Originals, original : Originals]
      /\ command.pc = "backup" /\ owed = Missing /\ configFile \in Originals /\ ConfigShape
    BY <1>1, CommandFields DEF BackUp, ConfigInv
<1>3. PICK d : d = [c EXCEPT !.pc = "config"]
    OBVIOUS
<1>4. d = [pc |-> "config", parsed |-> c.parsed, original |-> c.original]
    BY <1>2, <1>3
<1>5. d \in ConfigCommands /\ d.pc = "config" /\ d.parsed = c.parsed /\ d.original = c.original
    BY <1>2, <1>4 DEF ConfigCommands
<1>6. /\ command' = d /\ UNCHANGED <<configFile, marker, edits, owed>>
      /\ backup' = IF c.original = Missing THEN backup ELSE [backup EXCEPT ![Name(c.parsed)] = c.original]
    BY <1>1, <1>3 DEF BackUp
<1>7. Name(c.parsed) \in Contents \cup {Missing} /\ c.original \in Originals
    BY <1>2, ManagedIsWritten
<1>8. /\ backup' \in [Contents \cup {Missing} -> Originals]
      /\ c.original # Missing => backup'[Name(c.parsed)] = c.original
    BY <1>2, <1>6, <1>7 DEF ConfigShape
<1>9. ConfigShape'
    BY <1>2, <1>5, <1>6, <1>8 DEF ConfigShape
<1>10. QED
    BY <1>2, <1>5, <1>6, <1>8, <1>9 DEF ConfigInv, OriginalIsKept

\* The configuration is written.
LEMMA PutConfigStep ==
    ASSUME ConfigInv, PutConfig
    PROVE  ConfigInv'
<1>1. PICK c : c = command
    OBVIOUS
<1>2. /\ c \in [pc : {"backup", "config", "marker"}, parsed : Originals, original : Originals]
      /\ c.pc = "config" /\ ConfigShape
      /\ c.original # Missing => backup[Name(c.parsed)] = c.original
    BY <1>1, CommandFields DEF PutConfig, ConfigInv
<1>3. PICK d : d = [c EXCEPT !.pc = "marker"]
    OBVIOUS
<1>4. d = [pc |-> "marker", parsed |-> c.parsed, original |-> c.original]
    BY <1>2, <1>3
<1>5. d \in ConfigCommands /\ d.pc = "marker"
    BY <1>2, <1>4 DEF ConfigCommands
<1>6. /\ command' = d /\ configFile' = Managed(c.parsed) /\ owed' = c.original
      /\ UNCHANGED <<marker, backup, edits>>
    BY <1>1, <1>3 DEF PutConfig
<1>7. Managed(c.parsed) \in ManagedFiles /\ Name(c.parsed) \in Contents \cup {Missing}
    BY <1>2, ManagedIsWritten
<1>8. OriginalIsKept'
    BY <1>2, <1>6, <1>7 DEF OriginalIsKept
<1>9. ConfigShape'
    BY <1>2, <1>5, <1>6, <1>7 DEF ConfigShape
<1>10. QED
    BY <1>5, <1>6, <1>7, <1>8, <1>9 DEF ConfigInv

\* The marker is written.
LEMMA PutMarkerStep ==
    ASSUME ConfigInv, PutMarker
    PROVE  ConfigInv'
<1>1. PICK c : c = command
    OBVIOUS
<1>2. /\ c \in [pc : {"backup", "config", "marker"}, parsed : Originals, original : Originals]
      /\ ConfigShape
    BY <1>1, CommandFields DEF PutMarker, ConfigInv
<1>3. PICK k : k = [managed |-> Managed(c.parsed), name |-> Name(c.parsed), preimage |-> c.original]
    OBVIOUS
<1>4. k \in [managed : ManagedFiles, name : Contents \cup {Missing}, preimage : Originals]
    BY <1>2, <1>3, ManagedIsWritten
<1>5. marker' = k /\ command' = NoCommand /\ UNCHANGED <<configFile, backup, edits, owed>>
    BY <1>1, <1>3 DEF PutMarker
<1>6. NoCommand \in ConfigCommands /\ NoCommand.pc = "idle"
    BY DEF ConfigCommands, NoCommand
<1>7. ConfigShape'
    BY <1>2, <1>4, <1>5, <1>6 DEF ConfigShape
<1>8. QED
    BY <1>5, <1>6, <1>7 DEF ConfigInv, OriginalIsKept

\* A removal.
LEMMA RemoveSteps ==
    ASSUME ConfigInv, PutBack \/ Unmark \/ Clean
    PROVE  ConfigInv'
<1>1. ConfigShape
    BY DEF ConfigInv
<1>2. CASE PutBack
  <2>1. PICK c : c = command
    OBVIOUS
  <2>2. c \in [pc : {"restore", "unmark"}, original : Originals] /\ marker # Missing
    BY <1>1, <1>2, <2>1, CommandFields DEF PutBack, ConfigInv
  <2>3. PICK d : d = [c EXCEPT !.pc = "unmark"]
    OBVIOUS
  <2>4. d = [pc |-> "unmark", original |-> c.original]
    BY <2>2, <2>3
  <2>5. d \in ConfigCommands /\ d.pc = "unmark"
    BY <2>2, <2>4 DEF ConfigCommands
  <2>6. /\ command' = d /\ configFile' \in Originals /\ owed' = Missing
        /\ UNCHANGED <<marker, backup, edits>>
    BY <1>2, <2>1, <2>2, <2>3 DEF PutBack
  <2>7. ConfigShape'
    BY <1>1, <2>5, <2>6 DEF ConfigShape
  <2>8. QED
    BY <2>2, <2>5, <2>6, <2>7 DEF ConfigInv, OriginalIsKept
<1>3. CASE Unmark
  <2>1. PICK d : d = [pc |-> "clean", name |-> marker.name]
    OBVIOUS
  <2>2. d \in ConfigCommands /\ d.pc = "clean"
    BY <1>1, <1>3, <2>1 DEF Unmark, ConfigInv, ConfigShape, ConfigCommands
  <2>3. marker' = Missing /\ command' = d /\ UNCHANGED <<configFile, backup, edits, owed>> /\ owed = Missing
    BY <1>3, <2>1 DEF Unmark, ConfigInv
  <2>4. ConfigShape'
    BY <1>1, <2>2, <2>3 DEF ConfigShape
  <2>5. QED
    BY <2>2, <2>3, <2>4 DEF ConfigInv, OriginalIsKept
<1>4. CASE Clean
  <2>1. command.name \in Contents \cup {Missing} /\ owed = Missing
    BY <1>1, <1>4, CommandFields DEF Clean, ConfigInv
  <2>2. /\ backup' \in [Contents \cup {Missing} -> Originals] /\ command' = NoCommand
        /\ UNCHANGED <<configFile, marker, edits, owed>>
    BY <1>1, <1>4, <2>1 DEF Clean, ConfigShape, Originals
  <2>3. NoCommand \in ConfigCommands /\ NoCommand.pc = "idle"
    BY DEF ConfigCommands, NoCommand
  <2>4. ConfigShape'
    BY <1>1, <2>2, <2>3 DEF ConfigShape
  <2>5. QED
    BY <2>1, <2>2, <2>3, <2>4 DEF ConfigInv, OriginalIsKept
<1>5. QED
    BY <1>2, <1>3, <1>4

\* A command is invoked, the user edits.
LEMMA OthersSteps ==
    ASSUME ConfigInv, Edit \/ Spoil
    PROVE  ConfigInv'
<1>1. ConfigShape
    BY DEF ConfigInv
<1>2. CASE configFile' \in Written /\ owed' = Missing /\ UNCHANGED <<marker, backup, command>>
  <2>1. ConfigShape'
    BY <1>1, <1>2 DEF ConfigShape, Originals
  <2>2. QED
    BY <1>2, <2>1 DEF ConfigInv, OriginalIsKept, Originals
<1>3. CASE /\ configFile # Missing /\ configFile.managed
           /\ \E f \in Formats : configFile' = [configFile EXCEPT !.format = f]
           /\ UNCHANGED owed /\ UNCHANGED <<marker, backup, command>>
  <2>1. PICK v : v = configFile
    OBVIOUS
  <2>2. v \in ManagedFiles
    BY <1>1, <1>3, <2>1, ManagedIsWritten DEF ConfigShape, Originals
  <2>3. PICK f \in Formats : configFile' = [v EXCEPT !.format = f]
    BY <1>3, <2>1
  <2>4. configFile' = [content |-> v.content, format |-> f, managed |-> TRUE]
    BY <2>2, <2>3 DEF ManagedFiles
  <2>5. configFile' \in ManagedFiles
    BY <2>2, <2>4 DEF ManagedFiles
  <2>6. command.pc \notin {"read", "backup", "config"}
    BY <2>1, <2>2, ManagedIsWritten DEF ConfigInv
  <2>7. ConfigShape'
    BY <1>1, <1>3, <2>5 DEF ConfigShape
  <2>8. QED
    BY <1>3, <2>5, <2>6, <2>7 DEF ConfigInv, OriginalIsKept
<1>4. CASE Spoil
  <2>1. /\ \E n \in Contents : \E v \in Originals : backup' = [backup EXCEPT ![n] = v]
        /\ command.pc = "idle" /\ owed' = Missing /\ UNCHANGED <<configFile, marker, command>>
    BY <1>4 DEF Spoil, Originals
  <2>2. backup' \in [Contents \cup {Missing} -> Originals]
    BY <1>1, <2>1 DEF ConfigShape
  <2>3. ConfigShape'
    BY <1>1, <2>1, <2>2 DEF ConfigShape
  <2>4. QED
    BY <2>1, <2>3 DEF ConfigInv, OriginalIsKept
<1>5. QED
    BY <1>2, <1>3, <1>4 DEF Edit

\* Every step keeps the invariant.
LEMMA ConfigStep ==
    ASSUME ConfigInv, [ConfigNext]_configVars
    PROVE  ConfigInv'
<1>1. CASE UNCHANGED configVars
    BY <1>1 DEF configVars, ConfigInv, ConfigShape, OriginalIsKept
<1>2. QED
    BY <1>1, ManagerReadingSteps, BackUpStep, PutConfigStep, PutMarkerStep, RemoveSteps, OthersSteps
       DEF ConfigNext

\* It is an invariant.
LEMMA ConfigInvariance == ConfigSpec => []ConfigInv
BY ConfigStart, ConfigStep, PTL DEF ConfigSpec

\* It contains the types and the safety invariant.
LEMMA ConfigTyped == ConfigInv => ConfigTypeOK
<1> SUFFICES ASSUME ConfigInv PROVE ConfigTypeOK
    OBVIOUS
<1>1. configFile # Missing => configFile.content \in Contents \cup {Missing} /\ configFile.managed \in BOOLEAN
    BY DEF ConfigInv, ConfigShape, Originals, Written, ManagedFiles
<1>2. marker # Missing => marker.managed.managed
    BY DEF ConfigInv, ConfigShape, ManagedFiles
<1>3. \A n \in DOMAIN backup : backup[n] \in Written \cup {Missing}
    BY DEF ConfigInv, ConfigShape, Originals
<1>4. QED
    BY <1>1, <1>2, <1>3 DEF ConfigTypeOK

\* What a removal puts back is what the marker names.
LEMMA PutBackRestores ==
    ASSUME ConfigInv, [ConfigNext]_configVars, command.pc = "restore", command'.pc = "unmark"
    PROVE  configFile' = marker.preimage
<1>1. PutBack => configFile' = marker.preimage
    BY DEF PutBack, ConfigInv
<1>2. NoCommand.pc = "idle"
    BY DEF NoCommand
<1>3. QED
    BY <1>1, <1>2 DEF ConfigNext, configVars, Parse, ReadBytes, BackUp, PutConfig, PutMarker, CheckOwned,
       Unmark, Clean, CommandKilled, Edit, Spoil

\* The configuration, its marker, its original and the command keep their types
\* (ProviderConfig, manager.py).
THEOREM ConfigTypeCorrect == ConfigSpec => []ConfigTypeOK
BY ConfigTyped, ConfigInvariance, PTL

\* For any configurations and edits, and wherever a command of manager.py is
\* killed: what the user had is in a backup from the moment it is replaced until
\* it is put back.
THEOREM OriginalStaysKept == ConfigSpec => []OriginalIsKept
BY ConfigInvariance, PTL DEF ConfigInv

\* For any configurations and edits: remove (manager.py) puts back exactly what
\* apply replaced, or nothing.
THEOREM RemovalRestores == ConfigSpec => RemoveRestores
<1>1. ConfigInv /\ [ConfigNext]_configVars =>
        [command.pc = "restore" /\ command'.pc = "unmark" => configFile' = marker.preimage]_configVars
    BY PutBackRestores
<1>2. QED
    BY <1>1, ConfigInvariance, PTL DEF ConfigSpec, RemoveRestores

-------------------------------------------------------------------------------
(* The OmniRoute plugin.                                                       *)

\* A token is signed for a decision only: what it says of the body that goes
\* out is true of the one that came in.
Genuine(t) ==
    /\ t.output.model = t.target /\ ~t.output.conversation
    /\ t.output.elsewhere = t.input.elsewhere
    /\ t.output.current # t.input.current => t.capability = "non_vision"

\* What a decision token and a decision may say.
Tokens == [capability : {"vision", "non_vision"}, removed : BOOLEAN, target : Models,
           input : Bodies, output : Bodies]

Decisions == [capability : {"vision", "non_vision"}, removed : BOOLEAN, target : Models,
              input : Bodies, output : Bodies, body : Bodies, token : Tokens]

\* The inductive invariant: every token there is is genuine, and so is what waits
\* for upstream.
AdapterInv ==
    /\ \A c \in Calls : \/ turn[c].pc \in {"idle", "done"}
                        \/ turn[c] \in [pc : {"sent"}, model : Models, body : Bodies]
                           /\ turn[c].body.model = turn[c].model
    /\ DOMAIN turn = Calls
    /\ \A r \in pending : r \in [target : Models, body : Bodies]
    /\ \A a \in answers : a \in Decisions /\ Genuine(a.token)
    /\ \A p \in passed : p.as \in {"vision", "non_vision"}
    /\ DecidedBeforeUpstream

\* It holds at the start.
LEMMA AdapterStart == AdapterInit => AdapterInv
BY DEF AdapterInit, AdapterInv, DecidedBeforeUpstream, PassedIsDecided, NoMediaWithoutVision

\* A call is sent to the control plane.
LEMMA SendStep ==
    ASSUME AdapterInv, NEW c \in Calls, Send(c)
    PROVE  AdapterInv'
<1>1. PICK body \in Bodies :
        /\ turn' = [turn EXCEPT ![c] = [pc |-> "sent", model |-> body.model, body |-> body]]
        /\ pending' = pending \cup {[target |-> body.model, body |-> body]}
        /\ UNCHANGED <<answers, passed>>
    BY DEF Send
<1>2. body.model \in Models
    BY DEF Bodies
<1>3. PICK s : s = [pc |-> "sent", model |-> body.model, body |-> body]
    OBVIOUS
<1>4. PICK r : r = [target |-> body.model, body |-> body]
    OBVIOUS
<1>5. /\ s \in [pc : {"sent"}, model : Models, body : Bodies] /\ s.body.model = s.model
      /\ r \in [target : Models, body : Bodies]
    BY <1>2, <1>3, <1>4
<1>6. turn' = [turn EXCEPT ![c] = s] /\ pending' = pending \cup {r}
    BY <1>1, <1>3, <1>4
<1>7. DOMAIN turn' = Calls /\ turn'[c] = s /\ \A d \in Calls : d # c => turn'[d] = turn[d]
    BY <1>6 DEF AdapterInv
<1>8. QED
    BY <1>1, <1>5, <1>6, <1>7
       DEF AdapterInv, DecidedBeforeUpstream, PassedIsDecided, NoMediaWithoutVision

\* The published models change.
LEMMA ChangeStep ==
    ASSUME AdapterInv, NEW c \in Calls, Change(c)
    PROVE  AdapterInv'
<1>1. PICK s : s = turn[c]
    OBVIOUS
<1>2. s \in [pc : {"sent"}, model : Models, body : Bodies] /\ s.body.model = s.model
    BY <1>1 DEF Change, AdapterInv
<1>3. PICK current \in {"text", "media"} : turn' = [turn EXCEPT ![c].body.current = current]
    BY DEF Change
<1>4. PICK b : b = [s.body EXCEPT !.current = current]
    OBVIOUS
<1>5. b \in Bodies /\ b.model = s.body.model
    BY <1>2, <1>4 DEF Bodies
<1>6. PICK t : t = [s EXCEPT !.body = b]
    OBVIOUS
<1>7. t = [pc |-> "sent", model |-> s.model, body |-> b]
    BY <1>2, <1>6
<1>8. t \in [pc : {"sent"}, model : Models, body : Bodies] /\ t.body.model = t.model
    BY <1>2, <1>5, <1>7
<1>9. turn' = [turn EXCEPT ![c] = t]
    BY <1>1, <1>3, <1>4, <1>6
<1>10. DOMAIN turn' = Calls /\ turn'[c] = t /\ \A d \in Calls : d # c => turn'[d] = turn[d]
    BY <1>9 DEF AdapterInv
<1>11. UNCHANGED <<pending, answers, passed>>
    BY DEF Change
<1>12. QED
    BY <1>8, <1>10, <1>11
       DEF AdapterInv, DecidedBeforeUpstream, PassedIsDecided, NoMediaWithoutVision

\* What a valid answer lets out was decided for the body of this request.
LEMMA ValidIsDecided ==
    ASSUME AdapterInv, NEW c \in Calls, NEW a \in answers, turn[c].pc = "sent", Valid(c, a)
    PROVE  LET had == turn[c].body IN
           /\ a.body.model = had.model /\ ~a.body.conversation /\ a.body.elsewhere = had.elsewhere
           /\ a.body.current # had.current => a.capability = "non_vision"
           /\ a.capability = "non_vision" => ~HasMedia(a.body)
<1>1. /\ a.token.capability = a.capability /\ a.token.target = a.target
      /\ a.token.input = a.input /\ a.token.output = a.output
    BY DEF Valid
<1>2. Genuine(a.token) /\ turn[c].body.model = turn[c].model
    BY DEF AdapterInv
<1>3. QED
    BY <1>1, <1>2 DEF Valid, Digest, Genuine

\* An answer is validated and lets something out, or not.
LEMMA ReceiveStep ==
    ASSUME AdapterInv, NEW c \in Calls, Receive(c) \/ GiveUp(c)
    PROVE  AdapterInv'
<1>1. /\ turn[c].pc = "sent" /\ turn' = [turn EXCEPT ![c] = [pc |-> "done"]]
      /\ UNCHANGED <<pending, answers>>
    BY DEF Receive, GiveUp
<1>2. DOMAIN turn' = Calls /\ turn'[c].pc = "done" /\ \A d \in Calls : d # c => turn'[d] = turn[d]
    BY <1>1 DEF AdapterInv
<1>3. CASE passed' = passed
    BY <1>1, <1>2, <1>3
       DEF AdapterInv, DecidedBeforeUpstream, PassedIsDecided, NoMediaWithoutVision
<1>4. CASE passed' # passed
  <2>1. PICK a \in answers :
          Valid(c, a) /\ passed' = passed \cup {[had |-> turn[c].body, got |-> a.body, as |-> a.capability]}
    BY <1>4 DEF Receive, GiveUp
  <2>2. PICK p : p = [had |-> turn[c].body, got |-> a.body, as |-> a.capability]
    OBVIOUS
  <2>3. passed' = passed \cup {p} /\ p.had = turn[c].body /\ p.got = a.body /\ p.as = a.capability
    BY <2>1, <2>2
  <2>4. p.as \in {"vision", "non_vision"}
    BY <2>3 DEF AdapterInv, Decisions
  <2>5. /\ p.got.model = p.had.model /\ ~p.got.conversation /\ p.got.elsewhere = p.had.elsewhere
        /\ p.got.current # p.had.current => p.as = "non_vision"
        /\ p.as = "non_vision" => ~HasMedia(p.got)
    BY <1>1, <2>1, <2>3, ValidIsDecided
  <2>6. DecidedBeforeUpstream'
    BY <2>3, <2>5 DEF AdapterInv, DecidedBeforeUpstream, PassedIsDecided, NoMediaWithoutVision
  <2>7. QED
    BY <1>1, <1>2, <2>3, <2>4, <2>6 DEF AdapterInv
<1>5. QED
    BY <1>3, <1>4

\* A decision keeps the message, unless it is converted for a model without vision.
LEMMA DecisionIsGenuine ==
    ASSUME NEW request \in [target : Models, body : Bodies], NEW g \in Gateway, Acceptable(request, g)
    PROVE  /\ Decision(request, g) \in Decisions
           /\ Genuine(Decision(request, g).token)
<1>1. PICK body : body = request.body
    OBVIOUS
<1>2. body \in Bodies /\ g.target = request.target /\ g.target \in Models
    BY <1>1 DEF Acceptable
<1>3. PICK spared : spared = [body EXCEPT !.conversation = FALSE, !.model = g.target]
    OBVIOUS
<1>4. spared = [current |-> body.current, elsewhere |-> body.elsewhere,
              conversation |-> FALSE, model |-> g.target]
    BY <1>2, <1>3 DEF Bodies
<1>5. spared \in Bodies
    BY <1>2, <1>4 DEF Bodies
<1>6. PICK made : made = [spared EXCEPT !.current = g.text]
    OBVIOUS
<1>7. made = [current |-> g.text, elsewhere |-> spared.elsewhere,
              conversation |-> spared.conversation, model |-> spared.model]
    BY <1>5, <1>6 DEF Bodies
<1>8. g.action = "converted" => made \in Bodies
  <2>1. g.action = "converted" => g.text \in {"text", "mediaText"}
    BY DEF Acceptable, Gateway
  <2>2. QED
    BY <1>5, <1>7, <2>1 DEF Bodies
<1>9. PICK out : out = Rewritten(request.body, g)
    OBVIOUS
<1>10. out = IF g.action = "converted" THEN made ELSE spared
    BY <1>1, <1>3, <1>6, <1>9 DEF Rewritten, Continued
<1>11. /\ out \in Bodies
       /\ out.model = g.target /\ ~out.conversation /\ out.elsewhere = body.elsewhere
       /\ g.action # "converted" => out.current = body.current
    BY <1>4, <1>5, <1>7, <1>8, <1>10
<1>12. PICK t : t = [capability |-> Capability(g), removed |-> Removed(g), target |-> request.target,
                     input |-> Digest(request.body), output |-> Digest(Rewritten(request.body, g))]
    OBVIOUS
<1>13. /\ Capability(g) \in {"vision", "non_vision"}
       /\ Removed(g) \in BOOLEAN
       /\ g.action = "converted" => Capability(g) = "non_vision"
    BY DEF Capability, Removed
<1>14. /\ t = [capability |-> Capability(g), removed |-> Removed(g), target |-> request.target,
               input |-> body, output |-> out]
       /\ t \in Tokens
    BY <1>1, <1>2, <1>9, <1>11, <1>12, <1>13 DEF Digest, Tokens
<1>15. PICK a : a = [capability |-> t.capability, removed |-> t.removed, target |-> t.target,
                     input |-> t.input, output |-> t.output, body |-> out, token |-> t]
    OBVIOUS
<1>16. a \in Decisions /\ a.token = t
    BY <1>11, <1>14, <1>15 DEF Decisions, Tokens
<1>17. Decision(request, g) = a
    BY <1>9, <1>12, <1>15 DEF Decision
<1>18. Genuine(t)
    BY <1>2, <1>11, <1>13, <1>14 DEF Genuine
<1>19. QED
    BY <1>16, <1>17, <1>18

\* The control plane decides.
LEMMA PrepareStep ==
    ASSUME AdapterInv, PrepareAnswer
    PROVE  AdapterInv'
<1>1. PICK request \in pending :
        /\ pending' = pending \ {request}
        /\ \/ \E g \in Gateway : Acceptable(request, g) /\ answers' = answers \cup {Decision(request, g)}
           \/ UNCHANGED answers
        /\ UNCHANGED <<turn, passed>>
    BY DEF PrepareAnswer
<1>2. request \in [target : Models, body : Bodies]
    BY DEF AdapterInv
<1>3. \A a \in answers' : a \in Decisions /\ Genuine(a.token)
  <2>1. ASSUME NEW g \in Gateway, Acceptable(request, g), answers' = answers \cup {Decision(request, g)}
        PROVE  \A a \in answers' : a \in Decisions /\ Genuine(a.token)
    BY <1>2, <2>1, DecisionIsGenuine DEF AdapterInv
  <2>2. QED
    BY <1>1, <2>1 DEF AdapterInv
<1>4. QED
    BY <1>1, <1>3 DEF AdapterInv, DecidedBeforeUpstream, PassedIsDecided, NoMediaWithoutVision

\* The answer is distorted on the way.
LEMMA DistortStep ==
    ASSUME AdapterInv, Distort
    PROVE  AdapterInv'
<1>1. PICK a \in answers :
        /\ \/ answers' = answers \cup {[a EXCEPT !.capability = "vision"]}
           \/ answers' = answers \cup {[a EXCEPT !.body = a.input, !.output = a.input]}
        /\ UNCHANGED <<turn, pending, passed>>
    BY DEF Distort
<1>2. PICK b, d :
          /\ b = [a EXCEPT !.capability = "vision"]
          /\ d = [a EXCEPT !.body = a.input, !.output = a.input]
    OBVIOUS
<1>3. a \in Decisions /\ Genuine(a.token)
    BY DEF AdapterInv
<1>4. /\ b = [capability |-> "vision", removed |-> a.removed, target |-> a.target, input |-> a.input,
              output |-> a.output, body |-> a.body, token |-> a.token]
      /\ d = [capability |-> a.capability, removed |-> a.removed, target |-> a.target, input |-> a.input,
              output |-> a.input, body |-> a.input, token |-> a.token]
    BY <1>2, <1>3 DEF Decisions
<1>5. b \in Decisions /\ d \in Decisions /\ b.token = a.token /\ d.token = a.token
    BY <1>3, <1>4 DEF Decisions
<1>6. answers' = answers \cup {b} \/ answers' = answers \cup {d}
    BY <1>1, <1>2
<1>7. \A e \in answers' : e \in Decisions /\ Genuine(e.token)
    BY <1>3, <1>5, <1>6 DEF AdapterInv
<1>8. QED
    BY <1>1, <1>7 DEF AdapterInv, DecidedBeforeUpstream, PassedIsDecided, NoMediaWithoutVision

\* Every step keeps the invariant.
LEMMA AdapterStep ==
    ASSUME AdapterInv, [AdapterNext]_adapterVars
    PROVE  AdapterInv'
<1>1. CASE UNCHANGED adapterVars
    BY <1>1 DEF adapterVars, AdapterInv, DecidedBeforeUpstream, PassedIsDecided, NoMediaWithoutVision
<1>2. QED
    BY <1>1, SendStep, ChangeStep, ReceiveStep, PrepareStep, DistortStep DEF AdapterNext

\* It is an invariant.
LEMMA AdapterInvariance == AdapterSpec => []AdapterInv
BY AdapterStart, AdapterStep, PTL DEF AdapterSpec

\* It contains the types and the safety invariant.
LEMMA AdapterTyped == AdapterInv => AdapterTypeOK
BY DEF AdapterInv, AdapterTypeOK

\* Calls, decisions and tokens keep their types (PreUpstreamAdapter, index.mjs).
THEOREM AdapterTypeCorrect == AdapterSpec => []AdapterTypeOK
BY AdapterTyped, AdapterInvariance, PTL

\* For any number of calls and models, whatever the answers become on the way: what
\* the plugin (index.mjs) lets upstream was decided for this request, and no body
\* with media goes to a model without vision.
THEOREM NothingPassesUndecided == AdapterSpec => []DecidedBeforeUpstream
BY AdapterInvariance, PTL DEF AdapterInv

-------------------------------------------------------------------------------
(* Side by side: every part keeps its invariant, the one that runs by its own  *)
(* steps and the others because they stay where they started.                  *)

\* The five invariants.
InstallationInv ==
    /\ part \in {"launcher", "secrets", "database", "provider", "adapter"}
    /\ LauncherInv /\ SecretInv /\ DatabaseInv /\ ConfigInv /\ AdapterInv

\* They hold at the start.
LEMMA InstallationStart == InstallationInit => InstallationInv
BY LauncherStart, SecretStart, DatabaseStart, ConfigStart, AdapterStart
   DEF InstallationInit, InstallationInv

\* A step is one of some part, and leaves the others as they are.
LEMMA InstallationPart ==
    ASSUME [InstallationNext]_installationVars
    PROVE  /\ [Next]_vars /\ [SecretNext]_secretVars /\ [DatabaseNext]_databaseVars
           /\ [ConfigNext]_configVars /\ [AdapterNext]_adapterVars /\ part' = part
BY DEF InstallationNext, installationVars

\* So every step keeps them.
LEMMA InstallationStep ==
    ASSUME InstallationInv, [InstallationNext]_installationVars
    PROVE  InstallationInv'
<1>1. LauncherInv'
    BY LauncherStep, InstallationPart DEF InstallationInv
<1>2. SecretInv'
    BY SecretStep, InstallationPart DEF InstallationInv
<1>3. DatabaseInv'
    BY DatabaseStep, InstallationPart DEF InstallationInv
<1>4. ConfigInv'
    BY ConfigStep, InstallationPart DEF InstallationInv
<1>5. AdapterInv'
    BY AdapterStep, InstallationPart DEF InstallationInv
<1>6. QED
    BY <1>1, <1>2, <1>3, <1>4, <1>5, InstallationPart DEF InstallationInv

\* They are invariants of the whole.
LEMMA InstallationInvariance == InstallationSpec => []InstallationInv
BY InstallationStart, InstallationStep, PTL DEF InstallationSpec

\* Whichever part runs, its state keeps its type.
THEOREM InstallationTypeCorrect == InstallationSpec => []InstallationTypeOK
<1>1. InstallationInv => InstallationTypeOK
  <2> SUFFICES ASSUME InstallationInv PROVE InstallationTypeOK
    OBVIOUS
  <2>1. TypeOK /\ SecretTypeOK /\ DatabaseTypeOK /\ ConfigTypeOK /\ AdapterTypeOK
    BY LauncherSound, SecretSound, DatabaseSound, ConfigTyped, AdapterTyped DEF InstallationInv
  <2>2. part \in {"launcher", "secrets", "database", "provider", "adapter"}
    BY DEF InstallationInv
  <2>3. QED
    BY <2>1, <2>2 DEF InstallationTypeOK
<1>2. QED
    BY <1>1, InstallationInvariance, PTL

\* What the adapters promise together: the manager (manager.py) keeps the original
\* and the plugin (index.mjs) lets nothing pass undecided, for any instance.
THEOREM AdaptersStaySafe == InstallationSpec => []AdaptersAreSafe
<1>1. InstallationInit => ConfigInit /\ AdapterInit
    BY DEF InstallationInit
<1>2. [InstallationNext]_installationVars => [ConfigNext]_configVars /\ [AdapterNext]_adapterVars
    BY InstallationPart
<1>3. InstallationSpec => ConfigSpec /\ AdapterSpec
    BY <1>1, <1>2, PTL DEF InstallationSpec, ConfigSpec, AdapterSpec
<1>4. InstallationSpec => []OriginalIsKept /\ []DecidedBeforeUpstream
    BY <1>3, OriginalStaysKept, NothingPassesUndecided
<1>5. QED
    BY <1>4, PTL DEF AdaptersAreSafe

\* For any instance: a command of the launcher (process.cjs, runtime.cjs) signals
\* its service only, or a program that got the number after the command had
\* checked it, and leaves a runtime behind when it swaps it (unless it is killed
\* there, its clean-up fails or the user uninstalls); the removal by the manager
\* (manager.py) puts back what it had kept.
THEOREM NothingGetsDestroyed == InstallationSpec => NothingIsDestroyed
<1>1. InstallationInit => Init /\ ConfigInit
    BY DEF InstallationInit
<1>2. [InstallationNext]_installationVars => [Next]_vars /\ [ConfigNext]_configVars
    BY InstallationPart
<1>3. InstallationSpec => Spec /\ ConfigSpec
    BY <1>1, <1>2, PTL DEF InstallationSpec, Spec, ConfigSpec
<1>4. QED
    BY <1>3, CommandsAreHarmless, RemovalRestores DEF NothingIsDestroyed

===============================================================================
